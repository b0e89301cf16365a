---------------------- MODULE ExtractionFiles_proofs ----------------------
(***************************************************************************)
(* What a copy has done to the files when it returns, for any archive, any *)
(* number of workers and any failures: StatsExact, NilMeansCopied and      *)
(* NothingUnfinished.                                                      *)
(*                                                                         *)
(* They rest on CInv: with the plan (PlanOK) and the turns of the workers  *)
(* (TurnsOK), the files in place are those of earlier groups, of places    *)
(* passed, and of workers about to count theirs (DestOK, RestOK); what was *)
(* there before is left alone (OldOK); and the files that are not whole    *)
(* belong to a worker that will remove or finish them (UnfinishedOK).      *)
(***************************************************************************)
EXTENDS Extraction_proofs

\* Zenon proves the leaves that say nothing else; those with arithmetic cite SMT.
USE Zenon
-----------------------------------------------------------------------------
(* The files that are in place *)

\* The entries whose verified content is at the destination.
Whole == {e \in Archive : dest[e] = "whole"}

\* The places of the current group that a worker has passed.
Passed == {k \in 1..Len(Cur) : \E w \in Pool : Owns(w, k) /\ k < i[w]}

\* The labels of a worker whose entry is in place.
Ready == IF CleanDest THEN {"commit", "count"} ELSE {"count"}

\* The places of the current group whose entries are in place.
Placed == Passed \cup {i[w] : w \in {v \in Pool : pc[v] \in Ready}}

\* An entry whose destination existed and is not to be overwritten.
Skipped(e) == e \in Existing /\ ~Overwrite /\ ~CleanDest /\ ~Single

\* The whole files of entries that are not in the current group.
Others == {e \in Whole : ~Listed(Cur, e)}

\* While the workers process a group, the files in place are those of earlier
\* groups, of places passed, and of workers about to count theirs.  When the
\* removal of a file fails there may be more.
DestOK ==
    phase = "workers" =>
        /\ \A e \in Whole : ~In(Tail(groups), e)
        /\ \A k \in 1..Len(Cur) : k \in Placed => Cur[k] \in Whole
        /\ ~RemoveErrors => \A k \in 1..Len(Cur) : Cur[k] \in Whole => k \in Placed
        /\ ~RemoveErrors => stats = Cardinality(Others) /\ processed = Cardinality(Passed)
        /\ \A e \in Requested : e \in Whole \/ Skipped(e) \/ In(groups, e)

\* The current group.
LEMMA CurFacts ==
  ASSUME PlanOK, phase = "workers"
  PROVE  /\ groups # <<>> /\ Head(groups).entries = Cur /\ Cur \in Seq(Archive)
         /\ Len(Cur) \in Nat /\ AllDifferent(Cur) /\ \A k \in 1..Len(Cur) : Cur[k] \in Archive
         /\ \A e : In(groups, e) <=> In(Tail(groups), e) \/ Listed(Cur, e)
         /\ \A e : In(Tail(groups), e) => ~Listed(Cur, e)
<1>1. groups \in Seq(Group(Archive)) /\ NoneTwice(groups) /\ groups # <<>>
  BY DEF PlanOK
<1>2. /\ Head(groups) = groups[1] /\ groups[1].entries \in Seq(Archive)
      /\ AllDifferent(groups[1].entries)
  BY <1>1, TailFacts
<1>3. /\ \A e : In(groups, e) <=> In(Tail(groups), e) \/ Listed(groups[1].entries, e)
      /\ \A e : In(Tail(groups), e) => ~Listed(groups[1].entries, e)
  BY <1>1, TailFacts
<1>4. Len(Cur) \in Nat
  BY <1>2, LenProperties DEF Cur
<1>5. \A k \in 1..Len(Cur) : Cur[k] \in Archive
  BY <1>2, ElementOfSeq DEF Cur
<1> QED
  BY <1>1, <1>2, <1>3, <1>4, <1>5 DEF Cur

\* The place of a worker is its alone, and not passed.
LEMMA OwnPlace ==
  ASSUME PlanOK, TurnsOK, phase = "workers", NEW w \in Pool
  PROVE  /\ i[w] \in Nat \ {0} /\ Owns(w, i[w]) /\ i[w] \notin Passed
         /\ \A v \in Pool : i[v] = i[w] => v = w
<1>1. \A v \in Pool : Owns(v, i[v])
  BY DEF TurnsOK
<1>2. i[w] \in Nat \ {0}
  BY <1>1, OwnsFirst
<1>3. ASSUME NEW v \in Pool, Owns(v, i[w]) PROVE v = w
  BY <1>1, <1>3, OwnsOnce
<1>4. ~(i[w] < i[w])
  BY <1>2, SMT
<1>5. i[w] \notin Passed
  BY <1>3, <1>4 DEF Passed
<1> QED
  BY <1>1, <1>2, <1>3, <1>5

\* What the step of worker w to the label does to the files: it touches its entry
\* only, which is in place afterwards if the label says so.
Marks(w, label) ==
    /\ \A e \in Archive : dest'[e] # dest[e] => i[w] \in 1..Len(Cur) /\ e = Cur[i[w]]
    /\ i[w] \in 1..Len(Cur) =>
         /\ label \in Ready => dest'[Cur[i[w]]] = "whole"
         /\ ~RemoveErrors /\ dest'[Cur[i[w]]] = "whole" => label \in Ready

\* Such a step keeps the account of the files.
LEMMA EntryStep ==
  ASSUME ShapeOK, PlanOK, TurnsOK, DestOK, phase = "workers", NEW w \in Pool, NEW label,
         pc' = [pc EXCEPT ![w] = label], i' = i, processed' = processed,
         phase' = phase, groups' = groups, stats' = stats, conf' = conf, Marks(w, label)
  PROVE  DestOK'
<1>1. /\ Cur' = Cur /\ Ready' = Ready /\ RemoveErrors' = RemoveErrors /\ Requested' = Requested
      /\ \A e : Skipped(e)' = Skipped(e)
  BY DEF Cur, Ready, CleanDest, RemoveErrors, Requested, Skipped, Existing, Overwrite, Single
<1>2. Passed' = Passed
  BY <1>1 DEF Passed
<1>3. pc'[w] = label /\ \A v \in Pool : v # w => pc'[v] = pc[v]
  BY DEF ShapeOK
<1>4. \A e \in Archive : ~Listed(Cur, e) => dest'[e] = dest[e]
  BY DEF Marks, Listed
<1>5. Others' = Others
  BY <1>1, <1>4 DEF Others, Whole
<1>6. ASSUME NEW e \in Whole' PROVE ~In(Tail(groups), e)
  <2>1. CASE Listed(Cur, e)
    BY <2>1, CurFacts
  <2>2. CASE ~Listed(Cur, e)
    <3>1. e \in Whole
      BY <1>4, <2>2 DEF Whole
    <3> QED
      BY <3>1 DEF DestOK
  <2> QED
    BY <2>1, <2>2
<1>7. ASSUME NEW k \in 1..Len(Cur), k # i[w]
      PROVE  (k \in Placed' <=> k \in Placed) /\ (Cur[k] \in Whole' <=> Cur[k] \in Whole)
  <2>1. k \in Placed' <=> k \in Placed
    <3>1. \A v \in Pool : k = i[v] => v # w
      BY <1>7
    <3>2. k \in Placed' <=> k \in Passed \/ \E v \in Pool : k = i[v] /\ pc'[v] \in Ready
      BY <1>1, <1>2 DEF Placed
    <3>3. k \in Placed <=> k \in Passed \/ \E v \in Pool : k = i[v] /\ pc[v] \in Ready
      BY DEF Placed
    <3> QED
      BY <1>3, <3>1, <3>2, <3>3
  <2>2. Cur[k] \in Archive /\ (i[w] \in 1..Len(Cur) => Cur[k] # Cur[i[w]])
    BY <1>7, CurFacts DEF AllDifferent
  <2>3. dest'[Cur[k]] = dest[Cur[k]]
    BY <2>2 DEF Marks
  <2> QED
    BY <2>1, <2>2, <2>3 DEF Whole
<1>8. ASSUME i[w] \in 1..Len(Cur)
      PROVE  /\ i[w] \in Placed' <=> label \in Ready
             /\ Cur[i[w]] \in Whole' <=> dest'[Cur[i[w]]] = "whole"
  <2>1. i[w] \in Placed' <=> label \in Ready
    <3>1. i[w] \notin Passed /\ \A v \in Pool : i[v] = i[w] => v = w
      BY OwnPlace
    <3>2. i[w] \in Placed' <=> i[w] \in Passed \/ \E v \in Pool : i[w] = i[v] /\ pc'[v] \in Ready
      BY <1>1, <1>2 DEF Placed
    <3> QED
      BY <1>3, <3>1, <3>2
  <2>2. Cur[i[w]] \in Archive
    BY <1>8, CurFacts
  <2> QED
    BY <2>1, <2>2 DEF Whole
<1>9. ASSUME NEW k \in 1..Len(Cur)
      PROVE  /\ k \in Placed' => Cur[k] \in Whole'
             /\ ~RemoveErrors /\ Cur[k] \in Whole' => k \in Placed'
  <2>1. CASE k = i[w]
    BY <1>8, <2>1 DEF Marks
  <2>2. CASE k # i[w]
    BY <1>7, <2>2 DEF DestOK
  <2> QED
    BY <2>1, <2>2
<1>10. ASSUME NEW e \in Requested PROVE e \in Whole' \/ Skipped(e) \/ In(groups, e)
  <2>1. CASE Listed(Cur, e)
    BY <2>1, CurFacts
  <2>2. CASE ~Listed(Cur, e)
    <3>1. e \in Whole => e \in Whole'
      BY <1>4, <2>2 DEF Whole
    <3> QED
      BY <3>1 DEF DestOK
  <2> QED
    BY <2>1, <2>2
<1>11. ~RemoveErrors => stats = Cardinality(Others) /\ processed = Cardinality(Passed)
  BY DEF DestOK
<1> QED
  BY <1>1, <1>2, <1>5, <1>6, <1>9, <1>10, <1>11 DEF DestOK

\* A step that leaves the files alone and says no more and no less of them.
LEMMA QuietStep ==
  ASSUME PlanOK, TurnsOK, DestOK, phase = "workers", NEW w \in Pool, NEW label,
         dest' = dest, pc[w] \in Ready <=> label \in Ready
  PROVE  Marks(w, label)
<1>1. ASSUME i[w] \in 1..Len(Cur)
      PROVE  /\ label \in Ready => dest'[Cur[i[w]]] = "whole"
             /\ ~RemoveErrors /\ dest'[Cur[i[w]]] = "whole" => label \in Ready
  <2>1. i[w] \in Placed <=> pc[w] \in Ready
    BY OwnPlace DEF Placed
  <2>2. Cur[i[w]] \in Archive
    BY <1>1, CurFacts
  <2> QED
    BY <1>1, <2>1, <2>2 DEF DestOK, Whole
<1> QED
  BY <1>1 DEF Marks

\* A step that writes the file of the worker's entry.
LEMMA FileStep ==
  ASSUME ShapeOK, NEW w \in Pool, NEW label, NEW c, dest' = [dest EXCEPT ![Cur[i[w]]] = c],
         i[w] \in 1..Len(Cur), Cur[i[w]] \in Archive,
         label \in Ready => c = "whole", ~RemoveErrors /\ c = "whole" => label \in Ready
  PROVE  Marks(w, label)
<1>1. dest'[Cur[i[w]]] = c /\ \A e \in Archive : e # Cur[i[w]] => dest'[e] = dest[e]
  BY DEF ShapeOK
<1> QED
  BY <1>1 DEF Marks

\* A worker that counts its entry passes its place.
LEMMA CountStep ==
  ASSUME ShapeOK, PlanOK, TurnsOK, DestOK, NEW w \in Pool, Count(w), conf' = conf
  PROVE  DestOK'
<1>0. /\ phase = "workers" /\ phase' = phase /\ groups' = groups /\ stats' = stats /\ dest' = dest
      /\ pc[w] = "count" /\ pc' = [pc EXCEPT ![w] = "loop"] /\ processed' = processed + 1
      /\ i' = [i EXCEPT ![w] = i[w] + Workers]
  BY DEF Count, At, Goto, files, Stride
<1>1. /\ Cur' = Cur /\ Ready' = Ready /\ RemoveErrors' = RemoveErrors /\ Requested' = Requested
      /\ Whole' = Whole /\ \A e : Skipped(e)' = Skipped(e)
  BY <1>0 DEF Cur, Ready, CleanDest, RemoveErrors, Requested, Skipped, Existing, Overwrite, Single,
              Whole
<1>2. /\ pc'[w] = "loop" /\ i'[w] = i[w] + Workers
      /\ \A v \in Pool : v # w => pc'[v] = pc[v] /\ i'[v] = i[v]
  BY <1>0 DEF ShapeOK, TurnsOK
<1>3. i[w] \in 1..Len(Cur) /\ Owns(w, i[w]) /\ i[w] \notin Passed
  BY <1>0, OwnPlace DEF TurnsOK, InEntry
<1>4. \A k : Owns(w, k) => (k < i[w] + Workers <=> k < i[w] \/ k = i[w])
  BY <1>3, OwnsNext
<1>5. Passed' = Passed \cup {i[w]}
  <2>1. ASSUME NEW k \in 1..Len(Cur)
        PROVE  (\E v \in Pool : Owns(v, k) /\ k < i'[v])
                 <=> (\E v \in Pool : Owns(v, k) /\ k < i[v]) \/ k = i[w]
    BY <1>2, <1>3, <1>4
  <2>2. Passed' = {k \in 1..Len(Cur) : \E v \in Pool : Owns(v, k) /\ k < i'[v]}
    BY <1>1 DEF Passed
  <2> QED
    BY <1>3, <2>1, <2>2 DEF Passed
<1>6. Placed' = Placed
  <2>1. "loop" \notin Ready /\ "count" \in Ready
    BY DEF Ready
  <2>2. Placed' = Passed' \cup {i'[v] : v \in {u \in Pool : pc'[u] \in Ready}}
    BY <1>1 DEF Placed
  <2>3. ASSUME NEW k
        PROVE  (\E v \in Pool : k = i[v] /\ pc[v] \in Ready)
                 <=> k = i[w] \/ \E v \in Pool : k = i'[v] /\ pc'[v] \in Ready
    BY <1>0, <1>2, <2>1
  <2> QED
    BY <1>5, <2>2, <2>3 DEF Placed
<1>7. Others' = Others
  BY <1>1 DEF Others
<1>8. ASSUME ~RemoveErrors PROVE stats' = Cardinality(Others') /\ processed' = Cardinality(Passed')
  <2>1. IsFiniteSet(Passed)
    <3>1. IsFiniteSet(1..Len(Cur))
      <4>1. Len(Cur) \in Int /\ 1 \in Int
        BY <1>0, CurFacts, SMT
      <4> QED
        BY <4>1, FS_Interval
    <3> QED
      BY <3>1, FS_Subset DEF Passed
  <2>2. Cardinality(Passed \cup {i[w]}) = Cardinality(Passed) + 1
    BY <1>3, <2>1, FS_AddElement
  <2> QED
    BY <1>0, <1>5, <1>7, <1>8, <2>2 DEF DestOK
<1> QED
  BY <1>0, <1>1, <1>6, <1>8 DEF DestOK

\* Every step of a worker keeps the account of the files.
LEMMA WorkerDest ==
  ASSUME IInv, PlanOK, TurnsOK, DestOK, NEW w \in Pool, Worker(w), conf' = conf
  PROVE  DestOK'
<1>0. /\ phase = "workers" /\ phase' = phase /\ groups' = groups /\ stats' = stats
      /\ ShapeOK /\ TempsOK
  BY WorkerFrame DEF IInv
<1>1. Entry(w) = Cur[i[w]]
  BY <1>0, CurFacts DEF Entry
<1>2. ASSUME pc[w] \in InEntry PROVE i[w] \in 1..Len(Cur) /\ Cur[i[w]] \in Archive
  BY <1>0, <1>2, CurFacts DEF TurnsOK
<1>3. ASSUME NEW label, Goto(w, label), i' = i, processed' = processed, Marks(w, label)
      PROVE  DestOK'
  BY <1>0, <1>3, EntryStep DEF Goto
<1>4. ASSUME NEW label, Goto(w, label), i' = i, processed' = processed, dest' = dest,
             pc[w] \in Ready <=> label \in Ready
      PROVE  DestOK'
  BY <1>0, <1>3, <1>4, QuietStep
<1>5. ASSUME NEW label, Goto(w, label), i' = i, processed' = processed, NEW c,
             dest' = [dest EXCEPT ![Entry(w)] = c], pc[w] \in InEntry,
             label \in Ready => c = "whole", ~RemoveErrors /\ c = "whole" => label \in Ready
      PROVE  DestOK'
  <2>1. Marks(w, label)
    BY <1>0, <1>1, <1>2, <1>5, FileStep
  <2> QED
    BY <1>3, <1>5, <2>1
<1>6. /\ \A l \in {"loop", "writer", "write", "discard", "fail", "send", "done"} : l \notin Ready
      /\ CleanDest => "commit" \in Ready /\ "count" \in Ready
      /\ ~CleanDest => "commit" \notin Ready /\ "count" \in Ready
  BY DEF Ready
<1>7. ASSUME RemoveErrors, dest' = dest, NEW label, Goto(w, label), i' = i,
             processed' = processed, label \notin Ready
      PROVE  DestOK'
  <2>1. Marks(w, label)
    BY <1>7 DEF Marks
  <2> QED
    BY <1>3, <1>7, <2>1
<1>8. ASSUME NEW label, Goto(w, label), i' = i, processed' = processed,
             NEW c \in {"none", "partial", "wrong"}, dest' = [dest EXCEPT ![Entry(w)] = c],
             pc[w] \in InEntry, label \notin Ready
      PROVE  DestOK'
  <2>1. c # "whole"
    OBVIOUS
  <2> QED
    BY <1>5, <1>8, <2>1
<1>9. CASE Loop(w)
  <2> DEFINE label == IF i[w] > Len(Head(groups).entries) \/ stop THEN "done" ELSE "writer"
  <2>1. pc[w] = "loop" /\ Goto(w, label) /\ i' = i /\ processed' = processed /\ dest' = dest
    BY <1>9 DEF Loop, At, files
  <2>2. label \in {"done", "writer"}
    OBVIOUS
  <2> HIDE DEF label
  <2> QED
    BY <1>4, <1>6, <2>1, <2>2
<1>10. CASE Writer(w)
  <2>1. pc[w] = "writer" /\ Goto(w, "write") /\ i' = i /\ processed' = processed
    BY <1>10 DEF Writer, At
  <2>2. CASE CleanDest
    <3>1. dest' = [dest EXCEPT ![Entry(w)] = "partial"]
      BY <1>10, <2>2 DEF Writer, Fill
    <3> QED
      BY <1>6, <1>8, <2>1, <3>1 DEF InEntry
  <2>3. CASE ~CleanDest
    <3>1. dest' = dest
      BY <1>10, <2>3 DEF Writer, Fill
    <3> QED
      BY <1>4, <1>6, <2>1, <3>1
  <2> QED
    BY <2>2, <2>3
<1>11. CASE WriterFails(w)
  <2>1. pc[w] = "writer" /\ Goto(w, "fail") /\ i' = i /\ processed' = processed /\ dest' = dest
    BY <1>11 DEF WriterFails, At, files
  <2> QED
    BY <1>4, <1>6, <2>1
<1>12. CASE Write(w)
  <2>1. pc[w] = "write" /\ i' = i /\ processed' = processed
    BY <1>12 DEF Write, At
  <2>2. CASE Verified(w)
    <3>1. Goto(w, "commit") /\ Fill(w, "whole")
      BY <1>12, <2>2 DEF Write, Verified
    <3>2. CASE CleanDest
      <4>1. dest' = [dest EXCEPT ![Entry(w)] = "whole"]
        BY <3>1, <3>2 DEF Fill
      <4> QED
        BY <1>5, <1>6, <2>1, <3>1, <3>2, <4>1 DEF InEntry
    <3>3. CASE ~CleanDest
      <4>1. dest' = dest
        BY <3>1, <3>3 DEF Fill
      <4> QED
        BY <1>4, <1>6, <2>1, <3>1, <3>3, <4>1
    <3> QED
      BY <3>2, <3>3
  <2>3. CASE ~Verified(w)
    <3>1. Goto(w, "discard") /\ (Fill(w, "wrong") \/ UNCHANGED files)
      BY <1>12, <2>3 DEF Write
    <3>2. CASE dest' = [dest EXCEPT ![Entry(w)] = "wrong"]
      BY <1>6, <1>8, <2>1, <3>1, <3>2 DEF InEntry
    <3>3. CASE dest' = dest
      BY <1>4, <1>6, <2>1, <3>1, <3>3
    <3> QED
      BY <3>1, <3>2, <3>3 DEF Fill, files
  <2> QED
    BY <2>2, <2>3
<1>13. CASE WriteFails(w)
  <2>1. pc[w] = "write" /\ Goto(w, "discard") /\ i' = i /\ processed' = processed /\ dest' = dest
    BY <1>13 DEF WriteFails, At, files
  <2> QED
    BY <1>4, <1>6, <2>1
<1>14. CASE Discard(w)
  <2>1. pc[w] = "discard" /\ Goto(w, "fail") /\ i' = i /\ processed' = processed
    BY <1>14 DEF Discard, At
  <2>2. CASE dest' = [dest EXCEPT ![Entry(w)] = "none"]
    BY <1>6, <1>8, <2>1, <2>2 DEF InEntry
  <2>3. CASE dest' = dest
    BY <1>4, <1>6, <2>1, <2>3
  <2> QED
    BY <1>14, <2>2, <2>3 DEF Discard, RemoveFile, Fill, files
<1>15. CASE Commit(w)
  <2>1. pc[w] = "commit" /\ Goto(w, "count") /\ i' = i /\ processed' = processed
    BY <1>15 DEF Commit, At
  <2>2. CASE CleanDest
    <3>1. dest' = dest
      BY <1>15, <2>2 DEF Commit, files
    <3> QED
      BY <1>4, <1>6, <2>1, <2>2, <3>1
  <2>3. CASE ~CleanDest
    <3>1. temp[w] = "whole"
      BY <1>0, <2>1, <2>3 DEF TempsOK
    <3>2. dest' = [dest EXCEPT ![Entry(w)] = "whole"]
      BY <1>15, <2>3, <3>1 DEF Commit
    <3> QED
      BY <1>5, <1>6, <2>1, <2>3, <3>2 DEF InEntry
  <2> QED
    BY <2>2, <2>3
<1>16. CASE CommitFails(w)
  <2>1. /\ pc[w] = "commit" /\ Goto(w, "fail") /\ i' = i /\ processed' = processed
        /\ RemoveFile(w)
    BY <1>16 DEF CommitFails, At
  <2>2. CASE CleanDest /\ Fill(w, "none")
    <3>1. dest' = [dest EXCEPT ![Entry(w)] = "none"]
      BY <2>2 DEF Fill
    <3> QED
      BY <1>6, <1>8, <2>1, <3>1 DEF InEntry
  <2>3. CASE ~CleanDest
    <3>1. dest' = dest
      BY <2>1, <2>3 DEF RemoveFile, Fill, files
    <3> QED
      BY <1>4, <1>6, <2>1, <2>3, <3>1
  <2>4. CASE RemoveErrors /\ UNCHANGED files
    <3>1. dest' = dest
      BY <2>4 DEF files
    <3> QED
      BY <1>6, <1>7, <2>1, <2>4, <3>1
  <2> QED
    BY <2>1, <2>2, <2>3, <2>4 DEF RemoveFile
<1>17. CASE Count(w)
  BY <1>0, <1>17, CountStep
<1>18. CASE Fail(w)
  <2> DEFINE label == IF FirstToFail THEN "send" ELSE "done"
  <2>1. pc[w] = "fail" /\ Goto(w, label) /\ i' = i /\ processed' = processed /\ dest' = dest
    BY <1>18 DEF Fail, At, files
  <2>2. label \in {"send", "done"}
    OBVIOUS
  <2> HIDE DEF label
  <2> QED
    BY <1>4, <1>6, <2>1, <2>2
<1>19. CASE Send(w)
  <2>1. pc[w] = "send" /\ Goto(w, "done") /\ i' = i /\ processed' = processed /\ dest' = dest
    BY <1>19 DEF Send, At, files
  <2> QED
    BY <1>4, <1>6, <2>1
<1> QED
  BY <1>9, <1>10, <1>11, <1>12, <1>13, <1>14, <1>15, <1>16, <1>17, <1>18, <1>19 DEF Worker

\* Outside the processing of a group, the count is that of the files in place, no
\* file of the plan is in place, and what is not in place is in the plan or skipped.
RestOK ==
    phase # "workers" =>
        /\ phase \in {"clean", "start"} \cup Alone => Whole = {}
        /\ ~RemoveErrors => stats = Cardinality(Whole)
        /\ phase = "read" => \A e \in Whole : ~In(groups, e)
        /\ phase = "read" => \A e \in Requested : e \in Whole \/ Skipped(e) \/ In(groups, e)
        /\ phase = "nil" => \A e \in Requested : e \in Whole \/ Skipped(e)

\* The first group is read: nobody has passed a place, and no file of it is in place.
LEMMA ReadDest ==
  ASSUME PlanOK, PlanOK', RestOK, ReadGroup, conf' = conf
  PROVE  DestOK'
<1>0. /\ phase = "read" /\ phase' = "workers" /\ groups' = groups /\ stats' = stats /\ dest' = dest
      /\ pc' = [w \in Pool |-> "loop"] /\ i' = [w \in Pool |-> w] /\ processed' = 0
  BY DEF ReadGroup, files
<1>1. /\ Cur' = Cur /\ Ready' = Ready /\ RemoveErrors' = RemoveErrors /\ Requested' = Requested
      /\ Whole' = Whole /\ \A e : Skipped(e)' = Skipped(e)
  BY <1>0 DEF Cur, Ready, CleanDest, RemoveErrors, Requested, Skipped, Existing, Overwrite, Single,
              Whole
<1>2. groups \in Seq(Group(Archive)) /\ NoneTwice(groups) /\ groups # <<>>
  BY <1>0 DEF PlanOK
<1>3. \A e : In(groups, e) <=> In(Tail(groups), e) \/ Listed(Cur, e)
  BY <1>2, TailFacts DEF Cur
<1>4. Passed' = {}
  <2>1. \A w \in Pool : \A k \in 1..Len(Cur) : Owns(w, k) => ~(k < w)
    <3>1. \A w \in Pool : w \in Nat /\ \A k : Owns(w, k) => k \in Nat /\ k >= w
      BY OwnsFirst
    <3>2. \A k, w \in Nat : k >= w => ~(k < w)
      BY SMT
    <3> QED
      BY <3>1, <3>2
  <2> QED
    BY <1>0, <1>1, <2>1 DEF Passed
<1>5. Placed' = {}
  <2>1. "loop" \notin Ready
    BY DEF Ready
  <2>2. Placed' = Passed' \cup {i'[v] : v \in {u \in Pool : pc'[u] \in Ready}}
    BY <1>1 DEF Placed
  <2>3. {u \in Pool : pc'[u] \in Ready} = {}
    BY <1>0, <2>1
  <2> QED
    BY <1>4, <2>2, <2>3
<1>6. \A e \in Whole : ~In(Tail(groups), e) /\ ~Listed(Cur, e)
  BY <1>0, <1>3 DEF RestOK
<1>7. Others' = Whole
  BY <1>1, <1>6 DEF Others
<1>8. Cardinality({}) = 0
  BY FS_EmptySet
<1>9. ~RemoveErrors => stats = Cardinality(Whole)
  BY <1>0 DEF RestOK
<1>10. \A k \in 1..Len(Cur) : Cur[k] \notin Whole
  BY <1>6 DEF Listed
<1>11. \A e \in Requested : e \in Whole \/ Skipped(e) \/ In(groups, e)
  BY <1>0 DEF RestOK
<1> QED
  BY <1>0, <1>1, <1>4, <1>5, <1>6, <1>7, <1>8, <1>9, <1>10, <1>11 DEF DestOK

\* When the workers are done, the files of the group that are in place are those
\* of the places passed: the count of the group adds up.
LEMMA ReturnCount ==
  ASSUME PlanOK, DestOK, phase = "workers", \A w \in Pool : pc[w] = "done", ~RemoveErrors
  PROVE  Cardinality(Whole) = stats + processed
<1> DEFINE Mine == {Cur[k] : k \in Passed}
           f == [k \in Passed |-> Cur[k]]
<1>1. Placed = Passed
  <2>1. {v \in Pool : pc[v] \in Ready} = {}
    BY DEF Ready
  <2> QED
    BY <2>1 DEF Placed
<1>2. /\ \A k \in 1..Len(Cur) : Cur[k] \in Whole <=> k \in Passed
      /\ stats = Cardinality(Others) /\ processed = Cardinality(Passed)
  BY <1>1 DEF DestOK
<1>3. Passed \subseteq 1..Len(Cur)
  BY DEF Passed
<1>4. Whole = Others \cup Mine
  BY <1>2, <1>3 DEF Others, Listed
<1>5. Others \cap Mine = {}
  BY <1>3 DEF Others, Listed
<1>6. IsFiniteSet(Passed) /\ IsFiniteSet(Whole)
  <2>1. Len(Cur) \in Int /\ Entries \in Int /\ 1 \in Int
    BY CurFacts, ExtractionAssumption, SMT
  <2>2. IsFiniteSet(1..Len(Cur)) /\ IsFiniteSet(1..Entries)
    BY <2>1, FS_Interval
  <2>3. Whole \subseteq 1..Entries
    BY DEF Whole, Archive
  <2> QED
    BY <1>3, <2>2, <2>3, FS_Subset
<1>7. Cardinality(Mine) = Cardinality(Passed)
  <2>1. \A j, k \in Passed : f[j] = f[k] => j = k
    BY <1>3, CurFacts DEF AllDifferent
  <2>2. f \in [Passed -> Mine] /\ \A x \in Mine : \E k \in Passed : f[k] = x
    OBVIOUS
  <2> HIDE DEF f, Mine
  <2>3. ExistsBijection(Passed, Mine)
    BY <2>1, <2>2 DEF ExistsBijection, Bijection, Injection, IsInjective, Surjection
  <2> QED
    BY <1>6, <2>3, FS_Bijection
<1>8. IsFiniteSet(Others) /\ IsFiniteSet(Mine)
  <2>1. Others \subseteq Whole /\ Mine \subseteq Whole
    BY <1>4
  <2> HIDE DEF Mine
  <2> QED
    BY <1>6, <2>1, FS_Subset
<1> HIDE DEF Mine
<1>9. /\ Cardinality(Others) \in Nat /\ Cardinality(Mine) \in Nat /\ Cardinality({}) = 0
      /\ Cardinality(Others \cup Mine)
           = Cardinality(Others) + Cardinality(Mine) - Cardinality(Others \cap Mine)
  BY <1>8, FS_Union, FS_CardinalityType, FS_EmptySet
<1>10. Cardinality(Whole) = Cardinality(Others) + Cardinality(Mine) - 0
  BY <1>4, <1>5, <1>9
<1>11. Cardinality(Whole) = Cardinality(Others) + Cardinality(Mine)
  BY <1>9, <1>10, SMT
<1> QED
  BY <1>2, <1>7, <1>11

\* When the workers are done without an error, every file of the group is in place.
LEMMA ReturnAll ==
  ASSUME PlanOK, TurnsOK, DestOK, phase = "workers", \A w \in Pool : pc[w] = "done", ~GroupFailed
  PROVE  \A e : Listed(Cur, e) => e \in Whole
<1>1. ~stop
  BY DEF TurnsOK, GroupFailed
<1>2. ASSUME NEW k \in 1..Len(Cur) PROVE k \in Passed
  <2>1. k \in Nat \ {0} /\ k <= Len(Cur) /\ Len(Cur) \in Nat
    BY CurFacts, SMT
  <2>2. PICK w \in Pool : Owns(w, k)
    BY <2>1, OwnsAll
  <2>3. i[w] > Len(Cur) /\ i[w] \in Nat
    BY <1>1 DEF TurnsOK
  <2>4. k < i[w]
    BY <2>1, <2>3, SMT
  <2> QED
    BY <2>2, <2>4 DEF Passed
<1>3. ASSUME NEW k \in 1..Len(Cur) PROVE Cur[k] \in Whole
  BY <1>2 DEF DestOK, Placed
<1> QED
  BY <1>3 DEF Listed

\* The end of a group.
LEMMA ReturnRest ==
  ASSUME PlanOK, TurnsOK, DestOK, GroupReturns, conf' = conf
  PROVE  RestOK'
<1>0. /\ phase = "workers" /\ (\A w \in Pool : pc[w] = "done") /\ stats' = stats + processed
      /\ groups' = Tail(groups) /\ phase' \in {"err", "nil", "read"} /\ dest' = dest
      /\ phase' # "err" => ~GroupFailed
      /\ phase' = "nil" => Tail(groups) = <<>>
  BY DEF GroupReturns, GroupStats, files
<1>1. /\ RemoveErrors' = RemoveErrors /\ Requested' = Requested
      /\ Whole' = Whole /\ \A e : Skipped(e)' = Skipped(e)
  BY <1>0 DEF RemoveErrors, Requested, Skipped, Existing, Overwrite, Single, CleanDest, Whole
<1>2. ~RemoveErrors => stats' = Cardinality(Whole)
  BY <1>0, ReturnCount
<1>3. \A e \in Whole : ~In(Tail(groups), e)
  BY <1>0 DEF DestOK
<1>4. ASSUME phase' # "err", NEW e \in Requested PROVE e \in Whole \/ Skipped(e) \/ In(Tail(groups), e)
  <2>1. e \in Whole \/ Skipped(e) \/ In(groups, e)
    BY <1>0 DEF DestOK
  <2>2. In(groups, e) => In(Tail(groups), e) \/ Listed(Cur, e)
    BY <1>0, CurFacts
  <2>3. Listed(Cur, e) => e \in Whole
    BY <1>0, <1>4, ReturnAll
  <2> QED
    BY <2>1, <2>2, <2>3
<1>5. \A e : ~In(<<>>, e)
  <2>1. \A a, k : ~Place(<<>>, a, k)
    BY SMT DEF Place
  <2> QED
    BY <2>1 DEF In
<1>6. phase' \notin {"clean", "start"} \cup Alone
  BY <1>0 DEF Alone
<1> QED
  BY <1>0, <1>1, <1>2, <1>3, <1>4, <1>5, <1>6 DEF RestOK

\* Destinations that are not to be overwritten: they are as they were, and not in
\* the plan; CopyFile is past its stat only if there was none.
OldOK ==
    ~Overwrite /\ ~CleanDest =>
        /\ \A e \in Existing : dest[e] = "old" /\ ~In(groups, e)
        /\ phase \in Alone \ {"stat", "undo"} => Only \notin Existing

\* The file of entry e is not partial or wrong; a worker is writing it or about to
\* discard it.
Finished(e) == dest[e] \in {"none", "old", "whole"}
Handled(e) == \E w \in Pool : pc[w] \in {"write", "discard"} /\ e = Entry(w)

\* With CopyWithCleanDest there is no temporary file, and an unfinished file is
\* that of a worker that is writing or about to discard it.
UnfinishedOK ==
    CleanDest =>
        /\ \A w \in Pool : temp[w] = "none"
        /\ ~RemoveErrors => \A e \in Archive : Finished(e) \/ (phase = "workers" /\ Handled(e))

\* What CopyFile copies.
LEMMA OnlyFacts ==
  ASSUME conf \in Configs, Single
  PROVE  Only \in Archive /\ Requested = {Only} /\ ~CleanDest
<1>1. ~CleanDest /\ \E e \in Archive : Requested = {e}
  BY ExtractionAssumption DEF Single, CleanDest, Requested
<1>2. PICK e \in Archive : Requested = {e}
  BY <1>1
<1>3. Only = e
  BY <1>2 DEF Only
<1> QED
  BY <1>1, <1>2, <1>3

\* The copy begins with nothing in place.
LEMMA InitRest == Init => TurnsOK /\ DestOK /\ RestOK /\ OldOK /\ UnfinishedOK
<1> SUFFICES ASSUME Init PROVE TurnsOK /\ DestOK /\ RestOK /\ OldOK /\ UnfinishedOK
  OBVIOUS
<1>0. /\ dest = [e \in Archive |-> Before(e)] /\ temp = [w \in Pool |-> "none"]
      /\ phase = IF Single THEN "stat" ELSE IF CleanDest THEN "clean" ELSE "start"
      /\ groups = <<>> /\ i = [w \in Pool |-> w] /\ stats = 0 /\ conf \in Configs
  BY DEF Init
<1>1. phase \in {"stat", "clean", "start"}
  BY <1>0
<1>2. \A e \in Archive : dest[e] \in {"none", "old"} /\ (e \in Existing => dest[e] = "old")
  BY <1>0 DEF Before
<1>3. Whole = {} /\ Cardinality({}) = 0
  BY <1>2, FS_EmptySet DEF Whole
<1>4. Existing \subseteq Archive
  BY <1>0, ExtractionAssumption DEF Existing
<1>5. \A e : ~In(<<>>, e)
  <2>1. \A a, k : ~Place(<<>>, a, k)
    BY SMT DEF Place
  <2> QED
    BY <2>1 DEF In
<1>6. TurnsOK
  <2>1. \A w \in Pool : w \in Nat
    BY OwnsFirst
  <2> QED
    BY <1>0, <1>1, <2>1 DEF TurnsOK
<1>7. DestOK
  BY <1>1 DEF DestOK
<1>8. RestOK
  BY <1>0, <1>1, <1>3 DEF RestOK, Alone
<1>9. OldOK
  BY <1>0, <1>1, <1>2, <1>4, <1>5 DEF OldOK, Alone
<1>10. UnfinishedOK
  <2>1. \A w \in Pool : temp[w] = "none"
    BY <1>0
  <2>2. \A e \in Archive : Finished(e)
    BY <1>2 DEF Finished
  <2> QED
    BY <2>1, <2>2 DEF UnfinishedOK
<1> QED
  BY <1>6, <1>7, <1>8, <1>9, <1>10

\* CopyFile counts the one file that it renames.
LEMMA CopyFileRest ==
  ASSUME conf \in Configs, IInv, RestOK, CopyFile, conf' = conf
  PROVE  RestOK'
<1>0. /\ phase \in Alone /\ phase' \in Alone \cup {"nil", "err"} /\ Single /\ Whole = {}
      /\ RemoveErrors' = RemoveErrors /\ Requested' = Requested
      /\ ~RemoveErrors => stats = Cardinality({})
  BY CopyFileFrame DEF IInv, ShapeOK, RestOK, Alone, RemoveErrors, Requested
<1>1. Only \in Archive /\ Requested = {Only} /\ ~CleanDest /\ dest \in [Archive -> Contents]
  BY <1>0, OnlyFacts DEF IInv, ShapeOK
<1>2. CASE Rename
  <2>1. temp[1] = "whole"
    BY <1>1, <1>2 DEF IInv, TempsOK, Rename
  <2>2. dest' = [dest EXCEPT ![Only] = "whole"] /\ stats' = 1 /\ phase' = "nil"
    BY <1>2, <2>1 DEF Rename
  <2>3. dest'[Only] = "whole" /\ \A e \in Archive : e # Only => dest'[e] = dest[e]
    BY <1>1, <2>2
  <2>4. Whole' = {Only}
    BY <1>0, <1>1, <2>3 DEF Whole
  <2>5. Cardinality({Only}) = 1
    BY FS_Singleton
  <2> QED
    BY <1>0, <1>1, <2>2, <2>4, <2>5 DEF RestOK, Alone
<1>3. CASE phase' # "nil" /\ stats' = stats /\ Whole' = {}
  <2>1. phase' # "read" /\ phase' # "nil"
    BY <1>0, <1>3 DEF Alone
  <2> QED
    BY <1>0, <1>3, <2>1 DEF RestOK
<1>4. ASSUME dest' = dest PROVE Whole' = {}
  BY <1>0, <1>4 DEF Whole
<1>5. CASE RemoveDest
  <2>1. dest' = [dest EXCEPT ![Only] = "none"] \/ dest' = dest
    BY <1>5 DEF RemoveDest
  <2>2. \A e \in Archive : dest'[e] \in {"none", dest[e]}
    BY <1>1, <2>1
  <2>3. Whole' = {}
    BY <1>0, <2>2 DEF Whole
  <2> QED
    BY <1>3, <1>5, <2>3 DEF RemoveDest
<1>6. CASE StatDest
  BY <1>3, <1>4, <1>6 DEF StatDest, files
<1>7. CASE OpenSource
  BY <1>3, <1>4, <1>7 DEF OpenSource, files
<1>8. CASE CreateTemp
  BY <1>3, <1>4, <1>8 DEF CreateTemp
<1>9. CASE CopyContent
  BY <1>3, <1>4, <1>9 DEF CopyContent
<1>10. CASE CopyFileFails
  BY <1>3, <1>4, <1>10 DEF CopyFileFails, files
<1>11. CASE Undo
  BY <1>3, <1>4, <1>11 DEF Undo
<1> QED
  BY <1>2, <1>5, <1>6, <1>7, <1>8, <1>9, <1>10, <1>11 DEF CopyFile

\* Every step keeps the account of the files, and the count.
LEMMA RestStep ==
  ASSUME conf \in Configs, IInv, PlanOK, PlanOK', TurnsOK, DestOK, RestOK, [Next]_vars
  PROVE  DestOK' /\ RestOK'
<1>0. /\ conf' = conf /\ RemoveErrors' = RemoveErrors /\ Requested' = Requested
      /\ \A e : Skipped(e)' = Skipped(e)
  BY DEF Next, vars, RemoveErrors, Requested, Skipped, Existing, Overwrite, Single, CleanDest
<1>1. CASE UNCHANGED <<files, phase, groups, group, stats>>
  <2>1. /\ dest' = dest /\ phase' = phase /\ groups' = groups /\ pc' = pc /\ i' = i
        /\ processed' = processed /\ stats' = stats
    BY <1>1 DEF files, group
  <2>2. /\ Cur' = Cur /\ Whole' = Whole /\ Ready' = Ready
    BY <1>0, <2>1 DEF Cur, Whole, Ready, CleanDest
  <2>3. Passed' = Passed /\ Others' = Others
    BY <2>1, <2>2 DEF Passed, Others
  <2>4. Placed' = Placed
    BY <2>1, <2>2, <2>3 DEF Placed
  <2>5. DestOK'
    BY <1>0, <2>1, <2>2, <2>3, <2>4 DEF DestOK
  <2>6. RestOK'
    BY <1>0, <2>1, <2>2 DEF RestOK
  <2> QED
    BY <2>5, <2>6
<1>2. CASE UNCHANGED vars
  BY <1>1, <1>2 DEF vars, files, group
<1>3. CASE Clean
  <2>1. phase = "clean" /\ phase' \in {"start", "err"} /\ stats' = stats /\ Whole = {}
    BY <1>3 DEF Clean, RestOK
  <2>2. \A e \in Archive : dest'[e] \in {"none", dest[e]}
    BY <1>3 DEF Clean
  <2>3. Whole' = {}
    BY <2>1, <2>2 DEF Whole
  <2>4. ~RemoveErrors => stats = Cardinality(Whole)
    BY <2>1 DEF RestOK
  <2> QED
    BY <1>0, <2>1, <2>3, <2>4 DEF RestOK, DestOK
<1>4. CASE Process
  <2>1. phase = "start" /\ dest' = dest /\ stats' = stats /\ Whole = {} /\ ~Single
    BY <1>4 DEF Process, RestOK, files, PlanOK
  <2>2. Whole' = {} /\ (~RemoveErrors => stats' = Cardinality(Whole'))
    BY <2>1 DEF Whole, RestOK
  <2>3. ASSUME NEW e \in Requested, e \notin ToProcess PROVE Skipped(e)
    <3>1. ~Overwrite /\ ~CleanDest /\ dest[e] # "none"
      BY <2>3 DEF ToProcess, ShouldProcess
    <3>2. e \in Archive
      BY ExtractionAssumption DEF Requested
    <3>3. dest[e] \in {Before(e), "whole"}
      BY <2>1, <3>1, <3>2 DEF IInv, AtomicFiles
    <3>4. dest[e] # "whole"
      BY <2>1, <3>2 DEF Whole
    <3>5. e \in Existing
      BY <3>1, <3>3, <3>4 DEF Before
    <3> QED
      BY <2>1, <3>1, <3>5 DEF Skipped
  <2>4. CASE ToProcess = {} /\ phase' = "nil"
    BY <1>0, <2>2, <2>3, <2>4 DEF RestOK, DestOK, Alone
  <2>5. CASE phase' = "err"
    BY <1>0, <2>2, <2>5 DEF RestOK, DestOK, Alone
  <2>6. CASE phase' = "read" /\ \A x : In(groups', x) <=> x \in ToProcess
    <3>1. \A e \in Requested : Skipped(e) \/ In(groups', e)
      BY <2>3, <2>6
    <3> QED
      BY <1>0, <2>2, <2>6, <3>1 DEF RestOK, DestOK, Alone
  <2> QED
    BY <1>4, <2>4, <2>5, <2>6, ProcessPlan
<1>5. CASE ReadGroup
  <2>1. DestOK'
    BY <1>0, <1>5, ReadDest
  <2> QED
    BY <1>5, <2>1 DEF RestOK, ReadGroup
<1>6. CASE ReadGroupFails
  <2>1. phase = "read" /\ phase' = "err" /\ dest' = dest /\ stats' = stats
    BY <1>6 DEF ReadGroupFails, files
  <2>2. Whole' = Whole
    BY <2>1 DEF Whole
  <2> QED
    BY <1>0, <2>1, <2>2 DEF RestOK, DestOK, Alone
<1>7. CASE GroupReturns
  <2>1. phase' # "workers"
    BY <1>7 DEF GroupReturns
  <2>2. DestOK'
    BY <2>1 DEF DestOK
  <2> QED
    BY <1>0, <1>7, <2>2, ReturnRest
<1>8. CASE CopyFile
  <2>1. phase' # "workers"
    BY <1>8, CopyFileFrame DEF Alone
  <2>2. DestOK'
    BY <2>1 DEF DestOK
  <2> QED
    BY <1>0, <1>8, <2>2, CopyFileRest
<1>9. ASSUME NEW w \in Pool, Worker(w) PROVE DestOK' /\ RestOK'
  <2>1. DestOK'
    BY <1>0, <1>9, WorkerDest
  <2>2. RestOK'
    BY <1>9, WorkerFrame DEF RestOK
  <2> QED
    BY <2>1, <2>2
<1> QED
  BY <1>1, <1>2, <1>3, <1>4, <1>5, <1>6, <1>7, <1>8, <1>9 DEF Next, Main

\* No step touches a destination that is not to be overwritten.
LEMMA OldStep ==
  ASSUME conf \in Configs, IInv, PlanOK, TurnsOK, OldOK, [Next]_vars
  PROVE  OldOK'
<1>0. /\ conf' = conf /\ Overwrite' = Overwrite /\ CleanDest' = CleanDest /\ Existing' = Existing
      /\ Only' = Only
  BY DEF Next, vars, Overwrite, CleanDest, Existing, Only, Requested
<1> SUFFICES ASSUME ~Overwrite, ~CleanDest PROVE OldOK'
  BY <1>0 DEF OldOK
<1>1. /\ \A e \in Existing : dest[e] = "old" /\ ~In(groups, e) /\ e \in Archive
      /\ phase \in Alone \ {"stat", "undo"} => Only \notin Existing
      /\ dest \in [Archive -> Contents]
  BY ExtractionAssumption DEF OldOK, IInv, ShapeOK, Existing
<1>2. SUFFICES /\ \A e \in Existing : dest'[e] = "old" /\ ~In(groups', e)
               /\ phase' \in Alone \ {"stat", "undo"} => Only \notin Existing
  BY <1>0 DEF OldOK
<1>3. CASE dest' = dest /\ groups' = groups /\ (phase' = phase \/ phase' \notin Alone)
  BY <1>1, <1>3
<1>4. CASE UNCHANGED vars \/ UNCHANGED <<files, phase, groups, group, stats>>
  BY <1>3, <1>4 DEF vars, files
<1>5. CASE Clean
  BY <1>5 DEF Clean, IInv, ShapeOK
<1>6. CASE Process
  <2>1. dest' = dest /\ phase' \notin Alone
    BY <1>6 DEF Process, files, Alone
  <2>2. CASE groups' = groups
    BY <1>3, <2>1, <2>2
  <2>3. CASE \A x : In(groups', x) <=> x \in ToProcess
    <3>1. \A e \in Existing : e \notin ToProcess
      BY <1>1 DEF ToProcess, ShouldProcess
    <3> QED
      BY <1>1, <2>1, <2>3, <3>1
  <2> QED
    BY <1>6, <2>2, <2>3, ProcessPlan
<1>7. CASE ReadGroup \/ ReadGroupFails
  BY <1>3, <1>7 DEF ReadGroup, ReadGroupFails, files, Alone
<1>8. CASE GroupReturns
  <2>1. /\ phase = "workers" /\ dest' = dest /\ groups' = Tail(groups)
        /\ phase' \notin Alone
    BY <1>8 DEF GroupReturns, files, Alone
  <2>2. \A e : In(Tail(groups), e) => In(groups, e)
    BY <2>1, CurFacts
  <2> QED
    BY <1>1, <2>1, <2>2
<1>9. CASE CopyFile
  <2>1. phase \in Alone /\ phase' \in Alone \cup {"nil", "err"} /\ groups' = groups /\ Single
    BY <1>9, CopyFileFrame DEF Alone, IInv, ShapeOK
  <2>2. CASE dest' = dest /\ phase \in Alone \ {"stat", "undo"}
    BY <1>1, <2>1, <2>2
  <2>3. CASE StatDest
    <3>1. Only \in Archive
      BY <2>1, OnlyFacts
    <3>2. phase' = "open" => dest[Only] = "none"
      BY <2>3 DEF StatDest
    <3>3. dest' = dest /\ phase' \in {"err", "open"}
      BY <2>3 DEF StatDest, files
    <3> QED
      BY <1>1, <2>1, <3>2, <3>3 DEF Alone
  <2>4. CASE Undo
    BY <1>3, <2>1, <2>4 DEF Undo, Alone
  <2>5. CASE RemoveDest
    BY <2>5 DEF RemoveDest, IInv, ShapeOK
  <2>6. CASE Rename
    <3>1. Only \notin Existing
      BY <1>1, <2>6 DEF Rename, Alone
    <3>2. dest' = [dest EXCEPT ![Only] = temp[1]] /\ phase' = "nil"
      BY <2>6 DEF Rename
    <3>3. \A e \in Existing : dest'[e] = dest[e]
      BY <1>1, <3>1, <3>2
    <3> QED
      BY <1>1, <2>1, <3>2, <3>3 DEF Alone
  <2>7. CASE OpenSource
    BY <2>2, <2>7 DEF OpenSource, files, Alone
  <2>8. CASE CreateTemp
    BY <2>2, <2>8 DEF CreateTemp, Alone
  <2>9. CASE CopyContent
    BY <2>2, <2>9 DEF CopyContent, Alone
  <2>10. CASE CopyFileFails
    BY <2>2, <2>10 DEF CopyFileFails, files, Alone
  <2> QED
    BY <1>9, <2>3, <2>4, <2>5, <2>6, <2>7, <2>8, <2>9, <2>10 DEF CopyFile
<1>10. ASSUME NEW w \in Pool, Worker(w)
       PROVE  /\ \A e \in Existing : dest'[e] = "old" /\ ~In(groups', e)
              /\ phase' \in Alone \ {"stat", "undo"} => Only \notin Existing
  <2>1. phase = "workers" /\ phase' = phase /\ groups' = groups /\ "workers" \notin Alone
    BY <1>10, WorkerFrame DEF Alone
  <2>2. CASE dest' = dest
    BY <1>3, <2>1, <2>2
  <2>3. CASE Commit(w)
    <3>1. i[w] \in 1..Len(Cur) /\ Entry(w) = Cur[i[w]]
      BY <2>1, <2>3, CurFacts DEF Commit, At, TurnsOK, InEntry, Entry
    <3>2. In(groups, Entry(w))
      BY <2>1, <3>1, CurFacts DEF Listed
    <3>3. dest' = [dest EXCEPT ![Entry(w)] = temp[w]]
      BY <2>3 DEF Commit
    <3>4. \A e \in Existing : dest'[e] = dest[e]
      BY <1>1, <3>2, <3>3
    <3> QED
      BY <1>1, <2>1, <3>4
  <2>4. CASE ~Commit(w)
    BY <1>10, <2>2, <2>4 DEF Worker, Loop, Writer, WriterFails, Write, WriteFails, Discard,
       CommitFails, Count, Fail, Send, RemoveFile, Fill, files
  <2> QED
    BY <2>3, <2>4
<1> QED
  BY <1>4, <1>5, <1>6, <1>7, <1>8, <1>9, <1>10 DEF Next, Main

\* With CopyWithCleanDest a step that leaves a file unfinished is that of a worker
\* that will write on or discard it.
LEMMA UnfinishedStep ==
  ASSUME conf \in Configs, IInv, TurnsOK, UnfinishedOK, [Next]_vars
  PROVE  UnfinishedOK'
<1>0. conf' = conf /\ CleanDest' = CleanDest /\ RemoveErrors' = RemoveErrors
  BY DEF Next, vars, CleanDest, RemoveErrors
<1> SUFFICES ASSUME CleanDest PROVE UnfinishedOK'
  BY <1>0 DEF UnfinishedOK
<1>1. /\ \A w \in Pool : temp[w] = "none"
      /\ ~RemoveErrors => \A e \in Archive : Finished(e) \/ (phase = "workers" /\ Handled(e))
      /\ dest \in [Archive -> Contents] /\ pc \in [Pool -> Labels]
      /\ phase # "workers" => \A w \in Pool : pc[w] = "done"
  BY DEF UnfinishedOK, IInv, ShapeOK
<1>2. SUFFICES /\ temp' = temp
               /\ ~RemoveErrors => \A e \in Archive : Finished(e)' \/ (phase' = "workers" /\ Handled(e)')
  BY <1>0, <1>1 DEF UnfinishedOK
<1>3. ASSUME \A w \in Pool : pc[w] = "done", ~RemoveErrors PROVE \A e \in Archive : Finished(e)
  BY <1>1, <1>3 DEF Handled
<1>4. CASE dest' = dest /\ temp' = temp /\ \A w \in Pool : pc[w] = "done"
  BY <1>3, <1>4 DEF Finished
<1>5. CASE UNCHANGED <<files, phase, groups, group, stats>>
  <2>1. /\ temp' = temp /\ dest' = dest /\ phase' = phase /\ groups' = groups /\ pc' = pc /\ i' = i
    BY <1>5 DEF files, group
  <2>2. \A e : (Finished(e)' <=> Finished(e)) /\ (Handled(e)' <=> Handled(e))
    BY <2>1 DEF Finished, Handled, Entry
  <2> QED
    BY <1>1, <2>1, <2>2
<1>6. CASE UNCHANGED vars
  BY <1>5, <1>6 DEF vars, files, group
<1>7. CASE Clean
  <2>1. /\ temp' = temp /\ \A w \in Pool : pc[w] = "done"
        /\ \A e \in Archive : dest'[e] \in {"none", dest[e]}
    BY <1>1, <1>7 DEF Clean
  <2> QED
    BY <1>3, <2>1 DEF Finished
<1>8. CASE Process \/ ReadGroup \/ ReadGroupFails \/ GroupReturns
  BY <1>1, <1>4, <1>8 DEF Process, ReadGroup, ReadGroupFails, GroupReturns, files
<1>9. CASE CopyFile
  <2>1. Single
    BY <1>9, CopyFileFrame DEF Alone, IInv, ShapeOK
  <2> QED
    BY <2>1, OnlyFacts
<1>10. ASSUME NEW w \in Pool, Worker(w)
       PROVE  /\ temp' = temp
              /\ ~RemoveErrors => \A e \in Archive : Finished(e)' \/ (phase' = "workers" /\ Handled(e)')
  <2>1. phase = "workers" /\ phase' = phase /\ groups' = groups
    BY <1>10, WorkerFrame
  <2> DEFINE Goal == /\ temp' = temp
                     /\ ~RemoveErrors =>
                          \A e \in Archive : Finished(e)' \/ (phase' = "workers" /\ Handled(e)')
  <2> SUFFICES Goal
    OBVIOUS
  <2>2. ASSUME NEW label, Goto(w, label), temp' = temp,
               \A e \in Archive : e # Entry(w) => dest'[e] = dest[e],
               \A v \in Pool : v # w => i'[v] = i[v],
               label \in {"write", "discard"} => i' = i,
               \/ dest' = dest /\ pc[w] \notin {"write", "discard"}
               \/ Entry(w) \in Archive => dest'[Entry(w)] \in {"none", "old", "whole"}
               \/ label \in {"write", "discard"}
               \/ RemoveErrors
        PROVE  Goal
    <3>1. pc'[w] = label /\ \A v \in Pool : v # w => pc'[v] = pc[v] /\ i'[v] = i[v]
      BY <1>1, <2>2 DEF Goto
    <3>2. \A v \in Pool : v # w => Entry(v)' = Entry(v)
      BY <2>1, <3>1 DEF Entry
    <3>3. label \in {"write", "discard"} => Entry(w)' = Entry(w)
      BY <2>1, <2>2 DEF Entry
    <3>4. ASSUME NEW e \in Archive, ~RemoveErrors
          PROVE  Finished(e)' \/ (phase' = "workers" /\ Handled(e)')
      <4>1. CASE Finished(e) /\ dest'[e] = dest[e]
        BY <4>1 DEF Finished
      <4>2. CASE e # Entry(w) /\ Handled(e)
        BY <2>1, <3>1, <3>2, <4>2 DEF Handled
      <4>3. CASE e = Entry(w) /\ label \in {"write", "discard"}
        BY <2>1, <3>1, <3>3, <4>3 DEF Handled
      <4>4. CASE e = Entry(w) /\ dest'[e] \in {"none", "old", "whole"}
        BY <4>4 DEF Finished
      <4>5. CASE pc[w] \notin {"write", "discard"} /\ Handled(e)
        BY <2>1, <3>1, <3>2, <4>5 DEF Handled
      <4> QED
        BY <1>1, <2>2, <3>4, <4>1, <4>2, <4>3, <4>4, <4>5
    <3> QED
      BY <2>2, <3>4
  <2>3. ASSUME NEW label, Goto(w, label), UNCHANGED files, i' = i, pc[w] \notin {"write", "discard"}
        PROVE  Goal
    BY <2>2, <2>3 DEF files
  <2>4. ASSUME NEW label, Goto(w, label), NEW c, Fill(w, c), i' = i,
               c \in {"none", "whole"} \/ label \in {"write", "discard"}
        PROVE  Goal
    <3>1. temp' = temp /\ dest' = [dest EXCEPT ![Entry(w)] = c]
      BY <2>4 DEF Fill
    <3>2. /\ \A e \in Archive : e # Entry(w) => dest'[e] = dest[e]
          /\ Entry(w) \in Archive => dest'[Entry(w)] = c
      BY <1>1, <3>1
    <3>3. \/ Entry(w) \in Archive => dest'[Entry(w)] \in {"none", "old", "whole"}
          \/ label \in {"write", "discard"}
      BY <2>4, <3>2
    <3> QED
      BY <2>2, <2>4, <3>1, <3>2, <3>3
  <2>5. ASSUME NEW label, Goto(w, label), UNCHANGED files, i' = i,
               RemoveErrors \/ label \in {"write", "discard"}
        PROVE  Goal
    BY <2>2, <2>5 DEF files
  <2> HIDE DEF Goal
  <2>6. CASE Loop(w)
    BY <2>3, <2>6 DEF Loop, At
  <2>7. CASE Writer(w)
    BY <2>4, <2>7 DEF Writer
  <2>8. CASE WriterFails(w)
    BY <2>3, <2>8 DEF WriterFails, At
  <2>9. CASE Write(w)
    <3>1. CASE Verified(w)
      BY <2>4, <2>9, <3>1 DEF Write, Verified
    <3>2. CASE ~Verified(w)
      BY <2>4, <2>5, <2>9, <3>2 DEF Write
    <3> QED
      BY <3>1, <3>2
  <2>10. CASE WriteFails(w)
    BY <2>5, <2>10 DEF WriteFails
  <2>11. CASE Discard(w)
    BY <2>4, <2>5, <2>11 DEF Discard, RemoveFile
  <2>12. CASE Commit(w)
    BY <2>3, <2>12 DEF Commit, At
  <2>13. CASE CommitFails(w)
    BY <2>4, <2>5, <2>13 DEF CommitFails, RemoveFile
  <2>14. CASE Count(w)
    <3>1. /\ Goto(w, "loop") /\ temp' = temp /\ dest' = dest /\ pc[w] = "count"
          /\ i' = [i EXCEPT ![w] = @ + Stride]
      BY <2>14 DEF Count, files, At
    <3>2. \A v \in Pool : v # w => i'[v] = i[v]
      BY <3>1 DEF TurnsOK
    <3> QED
      BY <2>2, <3>1, <3>2
  <2>15. CASE Fail(w)
    BY <2>3, <2>15 DEF Fail, At
  <2>16. CASE Send(w)
    BY <2>3, <2>16 DEF Send, At
  <2> QED
    BY <1>10, <2>6, <2>7, <2>8, <2>9, <2>10, <2>11, <2>12, <2>13, <2>14, <2>15, <2>16 DEF Worker
<1> QED
  BY <1>5, <1>6, <1>7, <1>8, <1>9, <1>10 DEF Next, Main

\* The invariant of the whole copy.
CInv == /\ conf \in Configs
        /\ IInv
        /\ PlanOK
        /\ TurnsOK
        /\ DestOK
        /\ RestOK
        /\ OldOK
        /\ UnfinishedOK

\* The whole invariant holds throughout.
LEMMA CInvHolds == Spec => []CInv
<1>1. Init => CInv
  BY InitIInv, InitPlan, InitRest DEF CInv, Init
<1>2. CInv /\ [Next]_vars => CInv'
  <2> SUFFICES ASSUME CInv, [Next]_vars PROVE CInv'
    OBVIOUS
  <2>0. /\ conf \in Configs /\ IInv /\ PlanOK /\ TurnsOK /\ DestOK /\ RestOK /\ OldOK
        /\ UnfinishedOK
    BY DEF CInv
  <2>1. IInv' /\ PlanOK' /\ conf' = conf
    BY <2>0, StepIInv, PlanStep
  <2>2. TurnsOK'
    BY <2>0, TurnsStep
  <2>3. DestOK' /\ RestOK'
    BY <2>0, <2>1, RestStep
  <2>4. OldOK'
    BY <2>0, OldStep
  <2>5. UnfinishedOK'
    BY <2>0, UnfinishedStep
  <2> QED
    BY <2>0, <2>1, <2>2, <2>3, <2>4, <2>5 DEF CInv
<1> QED
  BY <1>1, <1>2, PTL DEF Spec

\* The count that Process returns, with an error or without, is the number of files
\* that are in place, and CopyFile's is 1 exactly when its file is: a worker counts
\* each entry that it has committed once, and no other.
THEOREM StatsExactHolds == Spec => []StatsExact
<1>1. CInv => StatsExact
  <2> SUFFICES ASSUME CInv, Returned, ~RemoveErrors PROVE stats = Cardinality(Whole)
    BY DEF StatsExact, Whole
  <2>1. phase # "workers"
    BY DEF Returned
  <2> QED
    BY <2>1 DEF CInv, RestOK
<1> QED
  BY <1>1, CInvHolds, PTL

\* A nil error means that every requested file is in place but those that existed
\* and were not to be overwritten, and no step touches one of these: the groups
\* have every entry that is to be copied, the workers share every place of a group,
\* and one that gives up leaves an error in the channel.
THEOREM NilMeansCopiedHolds == Spec => []NilMeansCopied
<1>1. CInv => NilMeansCopied
  <2> SUFFICES ASSUME CInv PROVE NilMeansCopied
    OBVIOUS
  <2>1. ~Overwrite /\ ~CleanDest => \A e \in Existing : dest[e] = "old"
    BY DEF CInv, OldOK
  <2>2. ASSUME phase = "nil", NEW e \in Requested
        PROVE  dest[e] = "whole" \/ (e \in Existing /\ ~Overwrite /\ ~CleanDest /\ ~Single)
    <3>1. e \in Whole \/ Skipped(e)
      BY <2>2 DEF CInv, RestOK
    <3> QED
      BY <3>1 DEF Whole, Skipped
  <2> QED
    BY <2>1, <2>2 DEF NilMeansCopied
<1> QED
  BY <1>1, CInvHolds, PTL

\* Every way out of processEntry removes its temporary file, or with
\* CopyWithCleanDest the file under its final name, so no unfinished file is left
\* when the copy returns.
THEOREM NothingUnfinishedHolds == Spec => []NothingUnfinished
<1>1. CInv => NothingUnfinished
  <2> SUFFICES ASSUME CInv, Returned, ~RemoveErrors
               PROVE  /\ \A w \in Pool : temp[w] = "none"
                      /\ \A e \in Archive : dest[e] \in {"none", "old", "whole"}
    BY DEF NothingUnfinished
  <2>1. CASE CleanDest
    <3>1. phase # "workers"
      BY DEF Returned
    <3> QED
      BY <2>1, <3>1 DEF CInv, UnfinishedOK, Finished
  <2>2. CASE ~CleanDest
    <3>1. IInv
      BY DEF CInv
    <3>2. \A w \in Pool : ~InUse(w)
      BY <3>1 DEF IInv, ShapeOK, InUse, Returned
    <3>3. \A w \in Pool : temp[w] = "none"
      BY <2>2, <3>1, <3>2 DEF IInv, TempsOK
    <3>4. \A e \in Archive : dest[e] \in {"none", "old", "whole"}
      BY <2>2, <3>1 DEF IInv, AtomicFiles, Before
    <3> QED
      BY <3>3, <3>4
  <2> QED
    BY <2>1, <2>2
<1> QED
  BY <1>1, CInvHolds, PTL
=============================================================================
