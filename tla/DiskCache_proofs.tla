-------------------------- MODULE DiskCache_proofs --------------------------
(***************************************************************************)
(* What the runs of MC_DiskCache check on two goroutines, for any number   *)
(* of goroutines, cache objects, keys, sizes and crashes; and that the     *)
(* directory caches implement ContentCache.                                *)
(*                                                                         *)
(* The sums over the files of a directory are SumFunction of the library,  *)
(* whose recursion is unfolded here by induction over finite sets.         *)
(* WalkOK relates what Prune has still to remove to what is listed.        *)
(* SoloInv relates the counter to the settled files and to what the        *)
(* current operation is about to add or to take off.                       *)
(***************************************************************************)
EXTENDS DiskCacheInterface, Functions, FiniteSetTheorems, TLAPS

\* Zenon proves the leaves that say nothing else; those with arithmetic cite SMT.
USE Zenon

\* A goroutine with a temporary name is inside Put; the labels of Put and
\* Delete have their arguments.
ArgsOK ==
    \A p \in Procs :
        /\ pc[p] \in PutLabels => tmp[p] # None
        /\ pc[p] \in {"idle", "delete", "subtract"} => tmp[p] = None
        /\ tmp[p] # None => key[p] \in Keys /\ tmp[p] <= puts
        /\ pc[p] \in {"delete", "subtract"} => key[p] \in Keys

\* Temporary names are not shared, and a name not handed out yet has no file.
TempsOK ==
    /\ \A p, q \in Procs : p # q /\ tmp[p] # None => tmp[p] # tmp[q]
    /\ \A t \in Temps : t > puts => ~Exists(t)

\* The temporary file of a Put past its copy holds the whole content of the
\* key; a Put that has just begun, or has renamed its file, has none.
TempFilesOK ==
    \A p \in Procs : tmp[p] # None =>
        /\ pc[p] \in {"stat", "add"} => ~Exists(tmp[p])
        /\ Exists(tmp[p]) /\ pc[p] # "copy" =>
             /\ disk[tmp[p]].whole
             /\ disk[tmp[p]].key = key[p]
             /\ disk[tmp[p]].size = SizeOf[key[p]]

IInv == StateOK /\ ArgsOK /\ TempsOK /\ TempFilesOK /\ WholeAtKey

\* Before the first step nothing is cached and no goroutine runs.
LEMMA InitIInv == Init => IInv
  BY DiskCacheAssumption, SMT
  DEF Init, IInv, StateOK, ArgsOK, TempsOK, TempFilesOK, WholeAtKey, NoPrune, Exists,
      Paths, Temps, PruneLocals, Labels, PutLabels, PruneLabels

\* Assignments to the locals of pruneDir keep their types.
LEMMA PruneAssign ==
  ASSUME pr \in [Procs -> PruneLocals], NEW p \in Procs
  PROVE  /\ \A t \in Nat : [pr EXCEPT ![p].target = t] \in [Procs -> PruneLocals]
         /\ \A S \in SUBSET Paths : [pr EXCEPT ![p].todo = S] \in [Procs -> PruneLocals]
         /\ \A E \in SUBSET Entry, n \in Int :
              [pr EXCEPT ![p].entries = E, ![p].remaining = n] \in [Procs -> PruneLocals]
<1>1. \A t \in Nat : [pr EXCEPT ![p].target = t] \in [Procs -> PruneLocals]
  BY DEF PruneLocals
<1>2. \A S \in SUBSET Paths : [pr EXCEPT ![p].todo = S] \in [Procs -> PruneLocals]
  BY DEF PruneLocals
<1>3. \A E \in SUBSET Entry, n \in Int :
        [pr EXCEPT ![p].entries = E, ![p].remaining = n] \in [Procs -> PruneLocals]
  BY Zenon DEF PruneLocals
<1> QED
  BY <1>1, <1>2, <1>3, Zenon

\* What is known of the configuration in use.
LEMMA ConfigFacts ==
  ASSUME StateOK
  PROVE  /\ MaxBytes \in Nat
         /\ conf.callers \subseteq Procs
         /\ conf.keys \subseteq Keys
         /\ conf.targets \subseteq Nat
         /\ conf.maxPuts \in 0..MaxPuts
  BY ConfigAssumption DEF StateOK, MaxBytes

\* Every step keeps the types.
LEMMA TypeStep == StateOK /\ ArgsOK /\ [Next]_vars => StateOK'
<1> SUFFICES ASSUME StateOK, ArgsOK, [Next]_vars PROVE StateOK'
  OBVIOUS
<1>b. conf' = conf
  BY DEF Next, vars
<1>c. conf.maxPuts \in 0..MaxPuts /\ MaxBytes \in Nat
  BY ConfigFacts
<1> USE DiskCacheAssumption, <1>b
    DEF At, Goto, Return, StateOK, locals, Labels, PutLabels, PruneLabels
<1>a. NoPrune \in PruneLocals
  BY SMT DEF NoPrune, PruneLocals
<1>1. CASE UNCHANGED vars
  BY <1>1 DEF vars
<1>2. ASSUME NEW p \in Procs, NEW k \in Keys, PutStart(p, k) PROVE StateOK'
  BY <1>2, <1>c, SMT DEF PutStart, Temps
<1>3. ASSUME NEW p \in Procs, PutStat(p) PROVE StateOK'
  BY <1>3, <1>a, SMT DEF PutStat, AfterStat
<1>4. ASSUME NEW p \in Procs, PutCreateTemp(p) PROVE StateOK'
  BY <1>4 DEF PutCreateTemp, TempPath, FileRec, ArgsOK, Paths
<1>5. ASSUME NEW p \in Procs, PutCopied(p) PROVE StateOK'
  BY <1>5, SMT DEF PutCopied, TempPath, AfterCopy, FileRec, ArgsOK, Paths, need
<1>6. ASSUME NEW p \in Procs, PutCopyFails(p) PROVE StateOK'
  BY <1>6, <1>a, Zenon DEF PutCopyFails, Without
<1>7. ASSUME NEW p \in Procs, PutCapacity(p) PROVE StateOK'
  <2>1. need(p) \in Nat
    BY <1>7 DEF PutCapacity, need, ArgsOK
  <2>2. CASE MaxBytes > 0 /\ ~TooLarge(p)
    <3>1. MaxBytes - need(p) \in Nat
      BY <1>c, <2>1, <2>2, SMT DEF TooLarge
    <3>2. CASE Fits(p)
      BY <1>7, <2>2, <3>2 DEF PutCapacity, AfterCapacity
    <3>3. CASE ~Fits(p)
      <4>1. CallPrune(p, MaxBytes - need(p)) /\ UNCHANGED disk
        BY <1>7, <2>2, <3>3, SMT DEF PutCapacity
      <4>2. pr' \in [Procs -> PruneLocals]
        BY <3>1, <4>1, PruneAssign, Zenon DEF CallPrune
      <4> QED
        BY <1>7, <4>1, <4>2 DEF PutCapacity, CallPrune
    <3> QED
      BY <3>2, <3>3
  <2>3. CASE MaxBytes = 0
    BY <1>7, <2>3 DEF PutCapacity, AfterCapacity
  <2>4. CASE MaxBytes > 0 /\ TooLarge(p)
    BY <1>7, <1>a, <2>4, SMT DEF PutCapacity, Reject, Without
  <2> QED
    BY <1>c, <2>2, <2>3, <2>4, SMT
<1>8. ASSUME NEW p \in Procs, PutRecheck(p) PROVE StateOK'
  BY <1>8, <1>a, SMT DEF PutRecheck, Reject, AfterCapacity, Without
<1>9. ASSUME NEW p \in Procs, PutRename(p) PROVE StateOK'
  BY <1>9, <1>a, SMT DEF PutRename, Exists, ArgsOK, Paths
<1>10. ASSUME NEW p \in Procs, PutAdd(p) PROVE StateOK'
  BY <1>10, <1>a DEF PutAdd
<1>11. ASSUME NEW p \in Procs, NEW k \in Keys, DeleteStart(p, k) PROVE StateOK'
  BY <1>11, <1>a, SMT DEF DeleteStart
<1>12. ASSUME NEW p \in Procs, DeleteRemove(p) PROVE StateOK'
  <2>1. disk' \in [Paths -> FileRec \cup {None}]
    BY <1>12, Zenon DEF DeleteRemove, Without
  <2> QED
    BY <2>1, <1>12, <1>a, SMT DEF DeleteRemove
<1>13. ASSUME NEW p \in Procs, DeleteSubtract(p) PROVE StateOK'
  BY <1>13, <1>a DEF DeleteSubtract
<1>14. ASSUME NEW p \in Procs, NEW t \in Nat, PruneStart(p, t) PROVE StateOK'
  BY <1>14, PruneAssign, Zenon DEF PruneStart, CallPrune
<1>15. ASSUME NEW p \in Procs, PruneLock(p) PROVE StateOK'
  <2>1. Present \in SUBSET Paths
    BY DEF Present
  <2> QED
    BY <2>1, <1>15, PruneAssign, Zenon DEF PruneLock, Lock
<1>16. ASSUME NEW p \in Procs, PruneWalk(p) PROVE StateOK'
  <2>1. PICK path \in pr[p].todo : PruneWalk(p)!2!(path)
    BY <1>16 DEF PruneWalk
  <2>2. pr[p] \in PruneLocals
    OBVIOUS
  <2>3. /\ path \in Paths
        /\ pr[p].todo \ {path} \in SUBSET Paths
        /\ pr[p].entries \in SUBSET Entry
        /\ pr[p].remaining \in Int
    BY <2>1, <2>2 DEF PruneLocals
  <2>4. CASE Exists(path)
    <3>1. EntryOf(path) \in Entry /\ disk[path].size \in Nat
      BY <2>3, <2>4 DEF EntryOf, Entry, Exists, FileRec
    <3>2. pr[p].entries \cup {EntryOf(path)} \in SUBSET Entry
          /\ pr[p].remaining + disk[path].size \in Int
      BY <2>3, <3>1, SMT
    <3>3. pr' \in [Procs -> PruneLocals]
      BY <2>1, <2>2, <2>3, <2>4, <3>2, SMT DEF PruneLocals
    <3> QED
      BY <1>16, <2>1, <2>4, <3>3 DEF PruneWalk
  <2>5. CASE ~Exists(path)
    <3>1. [NoPrune EXCEPT !.target = pr[p].target] \in PruneLocals
      BY <2>2, SMT DEF PruneLocals, NoPrune
    <3> QED
      BY <1>16, <2>1, <2>5, <3>1, SMT DEF PruneWalk
  <2> QED
    BY <2>4, <2>5
<1>17. ASSUME NEW p \in Procs, PruneWalked(p) PROVE StateOK'
  BY <1>17 DEF PruneWalked
<1>18. ASSUME NEW p \in Procs, PruneRemove(p) PROVE StateOK'
  <2>1. PICK e \in Oldest(pr[p].entries) : PruneRemove(p)!3!(e)
    BY <1>18, Zenon DEF PruneRemove
  <2>2. pr[p] \in PruneLocals
    OBVIOUS
  <2>3. e \in Entry /\ pr[p].entries \ {e} \in SUBSET Entry /\ pr[p].remaining \in Int
    BY <2>1, <2>2 DEF Oldest, PruneLocals
  <2>4. pr[p].remaining - Freed(e) \in Int
    BY <2>3, SMT DEF Freed, Entry
  <2>5. disk' \in [Paths -> FileRec \cup {None}]
    BY <2>1, Zenon DEF Without
  <2> QED
    BY <1>18, <2>1, <2>3, <2>4, <2>5, PruneAssign, Zenon DEF PruneRemove, Rest
<1>19. ASSUME NEW p \in Procs, PruneRemoved(p) PROVE StateOK'
  BY <1>19 DEF PruneRemoved
<1>20. ASSUME NEW p \in Procs, PruneStore(p) PROVE StateOK'
  BY <1>20, <1>a, SMT DEF PruneStore, Unlock
<1>21. ASSUME NEW p \in Procs, PruneRemoveFails(p) PROVE StateOK'
  BY <1>21, <1>a, Zenon DEF PruneRemoveFails, Unlock, Without
<1>22. ASSUME NEW c \in Caches, Restart(c) PROVE StateOK'
  BY <1>22, <1>a, SMT DEF Restart
<1> QED
  BY <1>1, <1>2, <1>3, <1>4, <1>5, <1>6, <1>7, <1>8, <1>9, <1>10, <1>11, <1>12, <1>13,
     <1>14, <1>15, <1>16, <1>17, <1>18, <1>19, <1>20, <1>21, <1>22,
     ConfigFacts, Zenon
  DEF Next, Step, Fault, Call
\* The three outcomes of ensureCapacity up to its call of Prune.
LEMMA CapacityOutcomes ==
  ASSUME NEW p, PutCapacity(p)
  PROVE  \/ Reject(p)
         \/ Goto(p, AfterCapacity) /\ UNCHANGED disk
         \/ CallPrune(p, MaxBytes - need(p)) /\ UNCHANGED disk
  BY DEF PutCapacity

\* Every step keeps the arguments, the temporary files and the cached files.
LEMMA SafeStep == IInv /\ [Next]_vars => (ArgsOK /\ TempsOK /\ TempFilesOK /\ WholeAtKey)'
<1> DEFINE Goal == ArgsOK /\ TempsOK /\ TempFilesOK /\ WholeAtKey
<1> SUFFICES ASSUME IInv, [Next]_vars PROVE Goal'
  OBVIOUS
<1> USE DiskCacheAssumption DEF IInv, StateOK, ArgsOK, TempsOK, TempFilesOK, WholeAtKey,
        At, Goto, Return, Exists, locals, Labels, PutLabels, PruneLabels, Paths, Temps
<1>1. CASE UNCHANGED vars
  BY <1>1 DEF vars
<1>2. ASSUME NEW p \in Procs, NEW k \in Keys, PutStart(p, k) PROVE Goal'
  BY <1>2, ConfigFacts, SMT DEF PutStart
<1>3. ASSUME NEW p \in Procs, PutStat(p) PROVE Goal'
  BY <1>3, SMT DEF PutStat, AfterStat
<1>4. ASSUME NEW p \in Procs, PutCreateTemp(p) PROVE Goal'
  BY <1>4, SMTT(30) DEF PutCreateTemp, TempPath
<1>5. ASSUME NEW p \in Procs, PutCopied(p) PROVE Goal'
  BY <1>5, SMT DEF PutCopied, TempPath, AfterCopy, need
<1>6. ASSUME NEW p \in Procs, PutCopyFails(p) PROVE Goal'
  BY <1>6, SMT DEF PutCopyFails, Without
<1>7. ASSUME NEW p \in Procs, PutCapacity(p) PROVE Goal'
  <2>1. CASE Reject(p)
    BY <1>7, <2>1, SMT DEF PutCapacity, Reject, Without
  <2>2. CASE Goto(p, AfterCapacity) /\ UNCHANGED disk
    BY <1>7, <2>2, SMT DEF PutCapacity, AfterCapacity
  <2>3. CASE CallPrune(p, MaxBytes - need(p)) /\ UNCHANGED disk
    BY <1>7, <2>3, SMT DEF PutCapacity, CallPrune
  <2> QED
    BY <1>7, <2>1, <2>2, <2>3, CapacityOutcomes, Zenon
<1>8. ASSUME NEW p \in Procs, PutRecheck(p) PROVE Goal'
  <2>1. CASE Reject(p)
    BY <1>8, <2>1, SMT DEF PutRecheck, Reject, Without
  <2>2. CASE Goto(p, AfterCapacity) /\ UNCHANGED disk
    BY <1>8, <2>2, SMT DEF PutRecheck, AfterCapacity
  <2> QED
    BY <1>8, <2>1, <2>2 DEF PutRecheck
<1>9. ASSUME NEW p \in Procs, PutRename(p) PROVE Goal'
  <2>1. CASE ~Exists(tmp[p])
    <3>1. WholeAtKey'
      BY <1>9, <2>1 DEF PutRename
    <3>2. ArgsOK' /\ TempsOK'
      BY <1>9, <2>1, SMT DEF PutRename
    <3>3. TempFilesOK'
      BY <1>9, <2>1, SMT DEF PutRename
    <3> QED
      BY <3>1, <3>2, <3>3
  <2>2. CASE Exists(tmp[p])
    <3>1. tmp[p] \in Temps /\ key[p] \in Keys
      BY <1>9 DEF PutRename
    <3>2. disk' = [disk EXCEPT ![key[p]] = disk[tmp[p]], ![tmp[p]] = None]
      BY <1>9, <2>2 DEF PutRename
    <3>3. WholeAtKey'
      BY <1>9, <2>2, <3>1, <3>2 DEF PutRename
    <3>4. ArgsOK' /\ TempsOK'
      BY <1>9, <2>2, <3>1, <3>2, SMT DEF PutRename
    <3>5. TempFilesOK'
      BY <1>9, <2>2, <3>1, <3>2, SMT DEF PutRename
    <3> QED
      BY <3>3, <3>4, <3>5
  <2> QED
    BY <2>1, <2>2, Zenon
<1>10. ASSUME NEW p \in Procs, PutAdd(p) PROVE Goal'
  BY <1>10, SMT DEF PutAdd
<1>11. ASSUME NEW p \in Procs, NEW k \in Keys, DeleteStart(p, k) PROVE Goal'
  BY <1>11, SMT DEF DeleteStart
<1>12. ASSUME NEW p \in Procs, DeleteRemove(p) PROVE Goal'
  BY <1>12, SMT DEF DeleteRemove, Without
<1>13. ASSUME NEW p \in Procs, DeleteSubtract(p) PROVE Goal'
  BY <1>13, SMT DEF DeleteSubtract
<1>14. ASSUME NEW p \in Procs, NEW t \in Nat, PruneStart(p, t) PROVE Goal'
  BY <1>14, SMT DEF PruneStart, CallPrune
<1>15. ASSUME NEW p \in Procs, PruneLock(p) PROVE Goal'
  BY <1>15, SMT DEF PruneLock
<1>16. ASSUME NEW p \in Procs, PruneWalk(p) PROVE Goal'
  BY <1>16, SMT DEF PruneWalk
<1>17. ASSUME NEW p \in Procs, PruneWalked(p) PROVE Goal'
  BY <1>17, SMT DEF PruneWalked
<1>18. ASSUME NEW p \in Procs, PruneRemove(p) PROVE Goal'
  BY <1>18, SMT DEF PruneRemove, Without, Oldest
<1>19. ASSUME NEW p \in Procs, PruneRemoved(p) PROVE Goal'
  BY <1>19, SMT DEF PruneRemoved
<1>20. ASSUME NEW p \in Procs, PruneStore(p) PROVE Goal'
  BY <1>20, SMTT(30) DEF PruneStore
<1>21. ASSUME NEW p \in Procs, PruneRemoveFails(p) PROVE Goal'
  BY <1>21, SMT DEF PruneRemoveFails, Without
<1>22. ASSUME NEW c \in Caches, Restart(c) PROVE Goal'
  BY <1>22 DEF Restart
<1> QED
  BY <1>1, <1>2, <1>3, <1>4, <1>5, <1>6, <1>7, <1>8, <1>9, <1>10, <1>11, <1>12,
     <1>13, <1>14, <1>15, <1>16, <1>17, <1>18, <1>19, <1>20, <1>21, <1>22,
     ConfigFacts, Zenon
  DEF Next, Step, Fault, Call

\* No interleaving of Puts, Deletes, prunes, failures and crashes leaves partial
\* or foreign content at the path of a key: what Get opens is what was Put.
THEOREM WholeAtKeyHolds == Spec => []WholeAtKey
<1>1. IInv /\ [Next]_vars => IInv'
  BY TypeStep, SafeStep DEF IInv
<1>2. IInv => WholeAtKey
  BY DEF IInv
<1> QED
  BY InitIInv, <1>1, <1>2, PTL DEF Spec

\* The types hold, so that no prune ever runs towards a negative target.
THEOREM StateOKHolds == Spec => []StateOK
<1>1. IInv /\ [Next]_vars => IInv'
  BY TypeStep, SafeStep DEF IInv
<1>2. IInv => StateOK
  BY DEF IInv
<1> QED
  BY InitIInv, <1>1, <1>2, PTL DEF Spec

\* Each way out of a running Put removes its temporary file.
LEMMA LeakStep == IInv /\ NoTempLeak /\ [Next]_vars => NoTempLeak'
<1> SUFFICES ASSUME IInv, NoTempLeak, [Next]_vars PROVE NoTempLeak'
  OBVIOUS
<1> USE DiskCacheAssumption DEF IInv, StateOK, ArgsOK, TempsOK, TempFilesOK, NoTempLeak,
        At, Goto, Return, Exists, locals, Labels, PutLabels, PruneLabels, Paths, Temps
<1>1. CASE UNCHANGED vars
  BY <1>1 DEF vars
<1>2. ASSUME NEW p \in Procs, NEW k \in Keys, PutStart(p, k) PROVE NoTempLeak'
  BY <1>2, SMT DEF PutStart
<1>3. ASSUME NEW p \in Procs, PutStat(p) PROVE NoTempLeak'
  BY <1>3, SMT DEF PutStat, AfterStat
<1>4. ASSUME NEW p \in Procs, PutCreateTemp(p) PROVE NoTempLeak'
  BY <1>4, SMT DEF PutCreateTemp, TempPath
<1>5. ASSUME NEW p \in Procs, PutCopied(p) PROVE NoTempLeak'
  BY <1>5 DEF PutCopied, TempPath, AfterCopy
<1>6. ASSUME NEW p \in Procs, PutCopyFails(p) PROVE NoTempLeak'
  BY <1>6 DEF PutCopyFails, Without
<1>7. ASSUME NEW p \in Procs, PutCapacity(p) PROVE NoTempLeak'
  <2>1. CASE Reject(p)
    BY <1>7, <2>1 DEF PutCapacity, Reject, Without
  <2>2. CASE Goto(p, AfterCapacity) /\ UNCHANGED disk
    BY <1>7, <2>2 DEF PutCapacity, AfterCapacity
  <2>3. CASE CallPrune(p, MaxBytes - need(p)) /\ UNCHANGED disk
    BY <1>7, <2>3 DEF PutCapacity, CallPrune
  <2> QED
    BY <1>7, <2>1, <2>2, <2>3, CapacityOutcomes
<1>8. ASSUME NEW p \in Procs, PutRecheck(p) PROVE NoTempLeak'
  <2>1. CASE Reject(p)
    BY <1>8, <2>1 DEF PutRecheck, Reject, Without
  <2>2. CASE Goto(p, AfterCapacity) /\ UNCHANGED disk
    BY <1>8, <2>2 DEF PutRecheck, AfterCapacity
  <2> QED
    BY <1>8, <2>1, <2>2 DEF PutRecheck
<1>9. ASSUME NEW p \in Procs, PutRename(p) PROVE NoTempLeak'
  <2>1. CASE Exists(tmp[p])
    BY <1>9, <2>1, SMT DEF PutRename
  <2>2. CASE ~Exists(tmp[p])
    BY <1>9, <2>2, SMT DEF PutRename
  <2> QED
    BY <2>1, <2>2
<1>10. ASSUME NEW p \in Procs, PutAdd(p) PROVE NoTempLeak'
  BY <1>10, SMT DEF PutAdd
<1>11. ASSUME NEW p \in Procs, NEW k \in Keys, DeleteStart(p, k) PROVE NoTempLeak'
  BY <1>11, SMT DEF DeleteStart
<1>12. ASSUME NEW p \in Procs, DeleteRemove(p) PROVE NoTempLeak'
  BY <1>12, SMT DEF DeleteRemove, Without
<1>13. ASSUME NEW p \in Procs, DeleteSubtract(p) PROVE NoTempLeak'
  BY <1>13, SMT DEF DeleteSubtract
<1>14. ASSUME NEW p \in Procs, NEW t \in Nat, PruneStart(p, t) PROVE NoTempLeak'
  BY <1>14 DEF PruneStart, CallPrune
<1>15. ASSUME NEW p \in Procs, PruneLock(p) PROVE NoTempLeak'
  BY <1>15 DEF PruneLock, Lock
<1>16. ASSUME NEW p \in Procs, PruneWalk(p) PROVE NoTempLeak'
  BY <1>16, SMT DEF PruneWalk
<1>17. ASSUME NEW p \in Procs, PruneWalked(p) PROVE NoTempLeak'
  BY <1>17 DEF PruneWalked
<1>18. ASSUME NEW p \in Procs, PruneRemove(p) PROVE NoTempLeak'
  BY <1>18, SMT DEF PruneRemove, Without
<1>19. ASSUME NEW p \in Procs, PruneRemoved(p) PROVE NoTempLeak'
  BY <1>19 DEF PruneRemoved
<1>20. ASSUME NEW p \in Procs, PruneStore(p) PROVE NoTempLeak'
  BY <1>20, SMT DEF PruneStore, Unlock
<1>21. ASSUME NEW p \in Procs, PruneRemoveFails(p) PROVE NoTempLeak'
  BY <1>21, SMT DEF PruneRemoveFails, Without, Unlock
<1>22. ASSUME NEW c \in Caches, Restart(c) PROVE NoTempLeak'
  <2>1. crashes \in Nat /\ crashes' = crashes + 1
    BY <1>22 DEF Restart
  <2>2. crashes' # 0
    BY <2>1, SMT
  <2> QED
    BY <2>2, Zenon
<1> QED
  BY <1>1, <1>2, <1>3, <1>4, <1>5, <1>6, <1>7, <1>8, <1>9, <1>10, <1>11, <1>12,
     <1>13, <1>14, <1>15, <1>16, <1>17, <1>18, <1>19, <1>20, <1>21, <1>22,
     ConfigFacts, Zenon
  DEF Next, Step, Fault, Call

\* Without a crash, the directory holds no temporary file that no Put owns.
THEOREM NoTempLeakHolds == Spec => []NoTempLeak
<1>1. Init => NoTempLeak
  BY DEF Init, NoTempLeak, Exists, Paths
<1>2. IInv /\ [Next]_vars => IInv'
  BY TypeStep, SafeStep DEF IInv
<1> QED
  BY InitIInv, LeakStep, <1>1, <1>2, PTL DEF Spec

\* pruneMu is taken on the way into pruneDir and released on every way out.
LEMMA LockStep == StateOK /\ OnePruner /\ [Next]_vars => OnePruner'
<1> SUFFICES ASSUME StateOK, OnePruner, [Next]_vars PROVE OnePruner'
  OBVIOUS
<1> USE DiskCacheAssumption DEF StateOK, OnePruner, At, Goto, Return, locals, PruneLabels
<1>1. CASE UNCHANGED vars
  BY <1>1 DEF vars
<1>2. ASSUME NEW p \in Procs, NEW k \in Keys, PutStart(p, k) PROVE OnePruner'
  BY <1>2 DEF PutStart
<1>3. ASSUME NEW p \in Procs, PutStat(p) PROVE OnePruner'
  BY <1>3, SMT DEF PutStat, AfterStat
<1>4. ASSUME NEW p \in Procs, PutCreateTemp(p) PROVE OnePruner'
  BY <1>4 DEF PutCreateTemp, TempPath
<1>5. ASSUME NEW p \in Procs, PutCopied(p) PROVE OnePruner'
  BY <1>5 DEF PutCopied, TempPath, AfterCopy
<1>6. ASSUME NEW p \in Procs, PutCopyFails(p) PROVE OnePruner'
  BY <1>6 DEF PutCopyFails, Without
<1>7. ASSUME NEW p \in Procs, PutCapacity(p) PROVE OnePruner'
  <2>1. CASE Reject(p)
    BY <1>7, <2>1 DEF PutCapacity, Reject, Without
  <2>2. CASE Goto(p, AfterCapacity) /\ UNCHANGED disk
    BY <1>7, <2>2 DEF PutCapacity, AfterCapacity
  <2>3. CASE CallPrune(p, MaxBytes - need(p)) /\ UNCHANGED disk
    BY <1>7, <2>3 DEF PutCapacity, CallPrune
  <2> QED
    BY <1>7, <2>1, <2>2, <2>3, CapacityOutcomes
<1>8. ASSUME NEW p \in Procs, PutRecheck(p) PROVE OnePruner'
  <2>1. CASE Reject(p)
    BY <1>8, <2>1 DEF PutRecheck, Reject, Without
  <2>2. CASE Goto(p, AfterCapacity) /\ UNCHANGED disk
    BY <1>8, <2>2 DEF PutRecheck, AfterCapacity
  <2> QED
    BY <1>8, <2>1, <2>2 DEF PutRecheck
<1>9. ASSUME NEW p \in Procs, PutRename(p) PROVE OnePruner'
  BY <1>9, SMT DEF PutRename
<1>10. ASSUME NEW p \in Procs, PutAdd(p) PROVE OnePruner'
  BY <1>10 DEF PutAdd
<1>11. ASSUME NEW p \in Procs, NEW k \in Keys, DeleteStart(p, k) PROVE OnePruner'
  BY <1>11, SMT DEF DeleteStart
<1>12. ASSUME NEW p \in Procs, DeleteRemove(p) PROVE OnePruner'
  BY <1>12, SMT DEF DeleteRemove, Without
<1>13. ASSUME NEW p \in Procs, DeleteSubtract(p) PROVE OnePruner'
  BY <1>13 DEF DeleteSubtract
<1>14. ASSUME NEW p \in Procs, NEW t \in Nat, PruneStart(p, t) PROVE OnePruner'
  BY <1>14 DEF PruneStart, CallPrune
<1>15. ASSUME NEW p \in Procs, PruneLock(p) PROVE OnePruner'
  BY <1>15, SMT DEF PruneLock, Lock
<1>16. ASSUME NEW p \in Procs, PruneWalk(p) PROVE OnePruner'
  BY <1>16, SMT DEF PruneWalk
<1>17. ASSUME NEW p \in Procs, PruneWalked(p) PROVE OnePruner'
  BY <1>17 DEF PruneWalked
<1>18. ASSUME NEW p \in Procs, PruneRemove(p) PROVE OnePruner'
  BY <1>18 DEF PruneRemove, Without
<1>19. ASSUME NEW p \in Procs, PruneRemoved(p) PROVE OnePruner'
  BY <1>19 DEF PruneRemoved
<1>20. ASSUME NEW p \in Procs, PruneStore(p) PROVE OnePruner'
  BY <1>20, SMT DEF PruneStore, Unlock
<1>21. ASSUME NEW p \in Procs, PruneRemoveFails(p) PROVE OnePruner'
  BY <1>21, SMT DEF PruneRemoveFails, Without, Unlock
<1>22. ASSUME NEW c \in Caches, Restart(c) PROVE OnePruner'
  BY <1>22 DEF Restart
<1> QED
  BY <1>1, <1>2, <1>3, <1>4, <1>5, <1>6, <1>7, <1>8, <1>9, <1>10, <1>11, <1>12,
     <1>13, <1>14, <1>15, <1>16, <1>17, <1>18, <1>19, <1>20, <1>21, <1>22,
     ConfigFacts, Zenon
  DEF Next, Step, Fault, Call

\* At any time at most one goroutine per cache object prunes, and it is the one
\* that holds the mutex.
THEOREM OnePrunerHolds == Spec => []OnePruner
<1>1. Init => OnePruner
  BY DiskCacheAssumption, SMT DEF Init, OnePruner, PruneLabels
<1> QED
  BY StateOKHolds, LockStep, <1>1, PTL DEF Spec

-----------------------------------------------------------------------------
(* The directory caches implement ContentCache *)

\* Under the invariant Get finds the content of its key or nothing.
LEMMA ContentIs ==
  ASSUME IInv
  PROVE  Content = [k \in Keys |-> IF disk[k] = None THEN None ELSE k]
  BY DEF IInv, WholeAtKey, Content, ContentAt, Exists

\* The same of the next state.
LEMMA ContentIsPrimed ==
  ASSUME IInv'
  PROVE  Content' = [k \in Keys |-> IF disk'[k] = None THEN None ELSE k]
  BY DEF IInv, WholeAtKey, Content, ContentAt, Exists

\* A step that leaves the files of the keys alone does not change the content.
LEMMA SameContent ==
  ASSUME IInv, IInv', \A k \in Keys : disk'[k] = disk[k]
  PROVE  Content' = Content
  BY ContentIs, ContentIsPrimed, SMT

\* A step that removes the file of one key evicts its content.
LEMMA OneRemoved ==
  ASSUME IInv, IInv', NEW k \in Keys, disk'[k] = None,
         \A j \in Keys : j # k => disk'[j] = disk[j]
  PROVE  Content' = [Content EXCEPT ![k] = None]
  BY ContentIs, ContentIsPrimed, SMT

\* A step that puts a file at the path of one key stores its content.
LEMMA OneStored ==
  ASSUME IInv, IInv', NEW k \in Keys, disk'[k] # None,
         \A j \in Keys : j # k => disk'[j] = disk[j]
  PROVE  Content' = [Content EXCEPT ![k] = k]
  BY ContentIs, ContentIsPrimed, SMT

\* The step of one goroutine changes its own pending call.
LEMMA OneCall ==
  ASSUME NEW p \in Procs, NEW c,
         \A q \in Procs : CallOf(q)' = IF q = p THEN c ELSE CallOf(q)
  PROVE  Pending' = [Pending EXCEPT ![p] = c]
  BY Zenon DEF Pending

\* The call of p returns or changes, the others do not.
LEMMA Returned ==
  ASSUME StateOK, NEW p \in Procs, NEW r, Return(p, r)
  PROVE  Pending' = [Pending EXCEPT ![p] = Interface!NoCall]
<1>1. \A q \in Procs : CallOf(q)' = IF q = p THEN Interface!NoCall ELSE CallOf(q)
  BY DEF StateOK, Return, CallOf, At, Interface!NoCall
<1> QED
  BY <1>1, OneCall

\* Where no call begins or ends, the pending calls stay.
LEMMA Silent ==
  ASSUME \A q \in Procs : CallOf(q)' = CallOf(q)
  PROVE  Pending' = Pending
  BY DEF Pending

\* A Put that returns without touching the file of a key.
LEMMA PutReturns ==
  ASSUME IInv, IInv', NEW p \in Procs, NEW r, Return(p, r), tmp[p] # None,
         \A k \in Keys : disk'[k] = disk[k]
  PROVE  Interface!Next
<1>1. Content' = Content /\ Pending' = [Pending EXCEPT ![p] = Interface!NoCall]
  BY SameContent, Returned, Zenon DEF IInv
<1>2. key[p] \in Keys
  BY DEF IInv, ArgsOK
<1>3. Pending[p] \in {Interface!Begun("put", key[p]), Interface!Done("put", key[p])}
  BY DEF Pending, CallOf, Interface!Begun, Interface!Done
<1> QED
  BY <1>1, <1>2, <1>3, Zenon DEF Interface!Next, Interface!Return

\* Inside Put the key and the temporary name are set and are different paths.
LEMMA PutArgs ==
  ASSUME IInv, NEW p \in Procs,
         pc[p] \in {"stat", "create", "copy", "capacity", "recheck", "rename", "add"}
  PROVE  tmp[p] # None /\ key[p] \in Keys /\ tmp[p] \in Temps /\ tmp[p] \in Paths /\ tmp[p] \notin Keys
<1>1. tmp[p] # None
  BY DEF IInv, ArgsOK, PutLabels
<1>2. tmp[p] \in Temps /\ key[p] \in Keys
  BY <1>1 DEF IInv, ArgsOK, StateOK
<1> QED
  BY <1>1, <1>2, DiskCacheAssumption DEF Paths, Temps

-----------------------------------------------------------------------------
(* Every step of the caches is a step of the interface or leaves it unchanged *)

Implemented == Interface!Next \/ UNCHANGED Interface!vars

\* Put is called: the call begins.
LEMMA PutStartImplemented ==
  ASSUME IInv, IInv', NEW p \in Procs, NEW k \in Keys, PutStart(p, k)
  PROVE  Implemented
<1> USE DiskCacheAssumption DEF IInv, StateOK, ArgsOK, At, Goto, locals, Implemented
<1>1. Content' = Content
  BY SameContent DEF PutStart
<1>2. puts + 1 # None
  BY ConfigFacts, SMT DEF PutStart, Temps
<1>3. \A q \in Procs : CallOf(q)' = IF q = p THEN Interface!Begun("put", k) ELSE CallOf(q)
  BY <1>2 DEF PutStart, CallOf, Interface!Begun
<1>4. Pending[p] = Interface!NoCall
  BY DEF PutStart, Pending, CallOf, Interface!NoCall
<1> QED
  BY <1>1, <1>3, <1>4, OneCall, Zenon DEF Interface!Next, Interface!Begin

\* The key is there already: Put returns; otherwise nothing is visible yet.
LEMMA PutStatImplemented ==
  ASSUME IInv, IInv', NEW p \in Procs, PutStat(p)
  PROVE  Implemented
<1> USE DiskCacheAssumption DEF IInv, StateOK, ArgsOK, At, Goto, locals, Implemented
<1>1. CASE Exists(key[p])
  BY <1>1, PutArgs, PutReturns DEF PutStat
<1>2. CASE ~Exists(key[p])
  <2>1. \A q \in Procs : CallOf(q)' = CallOf(q)
    BY <1>2, SMT DEF PutStat, AfterStat, CallOf
  <2> QED
    BY <1>2, <2>1, SameContent, Silent DEF PutStat, Interface!vars
<1> QED
  BY <1>1, <1>2

\* A temporary file is not content.
LEMMA PutCreateTempImplemented ==
  ASSUME IInv, IInv', NEW p \in Procs, PutCreateTemp(p)
  PROVE  Implemented
<1> USE DiskCacheAssumption DEF IInv, StateOK, ArgsOK, At, Goto, locals, Implemented
<1>1. \A k \in Keys : disk'[k] = disk[k]
  BY SMT DEF PutCreateTemp, TempPath
<1>2. \A q \in Procs : CallOf(q)' = CallOf(q)
  BY DEF PutCreateTemp, TempPath, CallOf
<1> QED
  BY <1>1, <1>2, SameContent, Silent DEF Interface!vars

\* The copy goes to the temporary file.
LEMMA PutCopiedImplemented ==
  ASSUME IInv, IInv', NEW p \in Procs, PutCopied(p)
  PROVE  Implemented
<1> USE DiskCacheAssumption DEF IInv, StateOK, ArgsOK, At, Goto, locals, Implemented
<1>1. \A k \in Keys : disk'[k] = disk[k]
  BY SMT DEF PutCopied, TempPath, AfterCopy
<1>2. \A q \in Procs : CallOf(q)' = CallOf(q)
  BY DEF PutCopied, TempPath, AfterCopy, CallOf
<1> QED
  BY <1>1, <1>2, SameContent, Silent DEF Interface!vars

\* Put fails and removes its temporary file.
LEMMA PutCopyFailsImplemented ==
  ASSUME IInv, IInv', NEW p \in Procs, PutCopyFails(p)
  PROVE  Implemented
<1> USE DiskCacheAssumption DEF IInv, StateOK, ArgsOK, At, Goto, locals, Implemented
<1>1. \A k \in Keys : disk'[k] = disk[k]
  BY PutArgs, SMT DEF PutCopyFails, Without, Paths
<1>2. Return(p, "err") /\ tmp[p] # None
  BY PutArgs DEF PutCopyFails
<1> QED
  BY <1>1, <1>2, PutReturns

\* Put gives up, goes on or prunes.
LEMMA PutCapacityImplemented ==
  ASSUME IInv, IInv', NEW p \in Procs, PutCapacity(p)
  PROVE  Implemented
<1> USE DiskCacheAssumption DEF IInv, StateOK, ArgsOK, At, Goto, locals, Implemented
<1>1. CASE Reject(p)
  <2>1. \A k \in Keys : disk'[k] = disk[k]
    BY <1>1, PutArgs, SMT DEF PutCapacity, Reject, Without, Paths
  <2> QED
    BY <1>1, <2>1, PutArgs, PutReturns DEF PutCapacity, Reject
<1>2. CASE UNCHANGED disk /\ (Goto(p, AfterCapacity) \/ CallPrune(p, MaxBytes - need(p)))
  <2>1. \A q \in Procs : CallOf(q)' = CallOf(q)
    BY <1>2, SMT DEF PutCapacity, AfterCapacity, CallPrune, CallOf
  <2> QED
    BY <1>2, <2>1, SameContent, Silent DEF Interface!vars
<1> QED
  BY <1>1, <1>2, CapacityOutcomes

\* Put gives up or goes on after its prune.
LEMMA PutRecheckImplemented ==
  ASSUME IInv, IInv', NEW p \in Procs, PutRecheck(p)
  PROVE  Implemented
<1> USE DiskCacheAssumption DEF IInv, StateOK, ArgsOK, At, Goto, locals, Implemented
<1>1. CASE Reject(p)
  <2>1. \A k \in Keys : disk'[k] = disk[k]
    BY <1>1, PutArgs, SMT DEF PutRecheck, Reject, Without, Paths
  <2> QED
    BY <1>1, <2>1, PutArgs, PutReturns DEF PutRecheck, Reject
<1>2. CASE UNCHANGED disk /\ Goto(p, AfterCapacity)
  <2>1. \A q \in Procs : CallOf(q)' = CallOf(q)
    BY <1>2 DEF PutRecheck, AfterCapacity, CallOf
  <2> QED
    BY <1>2, <2>1, SameContent, Silent DEF Interface!vars
<1> QED
  BY <1>1, <1>2 DEF PutRecheck

\* The rename is the instant at which Put stores.
LEMMA PutRenameImplemented ==
  ASSUME IInv, IInv', NEW p \in Procs, PutRename(p)
  PROVE  Implemented
<1> USE DiskCacheAssumption DEF IInv, StateOK, ArgsOK, At, Goto, locals, Implemented
<1>1. CASE ~Exists(tmp[p])
  BY <1>1, PutArgs, PutReturns DEF PutRename
<1>2. CASE Exists(tmp[p])
  <2>1. tmp[p] \in Paths \ Keys /\ key[p] \in Keys
    BY PutArgs DEF PutRename
  <2>2. Content' = [Content EXCEPT ![key[p]] = key[p]]
    <3>1. disk'[key[p]] = disk[tmp[p]]
      BY <1>2, <2>1 DEF PutRename, Paths
    <3>2. \A j \in Keys : j # key[p] => disk'[j] = disk[j]
      BY <1>2, <2>1 DEF PutRename, Paths
    <3> QED
      BY <1>2, <2>1, <3>1, <3>2, OneStored DEF Exists
  <2>3. \A q \in Procs : CallOf(q)' = IF q = p THEN Interface!Done("put", key[p]) ELSE CallOf(q)
    BY <1>2, <2>1, PutArgs DEF PutRename, CallOf, Interface!Done
  <2>4. Pending[p] = Interface!Begun("put", key[p])
    BY <2>1, PutArgs DEF PutRename, Pending, CallOf, Interface!Begun
  <2> QED
    BY <2>1, <2>2, <2>3, <2>4, OneCall, Zenon DEF Interface!Next, Interface!Store
<1> QED
  BY <1>1, <1>2

\* Put has stored its content and returns.
LEMMA PutAddImplemented ==
  ASSUME IInv, IInv', NEW p \in Procs, PutAdd(p)
  PROVE  Implemented
<1> USE DiskCacheAssumption DEF IInv, StateOK, ArgsOK, At, Goto, locals, Implemented
<1>1. \A k \in Keys : disk'[k] = disk[k]
  BY DEF PutAdd
<1>2. Return(p, "nil") /\ tmp[p] # None
  BY PutArgs DEF PutAdd
<1> QED
  BY <1>1, <1>2, PutReturns

\* Delete is called; it returns at once if there is nothing.
LEMMA DeleteStartImplemented ==
  ASSUME IInv, IInv', NEW p \in Procs, NEW k \in Keys, DeleteStart(p, k)
  PROVE  Implemented
<1> USE DiskCacheAssumption DEF IInv, StateOK, ArgsOK, At, Goto, locals, Implemented
<1>1. Content' = Content
  BY SameContent DEF DeleteStart
<1>2. CASE Exists(k)
  <2>1. \A q \in Procs : CallOf(q)' = IF q = p THEN Interface!Begun("delete", k) ELSE CallOf(q)
    BY <1>2, SMT DEF DeleteStart, CallOf, Interface!Begun
  <2>2. Pending[p] = Interface!NoCall
    BY DEF DeleteStart, Pending, CallOf, Interface!NoCall
  <2> QED
    BY <1>1, <2>1, <2>2, OneCall, Zenon DEF Interface!Next, Interface!Begin
<1>3. CASE ~Exists(k)
  <2>1. \A q \in Procs : CallOf(q)' = CallOf(q)
    BY <1>3, SMT DEF DeleteStart, Return, CallOf
  <2> QED
    BY <1>1, <2>1, Silent DEF Interface!vars
<1> QED
  BY <1>2, <1>3

\* The removal is the instant at which Delete drops, unless the file is gone.
LEMMA DeleteRemoveImplemented ==
  ASSUME IInv, IInv', NEW p \in Procs, DeleteRemove(p)
  PROVE  Implemented
<1> USE DiskCacheAssumption DEF IInv, StateOK, ArgsOK, At, Goto, locals, Implemented
<1>1. key[p] \in Keys /\ tmp[p] = None
  BY DEF DeleteRemove
<1>2. Content' = [Content EXCEPT ![key[p]] = None]
  BY <1>1, OneRemoved, SMT DEF DeleteRemove, Without
<1>3. Pending[p] = Interface!Begun("delete", key[p])
  BY <1>1 DEF DeleteRemove, Pending, CallOf, Interface!Begun
<1>4. CASE Exists(key[p])
  <2>1. \A q \in Procs : CallOf(q)' = IF q = p THEN Interface!Done("delete", key[p]) ELSE CallOf(q)
    BY <1>1, <1>4, SMT DEF DeleteRemove, CallOf, Interface!Done
  <2> QED
    BY <1>1, <1>2, <1>3, <2>1, OneCall, Zenon DEF Interface!Next, Interface!Drop
<1>5. CASE ~Exists(key[p])
  <2>1. Content[key[p]] = None /\ Content' = Content
    BY <1>1, <1>5, ContentIs, SameContent, SMT DEF DeleteRemove, Without, Exists
  <2>2. Pending' = [Pending EXCEPT ![p] = Interface!NoCall]
    BY <1>5, Returned DEF DeleteRemove
  <2> QED
    BY <1>1, <1>3, <2>1, <2>2, Zenon DEF Interface!Next, Interface!Return
<1> QED
  BY <1>4, <1>5

\* Delete has removed the content and returns.
LEMMA DeleteSubtractImplemented ==
  ASSUME IInv, IInv', NEW p \in Procs, DeleteSubtract(p)
  PROVE  Implemented
<1> USE DiskCacheAssumption DEF IInv, StateOK, ArgsOK, At, Goto, locals, Implemented
<1>1. Content' = Content /\ Pending' = [Pending EXCEPT ![p] = Interface!NoCall]
  BY SameContent, Returned DEF DeleteSubtract
<1>2. key[p] \in Keys /\ Pending[p] = Interface!Done("delete", key[p])
  BY DEF DeleteSubtract, Pending, CallOf, Interface!Done
<1> QED
  BY <1>1, <1>2, Zenon DEF Interface!Next, Interface!Return

\* Prune is no call of the interface.
LEMMA PruneStartImplemented ==
  ASSUME IInv, IInv', NEW p \in Procs, NEW t \in Nat, PruneStart(p, t)
  PROVE  Implemented
<1> USE DiskCacheAssumption DEF IInv, StateOK, ArgsOK, At, Goto, locals, Implemented
<1>1. \A k \in Keys : disk'[k] = disk[k]
  BY DEF PruneStart, CallPrune
<1>2. \A q \in Procs : CallOf(q)' = CallOf(q)
  BY DEF PruneStart, CallPrune, CallOf
<1> QED
  BY <1>1, <1>2, SameContent, Silent DEF Interface!vars

\* Taking the mutex is not visible.
LEMMA PruneLockImplemented ==
  ASSUME IInv, IInv', NEW p \in Procs, PruneLock(p)
  PROVE  Implemented
<1> USE DiskCacheAssumption DEF IInv, StateOK, ArgsOK, At, Goto, locals, Implemented
<1>1. \A k \in Keys : disk'[k] = disk[k]
  BY DEF PruneLock
<1>2. \A q \in Procs : CallOf(q)' = CallOf(q)
  BY DEF PruneLock, CallOf
<1> QED
  BY <1>1, <1>2, SameContent, Silent DEF Interface!vars

\* Listing is not visible.
LEMMA PruneWalkImplemented ==
  ASSUME IInv, IInv', NEW p \in Procs, PruneWalk(p)
  PROVE  Implemented
<1> USE DiskCacheAssumption DEF IInv, StateOK, ArgsOK, At, Goto, locals, Implemented
<1>1. \A k \in Keys : disk'[k] = disk[k]
  BY DEF PruneWalk
<1>2. \A q \in Procs : CallOf(q)' = CallOf(q)
  BY SMT DEF PruneWalk, CallOf
<1> QED
  BY <1>1, <1>2, SameContent, Silent DEF Interface!vars

\* Sorting is not visible.
LEMMA PruneWalkedImplemented ==
  ASSUME IInv, IInv', NEW p \in Procs, PruneWalked(p)
  PROVE  Implemented
<1> USE DiskCacheAssumption DEF IInv, StateOK, ArgsOK, At, Goto, locals, Implemented
<1>1. \A k \in Keys : disk'[k] = disk[k]
  BY DEF PruneWalked
<1>2. \A q \in Procs : CallOf(q)' = CallOf(q)
  BY DEF PruneWalked, CallOf
<1> QED
  BY <1>1, <1>2, SameContent, Silent DEF Interface!vars

\* Removing the file of a key evicts it; a temporary file is not content.
LEMMA PruneRemoveImplemented ==
  ASSUME IInv, IInv', NEW p \in Procs, PruneRemove(p)
  PROVE  Implemented
<1> USE DiskCacheAssumption DEF IInv, StateOK, ArgsOK, At, Goto, locals, Implemented
<1>1. \A q \in Procs : CallOf(q)' = CallOf(q)
  BY DEF PruneRemove, CallOf
<1>2. Pending' = Pending
  BY <1>1, Silent
<1>3. PICK path \in Paths : disk' = [disk EXCEPT ![path] = None]
  <2>1. pr[p].entries \subseteq Entry
    BY DEF PruneLocals
  <2> QED
    BY <2>1, Zenon DEF PruneRemove, Without, Oldest, Entry
<1>4. CASE path \in Keys
  <2>1. disk'[path] = None /\ \A j \in Keys : j # path => disk'[j] = disk[j]
    BY <1>3, <1>4 DEF Paths
  <2>2. Content' = [Content EXCEPT ![path] = None]
    BY <1>4, <2>1, OneRemoved
  <2> QED
    BY <1>2, <1>4, <2>2, Zenon DEF Interface!Next, Interface!Evict
<1>5. CASE path \notin Keys
  BY <1>2, <1>3, <1>5, SameContent, SMT DEF Interface!vars
<1> QED
  BY <1>4, <1>5

\* The end of the loop is not visible.
LEMMA PruneRemovedImplemented ==
  ASSUME IInv, IInv', NEW p \in Procs, PruneRemoved(p)
  PROVE  Implemented
<1> USE DiskCacheAssumption DEF IInv, StateOK, ArgsOK, At, Goto, locals, Implemented
<1>1. \A k \in Keys : disk'[k] = disk[k]
  BY DEF PruneRemoved
<1>2. \A q \in Procs : CallOf(q)' = CallOf(q)
  BY DEF PruneRemoved, CallOf
<1> QED
  BY <1>1, <1>2, SameContent, Silent DEF Interface!vars

\* Prune ends; a Put that asked for it goes on.
LEMMA PruneStoreImplemented ==
  ASSUME IInv, IInv', NEW p \in Procs, PruneStore(p)
  PROVE  Implemented
<1> USE DiskCacheAssumption DEF IInv, StateOK, ArgsOK, At, Goto, locals, Implemented
<1>1. \A q \in Procs : CallOf(q)' = CallOf(q)
  <2>1. CASE tmp[p] = None
    BY <2>1, SMTT(30) DEF PruneStore, Return, CallOf
  <2>2. CASE tmp[p] # None
    BY <2>2, SMT DEF PruneStore, CallOf
  <2> QED
    BY <2>1, <2>2
<1> QED
  BY <1>1, SameContent, Silent, Zenon DEF PruneStore, Interface!vars

\* Prune fails, and a Put that asked for it fails with it.
LEMMA PruneRemoveFailsImplemented ==
  ASSUME IInv, IInv', NEW p \in Procs, PruneRemoveFails(p)
  PROVE  Implemented
<1> USE DiskCacheAssumption DEF IInv, StateOK, ArgsOK, At, Goto, locals, Implemented
<1>1. \A k \in Keys : disk'[k] = disk[k]
  BY SMT DEF PruneRemoveFails, Without
<1>2. CASE tmp[p] # None
  BY <1>1, <1>2, PutReturns, Zenon DEF PruneRemoveFails
<1>3. CASE tmp[p] = None
  <2>1. \A q \in Procs : CallOf(q)' = CallOf(q)
    BY <1>3, SMT DEF PruneRemoveFails, Return, CallOf
  <2> QED
    BY <1>1, <2>1, SameContent, Silent DEF Interface!vars
<1> QED
  BY <1>2, <1>3

\* A crash abandons the calls of the process.
LEMMA RestartImplemented ==
  ASSUME IInv, IInv', NEW c \in Caches, Restart(c)
  PROVE  Implemented
<1> USE DiskCacheAssumption DEF IInv, StateOK, ArgsOK, At, Goto, locals, Implemented
<1> DEFINE S == {p \in Procs : CacheOf[p] = c}
<1>1. \A q \in Procs : CallOf(q)' = IF q \in S THEN Interface!NoCall ELSE CallOf(q)
  BY DEF Restart, CallOf, Interface!NoCall
<1>2. Pending' = [q \in Procs |-> IF q \in S THEN Interface!NoCall ELSE Pending[q]]
  BY <1>1 DEF Pending
<1>3. S \in SUBSET Procs /\ Content' = Content
  BY SameContent DEF Restart
<1>4. Interface!Abandon(S)
  BY <1>2, <1>3 DEF Interface!Abandon
<1> QED
  BY <1>3, <1>4, Zenon DEF Interface!Next

\* The steps together.
LEMMA InterfaceStep ==
  IInv /\ IInv' /\ [Next]_vars => [Interface!Next]_(Interface!vars)
<1> SUFFICES ASSUME IInv, IInv', [Next]_vars PROVE Implemented
  BY DEF Implemented
<1>1. CASE UNCHANGED vars
  <2>1. Content' = Content
    BY <1>1 DEF vars, Content, ContentAt, Exists
  <2>2. \A q \in Procs : CallOf(q)' = CallOf(q)
    BY <1>1 DEF vars, locals, CallOf, At
  <2> QED
    BY <2>1, <2>2, Silent DEF Interface!vars, Implemented
<1>2. ASSUME NEW p \in conf.callers, Step(p) PROVE Implemented
  BY <1>2, ConfigFacts, PutStatImplemented, PutCreateTempImplemented, PutCopiedImplemented,
     PutCapacityImplemented, PutRecheckImplemented, PutRenameImplemented,
     PutAddImplemented, DeleteRemoveImplemented, DeleteSubtractImplemented,
     PruneLockImplemented, PruneWalkImplemented, PruneWalkedImplemented,
     PruneRemoveImplemented, PruneRemovedImplemented, PruneStoreImplemented DEF Step, IInv
<1>3. ASSUME NEW p \in conf.callers, Fault(p) PROVE Implemented
  BY <1>3, ConfigFacts, PutCopyFailsImplemented, PruneRemoveFailsImplemented DEF Fault, IInv
<1>4. ASSUME NEW p \in conf.callers, Call(p) PROVE Implemented
  BY <1>4, ConfigFacts, PutStartImplemented, DeleteStartImplemented, PruneStartImplemented DEF Call, IInv
<1>5. ASSUME NEW p \in conf.callers, Restart(CacheOf[p]) PROVE Implemented
  BY <1>5, ConfigFacts, DiskCacheAssumption, RestartImplemented DEF IInv
<1> QED
  BY <1>1, <1>2, <1>3, <1>4, <1>5 DEF Next

\* The caches implement the interface for any number of processes, goroutines
\* and keys: every call acts in one instant, crashes and failures included.
THEOREM ImplementsCacheHolds == Spec => ImplementsCache
<1>1. Init => Interface!Init
  BY DiskCacheAssumption
  DEF Init, Interface!Init, Interface!NoCall, Content, ContentAt, Pending, CallOf, Exists, Paths, At
<1>2. IInv /\ [Next]_vars => IInv'
  BY TypeStep, SafeStep DEF IInv
<1> QED
  BY InitIInv, InterfaceStep, <1>1, <1>2, PTL DEF Spec, ImplementsCache, Interface!Spec

-----------------------------------------------------------------------------
(* Sums over finite sets *)

\* A set of naturals with 0 and with the successor of each member has all.
LEMMA NatSet ==
  ASSUME NEW T \in SUBSET Nat, 0 \in T, \A n \in T : n + 1 \in T
  PROVE  T = Nat
<1>1. SUFFICES ASSUME Nat \ T # {} PROVE FALSE
  OBVIOUS
<1>2. IsWellFoundedOn(OpToRel(<, Nat), Nat)
  BY NatLessThanWellFounded
<1>3. \E x \in Nat \ T : \A y \in Nat \ T : ~(<<y, x>> \in OpToRel(<, Nat))
  BY <1>1, <1>2, WFMin
<1>4. PICK x \in Nat \ T : \A y \in Nat \ T : ~(y < x)
  BY <1>3 DEF OpToRel
<1>5. x # 0 /\ x - 1 \in Nat /\ x - 1 < x
  BY SMT
<1>6. x - 1 \in T
  BY <1>4, <1>5
<1>7. (x - 1) + 1 \in T
  BY <1>6
<1> QED
  BY <1>7, SMT

\* A set of subsets of a finite set has all of them, if it has each one of which
\* it has all that have an element less.
LEMMA SubsetInduction ==
  ASSUME NEW S, IsFiniteSet(S), NEW G \in SUBSET SUBSET S,
         \A s \in SUBSET S : (\A x \in s : s \ {x} \in G) => s \in G
  PROVE  G = SUBSET S
<1> DEFINE T == {n \in Nat : \A s \in SUBSET S : Cardinality(s) = n => s \in G}
<1>1. 0 \in T
  <2>1. \A s \in SUBSET S : Cardinality(s) = 0 => s = {}
    BY FS_EmptySet, FS_Subset
  <2> QED
    BY <2>1
<1>2. ASSUME NEW n \in T PROVE n + 1 \in T
  <2> SUFFICES ASSUME NEW s \in SUBSET S, Cardinality(s) = n + 1 PROVE s \in G
    BY SMT
  <2>1. ASSUME NEW x \in s PROVE s \ {x} \in G
    <3>1. Cardinality(s \ {x}) = (n + 1) - 1
      BY FS_Subset, FS_RemoveElement
    <3>2. Cardinality(s \ {x}) = n
      BY <3>1, SMT
    <3> QED
      BY <3>2
  <2> QED
    BY <2>1
<1> HIDE DEF T
<1>3. T = Nat
  BY <1>1, <1>2, NatSet DEF T
<1>4. ASSUME NEW s \in SUBSET S PROVE s \in G
  <2>1. Cardinality(s) \in Nat
    BY FS_Subset, FS_CardinalityType
  <2> QED
    BY <1>3, <2>1, SMT DEF T
<1> QED
  BY <1>4

\* One step of the recursion by which the library defines a sum, and what a
\* function defined by it is.
AnyOf(s) == CHOOSE x \in s : TRUE
SumStep(f, g, s) == IF s = {} THEN 0 ELSE f[AnyOf(s)] + g[s \ {AnyOf(s)}]
SumRecursion(f, S, g) == g = [s \in SUBSET S |-> SumStep(f, g, s)]

\* What SumFunction computes.
LEMMA SumUnfold ==
  ASSUME NEW f, NEW S
  PROVE  SumFunctionOnSet(f, S) = (CHOOSE g : SumRecursion(f, S, g))[S]
  BY DEF SumFunctionOnSet, FoldFunctionOnSet, MapThenFoldSet, SumRecursion, SumStep, AnyOf

\* There is such a function.
LEMMA RecExists ==
  ASSUME NEW f, NEW S, IsFiniteSet(S)
  PROVE  \E g : SumRecursion(f, S, g)
<1> DEFINE Sub(n) == {s \in SUBSET S : Cardinality(s) <= n}
           T == {n \in Nat : \E g : g = [s \in Sub(n) |-> SumStep(f, g, s)]}
<1>0. ASSUME NEW s \in SUBSET S
      PROVE  /\ IsFiniteSet(s) /\ Cardinality(s) \in Nat /\ Cardinality(s) <= Cardinality(S)
             /\ s # {} => AnyOf(s) \in s /\ Cardinality(s \ {AnyOf(s)}) = Cardinality(s) - 1
  <2>1. IsFiniteSet(s) /\ Cardinality(s) \in Nat /\ Cardinality(s) <= Cardinality(S)
    BY FS_Subset, FS_CardinalityType
  <2>2. s # {} => AnyOf(s) \in s
    BY DEF AnyOf
  <2> QED
    BY <2>1, <2>2, FS_RemoveElement
<1>1. 0 \in T
  <2> DEFINE g == [s \in Sub(0) |-> 0]
  <2>1. ASSUME NEW s \in Sub(0) PROVE s = {}
    <3>1. IsFiniteSet(s) /\ Cardinality(s) \in Nat /\ Cardinality(s) <= 0
      BY <1>0
    <3>2. Cardinality(s) = 0
      BY <3>1, SMT
    <3> QED
      BY <3>1, <3>2, FS_EmptySet
  <2>2. \A s \in Sub(0) : SumStep(f, g, s) = 0
    BY <2>1 DEF SumStep
  <2>3. g = [s \in Sub(0) |-> SumStep(f, g, s)]
    BY <2>2
  <2> QED
    BY <2>3
<1>2. ASSUME NEW n \in T PROVE n + 1 \in T
  <2>1. PICK g : g = [s \in Sub(n) |-> SumStep(f, g, s)]
    OBVIOUS
  <2> DEFINE h == [s \in Sub(n + 1) |-> SumStep(f, g, s)]
  <2>2. ASSUME NEW s \in Sub(n + 1) PROVE SumStep(f, g, s) = SumStep(f, h, s)
    <3>1. CASE s = {}
      BY <3>1 DEF SumStep
    <3>2. CASE s # {}
      <4>1. s \ {AnyOf(s)} \in Sub(n) /\ s \ {AnyOf(s)} \in Sub(n + 1)
        <5>1. Cardinality(s \ {AnyOf(s)}) = Cardinality(s) - 1 /\ Cardinality(s) \in Nat
          BY <1>0, <3>2
        <5>2. Cardinality(s \ {AnyOf(s)}) <= n /\ Cardinality(s \ {AnyOf(s)}) <= n + 1
          BY <5>1, SMT
        <5> QED
          BY <5>2
      <4>2. h[s \ {AnyOf(s)}] = g[s \ {AnyOf(s)}]
        BY <2>1, <4>1
      <4> QED
        BY <4>2 DEF SumStep
    <3> QED
      BY <3>1, <3>2
  <2>3. h = [s \in Sub(n + 1) |-> SumStep(f, h, s)]
    BY <2>2
  <2>4. n + 1 \in Nat
    BY SMT
  <2> QED
    BY <2>3, <2>4
<1>3. T = Nat
  <2> HIDE DEF T
  <2>1. T \in SUBSET Nat
    BY DEF T
  <2> QED
    BY <1>1, <1>2, <2>1, NatSet
<1>4. Cardinality(S) \in T
  BY <1>3, FS_CardinalityType
<1>5. Sub(Cardinality(S)) = SUBSET S
  BY <1>0
<1> QED
  BY <1>4, <1>5 DEF SumRecursion

\* The function the sum is taken from satisfies its recursion.
LEMMA SumRec ==
  ASSUME NEW f, NEW S, IsFiniteSet(S)
  PROVE  \E g : SumRecursion(f, S, g) /\ SumFunctionOnSet(f, S) = g[S]
<1>1. SumRecursion(f, S, CHOOSE g : SumRecursion(f, S, g))
  BY RecExists
<1> QED
  BY <1>1, SumUnfold

\* Such functions agree where what they sum agrees.
LEMMA RecUnique ==
  ASSUME NEW f, NEW S, IsFiniteSet(S), NEW g, SumRecursion(f, S, g),
         NEW h, NEW R, S \subseteq R, NEW k, SumRecursion(h, R, k),
         \A x \in S : f[x] = h[x]
  PROVE  \A s \in SUBSET S : g[s] = k[s]
<1> DEFINE G == {s \in SUBSET S : g[s] = k[s]}
<1>1. ASSUME NEW s \in SUBSET S, \A x \in s : s \ {x} \in G PROVE s \in G
  <2>1. g[s] = SumStep(f, g, s) /\ k[s] = SumStep(h, k, s)
    BY DEF SumRecursion
  <2>2. CASE s = {}
    BY <2>1, <2>2 DEF SumStep
  <2>3. CASE s # {}
    <3>1. AnyOf(s) \in s /\ f[AnyOf(s)] = h[AnyOf(s)]
      BY <2>3 DEF AnyOf
    <3>2. g[s \ {AnyOf(s)}] = k[s \ {AnyOf(s)}]
      BY <1>1, <3>1
    <3> QED
      BY <2>1, <3>1, <3>2 DEF SumStep
  <2> QED
    BY <2>2, <2>3
<1> HIDE DEF G
<1>2. G = SUBSET S
  <2>1. G \in SUBSET SUBSET S
    BY DEF G
  <2> QED
    BY <1>1, <2>1, SubsetInduction
<1> QED
  BY <1>2 DEF G

\* A sum of naturals is a natural.
LEMMA RecNat ==
  ASSUME NEW S, IsFiniteSet(S), NEW f \in [S -> Nat], NEW g, SumRecursion(f, S, g)
  PROVE  \A s \in SUBSET S : g[s] \in Nat
<1> DEFINE G == {s \in SUBSET S : g[s] \in Nat}
<1>1. ASSUME NEW s \in SUBSET S, \A x \in s : s \ {x} \in G PROVE s \in G
  <2>1. g[s] = SumStep(f, g, s)
    BY DEF SumRecursion
  <2>2. CASE s = {}
    BY <2>1, <2>2, SMT DEF SumStep
  <2>3. CASE s # {}
    <3>1. AnyOf(s) \in s /\ g[s] = f[AnyOf(s)] + g[s \ {AnyOf(s)}]
      BY <2>1, <2>3 DEF SumStep, AnyOf
    <3>2. f[AnyOf(s)] \in Nat /\ g[s \ {AnyOf(s)}] \in Nat
      BY <1>1, <3>1
    <3>3. \A a, b \in Nat : a + b \in Nat
      BY SMT
    <3>4. g[s] \in Nat
      BY <3>1, <3>2, <3>3
    <3> QED
      BY <3>4
  <2> QED
    BY <2>2, <2>3
<1> HIDE DEF G
<1>2. G = SUBSET S
  <2>1. G \in SUBSET SUBSET S
    BY DEF G
  <2> QED
    BY <1>1, <2>1, SubsetInduction
<1> QED
  BY <1>2 DEF G

\* A sum does not depend on the order in which the elements are taken.
LEMMA RecOrder ==
  ASSUME NEW S, IsFiniteSet(S), NEW f \in [S -> Nat], NEW g, SumRecursion(f, S, g),
         NEW r \in SUBSET S, NEW z \in r
  PROVE  g[r] = f[z] + g[r \ {z}]
<1> DEFINE G == {s \in SUBSET S : \A x \in s : g[s] = f[x] + g[s \ {x}]}
<1>1. ASSUME NEW s \in SUBSET S, \A x \in s : s \ {x} \in G,
             NEW x \in s
      PROVE  g[s] = f[x] + g[s \ {x}]
  <2> DEFINE c == AnyOf(s)
  <2>1. c \in s /\ g[s] = f[c] + g[s \ {c}]
    <3>1. g[s] = SumStep(f, g, s) /\ s # {}
      BY DEF SumRecursion
    <3> QED
      BY <3>1 DEF SumStep, AnyOf
  <2> HIDE DEF c
  <2>2. CASE x = c
    BY <2>1, <2>2
  <2>3. CASE x # c
    <3> DEFINE t == (s \ {c}) \ {x}
    <3>1. g[s \ {c}] = f[x] + g[t]
      BY <1>1, <2>1, <2>3
    <3>2. g[s \ {x}] = f[c] + g[t]
      <4>1. (s \ {x}) \ {c} = t
        OBVIOUS
      <4>2. g[s \ {x}] = f[c] + g[(s \ {x}) \ {c}]
        BY <1>1, <2>1, <2>3
      <4> QED
        BY <4>1, <4>2
    <3>3. t \in SUBSET S
      OBVIOUS
    <3> HIDE DEF t
    <3>4. g[t] \in Nat /\ f[x] \in Nat /\ f[c] \in Nat
      BY <2>1, <3>3, RecNat
    <3>5. \A a, b, d \in Nat : a + (b + d) = b + (a + d)
      BY SMT
    <3>6. f[c] + (f[x] + g[t]) = f[x] + (f[c] + g[t])
      BY <3>4, <3>5
    <3> QED
      BY <2>1, <3>1, <3>2, <3>6
  <2> QED
    BY <2>2, <2>3
<1> HIDE DEF G
<1>2. G = SUBSET S
  <2>1. G \in SUBSET SUBSET S
    BY DEF G
  <2>2. \A s \in SUBSET S : (\A x \in s : s \ {x} \in G) => s \in G
    BY <1>1 DEF G
  <2> QED
    BY <2>1, <2>2, SubsetInduction
<1> QED
  BY <1>2 DEF G

\* The sum of a function with finite domain.
LEMMA SumNat ==
  ASSUME NEW S, IsFiniteSet(S), NEW f \in [S -> Nat]
  PROVE  SumFunction(f) \in Nat
<1>1. PICK g : SumRecursion(f, S, g) /\ SumFunctionOnSet(f, S) = g[S]
  BY SumRec
<1>2. g[S] \in Nat
  BY <1>1, RecNat
<1>3. DOMAIN f = S
  OBVIOUS
<1> QED
  BY <1>1, <1>2, <1>3 DEF SumFunction

\* There is nothing to sum over the empty set.
LEMMA SumEmpty ==
  ASSUME NEW f, DOMAIN f = {}
  PROVE  SumFunction(f) = 0
<1>1. PICK g : SumRecursion(f, {}, g) /\ SumFunctionOnSet(f, {}) = g[{}]
  BY SumRec, FS_EmptySet
<1>2. g[{}] = 0
  BY <1>1 DEF SumRecursion, SumStep
<1> QED
  BY <1>1, <1>2 DEF SumFunction

\* A sum is any of its terms and the sum of the others.
LEMMA SumSplit ==
  ASSUME NEW S, IsFiniteSet(S), NEW f \in [S -> Nat], NEW x \in S
  PROVE  SumFunction(f) = f[x] + SumFunction([y \in S \ {x} |-> f[y]])
<1> DEFINE h == [y \in S \ {x} |-> f[y]]
<1>1. PICK g : SumRecursion(f, S, g) /\ SumFunctionOnSet(f, S) = g[S]
  BY SumRec
<1>2. IsFiniteSet(S \ {x})
  BY FS_RemoveElement
<1>3. PICK k : SumRecursion(h, S \ {x}, k) /\ SumFunctionOnSet(h, S \ {x}) = k[S \ {x}]
  BY <1>2, SumRec
<1>4. k[S \ {x}] = g[S \ {x}]
  <2>1. \A y \in S \ {x} : h[y] = f[y]
    OBVIOUS
  <2>2. S \ {x} \subseteq S
    OBVIOUS
  <2> HIDE DEF h
  <2>3. \A s \in SUBSET (S \ {x}) : k[s] = g[s]
    BY <1>1, <1>2, <1>3, <2>1, <2>2, RecUnique, SMT
  <2> QED
    BY <2>3
<1>5. g[S] = f[x] + g[S \ {x}]
  <2>1. S \in SUBSET S
    OBVIOUS
  <2> QED
    BY <1>1, <2>1, RecOrder, SMT
<1>6. SumFunction(f) = g[S] /\ SumFunction(h) = k[S \ {x}]
  <2>1. DOMAIN f = S /\ DOMAIN h = S \ {x}
    OBVIOUS
  <2> HIDE DEF h
  <2> QED
    BY <1>1, <1>3, <2>1 DEF SumFunction
<1> QED
  BY <1>4, <1>5, <1>6

\* A sum of naturals over fewer elements is not larger.
LEMMA SumSubset ==
  ASSUME NEW S, IsFiniteSet(S), NEW f \in [S -> Nat], NEW R \in SUBSET S
  PROVE  SumFunction([y \in R |-> f[y]]) <= SumFunction(f)
<1> DEFINE Sm(s) == SumFunction([y \in s |-> f[y]])
           G == {s \in SUBSET S : \A r \in SUBSET s : Sm(r) <= Sm(s)}
<1>0. ASSUME NEW s \in SUBSET S PROVE Sm(s) \in Nat /\ \A x \in s : Sm(s) = f[x] + Sm(s \ {x})
  <2> DEFINE h == [y \in s |-> f[y]]
  <2>1. IsFiniteSet(s) /\ h \in [s -> Nat]
    BY FS_Subset
  <2>2. Sm(s) \in Nat
    BY <2>1, SumNat
  <2>3. ASSUME NEW x \in s PROVE Sm(s) = f[x] + Sm(s \ {x})
    <3>1. [y \in s \ {x} |-> h[y]] = [y \in s \ {x} |-> f[y]] /\ h[x] = f[x]
      OBVIOUS
    <3>2. Sm(s) = SumFunction(h)
      OBVIOUS
    <3> HIDE DEF h
    <3>3. SumFunction(h) = h[x] + SumFunction([y \in s \ {x} |-> h[y]])
      BY <2>1, SumSplit, SMT
    <3> QED
      BY <3>1, <3>2, <3>3
  <2> QED
    BY <2>2, <2>3
<1> HIDE DEF Sm
<1>1. ASSUME NEW s \in SUBSET S, \A x \in s : s \ {x} \in G, NEW r \in SUBSET s
      PROVE  Sm(r) <= Sm(s)
  <2>1. CASE r = s
    BY <1>0, <2>1, SMT
  <2>2. CASE r # s
    <3>1. PICK x \in s : x \notin r
      BY <2>2
    <3>2. r \in SUBSET (s \ {x})
      BY <3>1
    <3>3. Sm(r) <= Sm(s \ {x})
      BY <1>1, <3>2
    <3>4. Sm(s) = f[x] + Sm(s \ {x}) /\ f[x] \in Nat
      BY <1>0
    <3>5. Sm(r) \in Nat /\ Sm(s \ {x}) \in Nat
      <4>1. r \in SUBSET S /\ s \ {x} \in SUBSET S
        OBVIOUS
      <4> QED
        BY <1>0, <4>1
    <3> QED
      BY <3>3, <3>4, <3>5, SMT
  <2> QED
    BY <2>1, <2>2
<1> HIDE DEF G
<1>2. G = SUBSET S
  <2>1. G \in SUBSET SUBSET S
    BY DEF G
  <2>2. \A s \in SUBSET S : (\A x \in s : s \ {x} \in G) => s \in G
    BY <1>1 DEF G
  <2> QED
    BY <2>1, <2>2, SubsetInduction
<1>3. Sm(R) <= Sm(S)
  BY <1>2 DEF G
<1>4. [y \in S |-> f[y]] = f
  OBVIOUS
<1> QED
  BY <1>3, <1>4 DEF Sm

-----------------------------------------------------------------------------
(* Sizes: what Prune lists and what the counter says. *)

\* The sizes of listed entries, and of files.
EntriesSize(E) == SumFunction([e \in E |-> e.size])
FilesSize(d, S) == SumFunction([path \in S |-> d[path].size])

\* What the sum of sizes is for no entry, for one entry more and for fewer.
LEMMA EntriesFacts ==
  ASSUME NEW E \in SUBSET Entry, IsFiniteSet(E)
  PROVE  /\ EntriesSize({}) = 0
         /\ EntriesSize(E) \in Nat
         /\ \A e \in E : EntriesSize(E) = e.size + EntriesSize(E \ {e})
         /\ \A F \in SUBSET E : EntriesSize(F) \in Nat /\ EntriesSize(F) <= EntriesSize(E)
<1> DEFINE f == [e \in E |-> e.size]
<1>1. f \in [E -> Nat]
  BY DEF Entry
<1>2. EntriesSize({}) = 0
  <2>1. DOMAIN [e \in {} |-> e.size] = {}
    OBVIOUS
  <2> QED
    BY <2>1, SumEmpty DEF EntriesSize
<1>3. EntriesSize(E) \in Nat
  BY <1>1, SumNat DEF EntriesSize
<1>4. ASSUME NEW F \in SUBSET E PROVE [e \in F |-> f[e]] = [e \in F |-> e.size]
  OBVIOUS
<1>5. ASSUME NEW e \in E PROVE EntriesSize(E) = e.size + EntriesSize(E \ {e})
  <2>1. f[e] = e.size /\ [x \in E \ {e} |-> f[x]] = [x \in E \ {e} |-> x.size]
    OBVIOUS
  <2>2. EntriesSize(E) = SumFunction(f)
    BY DEF EntriesSize
  <2> HIDE DEF f
  <2>3. SumFunction(f) = f[e] + SumFunction([x \in E \ {e} |-> f[x]])
    BY <1>1, SumSplit, SMT
  <2> QED
    BY <2>1, <2>2, <2>3 DEF EntriesSize
<1>6. ASSUME NEW F \in SUBSET E PROVE EntriesSize(F) \in Nat /\ EntriesSize(F) <= EntriesSize(E)
  <2>1. IsFiniteSet(F) /\ [e \in F |-> e.size] \in [F -> Nat]
    BY FS_Subset DEF Entry
  <2>2. EntriesSize(F) \in Nat
    BY <2>1, SumNat DEF EntriesSize
  <2>3. EntriesSize(E) = SumFunction(f) /\ EntriesSize(F) = SumFunction([e \in F |-> f[e]])
    BY <1>4 DEF EntriesSize
  <2> HIDE DEF f
  <2>4. SumFunction([e \in F |-> f[e]]) <= SumFunction(f)
    BY <1>1, SumSubset, SMT
  <2> QED
    BY <2>2, <2>3, <2>4
<1> QED
  BY <1>2, <1>3, <1>5, <1>6

\* The same for files of a directory d.
LEMMA FilesFacts ==
  ASSUME NEW d, NEW S, IsFiniteSet(S), \A path \in S : d[path].size \in Nat
  PROVE  /\ FilesSize(d, {}) = 0
         /\ FilesSize(d, S) \in Nat
         /\ \A path \in S : FilesSize(d, S) = d[path].size + FilesSize(d, S \ {path})
<1> DEFINE f == [path \in S |-> d[path].size]
<1>1. f \in [S -> Nat]
  OBVIOUS
<1>2. FilesSize(d, {}) = 0
  <2>1. DOMAIN [path \in {} |-> d[path].size] = {}
    OBVIOUS
  <2> QED
    BY <2>1, SumEmpty DEF FilesSize
<1>3. FilesSize(d, S) \in Nat
  BY <1>1, SumNat DEF FilesSize
<1>4. ASSUME NEW x \in S PROVE FilesSize(d, S) = d[x].size + FilesSize(d, S \ {x})
  <2>1. f[x] = d[x].size /\ [y \in S \ {x} |-> f[y]] = [y \in S \ {x} |-> d[y].size]
    OBVIOUS
  <2>2. FilesSize(d, S) = SumFunction(f)
    BY DEF FilesSize
  <2> HIDE DEF f
  <2>3. SumFunction(f) = f[x] + SumFunction([y \in S \ {x} |-> f[y]])
    BY ONLY <1>1, SumSplit, IsFiniteSet(S), x \in S, SMT
  <2> QED
    BY <2>1, <2>2, <2>3 DEF FilesSize
<1> QED
  BY <1>2, <1>3, <1>4

\* Directories whose files have the same sizes.
LEMMA FilesSame ==
  ASSUME NEW d, NEW e, NEW S, \A path \in S : d[path].size = e[path].size
  PROVE  FilesSize(d, S) = FilesSize(e, S)
<1>1. [path \in S |-> d[path].size] = [path \in S |-> e[path].size]
  OBVIOUS
<1> QED
  BY <1>1 DEF FilesSize

\* Outside pruneDir nothing is listed.  Inside, remaining is not less than the
\* sizes of the entries still listed, because it is lowered only with them.
WalkOK ==
    \A p \in Procs :
        /\ pc[p] \notin PruneLabels => pr[p].entries = {} /\ pr[p].remaining = 0
        /\ IsFiniteSet(pr[p].entries)
        /\ EntriesSize(pr[p].entries) <= pr[p].remaining
        /\ pc[p] = "walk" => \A e \in pr[p].entries : e.path \notin pr[p].todo
        /\ pc[p] = "store" => pr[p].entries = {} \/ pr[p].remaining <= pr[p].target

\* Every step preserves it.
LEMMA WalkStep == StateOK /\ ArgsOK /\ WalkOK /\ [Next]_vars => WalkOK'
<1> SUFFICES ASSUME StateOK, ArgsOK, WalkOK, [Next]_vars PROVE WalkOK'
  OBVIOUS
<1> DEFINE Good(p, label, l) ==
        /\ label \notin PruneLabels => l.entries = {} /\ l.remaining = 0
        /\ IsFiniteSet(l.entries)
        /\ EntriesSize(l.entries) <= l.remaining
        /\ label = "walk" => \A e \in l.entries : e.path \notin l.todo
        /\ label = "store" => l.entries = {} \/ l.remaining <= l.target
<1>a. \A p \in Procs : Good(p, pc[p], pr[p])
  BY DEF WalkOK
<1>b. ASSUME \A p \in Procs : Good(p, pc'[p], pr'[p]) PROVE WalkOK'
  BY <1>b DEF WalkOK, EntriesSize
<1>c. ASSUME NEW p \in Procs, NEW label, NEW l, Good(p, label, l),
             pc' = [pc EXCEPT ![p] = label], pr' = [pr EXCEPT ![p] = l]
      PROVE  WalkOK'
  <2>1. ASSUME NEW q \in Procs PROVE Good(q, pc'[q], pr'[q])
    <3>1. CASE q = p
      BY <1>c, <3>1 DEF StateOK
    <3>2. CASE q # p
      <4>1. pc'[q] = pc[q] /\ pr'[q] = pr[q]
        BY <1>c, <3>2 DEF StateOK
      <4> QED
        BY <1>a, <4>1
    <3> QED
      BY <3>1, <3>2
  <2> QED
    BY <1>b, <2>1
<1>d. Good(CHOOSE p : TRUE, "idle", NoPrune)
  <2>1. EntriesSize({}) = 0
    BY EntriesFacts, FS_EmptySet
  <2>2. NoPrune.entries = {} /\ NoPrune.remaining = 0
    BY DEF NoPrune
  <2> QED
    BY <2>1, <2>2, FS_EmptySet, SMT DEF PruneLabels
<1>e. ASSUME NEW p \in Procs, NEW label, label \notin PruneLabels,
             pc' = [pc EXCEPT ![p] = label],
             \/ pr' = [pr EXCEPT ![p] = NoPrune]
             \/ /\ pc[p] \notin PruneLabels
                /\ pr' = pr \/ \E t : pr' = [pr EXCEPT ![p].target = t]
      PROVE  WalkOK'
  <2>1. CASE pr' = [pr EXCEPT ![p] = NoPrune]
    <3>1. Good(p, label, NoPrune)
      BY <1>d, <1>e DEF PruneLabels
    <3> QED
      BY <1>c, <1>e, <2>1, <3>1
  <2>2. CASE pc[p] \notin PruneLabels /\ pr' = pr
    <3>1. Good(p, label, pr[p])
      BY <1>a, <1>e, <2>2 DEF PruneLabels
    <3>2. pr' = [pr EXCEPT ![p] = pr[p]]
      BY <2>2 DEF StateOK
    <3> QED
      BY <1>c, <1>e, <3>1, <3>2
  <2>3. ASSUME NEW t, pc[p] \notin PruneLabels, pr' = [pr EXCEPT ![p].target = t]
        PROVE  WalkOK'
    <3> DEFINE l == [pr[p] EXCEPT !.target = t]
    <3>1. l.entries = pr[p].entries /\ l.remaining = pr[p].remaining
      BY SMT DEF StateOK, PruneLocals
    <3>2. pr' = [pr EXCEPT ![p] = l]
      BY <2>3 DEF StateOK
    <3> HIDE DEF l
    <3>3. Good(p, label, l)
      BY <1>a, <1>e, <2>3, <3>1 DEF PruneLabels
    <3> QED
      BY <1>c, <1>e, <3>2, <3>3
  <2> QED
    BY <1>e, <2>1, <2>2, <2>3
<1> HIDE DEF Good
<1> USE DEF At, Goto, Return, locals, PruneLabels
<1>1. CASE UNCHANGED vars
  BY <1>1, <1>a, <1>b DEF vars
<1>2. ASSUME NEW p \in Procs, NEW k \in Keys, PutStart(p, k) PROVE WalkOK'
  BY <1>2, <1>e DEF PutStart
<1>3. ASSUME NEW p \in Procs, PutStat(p) PROVE WalkOK'
  BY <1>3, <1>e DEF PutStat, AfterStat
<1>4. ASSUME NEW p \in Procs, PutCreateTemp(p) PROVE WalkOK'
  BY <1>4, <1>e DEF PutCreateTemp
<1>5. ASSUME NEW p \in Procs, PutCopied(p) PROVE WalkOK'
  BY <1>5, <1>e DEF PutCopied, AfterCopy
<1>6. ASSUME NEW p \in Procs, PutCopyFails(p) PROVE WalkOK'
  BY <1>6, <1>e DEF PutCopyFails
<1>7. ASSUME NEW p \in Procs, PutCapacity(p) PROVE WalkOK'
  <2>1. pc[p] \notin PruneLabels
    BY <1>7 DEF PutCapacity
  <2> QED
    BY <1>7, <1>e, <2>1, CapacityOutcomes DEF Reject, CallPrune, AfterCapacity
<1>8. ASSUME NEW p \in Procs, PutRecheck(p) PROVE WalkOK'
  BY <1>8, <1>e DEF PutRecheck, Reject, AfterCapacity
<1>9. ASSUME NEW p \in Procs, PutRename(p) PROVE WalkOK'
  BY <1>9, <1>e DEF PutRename
<1>10. ASSUME NEW p \in Procs, PutAdd(p) PROVE WalkOK'
  BY <1>10, <1>e DEF PutAdd
<1>11. ASSUME NEW p \in Procs, NEW k \in Keys, DeleteStart(p, k) PROVE WalkOK'
  BY <1>11, <1>e DEF DeleteStart
<1>12. ASSUME NEW p \in Procs, DeleteRemove(p) PROVE WalkOK'
  BY <1>12, <1>e DEF DeleteRemove
<1>13. ASSUME NEW p \in Procs, DeleteSubtract(p) PROVE WalkOK'
  BY <1>13, <1>e DEF DeleteSubtract
<1>14. ASSUME NEW p \in Procs, NEW t \in Nat, PruneStart(p, t) PROVE WalkOK'
  BY <1>14, <1>e DEF PruneStart, CallPrune
<1>15. ASSUME NEW p \in Procs, PruneLock(p) PROVE WalkOK'
  <2> DEFINE l == [pr[p] EXCEPT !.todo = Present]
  <2>1. l.entries = pr[p].entries /\ l.remaining = pr[p].remaining
    BY SMT DEF StateOK, PruneLocals
  <2>2. pr' = [pr EXCEPT ![p] = l]
    BY <1>15 DEF PruneLock, StateOK
  <2> HIDE DEF l
  <2>3. Good(p, "walk", l)
    BY <1>15, <1>a, <2>1 DEF Good, PruneLock
  <2> QED
    BY <1>15, <1>c, <2>2, <2>3 DEF PruneLock
<1>16. ASSUME NEW p \in Procs, PruneWalk(p) PROVE WalkOK'
  <2>1. PICK path \in pr[p].todo : PruneWalk(p)!2!(path)
    BY <1>16 DEF PruneWalk
  <2>2. /\ pc[p] = "walk" /\ pc \in [Procs -> Labels] /\ pr[p] \in PruneLocals
        /\ Good(p, "walk", pr[p])
    BY <1>16, <1>a DEF PruneWalk, StateOK
  <2>3. CASE Exists(path)
    <3> DEFINE e == EntryOf(path)
               E == pr[p].entries
               l == [target |-> pr[p].target, todo |-> pr[p].todo \ {path},
                     entries |-> E \cup {e}, remaining |-> pr[p].remaining + disk[path].size]
    <3>1. e \in Entry /\ e.size = disk[path].size /\ e.path = path /\ E \in SUBSET Entry
      <4>1. path \in Paths /\ disk[path] \in FileRec
        BY <2>2, <2>3 DEF StateOK, PruneLocals, Exists
      <4> QED
        BY <2>2, <4>1 DEF EntryOf, Entry, FileRec, PruneLocals
    <3>2. e \notin E /\ IsFiniteSet(E) /\ EntriesSize(E) <= pr[p].remaining
      BY <2>2, <3>1 DEF Good
    <3>3. l.entries = E \cup {e} /\ l.remaining = pr[p].remaining + disk[path].size
          /\ l.todo = pr[p].todo \ {path}
      OBVIOUS
    <3>4. pr' = [pr EXCEPT ![p] = l] /\ pc' = [pc EXCEPT ![p] = "walk"]
      BY <2>1, <2>2, <2>3
    <3> HIDE DEF e, E, l
    <3>5. IsFiniteSet(E \cup {e})
      BY <3>2, FS_AddElement
    <3>6. EntriesSize(E \cup {e}) = e.size + EntriesSize(E)
      <4>1. E \cup {e} \in SUBSET Entry /\ (E \cup {e}) \ {e} = E
        BY <3>1, <3>2
      <4> QED
        BY <3>5, <4>1, EntriesFacts
    <3>7. EntriesSize(E \cup {e}) <= l.remaining
      <4>1. EntriesSize(E) \in Nat /\ pr[p].remaining \in Int /\ e.size \in Nat
        BY <2>2, <3>1, <3>2, EntriesFacts DEF PruneLocals, Entry
      <4> QED
        BY <3>1, <3>2, <3>3, <3>6, <4>1, SMT
    <3>8. \A x \in l.entries : x.path \notin l.todo
      BY <2>2, <3>1, <3>3 DEF Good, E
    <3>9. Good(p, "walk", l)
      BY <3>3, <3>5, <3>7, <3>8 DEF Good
    <3> QED
      BY <1>c, <3>4, <3>9
  <2>4. CASE ~Exists(path)
    <3> DEFINE l == [NoPrune EXCEPT !.target = pr[p].target]
    <3>1. l.entries = {} /\ l.remaining = 0
      BY DEF NoPrune
    <3>2. pr' = [pr EXCEPT ![p] = l] /\ pc' = [pc EXCEPT ![p] = "store"]
      BY <2>1, <2>4
    <3> HIDE DEF l
    <3>3. Good(p, "store", l)
      <4>1. EntriesSize({}) = 0
        BY EntriesFacts, FS_EmptySet
      <4> QED
        BY <3>1, <4>1, FS_EmptySet, SMT DEF Good
    <3> QED
      BY <1>c, <3>2, <3>3
  <2> QED
    BY <2>3, <2>4
<1>17. ASSUME NEW p \in Procs, PruneWalked(p) PROVE WalkOK'
  <2>1. Good(p, "remove", pr[p]) /\ pr' = [pr EXCEPT ![p] = pr[p]]
    BY <1>17, <1>a DEF PruneWalked, Good, StateOK
  <2> QED
    BY <1>17, <1>c, <2>1 DEF PruneWalked
<1>18. ASSUME NEW p \in Procs, PruneRemove(p) PROVE WalkOK'
  <2>1. PICK e \in Oldest(pr[p].entries) : PruneRemove(p)!3!(e)
    BY <1>18 DEF PruneRemove
  <2>2. /\ pc[p] = "remove" /\ pc' = pc /\ pc \in [Procs -> Labels]
        /\ pr[p] \in PruneLocals /\ pr \in [Procs -> PruneLocals] /\ Good(p, "remove", pr[p])
    BY <1>18, <1>a DEF PruneRemove, StateOK
  <2> DEFINE E == pr[p].entries
             l == [pr[p] EXCEPT !.entries = E \ {e}, !.remaining = @ - Freed(e)]
  <2>3. e \in E /\ E \in SUBSET Entry /\ pr[p].remaining \in Int
        /\ IsFiniteSet(E) /\ EntriesSize(E) <= pr[p].remaining
    BY <2>1, <2>2 DEF Oldest, PruneLocals, Good
  <2>4. l.entries = E \ {e} /\ l.remaining = pr[p].remaining - Freed(e)
    BY <2>2, SMT DEF PruneLocals
  <2>5. pr' = [pr EXCEPT ![p] = l] /\ pc' = [pc EXCEPT ![p] = "remove"]
    BY <2>1, <2>2 DEF Rest
  <2> HIDE DEF E, l
  <2>6. EntriesSize(E) = e.size + EntriesSize(E \ {e}) /\ EntriesSize(E \ {e}) \in Nat
    BY <2>3, EntriesFacts
  <2>7. EntriesSize(E \ {e}) <= l.remaining
    <3>1. e.size \in Nat /\ (Freed(e) = e.size \/ Freed(e) = 0)
      BY <2>3 DEF Freed, Entry
    <3> QED
      BY <2>3, <2>4, <2>6, <3>1, SMT
  <2>8. IsFiniteSet(E \ {e})
    BY <2>3, FS_RemoveElement
  <2>9. Good(p, "remove", l)
    BY <2>4, <2>7, <2>8 DEF Good
  <2> QED
    BY <1>c, <2>5, <2>9
<1>19. ASSUME NEW p \in Procs, PruneRemoved(p) PROVE WalkOK'
  <2>1. pr[p].remaining <= pr[p].target \/ pr[p].entries = {}
    BY <1>19, SMT DEF PruneRemoved, OverTarget, StateOK, PruneLocals
  <2>2. Good(p, "store", pr[p]) /\ pr' = [pr EXCEPT ![p] = pr[p]]
    BY <1>19, <1>a, <2>1 DEF PruneRemoved, Good, StateOK
  <2> QED
    BY <1>19, <1>c, <2>2 DEF PruneRemoved
<1>20. ASSUME NEW p \in Procs, PruneStore(p) PROVE WalkOK'
  BY <1>20, <1>e DEF PruneStore
<1>21. ASSUME NEW p \in Procs, PruneRemoveFails(p) PROVE WalkOK'
  BY <1>21, <1>e DEF PruneRemoveFails
<1>22. ASSUME NEW c \in Caches, Restart(c) PROVE WalkOK'
  <2>1. ASSUME NEW q \in Procs PROVE Good(q, pc'[q], pr'[q])
    <3>1. CASE CacheOf[q] = c
      BY <1>22, <1>d, <3>1 DEF Restart, Good
    <3>2. CASE CacheOf[q] # c
      BY <1>22, <1>a, <3>2 DEF Restart
    <3> QED
      BY <3>1, <3>2
  <2> QED
    BY <1>b, <2>1
<1> QED
  BY <1>1, <1>2, <1>3, <1>4, <1>5, <1>6, <1>7, <1>8, <1>9, <1>10, <1>11, <1>12,
     <1>13, <1>14, <1>15, <1>16, <1>17, <1>18, <1>19, <1>20, <1>21, <1>22,
     ConfigFacts, DiskCacheAssumption
  DEF Next, Step, Fault, Call

\* Nothing is listed yet.
LEMMA InitWalk == Init => WalkOK
<1>1. EntriesSize({}) = 0
  BY EntriesFacts, FS_EmptySet
<1>2. 0 <= 0
  BY SMT
<1> QED
  BY <1>1, <1>2, FS_EmptySet, SMT DEF Init, WalkOK, NoPrune, PruneLabels

\* The loop of pruneDir ends with remaining within the target or with nothing
\* left to remove, and remaining counts at least what is left of the entries.
THEOREM PruneReachesTargetHolds == Spec => []PruneReachesTarget
<1>2. IInv /\ [Next]_vars => IInv'
  BY TypeStep, SafeStep DEF IInv
<1>3. IInv /\ WalkOK /\ [Next]_vars => WalkOK'
  BY WalkStep DEF IInv
<1>4. IInv /\ WalkOK => PruneReachesTarget
  <2> SUFFICES ASSUME IInv, WalkOK, NEW p \in Procs, pc[p] = "store"
               PROVE  EntriesSize({e \in pr[p].entries : e.path \in Keys /\ Exists(e.path)})
                        <= pr[p].target
    BY DEF PruneReachesTarget, EntriesSize, At
  <2> DEFINE E == pr[p].entries
             left == {e \in E : e.path \in Keys /\ Exists(e.path)}
  <2>1. /\ E \in SUBSET Entry /\ IsFiniteSet(E) /\ EntriesSize(E) <= pr[p].remaining
        /\ pr[p].remaining \in Int /\ pr[p].target \in Nat
        /\ E = {} \/ pr[p].remaining <= pr[p].target
    BY DEF WalkOK, IInv, StateOK, PruneLocals
  <2>2. left \in SUBSET E
    OBVIOUS
  <2> HIDE DEF left, E
  <2>3. EntriesSize(left) \in Nat /\ EntriesSize(left) <= EntriesSize(E) /\ EntriesSize(E) \in Nat
        /\ (E = {} => EntriesSize(E) = 0)
    BY <2>1, <2>2, EntriesFacts
  <2>4. EntriesSize(left) <= pr[p].target
    BY <2>1, <2>3, SMT
  <2> QED
    BY <2>4 DEF left, E
<1> QED
  BY InitIInv, InitWalk, <1>2, <1>3, <1>4, PTL DEF Spec

-----------------------------------------------------------------------------
(* One goroutine: the counter and the limit. *)

\* The directory is finite and the counters are integers.
SizesOK == IsFiniteSet(Present) /\ bytes \in [Caches -> Int]

\* What is in the directory beside the temporary file of p, and what the counter
\* will be when p has added or subtracted what it is about to.
Settled(p) == FilesSize(disk, Present \ {tmp[p]})
Due(p) ==
    IF pc[p] = "add" THEN need(p) ELSE IF pc[p] = "subtract" THEN -need(p) ELSE 0
Net(p) == bytes[CacheOf[p]] + Due(p)

\* The only caller p finds what it saw: the key it looked for stays absent, and
\* remaining is the size of what it has walked, then of the directory.
SoloAt(p) ==
    /\ \A q \in Procs \ {p} : pc[q] = "idle"
    /\ tmp[p] # None /\ pc[p] \notin {"stat", "add"} => ~Exists(key[p])
    /\ pc[p] = "walk" =>
         /\ pr[p].todo \subseteq Present
         /\ pr[p].entries = {EntryOf(path) : path \in Present \ pr[p].todo}
         /\ pr[p].remaining = FilesSize(disk, Present \ pr[p].todo)
    /\ pc[p] = "remove" => pr[p].entries \subseteq {EntryOf(path) : path \in Present}
    /\ pc[p] \in {"remove", "store"} => pr[p].remaining = dirSize

\* The counter is exact but for the temporary file, which no prune meets.
CounterAt(p) ==
    ~IOErrors /\ (MaxBytes = 0 \/ CapacityFirst) =>
        /\ tmp[p] # None /\ Exists(tmp[p]) =>
             pc[p] \in {"copy", "rename"} \cup (IF CapacityFirst THEN {} ELSE {"capacity"})
        /\ pc[p] \notin PruneLabels => Net(p) = Settled(p)

\* ensureCapacity has returned true.
Admitted(p) == pc[p] = "rename" \/ (CapacityFirst /\ pc[p] \in {"create", "copy"})

\* The counter may be too high, never too low, so that what it admits fits.
LimitAt(p) ==
    crashes = 0 /\ MaxBytes > 0 =>
        /\ Settled(p) <= Net(p)
        /\ Settled(p) <= MaxBytes
        /\ Admitted(p) => Settled(p) + need(p) <= MaxBytes

SoloInv ==
    SizesOK /\ \A p \in Procs : conf.callers = {p} => SoloAt(p) /\ CounterAt(p) /\ LimitAt(p)

\* The sum of the sizes of any files of the directory.
LEMMA DirFacts ==
  ASSUME StateOK, SizesOK, NEW S \in SUBSET Present
  PROVE  /\ FilesSize(disk, {}) = 0
         /\ FilesSize(disk, S) \in Nat
         /\ \A path \in S : /\ disk[path].size \in Nat
                            /\ FilesSize(disk, S) = disk[path].size + FilesSize(disk, S \ {path})
<1>1. IsFiniteSet(S)
  BY FS_Subset DEF SizesOK
<1>2. \A path \in S : disk[path].size \in Nat
  BY DEF StateOK, Present, Exists, FileRec
<1> QED
  BY <1>1, <1>2, FilesFacts, SMT

\* The size of the directory with and without the temporary file of p.
LEMMA SettledFacts ==
  ASSUME StateOK, SizesOK, NEW p \in Procs
  PROVE  /\ dirSize = FilesSize(disk, Present)
         /\ dirSize \in Nat /\ Settled(p) \in Nat /\ Settled(p) <= dirSize
         /\ tmp[p] = None \/ ~Exists(tmp[p]) => Settled(p) = dirSize
<1>1. dirSize = FilesSize(disk, Present)
  BY DEF dirSize, FilesSize
<1>2. dirSize \in Nat /\ Settled(p) \in Nat
  <2>1. Present \in SUBSET Present /\ Present \ {tmp[p]} \in SUBSET Present
    OBVIOUS
  <2> QED
    BY <1>1, <2>1, DirFacts DEF Settled
<1>3. CASE tmp[p] \in Present
  <2>1. dirSize = disk[tmp[p]].size + Settled(p) /\ disk[tmp[p]].size \in Nat
    <3>1. Present \in SUBSET Present
      OBVIOUS
    <3> QED
      BY <1>1, <1>3, <3>1, DirFacts DEF Settled
  <2>2. Settled(p) <= dirSize
    BY <1>2, <2>1, SMT
  <2>3. tmp[p] # None /\ Exists(tmp[p])
    BY <1>3, DiskCacheAssumption DEF Present, Paths
  <2> QED
    BY <1>1, <1>2, <2>2, <2>3
<1>4. CASE tmp[p] \notin Present
  <2>1. Present \ {tmp[p]} = Present
    BY <1>4
  <2>2. Settled(p) = dirSize
    BY <1>1, <2>1 DEF Settled
  <2>3. Settled(p) <= dirSize
    BY <1>2, <2>2, SMT
  <2> QED
    BY <1>1, <1>2, <2>2, <2>3
<1> QED
  BY <1>3, <1>4

\* What a step leaves alone.
LEMMA SettledSame ==
  ASSUME NEW p, (Present \ {tmp[p]})' = Present \ {tmp[p]},
         \A path \in Present \ {tmp[p]} : disk'[path] = disk[path]
  PROVE  Settled(p)' = Settled(p)
<1>1. \A path \in Present \ {tmp[p]} : disk'[path].size = disk[path].size
  OBVIOUS
<1>2. FilesSize(disk', Present \ {tmp[p]}) = FilesSize(disk, Present \ {tmp[p]})
  BY <1>1, FilesSame
<1> QED
  BY <1>2 DEF Settled

\* A step adds one file at most.
LEMMA SizesStep == IInv /\ SizesOK /\ [Next]_vars => SizesOK'
<1> SUFFICES ASSUME IInv, SizesOK, [Next]_vars PROVE SizesOK'
  OBVIOUS
<1>a. ASSUME NEW x, \A path \in Paths : Exists(path)' => path = x \/ Exists(path)
      PROVE  IsFiniteSet(Present)'
  <2>1. Present' \in SUBSET (Present \cup {x})
    BY <1>a DEF Present
  <2>2. IsFiniteSet(Present \cup {x})
    BY FS_AddElement DEF SizesOK
  <2>3. IsFiniteSet(Present')
    BY <2>1, <2>2, FS_Subset
  <2> QED
    BY <2>3
<1>b. ASSUME disk' = disk PROVE IsFiniteSet(Present)'
  BY <1>a, <1>b DEF Exists
<1>c. ASSUME NEW x, disk' = Without(x) PROVE IsFiniteSet(Present)'
  BY <1>a, <1>c DEF Exists, Without, IInv, StateOK
<1>d. ASSUME NEW x, NEW f, disk' = [disk EXCEPT ![x] = f] PROVE IsFiniteSet(Present)'
  BY <1>a, <1>d DEF Exists, IInv, StateOK
<1>e. ASSUME NEW c, NEW n \in Int, bytes' = [bytes EXCEPT ![c] = n]
      PROVE  (bytes \in [Caches -> Int])'
  BY <1>e DEF SizesOK
<1>f. ASSUME bytes' = bytes PROVE (bytes \in [Caches -> Int])'
  BY <1>f DEF SizesOK
<1>g. ASSUME NEW p \in Procs, key[p] \in Keys
      PROVE  /\ need(p) \in Nat
             /\ bytes[CacheOf[p]] + need(p) \in Int /\ bytes[CacheOf[p]] + (-need(p)) \in Int
  <2>1. bytes[CacheOf[p]] \in Int /\ need(p) \in Nat
    BY <1>g, DiskCacheAssumption DEF SizesOK, need
  <2> QED
    BY <2>1, SMT
<1>1. CASE UNCHANGED vars
  BY <1>1, <1>b, <1>f DEF vars, SizesOK
<1>2. ASSUME NEW p \in Procs, NEW k \in Keys, PutStart(p, k) PROVE SizesOK'
  BY <1>2, <1>b, <1>f DEF PutStart, SizesOK
<1>3. ASSUME NEW p \in Procs, PutStat(p) PROVE SizesOK'
  BY <1>3, <1>b, <1>f DEF PutStat, SizesOK
<1>4. ASSUME NEW p \in Procs, PutCreateTemp(p) PROVE SizesOK'
  BY <1>4, <1>d, <1>f DEF PutCreateTemp, SizesOK
<1>5. ASSUME NEW p \in Procs, PutCopied(p) PROVE SizesOK'
  BY <1>5, <1>b, <1>d, <1>f DEF PutCopied, SizesOK
<1>6. ASSUME NEW p \in Procs, PutCopyFails(p) PROVE SizesOK'
  BY <1>6, <1>c, <1>f DEF PutCopyFails, SizesOK
<1>7. ASSUME NEW p \in Procs, PutCapacity(p) PROVE SizesOK'
  BY <1>7, <1>b, <1>c, <1>f, CapacityOutcomes DEF PutCapacity, Reject, SizesOK
<1>8. ASSUME NEW p \in Procs, PutRecheck(p) PROVE SizesOK'
  BY <1>8, <1>b, <1>c, <1>f DEF PutRecheck, Reject, SizesOK
<1>9. ASSUME NEW p \in Procs, PutRename(p) PROVE SizesOK'
  <2>1. CASE disk' = disk
    BY <1>9, <2>1, <1>b, <1>f DEF PutRename, SizesOK
  <2>2. CASE disk' = [disk EXCEPT ![key[p]] = disk[tmp[p]], ![tmp[p]] = None]
    <3>1. \A path \in Paths : Exists(path)' => path = key[p] \/ Exists(path)
      BY <2>2, SMT DEF Exists, IInv, StateOK
    <3> QED
      BY <1>9, <3>1, <1>a, <1>f DEF PutRename, SizesOK
  <2> QED
    BY <1>9, <2>1, <2>2 DEF PutRename
<1>10. ASSUME NEW p \in Procs, PutAdd(p) PROVE SizesOK'
  <2>1. bytes' = [bytes EXCEPT ![CacheOf[p]] = bytes[CacheOf[p]] + need(p)]
    BY <1>10 DEF PutAdd, AddBytes
  <2>2. key[p] \in Keys
    BY <1>10 DEF PutAdd, At, IInv, ArgsOK, PutLabels
  <2> QED
    BY <1>10, <1>b, <1>e, <1>g, <2>1, <2>2 DEF PutAdd, SizesOK
<1>11. ASSUME NEW p \in Procs, NEW k \in Keys, DeleteStart(p, k) PROVE SizesOK'
  BY <1>11, <1>b, <1>f DEF DeleteStart, SizesOK
<1>12. ASSUME NEW p \in Procs, DeleteRemove(p) PROVE SizesOK'
  BY <1>12, <1>c, <1>f DEF DeleteRemove, SizesOK
<1>13. ASSUME NEW p \in Procs, DeleteSubtract(p) PROVE SizesOK'
  <2>1. bytes' = [bytes EXCEPT ![CacheOf[p]] = bytes[CacheOf[p]] + (-need(p))]
    BY <1>13 DEF DeleteSubtract, AddBytes
  <2>2. key[p] \in Keys
    BY <1>13 DEF DeleteSubtract, At, IInv, ArgsOK
  <2> QED
    BY <1>13, <1>b, <1>e, <1>g, <2>1, <2>2 DEF DeleteSubtract, SizesOK
<1>14. ASSUME NEW p \in Procs, NEW t \in Nat, PruneStart(p, t) PROVE SizesOK'
  BY <1>14, <1>b, <1>f DEF PruneStart, SizesOK
<1>15. ASSUME NEW p \in Procs, PruneLock(p) PROVE SizesOK'
  BY <1>15, <1>b, <1>f DEF PruneLock, SizesOK
<1>16. ASSUME NEW p \in Procs, PruneWalk(p) PROVE SizesOK'
  BY <1>16, <1>b, <1>f DEF PruneWalk, SizesOK
<1>17. ASSUME NEW p \in Procs, PruneWalked(p) PROVE SizesOK'
  BY <1>17, <1>b, <1>f DEF PruneWalked, SizesOK
<1>18. ASSUME NEW p \in Procs, PruneRemove(p) PROVE SizesOK'
  BY <1>18, <1>c, <1>f DEF PruneRemove, SizesOK
<1>19. ASSUME NEW p \in Procs, PruneRemoved(p) PROVE SizesOK'
  BY <1>19, <1>b, <1>f DEF PruneRemoved, SizesOK
<1>20. ASSUME NEW p \in Procs, PruneStore(p) PROVE SizesOK'
  <2>1. pr[p].remaining \in Int
    BY DEF IInv, StateOK, PruneLocals
  <2> QED
    BY <1>20, <1>b, <1>e, <2>1 DEF PruneStore, SizesOK
<1>21. ASSUME NEW p \in Procs, PruneRemoveFails(p) PROVE SizesOK'
  BY <1>21, <1>b, <1>c, <1>f DEF PruneRemoveFails, SizesOK
<1>22. ASSUME NEW c \in Caches, Restart(c) PROVE SizesOK'
  <2>1. PICK n \in Counted(c) : bytes' = [bytes EXCEPT ![c] = n]
    BY <1>22 DEF Restart
  <2>2. dirSize \in Nat
    <3>1. Present \in SUBSET Present
      OBVIOUS
    <3> QED
      BY <3>1, DirFacts DEF dirSize, FilesSize, IInv
  <2>3. n \in Int
    BY <2>1, <2>2, SMT DEF Counted
  <2> QED
    BY <1>22, <1>b, <1>e, <2>1, <2>3 DEF Restart, SizesOK
<1> QED
  BY <1>1, <1>2, <1>3, <1>4, <1>5, <1>6, <1>7, <1>8, <1>9, <1>10, <1>11, <1>12,
     <1>13, <1>14, <1>15, <1>16, <1>17, <1>18, <1>19, <1>20, <1>21, <1>22,
     ConfigFacts, DiskCacheAssumption
  DEF Next, Step, Fault, Call, IInv

\* A step that moves nothing but the temporary file of p.
LEMMA SettledKept ==
  ASSUME NEW p,
         \A path \in Paths : (Exists(path)' /\ path # tmp'[p]) <=> (Exists(path) /\ path # tmp[p]),
         \A path \in Paths \ {tmp[p]} : disk'[path] = disk[path]
  PROVE  Settled(p)' = Settled(p)
<1>1. (Present \ {tmp[p]})' = Present \ {tmp[p]}
  BY DEF Present
<1>2. \A path \in Present \ {tmp[p]} : disk'[path] = disk[path]
  BY DEF Present
<1> QED
  BY <1>1, <1>2, SettledSame

\* The steps by which p changes neither what is settled nor what is counted.
Neutral(p) ==
    \/ \E k \in Keys : PutStart(p, k) \/ DeleteStart(p, k)
    \/ \E t \in Nat : PruneStart(p, t)
    \/ PutStat(p) \/ PutCreateTemp(p) \/ PutCopied(p) \/ PutCopyFails(p)
    \/ PutCapacity(p) \/ PutRecheck(p) \/ (PutRename(p) /\ ~Exists(tmp[p])) \/ PutAdd(p)
    \/ DeleteSubtract(p)
    \/ PruneLock(p) \/ PruneWalk(p) \/ PruneWalked(p) \/ PruneRemoved(p) \/ PruneRemoveFails(p)

\* They do not.
LEMMA NeutralStep ==
  ASSUME IInv, SizesOK, NEW p \in Procs, Neutral(p)
  PROVE  Settled(p)' = Settled(p) /\ Net(p)' = Net(p)
<1> DEFINE Same == Settled(p)' = Settled(p) /\ Net(p)' = Net(p)
<1>a. ASSUME bytes' = bytes, pc[p] \notin {"add", "subtract"}, pc'[p] \notin {"add", "subtract"}
      PROVE  Net(p)' = Net(p)
  BY <1>a DEF Net, Due
<1>b. ASSUME disk' = disk, tmp' = tmp PROVE Settled(p)' = Settled(p)
  BY <1>b, SettledKept DEF Exists
<1>c. ASSUME disk' = disk, tmp'[p] = None, tmp[p] = None \/ ~Exists(tmp[p])
      PROVE  Settled(p)' = Settled(p)
  BY <1>c, SettledKept, DiskCacheAssumption DEF Exists, Paths
<1>d. ASSUME disk' = Without(tmp[p]), tmp'[p] = None, tmp[p] # None
      PROVE  Settled(p)' = Settled(p)
  BY <1>d, SettledKept, DiskCacheAssumption, SMT DEF Exists, Paths, Without, IInv, StateOK
<1>e. ASSUME NEW f, disk' = [disk EXCEPT ![tmp[p]] = f], tmp' = tmp
      PROVE  Settled(p)' = Settled(p)
  BY <1>e, SettledKept, SMT DEF Exists, IInv, StateOK
<1> HIDE DEF Same
<1> USE DEF At, Goto, Return, locals, Same
<1>t. tmp \in [Procs -> Temps \cup {None}] /\ pc \in [Procs -> Labels]
  BY DEF IInv, StateOK
<1>1. ASSUME NEW k \in Keys, PutStart(p, k) PROVE Same
  <2>a. puts \in 0..MaxPuts /\ conf.maxPuts \in 0..MaxPuts /\ puts < conf.maxPuts /\ MaxPuts \in Nat
    BY <1>1, ConfigFacts, DiskCacheAssumption DEF PutStart, IInv, StateOK
  <2>b. puts + 1 \in Temps /\ puts + 1 > puts
    BY ONLY <2>a, SMT DEF Temps
  <2>1. ~Exists(puts + 1) /\ tmp[p] = None
    BY <1>1, <2>b DEF PutStart, IInv, ArgsOK, TempsOK
  <2>2. tmp'[p] = puts + 1
    BY <1>1, <1>t DEF PutStart
  <2>3. Settled(p)' = Settled(p)
    BY <1>1, <2>1, <2>2, SettledKept, DiskCacheAssumption DEF PutStart, Exists, Paths
  <2> QED
    BY <1>1, <1>a, <1>t, <2>3 DEF PutStart
<1>2. ASSUME NEW k \in Keys, DeleteStart(p, k) PROVE Same
  <2>1. tmp[p] = None
    BY <1>2 DEF DeleteStart, IInv, ArgsOK
  <2> QED
    BY <1>2, <1>a, <1>b, <1>c, <1>t, <2>1 DEF DeleteStart
<1>3. ASSUME NEW t \in Nat, PruneStart(p, t) PROVE Same
  BY <1>3, <1>a, <1>b, <1>t DEF PruneStart, CallPrune
<1>4. CASE PutStat(p)
  <2>1. tmp[p] = None \/ ~Exists(tmp[p])
    BY <1>4 DEF PutStat, IInv, TempFilesOK
  <2> QED
    BY <1>4, <1>a, <1>b, <1>c, <1>t, <2>1 DEF PutStat, AfterStat
<1>5. CASE PutCreateTemp(p)
  BY <1>5, <1>a, <1>e, <1>t DEF PutCreateTemp, TempPath
<1>6. CASE PutCopied(p)
  BY <1>6, <1>a, <1>b, <1>e, <1>t DEF PutCopied, TempPath, AfterCopy
<1>7. CASE PutCopyFails(p)
  <2>1. tmp[p] # None
    BY <1>7 DEF PutCopyFails, IInv, ArgsOK, PutLabels
  <2> QED
    BY <1>7, <1>a, <1>d, <1>t, <2>1 DEF PutCopyFails
<1>8. CASE PutCapacity(p)
  <2>1. tmp[p] # None
    BY <1>8 DEF PutCapacity, IInv, ArgsOK, PutLabels
  <2>2. pc[p] = "capacity" /\ bytes' = bytes
    BY <1>8 DEF PutCapacity
  <2>3. CASE Reject(p)
    BY <1>a, <1>d, <1>t, <2>1, <2>2, <2>3 DEF Reject
  <2>4. CASE Goto(p, AfterCapacity) /\ UNCHANGED disk
    BY <1>a, <1>b, <1>t, <2>2, <2>4 DEF AfterCapacity
  <2>5. CASE CallPrune(p, MaxBytes - need(p)) /\ UNCHANGED disk
    BY <1>a, <1>b, <1>t, <2>2, <2>5 DEF CallPrune
  <2> QED
    BY <1>8, <2>3, <2>4, <2>5, CapacityOutcomes
<1>9. CASE PutRecheck(p)
  <2>1. tmp[p] # None
    BY <1>9 DEF PutRecheck, IInv, ArgsOK, PutLabels
  <2> QED
    BY <1>9, <1>a, <1>b, <1>d, <1>t, <2>1 DEF PutRecheck, Reject, AfterCapacity
<1>10. CASE PutRename(p) /\ ~Exists(tmp[p])
  BY <1>10, <1>a, <1>c, <1>t DEF PutRename
<1>11. CASE PutAdd(p)
  <2>1. ~Exists(tmp[p]) /\ key[p] \in Keys
    BY <1>11 DEF PutAdd, IInv, TempFilesOK, ArgsOK, PutLabels
  <2>2. Settled(p)' = Settled(p)
    BY <1>11, <1>c, <1>t, <2>1 DEF PutAdd
  <2>3. bytes'[CacheOf[p]] = bytes[CacheOf[p]] + need(p) /\ Due(p) = need(p) /\ Due(p)' = 0
    BY <1>11, <1>t, DiskCacheAssumption DEF PutAdd, AddBytes, Due, SizesOK
  <2>4. bytes[CacheOf[p]] \in Int /\ need(p) \in Nat
    BY <2>1, DiskCacheAssumption DEF SizesOK, need
  <2>5. Net(p)' = Net(p)
    BY <2>3, <2>4, SMT DEF Net
  <2> QED
    BY <2>2, <2>5
<1>12. CASE DeleteSubtract(p)
  <2>1. tmp[p] = None /\ key[p] \in Keys
    BY <1>12 DEF DeleteSubtract, IInv, ArgsOK
  <2>2. Settled(p)' = Settled(p)
    BY <1>12, <1>c, <1>t, <2>1 DEF DeleteSubtract
  <2>3. bytes'[CacheOf[p]] = bytes[CacheOf[p]] + (-need(p)) /\ Due(p) = -need(p) /\ Due(p)' = 0
    BY <1>12, <1>t, DiskCacheAssumption DEF DeleteSubtract, AddBytes, Due, SizesOK
  <2>4. bytes[CacheOf[p]] \in Int /\ need(p) \in Nat
    BY <2>1, DiskCacheAssumption DEF SizesOK, need
  <2>5. Net(p)' = Net(p)
    BY <2>3, <2>4, SMT DEF Net
  <2> QED
    BY <2>2, <2>5
<1>13. CASE PruneLock(p)
  BY <1>13, <1>a, <1>b, <1>t DEF PruneLock
<1>14. CASE PruneWalk(p)
  BY <1>14, <1>a, <1>b, <1>t DEF PruneWalk
<1>15. CASE PruneWalked(p)
  BY <1>15, <1>a, <1>b, <1>t DEF PruneWalked
<1>16. CASE PruneRemoved(p)
  BY <1>16, <1>a, <1>b, <1>t DEF PruneRemoved
<1>17. CASE PruneRemoveFails(p)
  <2>1. tmp'[p] = None /\ bytes' = bytes /\ pc[p] = "remove" /\ pc'[p] = "idle"
    BY <1>17, <1>t DEF PruneRemoveFails
  <2>2. CASE tmp[p] = None
    BY <1>17, <1>a, <1>c, <2>1, <2>2 DEF PruneRemoveFails
  <2>3. CASE tmp[p] # None
    BY <1>17, <1>a, <1>d, <2>1, <2>3 DEF PruneRemoveFails
  <2> QED
    BY <2>2, <2>3
<1> QED
  BY <1>1, <1>2, <1>3, <1>4, <1>5, <1>6, <1>7, <1>8, <1>9, <1>10, <1>11, <1>12, <1>13,
     <1>14, <1>15, <1>16, <1>17
  DEF Neutral

\* Only p steps, so what it saw stays true until it changes it itself.
LEMMA SoloStep ==
  ASSUME IInv, WalkOK, SizesOK, [Next]_vars, NEW p \in Procs, conf.callers = {p}, SoloAt(p)
  PROVE  SoloAt(p)'
<1>t. /\ tmp \in [Procs -> Temps \cup {None}] /\ pc \in [Procs -> Labels]
      /\ key \in [Procs -> Keys \cup {None}] /\ pr \in [Procs -> PruneLocals]
      /\ disk \in [Paths -> FileRec \cup {None}]
  BY DEF IInv, StateOK
<1>q. \A q \in Procs \ {p} : pc[q] = "idle"
  BY DEF SoloAt
<1> DEFINE Absent == tmp[p] # None /\ pc[p] \notin {"stat", "add"} => ~Exists(key[p])
           Others == \A q \in Procs \ {p} : pc'[q] = "idle"
<1>k. Absent
  BY DEF SoloAt
<1>a. ASSUME Others, pc'[p] \notin PruneLabels, Absent' PROVE SoloAt(p)'
  BY <1>a DEF SoloAt, PruneLabels
<1>e. ASSUME NEW l, pc' = [pc EXCEPT ![p] = l] PROVE Others /\ pc'[p] = l
  BY <1>e, <1>q, <1>t
<1>n. ASSUME tmp' = [tmp EXCEPT ![p] = None] PROVE Absent'
  BY <1>n, <1>t
<1>x. key[p] # tmp[p] \/ key[p] = None
  BY <1>t, DiskCacheAssumption
<1>o. Present \in SUBSET Present
  OBVIOUS
<1>r. ASSUME NEW r, Return(p, r) PROVE SoloAt(p)'
  BY <1>r, <1>a, <1>e, <1>n DEF Return, PruneLabels
<1>g. ASSUME NEW l \in {"create", "copy", "capacity", "rename", "recheck", "lock", "add"},
             pc' = [pc EXCEPT ![p] = l], key' = key, l # "add" => ~Exists(key[p])'
      PROVE  SoloAt(p)'
  BY <1>g, <1>a, <1>e DEF PruneLabels
<1> HIDE DEF Absent, Others
<1> USE DEF At, Goto, locals
<1>1. CASE UNCHANGED vars
  BY <1>1 DEF vars, SoloAt, Present, EntryOf, Exists, dirSize
<1>2. ASSUME NEW k \in Keys, PutStart(p, k) PROVE SoloAt(p)'
  BY <1>2, <1>a, <1>e DEF PutStart, Absent, PruneLabels
<1>3. CASE PutStat(p)
  <2>1. CASE Exists(key[p])
    BY <1>3, <1>r, <2>1 DEF PutStat
  <2>2. CASE ~Exists(key[p])
    <3>1. AfterStat \in {"create", "capacity"}
      BY DEF AfterStat
    <3> QED
      BY <1>3, <1>g, <2>2, <3>1 DEF PutStat, Exists
  <2> QED
    BY <2>1, <2>2
<1>4. CASE PutCreateTemp(p)
  <2>1. tmp[p] # None /\ key[p] \in Keys /\ ~Exists(key[p])
    BY <1>4, <1>k DEF PutCreateTemp, Absent, IInv, ArgsOK, PutLabels
  <2>2. ~Exists(key[p])'
    BY <1>4, <1>x, <1>t, <2>1, DiskCacheAssumption DEF PutCreateTemp, TempPath, Exists, Paths
  <2> QED
    BY <1>4, <1>g, <2>2 DEF PutCreateTemp
<1>5. CASE PutCopied(p)
  <2>1. tmp[p] # None /\ key[p] \in Keys /\ ~Exists(key[p])
    BY <1>5, <1>k DEF PutCopied, Absent, IInv, ArgsOK, PutLabels
  <2>2. ~Exists(key[p])'
    BY <1>5, <1>x, <1>t, <2>1, DiskCacheAssumption DEF PutCopied, TempPath, Exists, Paths
  <2> QED
    BY <1>5, <1>g, <2>2 DEF PutCopied, AfterCopy
<1>6. CASE PutCopyFails(p)
  BY <1>6, <1>r DEF PutCopyFails
<1>7. CASE PutCapacity(p)
  <2>1. tmp[p] # None /\ ~Exists(key[p])
    BY <1>7, <1>k DEF PutCapacity, Absent, IInv, ArgsOK, PutLabels
  <2>2. CASE Reject(p)
    BY <1>r, <2>2 DEF Reject
  <2>3. CASE Goto(p, AfterCapacity) /\ UNCHANGED disk
    BY <1>g, <2>1, <2>3 DEF AfterCapacity, Exists
  <2>4. CASE CallPrune(p, MaxBytes - need(p)) /\ UNCHANGED disk
    BY <1>g, <2>1, <2>4 DEF CallPrune, Exists
  <2> QED
    BY <1>7, <2>2, <2>3, <2>4, CapacityOutcomes
<1>8. CASE PutRecheck(p)
  <2>1. tmp[p] # None /\ ~Exists(key[p])
    BY <1>8, <1>k DEF PutRecheck, Absent, IInv, ArgsOK, PutLabels
  <2>2. CASE Reject(p)
    BY <1>r, <2>2 DEF Reject
  <2>3. CASE Goto(p, AfterCapacity) /\ UNCHANGED disk
    BY <1>g, <2>1, <2>3 DEF AfterCapacity, Exists
  <2> QED
    BY <1>8, <2>2, <2>3 DEF PutRecheck
<1>9. CASE PutRename(p)
  <2>1. CASE Exists(tmp[p])
    BY <1>9, <1>g, <2>1 DEF PutRename
  <2>2. CASE ~Exists(tmp[p])
    BY <1>9, <1>r, <2>2 DEF PutRename
  <2> QED
    BY <2>1, <2>2
<1>10. CASE PutAdd(p)
  BY <1>10, <1>r DEF PutAdd
<1>11. ASSUME NEW k \in Keys, DeleteStart(p, k) PROVE SoloAt(p)'
  <2>1. tmp[p] = None
    BY <1>11 DEF DeleteStart, IInv, ArgsOK
  <2> QED
    BY <1>11, <1>r, <1>a, <1>e, <2>1 DEF DeleteStart, Absent, PruneLabels
<1>12. CASE DeleteRemove(p)
  <2>1. tmp[p] = None
    BY <1>12 DEF DeleteRemove, IInv, ArgsOK
  <2> QED
    BY <1>12, <1>r, <1>a, <1>e, <2>1 DEF DeleteRemove, Absent, PruneLabels
<1>13. CASE DeleteSubtract(p)
  BY <1>13, <1>r DEF DeleteSubtract
<1>14. ASSUME NEW t \in Nat, PruneStart(p, t) PROVE SoloAt(p)'
  <2>1. tmp[p] = None
    BY <1>14 DEF PruneStart, IInv, ArgsOK
  <2> QED
    BY <1>14, <1>a, <1>e, <2>1 DEF PruneStart, CallPrune, Absent, PruneLabels
<1>15. CASE PruneLock(p)
  <2>1. Others /\ pc'[p] = "walk" /\ Absent'
    BY <1>15, <1>e, <1>k DEF PruneLock, Absent, Exists
  <2>2. disk' = disk /\ pr[p].entries = {} /\ pr[p].remaining = 0 /\ pr[p] \in PruneLocals
    BY <1>15, <1>t DEF PruneLock, WalkOK, PruneLabels
  <2>3. pr'[p].todo = Present /\ pr'[p].entries = {} /\ pr'[p].remaining = 0
    BY <1>15, <1>t, <2>2, SMT DEF PruneLock, PruneLocals
  <2>4. FilesSize(disk, {}) = 0
    BY <1>o, DirFacts DEF IInv
  <2>5. Present' = Present /\ Present \ Present = {}
    BY <2>2 DEF Present, Exists
  <2>6. pr'[p].entries = {EntryOf(path) : path \in Present \ Present}'
    BY <2>3, <2>5
  <2> QED
    BY <2>1, <2>2, <2>3, <2>4, <2>5, <2>6 DEF SoloAt, Others, Absent
<1>16. CASE PruneWalk(p)
  <2>1. PICK path \in pr[p].todo : PruneWalk(p)!2!(path)
    BY <1>16 DEF PruneWalk
  <2>2. /\ pr[p].todo \subseteq Present
        /\ pr[p].entries = {EntryOf(x) : x \in Present \ pr[p].todo}
        /\ pr[p].remaining = FilesSize(disk, Present \ pr[p].todo)
        /\ disk' = disk /\ key' = key /\ tmp' = tmp
    BY <1>16 DEF PruneWalk, SoloAt
  <2>3. path \in Present /\ Exists(path)
    BY <2>1, <2>2 DEF Present
  <2> DEFINE T == pr[p].todo \ {path}
             D == Present \ T
  <2>4. pc' = pc /\ pr'[p].todo = T /\ pr'[p].entries = pr[p].entries \cup {EntryOf(path)}
        /\ pr'[p].remaining = pr[p].remaining + disk[path].size
    BY <1>t, <2>1, <2>3, SMT
  <2>5. D \ {path} = Present \ pr[p].todo /\ path \in D /\ D \in SUBSET Present
    BY <2>1, <2>3
  <2>6. /\ FilesSize(disk, D) = disk[path].size + FilesSize(disk, D \ {path})
        /\ disk[path].size \in Nat
    BY <2>5, DirFacts DEF IInv
  <2>7. D \ {path} \in SUBSET Present
    BY <2>5
  <2>8. FilesSize(disk, D \ {path}) \in Nat
    BY <2>7, DirFacts DEF IInv
  <2> HIDE DEF D
  <2>9. pr'[p].remaining = FilesSize(disk, D)
    <3>1. pr[p].remaining = FilesSize(disk, D \ {path})
      BY <2>2, <2>5
    <3> QED
      BY <2>4, <2>6, <2>8, <3>1, SMT
  <2>10. pr'[p].entries = {EntryOf(x) : x \in D}
    BY <2>2, <2>4, <2>5
  <2>11. Present' = Present /\ \A x : EntryOf(x)' = EntryOf(x)
    BY <2>2 DEF Present, Exists, EntryOf
  <2>12. D = (Present \ pr[p].todo)'
    BY <2>4, <2>11 DEF D
  <2>13. pr'[p].entries = {EntryOf(x) : x \in Present \ pr[p].todo}'
    BY <2>10, <2>11, <2>12
  <2>14. pr'[p].remaining = FilesSize(disk, Present \ pr[p].todo)'
    BY <2>2, <2>9, <2>12
  <2>15. (pr[p].todo \subseteq Present)'
    BY <2>2, <2>4, <2>11
  <2>16. pc[p] = "walk" /\ Absent'
    BY <1>16, <1>k, <2>2, <2>4 DEF PruneWalk, Absent, Exists
  <2> QED
    BY <1>q, <2>4, <2>13, <2>14, <2>15, <2>16 DEF SoloAt, Absent
<1>17. CASE PruneWalked(p)
  <2>1. /\ pr[p].entries = {EntryOf(x) : x \in Present \ pr[p].todo}
        /\ pr[p].remaining = FilesSize(disk, Present \ pr[p].todo)
        /\ disk' = disk /\ key' = key /\ tmp' = tmp /\ pr' = pr /\ pr[p].todo = {}
    BY <1>17 DEF PruneWalked, SoloAt
  <2>2. Present \ pr[p].todo = Present /\ dirSize = FilesSize(disk, Present)
    BY <2>1 DEF dirSize, FilesSize
  <2>3. (pr[p].remaining = dirSize)'
    BY <2>1, <2>2 DEF dirSize, Present, Exists
  <2>4. (pr[p].entries \subseteq {EntryOf(x) : x \in Present})'
    BY <2>1, <2>2 DEF Present, Exists, EntryOf
  <2>5. Others /\ pc'[p] = "remove" /\ Absent'
    BY <1>17, <1>e, <1>k DEF PruneWalked, Absent, Exists
  <2> QED
    BY <2>3, <2>4, <2>5 DEF SoloAt, Others, Absent
<1>18. CASE PruneRemove(p)
  <2>1. PICK e \in Oldest(pr[p].entries) :
          /\ disk' = Without(e.path)
          /\ pr' = [pr EXCEPT ![p].entries = Rest(@, e), ![p].remaining = @ - Freed(e)]
    BY <1>18 DEF PruneRemove
  <2>2. /\ pr[p].entries \subseteq {EntryOf(x) : x \in Present}
        /\ pr[p].remaining = dirSize /\ pc[p] = "remove" /\ pc' = pc /\ key' = key /\ tmp' = tmp
    BY <1>18 DEF PruneRemove, SoloAt
  <2>3. PICK path \in Present : e = EntryOf(path)
    BY <2>1, <2>2 DEF Oldest
  <2>4. e.path = path /\ e.size = disk[path].size /\ Exists(path) /\ path \in Paths
    BY <2>3 DEF EntryOf, Present
  <2>5. /\ pr'[p].entries = pr[p].entries \ {e}
        /\ pr'[p].remaining = pr[p].remaining - disk[path].size
    BY <1>t, <2>1, <2>4, SMT DEF Rest, Freed, PruneLocals
  <2>6. disk' = [disk EXCEPT ![path] = None]
    BY <2>1, <2>4 DEF Without
  <2>7. Present' = Present \ {path}
    BY <1>t, <2>6, DiskCacheAssumption DEF Present, Exists
  <2>8. \A x \in Present \ {path} : disk'[x] = disk[x]
    BY <1>t, <2>6 DEF Present
  <2>9. FilesSize(disk', Present \ {path}) = FilesSize(disk, Present \ {path})
    <3>1. \A x \in Present \ {path} : disk'[x].size = disk[x].size
      BY <2>8
    <3> QED
      BY ONLY <3>1, FilesSame
  <2>10. dirSize' = FilesSize(disk', Present \ {path}) /\ dirSize = FilesSize(disk, Present)
    BY <2>7 DEF dirSize, FilesSize
  <2>11. /\ FilesSize(disk, Present) = disk[path].size + FilesSize(disk, Present \ {path})
         /\ disk[path].size \in Nat
    BY <1>o, DirFacts DEF IInv
  <2>12. Present \ {path} \in SUBSET Present
    OBVIOUS
  <2>13. FilesSize(disk, Present \ {path}) \in Nat
    BY <2>12, DirFacts DEF IInv
  <2>14. pr'[p].remaining = dirSize'
    BY <2>2, <2>5, <2>9, <2>10, <2>11, <2>13, SMT
  <2>15. ASSUME NEW f \in pr'[p].entries PROVE f \in {EntryOf(x) : x \in Present}'
    <3>1. PICK y \in Present : f = EntryOf(y)
      BY <2>2, <2>5
    <3>2. y # path
      BY <2>3, <2>5, <3>1
    <3>3. y \in Present' /\ EntryOf(y)' = EntryOf(y)
      BY <2>7, <2>8, <3>2 DEF EntryOf
    <3> QED
      BY <3>1, <3>3
  <2>16. Absent'
    <3>1. ASSUME tmp[p] # None, ~Exists(key[p]) PROVE ~Exists(key[p])'
      BY <1>t, <2>2, <2>6, <3>1, SMT DEF Exists, IInv, ArgsOK, Paths
    <3> QED
      BY <1>k, <2>2, <3>1 DEF Absent
  <2> QED
    BY <1>q, <2>2, <2>14, <2>15, <2>16 DEF SoloAt, Absent
<1>19. CASE PruneRemoved(p)
  <2>1. disk' = disk /\ pr' = pr /\ key' = key /\ tmp' = tmp /\ pr[p].remaining = dirSize
    BY <1>19 DEF PruneRemoved, SoloAt
  <2>2. (pr[p].remaining = dirSize)'
    BY <2>1 DEF dirSize, Present, Exists
  <2>3. Others /\ pc'[p] = "store" /\ Absent'
    BY <1>19, <1>e, <1>k DEF PruneRemoved, Absent, Exists
  <2> QED
    BY <2>2, <2>3 DEF SoloAt, Others, Absent
<1>20. CASE PruneStore(p)
  <2>1. CASE tmp[p] = None
    BY <1>20, <1>r, <2>1 DEF PruneStore
  <2>2. CASE tmp[p] # None
    <3>1. ~Exists(key[p])'
      BY <1>20, <1>k, <2>2 DEF PruneStore, Absent, Exists
    <3> QED
      BY <1>20, <1>g, <2>2, <3>1 DEF PruneStore
  <2> QED
    BY <2>1, <2>2
<1>21. CASE PruneRemoveFails(p)
  BY <1>21, <1>r DEF PruneRemoveFails
<1>22. CASE Restart(CacheOf[p])
  BY <1>22, <1>q DEF Restart, SoloAt
<1> QED
  BY <1>1, <1>2, <1>3, <1>4, <1>5, <1>6, <1>7, <1>8, <1>9, <1>10, <1>11, <1>12,
     <1>13, <1>14, <1>15, <1>16, <1>17, <1>18, <1>19, <1>20, <1>21, <1>22, ConfigFacts
  DEF Next, Step, Fault, Call, IInv

\* A renamed file is new in the directory, and the counter is about to grow by it.
LEMMA RenameEffect ==
  ASSUME IInv, IInv', SizesOK, SizesOK', NEW p \in Procs, SoloAt(p), PutRename(p), Exists(tmp[p])
  PROVE  /\ Settled(p)' = Settled(p) + need(p) /\ Net(p)' = Net(p) + need(p)
         /\ need(p) \in Nat /\ Settled(p) \in Nat /\ Net(p) \in Int
<1>1. /\ pc[p] = "rename" /\ tmp[p] \in Temps /\ key[p] \in Keys /\ ~Exists(key[p])
      /\ disk[tmp[p]].size = need(p)
  BY DEF PutRename, At, IInv, StateOK, ArgsOK, TempFilesOK, PutLabels, SoloAt, need
<1>2. tmp' = tmp /\ key' = key /\ pc' = [pc EXCEPT ![p] = "add"] /\ bytes' = bytes
      /\ disk' = [disk EXCEPT ![key[p]] = disk[tmp[p]], ![tmp[p]] = None]
  BY DEF PutRename, Goto, locals
<1>3. key[p] # tmp[p] /\ key[p] \in Paths /\ tmp[p] \in Paths /\ disk \in [Paths -> FileRec \cup {None}]
      /\ pc \in [Procs -> Labels]
  BY <1>1, DiskCacheAssumption DEF Paths, IInv, StateOK
<1>4. disk'[key[p]] = disk[tmp[p]] /\ disk'[tmp[p]] = None
      /\ \A x \in Paths \ {key[p], tmp[p]} : disk'[x] = disk[x]
  BY <1>2, <1>3, SMT
<1> DEFINE R == Present \ {tmp[p]}
           S == R \cup {key[p]}
<1>5. (Present \ {tmp[p]})' = S /\ S \ {key[p]} = R /\ key[p] \in S
  BY <1>1, <1>2, <1>3, <1>4 DEF Present, Exists
<1>6. \A x \in R : disk'[x].size = disk[x].size
  BY <1>1, <1>4 DEF Present
<1>7. FilesSize(disk', R) = FilesSize(disk, R)
  BY ONLY <1>6, FilesSame
<1>8. IsFiniteSet(S)
  <2>1. S \in SUBSET Present' /\ IsFiniteSet(Present')
    BY <1>5 DEF SizesOK
  <2> QED
    BY <2>1, FS_Subset
<1>9. \A x \in S : disk'[x].size \in Nat
  <2>1. S \in SUBSET Present' /\ disk' \in [Paths -> FileRec \cup {None}]
    BY <1>5 DEF IInv, StateOK
  <2> QED
    BY <2>1 DEF Present, Exists, FileRec
<1>10. Settled(p)' = FilesSize(disk', S) /\ Settled(p) = FilesSize(disk, R)
  BY <1>5 DEF Settled
<1>11. need(p) \in Nat /\ Settled(p) \in Nat /\ bytes[CacheOf[p]] \in Int
  BY <1>1, SettledFacts, DiskCacheAssumption DEF need, IInv, SizesOK
<1> HIDE DEF S, R
<1>12. FilesSize(disk', S) = disk'[key[p]].size + FilesSize(disk', S \ {key[p]})
  BY ONLY <1>5, <1>8, <1>9, FilesFacts
<1>13. Settled(p)' = need(p) + Settled(p)
  BY <1>1, <1>4, <1>5, <1>7, <1>10, <1>12
<1>14. Due(p) = 0 /\ Due(p)' = need(p)
  BY <1>1, <1>2, <1>3 DEF Due, need
<1>15. Net(p) = bytes[CacheOf[p]] + 0 /\ Net(p)' = bytes[CacheOf[p]] + need(p)
  BY <1>2, <1>14 DEF Net
<1> QED
  BY <1>11, <1>13, <1>15, SMT

\* Removing the file at a path takes its size off.
LEMMA RemoveEffect ==
  ASSUME IInv, SizesOK, NEW p \in Procs, NEW path \in Present, disk' = Without(path), tmp' = tmp
  PROVE  /\ Settled(p)' \in Nat /\ Settled(p) \in Nat
         /\ Settled(p)' <= Settled(p)
         /\ path # tmp[p] => Settled(p) = disk[path].size + Settled(p)'
         /\ disk[path].size \in Nat
<1> DEFINE R == Present \ {tmp[p]}
<1>1. disk \in [Paths -> FileRec \cup {None}] /\ path \in Paths
  BY DEF IInv, StateOK, Present
<1>2. (Present \ {tmp[p]})' = R \ {path} /\ \A x \in R \ {path} : disk'[x].size = disk[x].size
  BY <1>1, DiskCacheAssumption DEF Without, Present, Exists
<1>3. FilesSize(disk', R \ {path}) = FilesSize(disk, R \ {path})
  BY ONLY <1>2, FilesSame
<1>4. Settled(p)' = FilesSize(disk, R \ {path}) /\ Settled(p) = FilesSize(disk, R)
  BY <1>2, <1>3 DEF Settled
<1>5. R \in SUBSET Present /\ R \ {path} \in SUBSET Present /\ Present \in SUBSET Present
  OBVIOUS
<1>6. FilesSize(disk, R) \in Nat /\ FilesSize(disk, R \ {path}) \in Nat /\ disk[path].size \in Nat
  BY <1>5, DirFacts DEF IInv
<1>7. CASE path = tmp[p]
  <2>1. R \ {path} = R
    BY <1>7
  <2>2. FilesSize(disk, R \ {path}) <= FilesSize(disk, R)
    BY <2>1, <1>6, SMT
  <2> QED
    BY <1>4, <1>6, <1>7, <2>2
<1>8. CASE path # tmp[p]
  <2>1. path \in R
    BY <1>8
  <2>2. FilesSize(disk, R) = disk[path].size + FilesSize(disk, R \ {path})
    BY <1>5, <2>1, DirFacts DEF IInv
  <2>3. FilesSize(disk, R \ {path}) <= FilesSize(disk, R)
    BY <1>6, <2>2, SMT
  <2> QED
    BY <1>4, <1>6, <2>2, <2>3
<1> QED
  BY <1>7, <1>8

\* Delete takes the size of the content off, then counts it.
LEMMA DeleteEffect ==
  ASSUME IInv, SizesOK, NEW p \in Procs, DeleteRemove(p)
  PROVE  \/ /\ Settled(p) = Settled(p)' + need(p) /\ Net(p)' = Net(p) - need(p)
            /\ pc'[p] = "subtract" /\ need(p) \in Nat /\ Settled(p)' \in Nat /\ Net(p) \in Int
         \/ Settled(p)' = Settled(p) /\ Net(p)' = Net(p) /\ pc'[p] = "idle"
<1>1. pc[p] = "delete" /\ tmp[p] = None /\ key[p] \in Keys /\ bytes' = bytes
      /\ disk' = Without(key[p])
  BY DEF DeleteRemove, At, IInv, ArgsOK
<1>2. pc \in [Procs -> Labels] /\ tmp \in [Procs -> Temps \cup {None}]
      /\ disk \in [Paths -> FileRec \cup {None}]
  BY DEF IInv, StateOK
<1>3. CASE Exists(key[p])
  <2>1. pc' = [pc EXCEPT ![p] = "subtract"] /\ key' = key /\ tmp' = tmp
    BY <1>3 DEF DeleteRemove, Goto, locals
  <2>2. key[p] \in Present /\ key[p] # tmp[p] /\ disk[key[p]].size = need(p)
    BY <1>1, <1>3, DiskCacheAssumption DEF Present, Paths, IInv, WholeAtKey, need
  <2>3. Settled(p) = need(p) + Settled(p)' /\ Settled(p)' \in Nat /\ need(p) \in Nat
    BY <1>1, <2>1, <2>2, RemoveEffect
  <2>4. Due(p) = 0 /\ Due(p)' = -need(p) /\ pc'[p] = "subtract"
    BY <1>1, <1>2, <2>1 DEF Due, need
  <2>5. Net(p) = bytes[CacheOf[p]] + 0 /\ Net(p)' = bytes[CacheOf[p]] + (-need(p))
        /\ bytes[CacheOf[p]] \in Int
    BY <1>1, <2>4, DiskCacheAssumption DEF Net, SizesOK
  <2>6. Net(p)' = Net(p) - need(p) /\ Settled(p) = Settled(p)' + need(p) /\ Net(p) \in Int
    BY <2>3, <2>5, SMT
  <2> QED
    BY <2>3, <2>4, <2>6
<1>4. CASE ~Exists(key[p])
  <2>1. Return(p, "nil")
    BY <1>4 DEF DeleteRemove
  <2>2. tmp'[p] = None /\ pc'[p] = "idle"
    BY <1>2, <2>1 DEF Return
  <2>3. disk' = disk
    BY <1>1, <1>2, <1>4, SMT DEF Without, Exists, Paths
  <2>4. Settled(p)' = Settled(p)
    BY <1>1, <2>2, <2>3, SettledKept DEF Exists
  <2>5. Net(p)' = Net(p)
    BY <1>1, <2>2 DEF Net, Due
  <2> QED
    BY <2>2, <2>4, <2>5
<1> QED
  BY <1>3, <1>4

\* Prune stores the size of the directory.
LEMMA StoreEffect ==
  ASSUME IInv, SizesOK, NEW p \in Procs, SoloAt(p), PruneStore(p)
  PROVE  /\ Settled(p)' = Settled(p) /\ Net(p)' = dirSize /\ pc'[p] \in {"idle", "recheck"}
<1>1. pc[p] = "store" /\ pr[p].remaining = dirSize /\ disk' = disk
      /\ bytes' = [bytes EXCEPT ![CacheOf[p]] = pr[p].remaining]
  BY DEF PruneStore, At, SoloAt
<1>2. pc'[p] \in {"idle", "recheck"} /\ tmp'[p] = tmp[p]
  <2>1. pc \in [Procs -> Labels] /\ tmp \in [Procs -> Temps \cup {None}]
    BY DEF IInv, StateOK
  <2>2. CASE tmp[p] = None
    BY <2>1, <2>2 DEF PruneStore, Return
  <2>3. CASE tmp[p] # None
    BY <2>1, <2>3 DEF PruneStore
  <2> QED
    BY <2>2, <2>3
<1>3. Settled(p)' = Settled(p)
  BY <1>1, <1>2, SettledKept DEF Exists
<1>4. bytes'[CacheOf[p]] = dirSize /\ Due(p)' = 0
  BY <1>1, <1>2, DiskCacheAssumption DEF SizesOK, Due
<1>5. dirSize \in Nat
  BY SettledFacts DEF IInv
<1>6. Net(p)' = dirSize
  BY <1>4, <1>5, SMT DEF Net
<1> QED
  BY <1>2, <1>3, <1>6

\* New counts the directory, in which nothing else happens.
LEMMA RestartEffect ==
  ASSUME IInv, IInv', SizesOK, SizesOK', NEW p \in Procs, SoloAt(p), Restart(CacheOf[p])
  PROVE  Net(p)' = Settled(p)' /\ tmp'[p] = None /\ pc'[p] = "idle"
<1>1. tmp'[p] = None /\ pc'[p] = "idle" /\ disk' = disk
  BY DEF Restart
<1>2. Counted(CacheOf[p]) = {dirSize}
  BY DEF Counted, SoloAt, At
<1>3. bytes' = [bytes EXCEPT ![CacheOf[p]] = dirSize]
  BY <1>2 DEF Restart
<1>4. bytes'[CacheOf[p]] = dirSize /\ Due(p)' = 0
  BY <1>1, <1>3, DiskCacheAssumption DEF SizesOK, Due
<1>5. dirSize \in Nat
  BY SettledFacts DEF IInv
<1>6. Net(p)' = dirSize
  BY <1>4, <1>5, SMT DEF Net
<1>7. (Present \ {tmp[p]})' = Present
  BY <1>1, DiskCacheAssumption DEF Present, Exists, Paths
<1>8. Settled(p)' = FilesSize(disk, Present)
  BY <1>1, <1>7 DEF Settled
<1> QED
  BY <1>1, <1>6, <1>8 DEF dirSize, FilesSize

\* The step of the only goroutine is one of the neutral ones or one of five others.
LEMMA SoloNext ==
  ASSUME IInv, [Next]_vars, NEW p \in Procs, conf.callers = {p}
  PROVE  \/ Neutral(p) \/ (PutRename(p) /\ Exists(tmp[p])) \/ DeleteRemove(p) \/ PruneRemove(p)
         \/ PruneStore(p) \/ Restart(CacheOf[p]) \/ UNCHANGED vars
<1>1. conf.keys \subseteq Keys /\ conf.targets \subseteq Nat
  BY ConfigFacts DEF IInv
<1>2. CASE Next
  <2>1. Step(p) \/ Fault(p) \/ Call(p) \/ Restart(CacheOf[p])
    BY <1>2 DEF Next
  <2> QED
    BY <1>1, <2>1 DEF Step, Fault, Call, Neutral
<1> QED
  BY <1>2

\* A temporary file in a cache whose counter is exact is not met by a prune.
Place(p) ==
    tmp[p] # None /\ Exists(tmp[p]) =>
        pc[p] \in {"copy", "rename"} \cup (IF CapacityFirst THEN {} ELSE {"capacity"})

\* A Put that makes room first prunes before it creates its file; without a
\* limit it never prunes.
LEMMA PlaceStep ==
  ASSUME IInv, IInv', [Next]_vars, NEW p \in Procs, conf.callers = {p}, SoloAt(p),
         MaxBytes = 0 \/ CapacityFirst, Place(p)
  PROVE  Place(p)'
<1>t. /\ tmp \in [Procs -> Temps \cup {None}] /\ pc \in [Procs -> Labels]
      /\ disk \in [Paths -> FileRec \cup {None}]
  BY DEF IInv, StateOK
<1>c. CapacityFirst' = CapacityFirst
  BY DEF Next, vars, CapacityFirst
<1>n. ASSUME tmp'[p] = None PROVE Place(p)'
  BY <1>n DEF Place
<1>r. ASSUME NEW r, Return(p, r) PROVE Place(p)'
  BY <1>r, <1>n, <1>t DEF Return
<1>s. ASSUME disk' = disk, tmp'[p] = tmp[p], tmp[p] = None \/ ~Exists(tmp[p]) PROVE Place(p)'
  BY <1>s DEF Place, Exists
<1>e. ASSUME pc'[p] \in {"stat", "add"} PROVE Place(p)'
  BY <1>e DEF Place, IInv, TempFilesOK
<1>p. pc[p] \in PruneLabels \cup {"lock", "recheck", "idle"} => tmp[p] = None \/ ~Exists(tmp[p])
  BY DEF Place, PruneLabels
<1> USE DEF At, Goto, locals
<1>1. CASE UNCHANGED vars
  BY <1>1, <1>c DEF vars, Place, Exists
<1>2. ASSUME NEW k \in Keys, PutStart(p, k) PROVE Place(p)'
  BY <1>2, <1>e, <1>t DEF PutStart
<1>3. CASE PutStat(p)
  <2>1. tmp[p] = None \/ ~Exists(tmp[p])
    BY <1>3 DEF PutStat, IInv, TempFilesOK
  <2> QED
    BY <1>3, <1>r, <1>s, <2>1 DEF PutStat
<1>4. CASE PutCreateTemp(p)
  BY <1>4, <1>t DEF PutCreateTemp, Place
<1>5. CASE PutCopied(p)
  BY <1>5, <1>t, <1>c DEF PutCopied, Place, AfterCopy
<1>6. CASE PutCopyFails(p)
  BY <1>6, <1>r DEF PutCopyFails
<1>7. CASE PutCapacity(p)
  <2>1. CASE Reject(p)
    BY <1>r, <2>1 DEF Reject
  <2>2. CASE Goto(p, AfterCapacity) /\ UNCHANGED disk
    BY <1>7, <1>t, <1>c, <1>s, <2>2 DEF PutCapacity, AfterCapacity, Place
  <2>3. CASE CallPrune(p, MaxBytes - need(p)) /\ UNCHANGED disk
    <3>1. CASE CapacityFirst
      <4>1. tmp[p] = None \/ ~Exists(tmp[p])
        BY <1>7, <3>1 DEF PutCapacity, Place
      <4> QED
        BY <1>s, <2>3, <4>1 DEF CallPrune
    <3>2. CASE MaxBytes = 0
      <4>1. Goto(p, AfterCapacity) /\ UNCHANGED disk
        BY <1>7, <3>2 DEF PutCapacity
      <4> QED
        BY <2>2, <4>1
    <3> QED
      BY <3>1, <3>2
  <2> QED
    BY <1>7, <2>1, <2>2, <2>3, CapacityOutcomes
<1>8. CASE PutRecheck(p)
  <2>1. CASE Reject(p)
    BY <1>r, <2>1 DEF Reject
  <2>2. CASE Goto(p, AfterCapacity) /\ UNCHANGED disk
    BY <1>8, <1>p, <1>s, <2>2 DEF PutRecheck
  <2> QED
    BY <1>8, <2>1, <2>2 DEF PutRecheck
<1>9. CASE PutRename(p)
  BY <1>9, <1>e, <1>r, <1>t DEF PutRename
<1>10. CASE PutAdd(p)
  BY <1>10, <1>r DEF PutAdd
<1>11. ASSUME NEW k \in Keys, DeleteStart(p, k) PROVE Place(p)'
  BY <1>11, <1>p, <1>s, <1>r DEF DeleteStart
<1>12. CASE DeleteRemove(p)
  <2>1. tmp[p] = None
    BY <1>12 DEF DeleteRemove, IInv, ArgsOK
  <2> QED
    BY <1>12, <1>n, <1>r, <2>1 DEF DeleteRemove
<1>13. CASE DeleteSubtract(p)
  BY <1>13, <1>r DEF DeleteSubtract
<1>14. ASSUME NEW t \in Nat, PruneStart(p, t) PROVE Place(p)'
  BY <1>14, <1>p, <1>s DEF PruneStart, CallPrune
<1>15. CASE PruneLock(p)
  BY <1>15, <1>p, <1>s DEF PruneLock
<1>16. CASE PruneWalk(p)
  BY <1>16, <1>p, <1>s DEF PruneWalk, PruneLabels
<1>17. CASE PruneWalked(p)
  BY <1>17, <1>p, <1>s DEF PruneWalked, PruneLabels
<1>18. CASE PruneRemove(p)
  <2>1. PICK x : disk' = Without(x)
    BY <1>18 DEF PruneRemove
  <2>2. tmp[p] = None \/ ~Exists(tmp[p])
    BY <1>18, <1>p DEF PruneRemove, PruneLabels
  <2>3. tmp'[p] = tmp[p]
    BY <1>18 DEF PruneRemove
  <2> QED
    BY <1>t, <2>1, <2>2, <2>3, SMT DEF Place, Exists, Without, Paths
<1>19. CASE PruneRemoved(p)
  BY <1>19, <1>p, <1>s DEF PruneRemoved, PruneLabels
<1>20. CASE PruneStore(p)
  <2>1. CASE tmp[p] = None
    BY <1>20, <1>r, <2>1 DEF PruneStore
  <2>2. CASE tmp[p] # None
    BY <1>20, <1>p, <1>s, <2>2 DEF PruneStore, PruneLabels
  <2> QED
    BY <2>1, <2>2
<1>21. CASE PruneRemoveFails(p)
  BY <1>21, <1>r DEF PruneRemoveFails
<1>22. CASE Restart(CacheOf[p])
  BY <1>22, <1>n DEF Restart
<1> QED
  BY <1>1, <1>2, <1>3, <1>4, <1>5, <1>6, <1>7, <1>8, <1>9, <1>10, <1>11, <1>12,
     <1>13, <1>14, <1>15, <1>16, <1>17, <1>18, <1>19, <1>20, <1>21, <1>22, SoloNext
  DEF Neutral

\* Between prunes the counter, with what is due, is the size of the settled files.
LEMMA CounterStep ==
  ASSUME IInv, IInv', SizesOK, SizesOK', [Next]_vars, NEW p \in Procs, conf.callers = {p},
         SoloAt(p), CounterAt(p)
  PROVE  CounterAt(p)'
<1>1. conf' = conf
  BY DEF Next, vars
<1> SUFFICES ASSUME ~IOErrors, MaxBytes = 0 \/ CapacityFirst
             PROVE  Place(p)' /\ (pc'[p] \notin PruneLabels => Net(p)' = Settled(p)')
  BY <1>1 DEF CounterAt, Place, IOErrors, MaxBytes, CapacityFirst
<1>2. Place(p) /\ (pc[p] \notin PruneLabels => Net(p) = Settled(p))
  BY DEF CounterAt, Place
<1>3. Place(p)'
  BY <1>2, PlaceStep
<1>4. ASSUME pc'[p] \notin PruneLabels PROVE Net(p)' = Settled(p)'
  <2>1. CASE Neutral(p)
    <3>1. pc[p] \notin PruneLabels
      <4>1. pc \in [Procs -> Labels]
        BY DEF IInv, StateOK
      <4>2. ~PruneRemoveFails(p)
        BY DEF PruneRemoveFails
      <4>3. ~PruneWalk(p) /\ ~PruneWalked(p) /\ ~PruneRemoved(p)
        BY <1>4, <4>1 DEF PruneWalk, PruneWalked, PruneRemoved, At, Goto, PruneLabels
      <4> QED
        BY <2>1, <4>2, <4>3
        DEF Neutral, PutStart, DeleteStart, PruneStart, PutStat, PutCreateTemp, PutCopied,
            PutCopyFails, PutCapacity, PutRecheck, PutRename, PutAdd, DeleteSubtract, PruneLock,
            At, PruneLabels
    <3> QED
      BY <1>2, <2>1, <3>1, NeutralStep
  <2>2. CASE PutRename(p) /\ Exists(tmp[p])
    <3>1. Net(p) = Settled(p)
      BY <1>2, <2>2 DEF PutRename, At, PruneLabels
    <3> QED
      BY <2>2, <3>1, RenameEffect
  <2>3. CASE DeleteRemove(p)
    <3>1. Net(p) = Settled(p)
      BY <1>2, <2>3 DEF DeleteRemove, At, PruneLabels
    <3>2. CASE Settled(p)' = Settled(p) /\ Net(p)' = Net(p)
      BY <3>1, <3>2
    <3>3. CASE /\ Settled(p) = Settled(p)' + need(p) /\ Net(p)' = Net(p) - need(p)
               /\ need(p) \in Nat /\ Settled(p)' \in Nat
      BY ONLY <3>1, <3>3, SMT
    <3> QED
      BY <2>3, <3>2, <3>3, DeleteEffect
  <2>4. CASE PruneRemove(p)
    BY <1>4, <2>4 DEF PruneRemove, At, PruneLabels
  <2>5. CASE PruneStore(p)
    <3>1. tmp[p] = None \/ ~Exists(tmp[p])
      BY <1>2, <2>5 DEF PruneStore, At, Place
    <3>2. Settled(p) = dirSize
      BY <3>1, SettledFacts DEF IInv
    <3> QED
      BY <2>5, <3>2, StoreEffect
  <2>6. CASE Restart(CacheOf[p])
    BY <2>6, RestartEffect
  <2>7. CASE UNCHANGED vars
    <3>1. Settled(p)' = Settled(p) /\ Net(p)' = Net(p) /\ pc' = pc
      BY <2>7 DEF vars, locals, Settled, Net, Due, need, Present, Exists
    <3> QED
      BY <1>2, <1>4, <3>1
  <2> QED
    BY <2>1, <2>2, <2>3, <2>4, <2>5, <2>6, <2>7, SoloNext
<1> QED
  BY <1>3, <1>4

\* ensureCapacity lets a Put go on only when the counter leaves room for it, and
\* the steps up to the rename keep that room.
LEMMA AdmittedStep ==
  ASSUME IInv, SizesOK, NEW p \in Procs, Neutral(p), conf' = conf, MaxBytes \in Nat, MaxBytes > 0,
         Settled(p) <= Net(p), Admitted(p) => Settled(p) + need(p) <= MaxBytes, Admitted(p)'
  PROVE  Settled(p) + need(p) <= MaxBytes /\ need(p)' = need(p)
<1>t. pc \in [Procs -> Labels]
  BY DEF IInv, StateOK
<1>c. CapacityFirst' = CapacityFirst
  BY DEF CapacityFirst
<1>a. ASSUME pc'[p] \notin {"rename", "create", "copy"} PROVE FALSE
  BY <1>a DEF Admitted
<1>f. ASSUME pc[p] \in {"capacity", "recheck"}, Fits(p) PROVE Settled(p) + need(p) <= MaxBytes
  <2>1. tmp[p] # None /\ key[p] \in Keys
    BY <1>f DEF IInv, ArgsOK, PutLabels
  <2>2. Net(p) = bytes[CacheOf[p]] + 0 /\ bytes[CacheOf[p]] \in Int /\ need(p) \in Nat
        /\ Settled(p) \in Nat
    BY <1>f, <2>1, SettledFacts, DiskCacheAssumption DEF Net, Due, SizesOK, need, IInv
  <2>3. bytes[CacheOf[p]] + need(p) <= MaxBytes
    BY <1>f DEF Fits
  <2> QED
    BY <2>2, <2>3, SMT
<1> USE DEF At, Goto, locals
<1>i. ASSUME NEW r, Return(p, r) PROVE FALSE
  BY <1>i, <1>a, <1>t DEF Return
<1>1. ASSUME NEW k \in Keys, PutStart(p, k) \/ DeleteStart(p, k) PROVE FALSE
  BY <1>1, <1>a, <1>t, <1>i DEF PutStart, DeleteStart
<1>2. ASSUME NEW t \in Nat, PruneStart(p, t) PROVE FALSE
  BY <1>2, <1>a, <1>t DEF PruneStart, CallPrune
<1>3. ASSUME PutStat(p) PROVE FALSE
  BY <1>3, <1>i, <1>t, <1>c DEF PutStat, AfterStat, Admitted
<1>4. CASE PutCreateTemp(p)
  BY <1>4, <1>t, <1>c DEF PutCreateTemp, Admitted, need
<1>5. CASE PutCopied(p)
  BY <1>5, <1>t, <1>c DEF PutCopied, AfterCopy, Admitted, need
<1>6. ASSUME PutCopyFails(p) PROVE FALSE
  BY <1>6, <1>i DEF PutCopyFails
<1>7. CASE PutCapacity(p)
  <2>1. ~Reject(p)
    BY <1>i DEF Reject
  <2>2. ~CallPrune(p, MaxBytes - need(p))
    BY <1>a, <1>t DEF CallPrune
  <2>3. MaxBytes # 0
    BY SMT
  <2>4. Fits(p) /\ pc[p] = "capacity" /\ key' = key
    BY <1>7, <2>1, <2>2, <2>3 DEF PutCapacity
  <2> QED
    BY <1>f, <2>4 DEF need
<1>8. CASE PutRecheck(p)
  <2>1. ~Reject(p)
    BY <1>i DEF Reject
  <2>2. Fits(p) /\ pc[p] = "recheck" /\ key' = key
    BY <1>8, <2>1 DEF PutRecheck
  <2> QED
    BY <1>f, <2>2 DEF need
<1>9. ASSUME PutRename(p), ~Exists(tmp[p]) PROVE FALSE
  BY <1>9, <1>i DEF PutRename
<1>10. ASSUME PutAdd(p) \/ DeleteSubtract(p) \/ PruneRemoveFails(p) PROVE FALSE
  BY <1>10, <1>i DEF PutAdd, DeleteSubtract, PruneRemoveFails
<1>11. ASSUME PruneLock(p) \/ PruneWalk(p) \/ PruneWalked(p) \/ PruneRemoved(p) PROVE FALSE
  BY <1>11, <1>a, <1>t DEF PruneLock, PruneWalk, PruneWalked, PruneRemoved
<1> QED
  BY <1>1, <1>2, <1>3, <1>4, <1>5, <1>6, <1>7, <1>8, <1>9, <1>10, <1>11 DEF Neutral

\* The counter stays at or above what is settled, and what is settled within the
\* limit: a Put adds only what ensureCapacity found room for.
LEMMA LimitStep ==
  ASSUME IInv, IInv', SizesOK, SizesOK', [Next]_vars, NEW p \in Procs, conf.callers = {p},
         SoloAt(p), LimitAt(p)
  PROVE  LimitAt(p)'
<1>1. conf' = conf
  BY DEF Next, vars
<1>2. MaxBytes' = MaxBytes /\ MaxBytes \in Nat /\ pc \in [Procs -> Labels] /\ crashes \in Nat
  BY <1>1, ConfigFacts DEF MaxBytes, IInv, StateOK
<1>3. crashes' = crashes \/ Restart(CacheOf[p])
  BY SoloNext
  DEF Neutral, PutStart, DeleteStart, PruneStart, PutStat, PutCreateTemp, PutCopied, PutCopyFails,
      PutCapacity, PutRecheck, PutRename, PutAdd, DeleteSubtract, PruneLock, PruneWalk, PruneWalked,
      PruneRemoved, PruneRemoveFails, DeleteRemove, PruneRemove, PruneStore, vars
<1>4. Restart(CacheOf[p]) => crashes' # 0
  BY <1>2, SMT DEF Restart
<1> SUFFICES ASSUME crashes = 0, MaxBytes > 0, ~Restart(CacheOf[p])
             PROVE  /\ Settled(p)' <= Net(p)'
                    /\ Settled(p)' <= MaxBytes
                    /\ Admitted(p)' => Settled(p)' + need(p)' <= MaxBytes
  BY <1>2, <1>3, <1>4 DEF LimitAt
<1>5. /\ Settled(p) <= Net(p)
      /\ Settled(p) <= MaxBytes
      /\ Admitted(p) => Settled(p) + need(p) <= MaxBytes
  BY DEF LimitAt
<1>6. Settled(p) \in Nat /\ dirSize \in Nat /\ Settled(p) <= dirSize
  BY SettledFacts DEF IInv
<1>7. CASE Neutral(p)
  <2>1. Settled(p)' = Settled(p) /\ Net(p)' = Net(p)
    BY <1>7, NeutralStep
  <2>2. ASSUME Admitted(p)' PROVE Settled(p) + need(p) <= MaxBytes /\ need(p)' = need(p)
    BY <1>1, <1>2, <1>5, <1>7, <2>2, AdmittedStep
  <2> QED
    BY <1>5, <2>1, <2>2
<1>8. CASE PutRename(p) /\ Exists(tmp[p])
  <2>1. /\ Settled(p)' = Settled(p) + need(p) /\ Net(p)' = Net(p) + need(p)
        /\ need(p) \in Nat /\ Net(p) \in Int
    BY <1>8, RenameEffect
  <2>2. Admitted(p) /\ ~Admitted(p)'
    BY <1>2, <1>8 DEF PutRename, At, Goto, Admitted
  <2>3. Settled(p) + need(p) <= MaxBytes
    BY <1>5, <2>2
  <2>4. Settled(p)' <= Net(p)' /\ Settled(p)' <= MaxBytes
    BY ONLY <1>2, <1>5, <1>6, <2>1, <2>3, SMT
  <2> QED
    BY <2>2, <2>4
<1>9. CASE DeleteRemove(p)
  <2>1. CASE Settled(p)' = Settled(p) /\ Net(p)' = Net(p) /\ pc'[p] = "idle"
    BY <1>5, <2>1 DEF Admitted
  <2>2. CASE /\ Settled(p) = Settled(p)' + need(p) /\ Net(p)' = Net(p) - need(p)
             /\ pc'[p] = "subtract" /\ need(p) \in Nat /\ Settled(p)' \in Nat /\ Net(p) \in Int
    <3>1. Settled(p)' <= Net(p)' /\ Settled(p)' <= MaxBytes
      BY ONLY <1>2, <1>5, <2>2, SMT
    <3> QED
      BY <2>2, <3>1 DEF Admitted
  <2> QED
    BY <1>9, <2>1, <2>2, DeleteEffect
<1>10. CASE PruneRemove(p)
  <2>1. PICK e \in Oldest(pr[p].entries) : disk' = Without(e.path)
    BY <1>10 DEF PruneRemove
  <2>2. pr[p].entries \subseteq {EntryOf(x) : x \in Present}
    BY <1>10 DEF PruneRemove, At, SoloAt
  <2>3. PICK path \in Present : e = EntryOf(path)
    BY <2>1, <2>2 DEF Oldest
  <2>4. disk' = Without(path) /\ tmp' = tmp /\ pc[p] = "remove" /\ pc'[p] = "remove" /\ bytes' = bytes
    BY <1>10, <2>1, <2>3 DEF EntryOf, PruneRemove, At
  <2>5. Settled(p)' \in Nat /\ Settled(p)' <= Settled(p)
    BY <2>4, RemoveEffect
  <2>6. Net(p) = bytes[CacheOf[p]] + 0 /\ Net(p)' = bytes[CacheOf[p]] + 0
        /\ bytes[CacheOf[p]] \in Int
    BY <2>4, DiskCacheAssumption DEF Net, Due, SizesOK
  <2>7. Settled(p)' <= Net(p)' /\ Settled(p)' <= MaxBytes
    BY ONLY <1>2, <1>5, <1>6, <2>5, <2>6, SMT
  <2> QED
    BY <2>4, <2>7 DEF Admitted
<1>11. CASE PruneStore(p)
  <2>1. Settled(p)' = Settled(p) /\ Net(p)' = dirSize /\ ~Admitted(p)'
    BY <1>11, StoreEffect DEF Admitted
  <2> QED
    BY <1>5, <1>6, <2>1
<1>12. CASE UNCHANGED vars
  <2>1. /\ Settled(p)' = Settled(p) /\ Net(p)' = Net(p) /\ need(p)' = need(p)
        /\ Admitted(p)' = Admitted(p)
    BY <1>12 DEF vars, locals, Settled, Net, Due, need, Present, Exists, Admitted, CapacityFirst
  <2> QED
    BY <1>5, <2>1
<1> QED
  BY <1>7, <1>8, <1>9, <1>10, <1>11, <1>12, SoloNext

\* The sizes and the counters of an empty directory.
LEMMA InitSolo == Init => SoloInv
<1> SUFFICES ASSUME Init PROVE SoloInv
  OBVIOUS
<1>1. IInv
  BY InitIInv
<1>2. Present = {}
  BY DEF Init, Present, Exists
<1>3. SizesOK
  <2>1. 0 \in Int
    BY SMT
  <2> QED
    BY <1>2, <2>1, FS_EmptySet DEF Init, SizesOK
<1>4. ASSUME NEW p \in Procs PROVE SoloAt(p) /\ CounterAt(p) /\ LimitAt(p)
  <2>1. tmp[p] = None /\ pc[p] = "idle" /\ \A q \in Procs : pc[q] = "idle"
    BY DEF Init
  <2>2. Present \ {tmp[p]} = {} /\ {} \in SUBSET Present
    BY <1>2
  <2>3. Settled(p) = 0
    BY <1>1, <1>3, <2>2, DirFacts DEF Settled, IInv
  <2>4. bytes[CacheOf[p]] = 0 /\ Due(p) = 0
    BY <2>1, DiskCacheAssumption DEF Init, Due
  <2>5. Net(p) = 0
    BY <2>4, SMT DEF Net
  <2>6. SoloAt(p)
    BY <2>1 DEF SoloAt
  <2>7. CounterAt(p)
    BY <2>1, <2>3, <2>5 DEF CounterAt
  <2>8. MaxBytes \in Nat
    BY <1>1, ConfigFacts DEF IInv
  <2>9. LimitAt(p)
    BY <2>1, <2>3, <2>5, <2>8, SMT DEF LimitAt, Admitted
  <2> QED
    BY <2>6, <2>7, <2>9
<1> QED
  BY <1>3, <1>4 DEF SoloInv

\* Every step keeps them.
LEMMA SoloInvStep ==
  IInv /\ IInv' /\ WalkOK /\ SoloInv /\ [Next]_vars => SoloInv'
<1> SUFFICES ASSUME IInv, IInv', WalkOK, SoloInv, [Next]_vars PROVE SoloInv'
  OBVIOUS
<1>1. SizesOK /\ SizesOK'
  BY SizesStep DEF SoloInv
<1>2. conf' = conf
  BY DEF Next, vars
<1>3. ASSUME NEW p \in Procs, conf.callers = {p} PROVE (SoloAt(p) /\ CounterAt(p) /\ LimitAt(p))'
  <2>1. SoloAt(p) /\ CounterAt(p) /\ LimitAt(p)
    BY <1>3 DEF SoloInv
  <2> QED
    BY <1>1, <1>3, <2>1, SoloStep, CounterStep, LimitStep
<1> QED
  BY <1>1, <1>2, <1>3 DEF SoloInv

\* The sums that the counter and the limit rest on, in every reachable state.
LEMMA SoloHolds == Spec => [](IInv /\ SoloInv)
<1>1. IInv /\ [Next]_vars => IInv'
  BY TypeStep, SafeStep DEF IInv
<1>2. IInv /\ WalkOK /\ [Next]_vars => WalkOK'
  BY WalkStep DEF IInv
<1> QED
  BY InitIInv, InitWalk, InitSolo, SoloInvStep, <1>1, <1>2, PTL DEF Spec

\* With one goroutine and no I/O error SizeBytes is the size of the directory
\* between calls: Put adds what it renamed into place, Delete subtracts what it
\* removed, Prune stores what it left, and New counts what it finds.
THEOREM CounterExactHolds == Spec => []CounterExact
<1>1. IInv /\ SoloInv => CounterExact
  <2> SUFFICES ASSUME IInv, SoloInv, Solo, Quiet, ~IOErrors, MaxBytes = 0 \/ CapacityFirst,
                      NEW p \in conf.callers
               PROVE  bytes[CacheOf[p]] = dirSize
    BY DEF CounterExact
  <2>1. p \in Procs /\ conf.callers = {p}
    BY DEF Solo
  <2>2. pc[p] = "idle" /\ tmp[p] = None
    BY <2>1 DEF Quiet, At, IInv, ArgsOK
  <2>3. Settled(p) = dirSize /\ bytes[CacheOf[p]] \in Int
    BY <2>1, <2>2, SettledFacts, DiskCacheAssumption DEF IInv, SoloInv, SizesOK
  <2>4. Net(p) = Settled(p)
    BY <2>1, <2>2 DEF SoloInv, CounterAt, PruneLabels
  <2>5. Net(p) = bytes[CacheOf[p]] + 0
    BY <2>2 DEF Net, Due
  <2> QED
    BY <2>3, <2>4, <2>5, SMT
<1> QED
  BY <1>1, SoloHolds, PTL

\* With one goroutine the directory is within WithMaxBytes between calls, until a
\* crash leaves a temporary file behind; I/O errors included.
THEOREM WithinLimitHolds == Spec => []WithinLimit
<1>1. IInv /\ SoloInv => WithinLimit
  <2> SUFFICES ASSUME IInv, SoloInv, Solo, Quiet, crashes = 0, MaxBytes > 0
               PROVE  dirSize <= MaxBytes
    BY DEF WithinLimit
  <2>1. PICK p \in Procs : conf.callers = {p}
    BY DEF Solo
  <2>2. tmp[p] = None
    BY DEF Quiet, At, IInv, ArgsOK
  <2>3. Settled(p) = dirSize
    BY <2>2, SettledFacts DEF IInv, SoloInv
  <2>4. Settled(p) <= MaxBytes
    BY <2>1 DEF SoloInv, LimitAt
  <2> QED
    BY <2>3, <2>4
<1> QED
  BY <1>1, SoloHolds, PTL
=============================================================================
