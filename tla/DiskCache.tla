----------------------------- MODULE DiskCache -----------------------------
(***************************************************************************)
(* The disk caches: a directory of files named by key, a byte counter per  *)
(* cache object, and a mutex that serialises pruning within one object.    *)
(* Several goroutines use one cache object, and several cache objects (one *)
(* per OS process) may share the directory.  Every system call and every   *)
(* atomic counter access is one step.  The directory is flat               *)
(* (WithShardPrefixLen(0)), so one listing covers it.                      *)
(*                                                                         *)
(* The content cache (core/cache/disk.Cache) makes room once its temporary *)
(* file is written; the block cache and the ref, manifest and index caches *)
(* make room before they create it.  CapacityFirst tells the two orders    *)
(* apart; everything else is the same code.  What a cache is configured    *)
(* with, and what its callers do, is chosen once, in conf.                 *)
(***************************************************************************)
EXTENDS Integers, Functions

CONSTANTS
    Keys,        \* content hashes
    SizeOf,      \* SizeOf[k]: length of the content with hash k
    MaxPuts,     \* bound: Put calls in a behaviour, one temporary name each
    Procs,       \* goroutines
    Caches,      \* Cache objects over the one directory
    CacheOf,     \* CacheOf[p]: the Cache object goroutine p calls
    Configs,     \* configurations of the caches and of the calls made
    None         \* no file, no lock holder, no argument

Temps == 1..MaxPuts

ASSUME DiskCacheAssumption ==
    /\ SizeOf \in [Keys -> Nat]
    /\ MaxPuts \in Nat
    /\ CacheOf \in [Procs -> Caches]
    /\ Keys \cap Temps = {}
    /\ None \notin Keys \cup Temps \cup Procs

\* The limits of the caches and of the calls.
ASSUME ConfigAssumption ==
    \A c \in Configs :
        /\ c.capacityFirst \in BOOLEAN
        /\ c.maxBytes \in Nat
        /\ c.callers \subseteq Procs
        /\ c.keys \subseteq Keys
        /\ c.targets \subseteq Nat
        /\ c.maxPuts \in 0..MaxPuts
        /\ c.maxCrashes \in Nat
        /\ c.ioErrors \in BOOLEAN

Paths == Keys \cup Temps

VARIABLES
    disk,      \* disk[path]: the file at path, or None
    bytes,     \* bytes[c]: Cache.bytes
    pruneMu,   \* pruneMu[c]: the goroutine holding Cache.pruneMu, or None
    pc,        \* pc[p]: what goroutine p does next
    key, tmp,  \* the locals of its Put or Delete
    pr,        \* the locals of its pruneDir
    ret,       \* what its last call returned
    puts,      \* Put calls so far
    now,       \* clock of modification times
    crashes,   \* crashes so far
    conf       \* the configuration, which never changes

locals == <<key, tmp, pr, ret>>
vars == <<disk, bytes, pruneMu, pc, locals, puts, now, crashes, conf>>

CapacityFirst == conf.capacityFirst  \* ensureCapacity precedes the temporary file
MaxBytes == conf.maxBytes            \* Cache.maxBytes, 0 meaning no limit
IOErrors == conf.ioErrors            \* reading the source and removing a file may fail

\* A file: the hash of the content written to it, and whether all of it is.
FileRec == [key : Keys, size : Nat, mtime : Nat, whole : BOOLEAN]

Exists(path) == disk[path] # None
Present == {path \in Paths : Exists(path)}
Without(path) == [disk EXCEPT ![path] = None]

\* dirSize: the sizes of all regular files, temporary ones included.
dirSize == SumFunction([path \in Present |-> disk[path].size])

NoPrune == [target |-> 0, todo |-> {}, entries |-> {}, remaining |-> 0]

Init ==
    /\ disk = [path \in Paths |-> None]
    /\ bytes = [c \in Caches |-> 0]
    /\ pruneMu = [c \in Caches |-> None]
    /\ pc = [p \in Procs |-> "idle"]
    /\ key = [p \in Procs |-> None]
    /\ tmp = [p \in Procs |-> None]
    /\ pr = [p \in Procs |-> NoPrune]
    /\ ret = [p \in Procs |-> "nil"]
    /\ puts = 0
    /\ now = 0
    /\ crashes = 0
    /\ conf \in Configs

At(p, label) == pc[p] = label
Goto(p, label) == pc' = [pc EXCEPT ![p] = label] /\ UNCHANGED locals

\* A call returns r, and its locals go out of scope.
Return(p, r) ==
    /\ pc' = [pc EXCEPT ![p] = "idle"]
    /\ key' = [key EXCEPT ![p] = None]
    /\ tmp' = [tmp EXCEPT ![p] = None]
    /\ pr' = [pr EXCEPT ![p] = NoPrune]
    /\ ret' = [ret EXCEPT ![p] = r]

\* Prune is called with target t, by the user or by ensureCapacity.
CallPrune(p, t) ==
    /\ pc' = [pc EXCEPT ![p] = "lock"]
    /\ pr' = [pr EXCEPT ![p].target = t]
    /\ UNCHANGED <<key, tmp, ret>>

AddTwice(p, n) == bytes' = [bytes EXCEPT ![CacheOf[p]] = @ + 2 * n]  \* mutant: counted twice
AddBytes(p, n) == bytes' = [bytes EXCEPT ![CacheOf[p]] = @ + n]

need(p) == SizeOf[key[p]]

\* The conditions of ensureCapacity.
TooLarge(p) == need(p) > MaxBytes
FitsAlone(p) == bytes[CacheOf[p]] <= MaxBytes  \* mutant: need is not added
Fits(p) == bytes[CacheOf[p]] + need(p) <= MaxBytes

Lock(p) ==
    pruneMu[CacheOf[p]] = None /\ pruneMu' = [pruneMu EXCEPT ![CacheOf[p]] = p]
Unlock(p) == pruneMu' = [pruneMu EXCEPT ![CacheOf[p]] = None]

----------------------------------------------------------------------------
(* Put *)

AfterStat == IF CapacityFirst THEN "capacity" ELSE "create"
AfterCopy == IF CapacityFirst THEN "rename" ELSE "capacity"
AfterCapacity == IF CapacityFirst THEN "create" ELSE "rename"

PutStart(p, k) ==
    /\ At(p, "idle")
    /\ puts < conf.maxPuts
    /\ puts' = puts + 1
    /\ pc' = [pc EXCEPT ![p] = "stat"]
    /\ key' = [key EXCEPT ![p] = k]
    /\ tmp' = [tmp EXCEPT ![p] = puts + 1]
    /\ UNCHANGED <<pr, ret>>
    /\ UNCHANGED <<disk, bytes, pruneMu, now, crashes>>

PutStat(p) ==
    /\ At(p, "stat")
    /\ IF Exists(key[p]) THEN Return(p, "nil") ELSE Goto(p, AfterStat)
    /\ UNCHANGED <<disk, bytes, pruneMu, puts, now, crashes>>

InPlace(p) == key[p]  \* mutant: content is written to its final path
TempPath(p) == tmp[p]

PutCreateTemp(p) ==
    /\ At(p, "create")
    /\ disk' = [disk EXCEPT ![TempPath(p)] =
                  [key |-> key[p], size |-> 0, mtime |-> now, whole |-> FALSE]]
    /\ Goto(p, "copy")
    /\ UNCHANGED <<bytes, pruneMu, puts, now, crashes>>

\* io.Copy reaches EOF and the temporary file is closed.  If a pruner unlinked
\* the file meanwhile, the bytes go to an inode that has no name.
PutCopied(p) ==
    /\ At(p, "copy")
    /\ now' = now + 1
    /\ disk' = IF Exists(TempPath(p))
               THEN [disk EXCEPT ![TempPath(p)] = [key |-> key[p], size |-> need(p),
                                                   mtime |-> now + 1, whole |-> TRUE]]
               ELSE disk
    /\ Goto(p, AfterCopy)
    /\ UNCHANGED <<bytes, pruneMu, puts, crashes>>

\* io.Copy or Close fails: the source could not be read to its verified end.
PutCopyFails(p) ==
    /\ IOErrors
    /\ At(p, "copy")
    /\ disk' = Without(tmp[p])
    /\ Return(p, "err")
    /\ UNCHANGED <<bytes, pruneMu, puts, now, crashes>>

RejectOnly(p) == UNCHANGED disk /\ Return(p, "nil")  \* mutant: no os.Remove
\* ensureCapacity is false: Put gives up without an error.
Reject(p) == disk' = Without(tmp[p]) /\ Return(p, "nil")

\* ensureCapacity up to its call of Prune.
PutCapacity(p) ==
    /\ At(p, "capacity")
    /\ IF MaxBytes = 0 \/ (~TooLarge(p) /\ Fits(p))
       THEN Goto(p, AfterCapacity) /\ UNCHANGED disk
       ELSE IF TooLarge(p) THEN Reject(p)
       ELSE CallPrune(p, MaxBytes - need(p)) /\ UNCHANGED disk
    /\ UNCHANGED <<bytes, pruneMu, puts, now, crashes>>

\* ensureCapacity after Prune returned.
PutRecheck(p) ==
    /\ At(p, "recheck")
    /\ IF Fits(p)
       THEN Goto(p, AfterCapacity) /\ UNCHANGED disk
       ELSE Reject(p)
    /\ UNCHANGED <<bytes, pruneMu, puts, now, crashes>>

PutRename(p) ==
    /\ At(p, "rename")
    /\ IF Exists(tmp[p])
       THEN /\ disk' = [disk EXCEPT ![key[p]] = disk[tmp[p]], ![tmp[p]] = None]
            /\ Goto(p, "add")
       ELSE /\ Return(p, IF Exists(key[p]) THEN "nil" ELSE "err")
            /\ UNCHANGED disk
    /\ UNCHANGED <<bytes, pruneMu, puts, now, crashes>>

PutAdd(p) ==
    /\ At(p, "add")
    /\ AddBytes(p, need(p))
    /\ Return(p, "nil")
    /\ UNCHANGED <<disk, pruneMu, puts, now, crashes>>

----------------------------------------------------------------------------
(* Delete *)

DeleteStart(p, k) ==
    /\ At(p, "idle")
    /\ IF Exists(k)
       THEN /\ pc' = [pc EXCEPT ![p] = "delete"]
            /\ key' = [key EXCEPT ![p] = k]
            /\ UNCHANGED <<tmp, pr, ret>>
       ELSE Return(p, "nil")
    /\ UNCHANGED <<disk, bytes, pruneMu, puts, now, crashes>>

DeleteKeeps(p) ==  \* mutant: the file is counted as gone and stays
    /\ At(p, "delete")
    /\ Goto(p, "subtract")
    /\ UNCHANGED <<disk, bytes, pruneMu, puts, now, crashes>>

DeleteRemove(p) ==
    /\ At(p, "delete")
    /\ IF Exists(key[p]) THEN Goto(p, "subtract") ELSE Return(p, "nil")
    /\ disk' = Without(key[p])
    /\ UNCHANGED <<bytes, pruneMu, puts, now, crashes>>

DeleteSubtract(p) ==
    /\ At(p, "subtract")
    /\ AddBytes(p, -need(p))
    /\ Return(p, "nil")
    /\ UNCHANGED <<disk, pruneMu, puts, now, crashes>>

----------------------------------------------------------------------------
(* Prune, called by the user or by ensureCapacity *)

PruneStart(p, t) ==
    /\ At(p, "idle")
    /\ CallPrune(p, t)
    /\ UNCHANGED <<disk, bytes, pruneMu, puts, now, crashes>>

\* pruneMu.Lock, then WalkDir lists the directory.
PruneLock(p) ==
    /\ At(p, "lock")
    /\ Lock(p)
    /\ pc' = [pc EXCEPT ![p] = "walk"]
    /\ pr' = [pr EXCEPT ![p].todo = Present]
    /\ UNCHANGED <<key, tmp, ret>>
    /\ UNCHANGED <<disk, bytes, puts, now, crashes>>

EntryOf(path) == [path |-> path, size |-> disk[path].size, mtime |-> disk[path].mtime]

\* One callback of WalkDir.  A listed file that is gone by now ends the walk
\* with ErrNotExist, which pruneDir turns into an empty directory.
PruneWalk(p) ==
    /\ At(p, "walk")
    /\ \E path \in pr[p].todo :
         IF Exists(path)
         THEN /\ pr' = [pr EXCEPT ![p] = [target |-> @.target,
                                          todo |-> @.todo \ {path},
                                          entries |-> @.entries \cup {EntryOf(path)},
                                          remaining |-> @.remaining + disk[path].size]]
              /\ UNCHANGED pc
         ELSE /\ pr' = [pr EXCEPT ![p] = [NoPrune EXCEPT !.target = pr[p].target]]
              /\ pc' = [pc EXCEPT ![p] = "store"]
    /\ UNCHANGED <<disk, bytes, pruneMu, key, tmp, ret, puts, now, crashes>>

PruneWalked(p) ==
    /\ At(p, "walk")
    /\ pr[p].todo = {}
    /\ Goto(p, "remove")
    /\ UNCHANGED <<disk, bytes, pruneMu, puts, now, crashes>>

\* The oldest entries; equal times are ordered by path, about which nothing is known.
Oldest(S) == {e \in S : \A f \in S : e.mtime <= f.mtime}

\* A file that is gone already does not lower remaining.
Freed(e) == IF Exists(e.path) THEN e.size ELSE 0

OverByOne(p) == pr[p].remaining > pr[p].target + 1  \* mutant: off by one
\* The condition of the removal loop.
OverTarget(p) == pr[p].remaining > pr[p].target

RetryGone(S, e) == IF Exists(e.path) THEN S \ {e} ELSE S  \* mutant: a missing file is tried again
Rest(S, e) == S \ {e}

\* One iteration of the removal loop.
PruneRemove(p) ==
    /\ At(p, "remove")
    /\ OverTarget(p)
    /\ \E e \in Oldest(pr[p].entries) :
         /\ disk' = Without(e.path)
         /\ pr' = [pr EXCEPT ![p].entries = Rest(@, e), ![p].remaining = @ - Freed(e)]
    /\ UNCHANGED <<bytes, pruneMu, pc, key, tmp, ret, puts, now, crashes>>

PruneRemoved(p) ==
    /\ At(p, "remove")
    /\ ~OverTarget(p) \/ pr[p].entries = {}
    /\ Goto(p, "store")
    /\ UNCHANGED <<disk, bytes, pruneMu, puts, now, crashes>>

\* bytes.Store(remaining), the deferred Unlock, and the return to the user or
\* to the Put that needs room.
PruneStore(p) ==
    /\ At(p, "store")
    /\ bytes' = [bytes EXCEPT ![CacheOf[p]] = pr[p].remaining]
    /\ Unlock(p)
    /\ IF tmp[p] = None
       THEN Return(p, "nil")
       ELSE /\ pc' = [pc EXCEPT ![p] = "recheck"]
            /\ pr' = [pr EXCEPT ![p] = NoPrune]
            /\ UNCHANGED <<key, tmp, ret>>
    /\ UNCHANGED <<disk, puts, now, crashes>>

\* A removal fails: Prune returns the error without storing a size, and a Put
\* that called it removes its temporary file and fails too.
PruneRemoveFails(p) ==
    /\ IOErrors
    /\ At(p, "remove")
    /\ OverTarget(p) /\ pr[p].entries # {}
    /\ Unlock(p)
    /\ disk' = IF tmp[p] = None THEN disk ELSE Without(tmp[p])
    /\ Return(p, "err")
    /\ UNCHANGED <<bytes, puts, now, crashes>>

----------------------------------------------------------------------------
\* What New counts.  When a call through another Cache object renames or
\* removes a listed file, the walk ends with ErrNotExist and New counts 0.
Counted(c) ==
    {dirSize} \cup {0 : p \in {q \in Procs : CacheOf[q] # c /\ ~At(q, "idle")}}

\* The OS process holding Cache object c dies; New opens the directory again.
Restart(c) ==
    /\ crashes < conf.maxCrashes
    /\ crashes' = crashes + 1
    /\ \E n \in Counted(c) : bytes' = [bytes EXCEPT ![c] = n]
    /\ pruneMu' = [pruneMu EXCEPT ![c] = None]
    /\ pc' = [p \in Procs |-> IF CacheOf[p] = c THEN "idle" ELSE pc[p]]
    /\ key' = [p \in Procs |-> IF CacheOf[p] = c THEN None ELSE key[p]]
    /\ tmp' = [p \in Procs |-> IF CacheOf[p] = c THEN None ELSE tmp[p]]
    /\ pr' = [p \in Procs |-> IF CacheOf[p] = c THEN NoPrune ELSE pr[p]]
    /\ ret' = [p \in Procs |-> IF CacheOf[p] = c THEN "nil" ELSE ret[p]]
    /\ UNCHANGED <<disk, puts, now>>

\* A step of a running call, and a failing one.
Step(p) ==
    \/ PutStat(p) \/ PutCreateTemp(p) \/ PutCopied(p)
    \/ PutCapacity(p) \/ PutRecheck(p) \/ PutRename(p) \/ PutAdd(p)
    \/ DeleteRemove(p) \/ DeleteSubtract(p)
    \/ PruneLock(p) \/ PruneWalk(p) \/ PruneWalked(p) \/ PruneRemove(p)
    \/ PruneRemoved(p) \/ PruneStore(p)

Fault(p) == PutCopyFails(p) \/ PruneRemoveFails(p)

Call(p) ==
    \/ \E k \in conf.keys : PutStart(p, k) \/ DeleteStart(p, k)
    \/ \E t \in conf.targets : PruneStart(p, t)

Next ==
    /\ \/ \E p \in conf.callers : Step(p) \/ Fault(p) \/ Call(p)
       \/ \E p \in conf.callers : Restart(CacheOf[p])
    /\ UNCHANGED conf

Spec == Init /\ [][Next]_vars

\* Goroutines are scheduled, system calls return, and sync.Mutex hands the lock
\* to a goroutine that keeps waiting for it (its starvation mode).
FairSpec ==
    /\ Spec
    /\ \A p \in Procs : WF_vars(Step(p) /\ UNCHANGED conf)
                       /\ SF_vars(PruneLock(p) /\ UNCHANGED conf)

----------------------------------------------------------------------------
(* Properties *)

PutLabels == {"stat", "create", "copy", "capacity", "recheck", "rename", "add"}
PruneLabels == {"walk", "remove", "store"}
Labels == {"idle", "delete", "subtract", "lock"} \cup PutLabels \cup PruneLabels

Entry == [path : Paths, size : Nat, mtime : Nat]
PruneLocals ==
    [target : Nat, todo : SUBSET Paths, entries : SUBSET Entry, remaining : Int]

\* Every variable keeps its type; among other things a prune target computed
\* by ensureCapacity (maxBytes - need) is never negative.
StateOK ==
    /\ disk \in [Paths -> FileRec \cup {None}]
    /\ pruneMu \in [Caches -> Procs \cup {None}]
    /\ pc \in [Procs -> Labels]
    /\ key \in [Procs -> Keys \cup {None}]
    /\ tmp \in [Procs -> Temps \cup {None}]
    /\ pr \in [Procs -> PruneLocals]
    /\ ret \in [Procs -> {"nil", "err"}]
    /\ puts \in 0..MaxPuts
    /\ now \in Nat
    /\ conf \in Configs
    /\ crashes \in Nat

\* Get never serves a partial file or the content of another hash: whatever
\* the interleaving of Puts, Deletes, prunes and crashes, the file at the path
\* of a key was written to its end from the content of that key (Put copies to
\* a temporary file and renames it only once the copy is complete).
WholeAtKey ==
    \A k \in Keys : Exists(k) =>
        disk[k].whole /\ disk[k].key = k /\ disk[k].size = SizeOf[k]

\* Until a process crashes, a temporary file on disk belongs to a Put that is
\* still running: each early return of Put removes its file.
NoTempLeak ==
    crashes = 0 => \A t \in Temps : Exists(t) =>
        \E p \in Procs : tmp[p] = t /\ pc[p] # "add"

\* The mutex of a Cache object is held by the goroutine of that object that is
\* inside pruneDir, and by no other: two prunes never interleave their
\* removals, and no return path of Prune keeps the lock.
OnePruner ==
    \A p \in Procs : (pc[p] \in PruneLabels) <=> (pruneMu[CacheOf[p]] = p)

\* When Prune is done, the cached entries it listed and left in place fit in
\* the target, although other goroutines delete and re-create listed files
\* while it runs: remaining is lowered only for files Prune removed itself.
PruneReachesTarget ==
    \A p \in Procs : At(p, "store") =>
        LET left == {e \in pr[p].entries : e.path \in Keys /\ Exists(e.path)}
        IN  SumFunction([e \in left |-> e.size]) <= pr[p].target

Quiet == \A p \in Procs : At(p, "idle")

\* One goroutine makes all calls.
Solo == \E p \in Procs : conf.callers = {p}

\* With one goroutine and no I/O error the counter that SizeBytes reports is
\* exactly the size of the directory between any two calls, crashes included:
\* in a content cache without a limit, and in the caches that make room before
\* they create the temporary file.
CounterExact ==
    Solo /\ Quiet /\ ~IOErrors /\ (MaxBytes = 0 \/ CapacityFirst)
        => \A p \in conf.callers : bytes[CacheOf[p]] = dirSize

\* WithMaxBytes "sets the maximum cache size in bytes": with one goroutine the
\* directory is within it between calls, until a crash leaves a temporary file.
WithinLimit == Solo /\ Quiet /\ crashes = 0 /\ MaxBytes > 0 => dirSize <= MaxBytes

\* Without I/O errors no call fails: "Put stores content by reading from the
\* provided fs.File" (or skips content that does not fit).
PutSucceeds == \A p \in Procs : ret[p] # "err"

\* Every call returns: no goroutine waits for pruneMu forever, and the walk and
\* the removal loop end.
CallsReturn == \A p \in Procs : ~At(p, "idle") ~> At(p, "idle")
=============================================================================
