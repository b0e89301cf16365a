----------------------------- MODULE Extraction -----------------------------
(***************************************************************************)
(* CopyDir and CopyTo on the sequential path: copyEntries, Process with    *)
(* its filter and grouping, processGroupsSequential, processEntriesParallel*)
(* (processEntriesSerial is the case of one worker), processEntry and the  *)
(* FileSink with its two committers.  Worker w of Workers takes the        *)
(* entries w, w + Workers, ... of a group; the workers share a stop flag,  *)
(* a counter and an error channel of capacity one.                         *)
(*                                                                         *)
(* A worker has one committer at a time and its temporary file has a       *)
(* random name, so a temporary file is identified by its worker.           *)
(*                                                                         *)
(* CopyFile, which extracts one entry without a sink, is the case Single;  *)
(* its temporary file is that of worker 1.                                 *)
(***************************************************************************)
EXTENDS Grouping, FiniteSets

CONSTANTS
    Entries,     \* the archive has entries 1..Entries, in order of offset
    Offset,      \* Offset[e], Size[e]: place of entry e in the data blob
    Size,
    Compressed,  \* entries stored with zstd
    Workers,     \* number of workers
    IOErrors,    \* whether reads and file operations of the sink may fail
    Configs      \* archives, destinations and options of the copy

Archive == 1..Entries
Pool == 1..Workers
Contents == {"none", "old", "partial", "whole", "wrong"}

ASSUME ExtractionAssumption ==
    /\ Entries \in Nat
    /\ Workers \in Nat \ {0}
    /\ Offset \in [Archive -> Nat]
    /\ Size \in [Archive -> Nat]
    /\ \A c \in Configs :
         /\ c.requested \cup c.valid \cup c.outOfRange \cup c.existing \subseteq Archive
         /\ {c.overwrite, c.cleanDest, c.removeErrors, c.single} \subseteq BOOLEAN
         /\ c.single => ~c.cleanDest /\ \E e \in Archive : c.requested = {e}

VARIABLES
    dest,       \* dest[e]: what is at the destination path of entry e
    temp,       \* temp[w]: what is in the temporary file of worker w
    phase,      \* what the caller does next, or the result: "nil", "err"
    groups,     \* groups still to be processed, the current one first
    pc, i,      \* pc[w], i[w]: what worker w does next, and its loop variable
    stop,       \* the stop flag of the current group
    errCh,      \* number of errors in the channel
    processed,  \* entries of the current group that were completed
    stats,      \* ProcessStats.Processed
    conf        \* the configuration, which never changes

vars == <<dest, temp, phase, groups, pc, i, stop, errCh, processed, stats, conf>>
files == <<dest, temp>>
group == <<pc, i, stop, errCh, processed>>

Requested == conf.requested        \* the entries to copy
Valid == conf.valid                \* entries whose bytes decompress to the size and hash in the index
OutOfRange == conf.outOfRange      \* entries that ValidateAll rejects
Existing == conf.existing          \* entries whose destination exists beforehand
Overwrite == conf.overwrite        \* CopyWithOverwrite
CleanDest == conf.cleanDest        \* CopyWithCleanDest: clear the destination and write in place
RemoveErrors == conf.removeErrors  \* the removal of an unfinished file may fail
Single == conf.single              \* CopyFile instead of CopyDir or CopyTo

\* What is at the destination of entry e when the copy begins.
Before(e) == IF e \in Existing THEN "old" ELSE "none"

Init ==
    /\ conf \in Configs
    /\ dest = [e \in Archive |-> Before(e)]
    /\ temp = [w \in Pool |-> "none"]
    /\ phase = IF Single THEN "stat" ELSE IF CleanDest THEN "clean" ELSE "start"
    /\ groups = <<>>
    /\ pc = [w \in Pool |-> "done"]
    /\ i = [w \in Pool |-> w]
    /\ stop = FALSE
    /\ errCh = 0
    /\ processed = 0
    /\ stats = 0

-----------------------------------------------------------------------------
\* os.RemoveAll(target); a failure may leave part of the directory.
Clean ==
    /\ phase = "clean"
    /\ \/ /\ dest' = [e \in Archive |-> IF e \in Requested THEN "none" ELSE dest[e]]
          /\ phase' = "start"
       \/ /\ IOErrors
          /\ \E gone \in SUBSET Requested :
                dest' = [e \in Archive |-> IF e \in gone THEN "none" ELSE dest[e]]
          /\ phase' = "err"
    /\ UNCHANGED <<temp, groups, group, stats>>

\* FileSink.ShouldProcess; CopyWithCleanDest implies overwriting.
ShouldProcess(e) == Overwrite \/ CleanDest \/ dest[e] = "none"

\* slices.SortFunc: the entries are numbered in order of offset.
SortByOffset(S) ==
    CHOOSE s \in [1..Cardinality(S) -> S] : \A j, k \in DOMAIN s : j < k => s[j] < s[k]

\* Process up to the first read: filter, validate, sort by offset, group.
Process ==
    /\ phase = "start"
    /\ LET toProcess == {e \in Requested : ShouldProcess(e)} IN
       IF toProcess = {} THEN phase' = "nil" /\ UNCHANGED groups
       ELSE IF toProcess \cap OutOfRange # {} THEN phase' = "err" /\ UNCHANGED groups
       ELSE /\ phase' = "read"
            /\ groups' = GroupAdjacentEntries(SortByOffset(toProcess), Offset, Size)
    /\ UNCHANGED <<files, group, stats>>

\* readGroupData, and the goroutines of processEntriesParallel.
ReadGroup ==
    /\ phase = "read"
    /\ phase' = "workers"
    /\ pc' = [w \in Pool |-> "loop"]
    /\ i' = [w \in Pool |-> w]
    /\ stop' = FALSE
    /\ errCh' = 0
    /\ processed' = 0
    /\ UNCHANGED <<files, groups, stats>>

ReadGroupFails ==
    /\ IOErrors
    /\ phase = "read"
    /\ phase' = "err"
    /\ UNCHANGED <<files, groups, group, stats>>

-----------------------------------------------------------------------------
Entry(w) == Head(groups).entries[i[w]]

At(w, label) == phase = "workers" /\ pc[w] = label
Goto(w, label) == pc' = [pc EXCEPT ![w] = label]

InPlace(w, c) ==  \* mutant: the file under its final name
    dest' = [dest EXCEPT ![Entry(w)] = c] /\ UNCHANGED temp
\* The file that the committer of worker w writes now holds c.
Fill(w, c) ==
    IF CleanDest
    THEN dest' = [dest EXCEPT ![Entry(w)] = c] /\ UNCHANGED temp
    ELSE temp' = [temp EXCEPT ![w] = c] /\ UNCHANGED dest

KeepFile(w) == UNCHANGED files  \* mutant: the unfinished file stays
\* Discard, and what a failing Commit does; the error is ignored.
RemoveFile(w) == Fill(w, "none") \/ (RemoveErrors /\ UNCHANGED files)

\* The loop test and the test of the stop flag.
Loop(w) ==
    /\ At(w, "loop")
    /\ Goto(w, IF i[w] > Len(Head(groups).entries) \/ stop THEN "done" ELSE "writer")
    /\ UNCHANGED <<files, phase, groups, i, stop, errCh, processed, stats>>

\* sink.Writer creates the file, or truncates the one at the destination.
Writer(w) ==
    /\ At(w, "writer")
    /\ Fill(w, "partial")
    /\ Goto(w, "write")
    /\ UNCHANGED <<phase, groups, i, stop, errCh, processed, stats>>

WriterFails(w) ==
    /\ IOErrors
    /\ At(w, "writer")
    /\ Goto(w, "fail")
    /\ UNCHANGED <<files, phase, groups, i, stop, errCh, processed, stats>>

Verified(w) == Entry(w) \in Valid

\* writeVerifyUncompressed checks the bytes before it writes them;
\* streamDecompressVerify writes while it hashes and checks at the end.
Write(w) ==
    /\ At(w, "write")
    /\ IF Verified(w)
       THEN Fill(w, IF Entry(w) \in Valid THEN "whole" ELSE "wrong") /\ Goto(w, "commit")
       ELSE /\ IF Entry(w) \in Compressed THEN Fill(w, "wrong") ELSE UNCHANGED files
            /\ Goto(w, "discard")
    /\ UNCHANGED <<phase, groups, i, stop, errCh, processed, stats>>

WriteFails(w) ==
    /\ IOErrors
    /\ At(w, "write")
    /\ Goto(w, "discard")
    /\ UNCHANGED <<files, phase, groups, i, stop, errCh, processed, stats>>

Discard(w) ==
    /\ At(w, "discard")
    /\ RemoveFile(w)
    /\ Goto(w, "fail")
    /\ UNCHANGED <<phase, groups, i, stop, errCh, processed, stats>>

\* Close, the metadata and the rename: the destination changes in one step.
Commit(w) ==
    /\ At(w, "commit")
    /\ IF CleanDest THEN UNCHANGED files
       ELSE /\ dest' = [dest EXCEPT ![Entry(w)] = temp[w]]
            /\ temp' = [temp EXCEPT ![w] = "none"]
    /\ Goto(w, "count")
    /\ UNCHANGED <<phase, groups, i, stop, errCh, processed, stats>>

CommitFails(w) ==
    /\ IOErrors
    /\ At(w, "commit")
    /\ RemoveFile(w)
    /\ Goto(w, "fail")
    /\ UNCHANGED <<phase, groups, i, stop, errCh, processed, stats>>

\* i += workers
Stride == Workers

\* processed.Add(1), totalBytes.Add, and the next turn of the loop.
Count(w) ==
    /\ At(w, "count")
    /\ processed' = processed + 1
    /\ i' = [i EXCEPT ![w] = @ + Stride]
    /\ Goto(w, "loop")
    /\ UNCHANGED <<files, phase, groups, stop, errCh, stats>>

\* stop.CompareAndSwap(false, true) succeeds.
FirstToFail == ~stop

FailRetries(w) ==  \* mutant: the entry is tried again
    /\ At(w, "fail")
    /\ Goto(w, "loop")
    /\ UNCHANGED <<files, phase, groups, i, stop, errCh, processed, stats>>

Fail(w) ==
    /\ At(w, "fail")
    /\ Goto(w, IF FirstToFail THEN "send" ELSE "done")
    /\ stop' = TRUE
    /\ UNCHANGED <<files, phase, groups, i, errCh, processed, stats>>

Send(w) ==
    /\ At(w, "send")
    /\ errCh < 1
    /\ errCh' = errCh + 1
    /\ Goto(w, "done")
    /\ UNCHANGED <<files, phase, groups, i, stop, processed, stats>>

StatsOfSuccess == IF errCh > 0 THEN 0 ELSE processed  \* mutant: a failed group counts nothing
\* The stats that processEntriesParallel returns with or without an error.
GroupStats == processed

IgnoreError == FALSE  \* mutant: the channel is not read
GroupFailed == errCh > 0

\* wg.Wait, the non-blocking receive, stats.add, and the next group or the end.
GroupReturns ==
    /\ phase = "workers"
    /\ \A w \in Pool : pc[w] = "done"
    /\ stats' = stats + GroupStats
    /\ groups' = Tail(groups)
    /\ phase' = IF GroupFailed THEN "err" ELSE IF Tail(groups) = <<>> THEN "nil" ELSE "read"
    /\ UNCHANGED <<files, group>>

-----------------------------------------------------------------------------
(* CopyFile *)

Only == CHOOSE e \in Requested : TRUE

StatDest ==
    /\ phase = "stat"
    /\ phase' = IF ~Overwrite /\ dest[Only] # "none" THEN "err" ELSE "open"
    /\ UNCHANGED <<files, groups, group, stats>>

\* Blob.Open reads the file already when it fills the cache.
OpenSource ==
    /\ phase = "open"
    /\ \/ phase' = "create"
       \/ (IOErrors \/ Only \notin Valid) /\ phase' = "err"
    /\ UNCHANGED <<files, groups, group, stats>>

CreateTemp ==
    /\ phase = "create"
    /\ \/ temp' = [temp EXCEPT ![1] = "partial"] /\ phase' = "copy"
       \/ IOErrors /\ phase' = "err" /\ UNCHANGED temp
    /\ UNCHANGED <<dest, groups, group, stats>>

\* io.Copy, which sees the hash compared at the end, Close and the metadata.
CopyContent ==
    /\ phase = "copy"
    /\ temp' = [temp EXCEPT ![1] = IF Only \in Valid THEN "whole" ELSE "wrong"]
    /\ phase' = IF Only \notin Valid THEN "undo" ELSE IF Overwrite THEN "replace" ELSE "rename"
    /\ UNCHANGED <<dest, groups, group, stats>>

\* os.Remove(destPath), whose error is ignored
RemoveDest ==
    /\ phase = "replace"
    /\ phase' = "rename"
    /\ dest' = [dest EXCEPT ![Only] = "none"] \/ (IOErrors /\ UNCHANGED dest)
    /\ UNCHANGED <<temp, groups, group, stats>>

Rename ==
    /\ phase = "rename"
    /\ dest' = [dest EXCEPT ![Only] = temp[1]]
    /\ temp' = [temp EXCEPT ![1] = "none"]
    /\ stats' = 1
    /\ phase' = "nil"
    /\ UNCHANGED <<groups, group>>

CopyFileFails ==
    /\ IOErrors
    /\ phase \in {"copy", "rename"}
    /\ phase' = "undo"
    /\ UNCHANGED <<files, groups, group, stats>>

\* The deferred os.Remove(tmpPath), whose error is ignored
Undo ==
    /\ phase = "undo"
    /\ phase' = "err"
    /\ temp' = [temp EXCEPT ![1] = "none"] \/ (RemoveErrors /\ UNCHANGED temp)
    /\ UNCHANGED <<dest, groups, group, stats>>

CopyFile ==
    \/ StatDest \/ OpenSource \/ CreateTemp \/ CopyContent \/ RemoveDest \/ Rename
    \/ CopyFileFails \/ Undo

-----------------------------------------------------------------------------
Worker(w) ==
    \/ Loop(w) \/ Writer(w) \/ WriterFails(w) \/ Write(w) \/ WriteFails(w)
    \/ Discard(w) \/ Commit(w) \/ CommitFails(w) \/ Count(w) \/ Fail(w) \/ Send(w)

Main == Clean \/ Process \/ ReadGroup \/ ReadGroupFails \/ GroupReturns \/ CopyFile

Returned == phase \in {"nil", "err"}

Next ==
    /\ \/ Main
       \/ \E w \in Pool : Worker(w)
       \/ Returned /\ UNCHANGED <<files, phase, groups, group, stats>>
    /\ UNCHANGED conf

Spec == Init /\ [][Next]_vars

\* Goroutines are scheduled and reads and file operations return.
FairSpec ==
    /\ Spec
    /\ WF_vars(Main /\ UNCHANGED conf)
    /\ \A w \in Pool : WF_vars(Worker(w) /\ UNCHANGED conf)
-----------------------------------------------------------------------------
Labels ==
    {"loop", "writer", "write", "commit", "discard", "count", "fail", "send", "done"}

\* "Files are written atomically using temp files and renames by default"
\* (CopyDir): at every instant, whatever fails and wherever the program is
\* interrupted, a destination holds what was there before or the verified
\* content, never a part of it and never content whose hash is wrong.  CopyFile
\* with CopyWithOverwrite removes the destination first: it may be missing.
AtomicFiles ==
    ~CleanDest => \A e \in Archive :
        dest[e] \in {Before(e), "whole"} \cup (IF Single /\ Overwrite THEN {"none"} ELSE {})

\* When the copy has returned, with an error or not, Discard and Commit have
\* removed what was unfinished: no temporary file is left, and with
\* CopyWithCleanDest no partial or wrong file is left under a final name.
NothingUnfinished ==
    Returned /\ ~RemoveErrors =>
        /\ \A w \in Pool : temp[w] = "none"
        /\ \A e \in Archive : dest[e] \in {"none", "old", "whole"}

\* "On error, partial stats are returned reflecting work completed before the
\* error" (Process): the count is the number of files that are in place.
StatsExact ==
    Returned /\ ~RemoveErrors => stats = Cardinality({e \in Archive : dest[e] = "whole"})

\* "Existing files are skipped (use CopyWithOverwrite to overwrite)" (CopyDir):
\* also when skipping one splits a group and when other files fail.  A nil error
\* means that every other requested file is there, and for CopyFile, which "returns
\* fs.ErrExist", that the file is.
NilMeansCopied ==
    /\ ~Overwrite /\ ~CleanDest => \A e \in Existing : dest[e] = "old"
    /\ phase = "nil" => \A e \in Requested :
         dest[e] = "whole" \/ (e \in Existing /\ ~Overwrite /\ ~CleanDest /\ ~Single)

\* The call returns: no worker blocks for ever on the error channel.
Terminates == <>Returned
=============================================================================
