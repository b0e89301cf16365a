------------------------------ MODULE BlobRead ------------------------------
(***************************************************************************)
(* Reading files of an archive through the content cache: ReadFile, Open,  *)
(* and Read and Close of the files that Open returns.  Goroutines share a  *)
(* Blob, whose singleflight groups merge concurrent calls for one hash, or *)
(* use Blobs of their own on one cache directory.                          *)
(*                                                                         *)
(* A file is named by its hash.  Content is "good" if it has that hash,    *)
(* "bad" if it has not, and "short" if it does not decompress or ends      *)
(* early; it is read in Chunks pieces, and nothing short of the end tells  *)
(* them apart.  Put of the cache is one step, as DiskCache justifies: it   *)
(* stores everything or nothing.                                           *)
(***************************************************************************)
EXTENDS Naturals

CONSTANTS
    Files,    \* hashes of the files
    Readers,  \* goroutines
    Configs,  \* Blobs, options and what goes wrong, see below
    None

ASSUME BlobReadAssumption ==
    /\ \A c \in Configs : c.chunks \in Nat \ {0}
    /\ None \notin {"good", "bad", "short"}

VARIABLES
    source,    \* source[b][f]: what Blob b finds in its data blob where f should be
    cache,     \* cache[f]: what the cache directory holds for f
    pc,        \* pc[r]: what goroutine r does next
    file,      \* file[r]: the file it reads
    from,      \* from[r]: the open file comes from the "cache" or the "source"
    what,      \* what[r]: the content it has or has open
    pos,       \* pos[r]: chunks of the open file that were read
    verified,  \* verified[r]: the hash of the open file was compared
    res,       \* res[r]: "nil", "mismatch" or "err"
    conf       \* the configuration, which never changes

handle == <<from, what, pos, verified>>
vars == <<source, cache, pc, file, handle, res, conf>>

BlobOf(r) == conf.blobOf[r]
Source(r) == source[BlobOf(r)][file[r]]
Chunks == conf.chunks            \* reads that it takes to reach the end of a file
Caching == conf.caching          \* WithCache
VerifyOnClose == conf.verify     \* WithVerifyOnClose
PutErrors == conf.putErrors      \* Put of the cache may fail

Init ==
    /\ conf \in Configs
    /\ source = conf.source
    /\ cache = [f \in Files |-> None]
    /\ pc = [r \in Readers |-> "idle"]
    /\ file \in [Readers -> {CHOOSE f \in Files : TRUE}]
    /\ from = [r \in Readers |-> "source"]
    /\ what = [r \in Readers |-> None]
    /\ pos = [r \in Readers |-> 0]
    /\ verified = [r \in Readers |-> FALSE]
    /\ res = [r \in Readers |-> "nil"]

At(r, label) == pc[r] = label
Goto(r, label) == pc' = [pc EXCEPT ![r] = label]

\* singleflight: callers of one Blob for one hash, in the same group
ReadLeads == {"recheck", "readall", "put"}
OpenLeads == {"openrecheck", "stream"}
Group(r) == IF pc[r] \in ReadLeads \cup {"do", "wait"} THEN "readGroup" ELSE "cacheGroup"
SameCall(r, q) == BlobOf(r) = BlobOf(q) /\ file[r] = file[q] /\ Group(r) = Group(q)
InFlight(r) == \E q \in Readers : pc[q] \in ReadLeads \cup OpenLeads /\ SameCall(r, q)
Served(r) == {r} \cup {q \in Readers : pc[q] \in {"wait", "openwait"} /\ SameCall(r, q)}

\* The call of r ends, for all that it serves, at label with content w and result e.
Land(r, label, w, e) ==
    /\ pc' = [q \in Readers |-> IF q \in Served(r) THEN label ELSE pc[q]]
    /\ what' = [q \in Readers |-> IF q \in Served(r) THEN w ELSE what[q]]
    /\ res' = [q \in Readers |-> IF q \in Served(r) THEN e ELSE res[q]]
    /\ UNCHANGED <<file, from, pos, verified>>

Finish(r, w, e) ==
    /\ Goto(r, "done")
    /\ what' = [what EXCEPT ![r] = w]
    /\ res' = [res EXCEPT ![r] = e]
    /\ UNCHANGED <<file, from, pos, verified>>

-----------------------------------------------------------------------------
(* ReadFile *)

ReadFile(r, f) ==
    /\ At(r, "idle")
    /\ file' = [file EXCEPT ![r] = f]
    /\ Goto(r, IF Caching THEN "get" ELSE "readall")
    /\ UNCHANGED <<cache, handle, res>>

AnyHash(w) == TRUE  \* mutant: the hash is not compared
HashOK(w) == w = "good"

\* A cached file is read and compared with the hash.
Get(r) ==
    /\ At(r, "get")
    /\ IF cache[file[r]] = None THEN Goto(r, "do") /\ UNCHANGED <<file, handle, res>>
       ELSE IF HashOK(cache[file[r]]) THEN Finish(r, cache[file[r]], "nil")
       ELSE Goto(r, "delete") /\ UNCHANGED <<file, handle, res>>
    /\ UNCHANGED cache

DeleteBad(r) ==
    /\ At(r, "delete")
    /\ cache' = [cache EXCEPT ![file[r]] = None]
    /\ Finish(r, None, "mismatch")

\* readGroup.Do
Do(r) ==
    /\ At(r, "do")
    /\ Goto(r, IF InFlight(r) THEN "wait" ELSE "recheck")
    /\ UNCHANGED <<cache, file, handle, res>>

\* "Double-check cache": what is there is returned as it is.
Recheck(r) ==
    /\ At(r, "recheck")
    /\ IF cache[file[r]] # None THEN Land(r, "done", cache[file[r]], "nil")
       ELSE Goto(r, "readall") /\ UNCHANGED <<file, handle, res>>
    /\ UNCHANGED cache

\* reader.ReadAll, which is one step, verifies; without a cache there is no group.
ReadAll(r) ==
    /\ At(r, "readall") /\ Source(r) = "good"
    /\ IF Caching THEN Goto(r, "put") /\ UNCHANGED <<file, handle, res>>
       ELSE Finish(r, "good", "nil")
    /\ UNCHANGED cache

ReadAllRetries(r) ==  \* mutant: the source is read again
    /\ At(r, "readall") /\ Source(r) # "good"
    /\ UNCHANGED <<cache, pc, file, handle, res>>
ReadAllFails(r) ==
    /\ At(r, "readall") /\ Source(r) # "good"
    /\ Land(r, "done", None, IF Source(r) = "bad" THEN "mismatch" ELSE "err")
    /\ UNCHANGED cache

\* cache.Put, which may store nothing, and whose errors are ignored
Put(r) ==
    /\ At(r, "put")
    /\ \/ cache[file[r]] = None /\ cache' = [cache EXCEPT ![file[r]] = "good"]
       \/ UNCHANGED cache
    /\ Land(r, "done", "good", "nil")

-----------------------------------------------------------------------------
(* Open *)

\* newCachedFile or reader.OpenFile
OpenHandle(r, src, w) ==
    /\ from' = [from EXCEPT ![r] = src]
    /\ what' = [what EXCEPT ![r] = w]
    /\ pos' = [pos EXCEPT ![r] = 0]
    /\ verified' = [verified EXCEPT ![r] = FALSE]
    /\ Goto(r, "open")

Open(r, f) ==
    /\ At(r, "idle")
    /\ file' = [file EXCEPT ![r] = f]
    /\ IF ~Caching THEN OpenHandle(r, "source", source[BlobOf(r)][f])
       ELSE IF cache[f] # None THEN OpenHandle(r, "cache", cache[f])
       ELSE Goto(r, "ensure") /\ UNCHANGED handle
    /\ UNCHANGED <<cache, res>>

\* ensureCached: cacheGroup.Do
Ensure(r) ==
    /\ At(r, "ensure")
    /\ Goto(r, IF InFlight(r) THEN "openwait" ELSE "openrecheck")
    /\ UNCHANGED <<cache, file, handle, res>>

EnsureRecheck(r) ==
    /\ At(r, "openrecheck")
    /\ IF cache[file[r]] # None THEN Land(r, "opened", None, "nil")
       ELSE Goto(r, "stream") /\ UNCHANGED <<file, handle, res>>
    /\ UNCHANGED cache

StreamAny(r) == Source(r) # "short"  \* mutant: the file is streamed without its hash
\* The Put of the cache reads the file to its end, which compares the hash.
StreamOK(r) == Source(r) = "good"

\* A Put that finds the file reads nothing; one that has no room read to the end.
Stream(r) ==
    /\ At(r, "stream")
    /\ \/ /\ StreamOK(r) /\ cache[file[r]] = None
          /\ cache' = [cache EXCEPT ![file[r]] = Source(r)]
          /\ Land(r, "opened", None, "nil")
       \/ /\ StreamOK(r) \/ cache[file[r]] # None
          /\ UNCHANGED cache
          /\ Land(r, "opened", None, "nil")

StreamFails(r) ==
    /\ At(r, "stream")
    /\ PutErrors \/ (~StreamOK(r) /\ cache[file[r]] = None)
    /\ Land(r, "done", None, IF Source(r) = "bad" THEN "mismatch" ELSE "err")
    /\ UNCHANGED cache

MissFails(r) == Finish(r, None, "err")  \* mutant: the second miss is an error
FromSource(r) == OpenHandle(r, "source", Source(r)) /\ UNCHANGED <<file, res>>

\* The second Get of Open
GetAgain(r) ==
    /\ At(r, "opened")
    /\ IF cache[file[r]] # None
       THEN OpenHandle(r, "cache", cache[file[r]]) /\ UNCHANGED <<file, res>>
       ELSE FromSource(r)
    /\ UNCHANGED cache

-----------------------------------------------------------------------------
(* The open file: cachedFile and file.File *)

SumOK(r) == what[r] = "good"

\* verifyHash at the end; a cachedFile that fails deletes its cache entry.
VerifyHash(r) ==
    /\ verified' = [verified EXCEPT ![r] = TRUE]
    /\ res' = [res EXCEPT ![r] = IF SumOK(r) THEN "nil" ELSE "mismatch"]
    /\ cache' = IF ~SumOK(r) /\ from[r] = "cache" THEN [cache EXCEPT ![file[r]] = None] ELSE cache

\* The last chunk of a short file cannot be read.
Unreadable(r) == what[r] = "short" /\ pos[r] = Chunks - 1

Read(r) ==
    /\ At(r, "open") /\ ~verified[r] /\ ~Unreadable(r)
    /\ IF pos[r] < Chunks
       THEN pos' = [pos EXCEPT ![r] = @ + 1] /\ UNCHANGED <<pc, cache, verified, res>>
       ELSE VerifyHash(r) /\ Goto(r, "end") /\ UNCHANGED pos
    /\ UNCHANGED <<file, from, what>>

ReadFails(r) ==
    /\ At(r, "open") /\ Unreadable(r)
    /\ res' = [res EXCEPT ![r] = "err"]
    /\ Goto(r, "end")
    /\ UNCHANGED <<cache, file, handle>>

\* Close returns the verdict; it reads the rest if there is none.
Close(r) ==
    /\ pc[r] \in {"open", "end"}
    /\ Goto(r, "closed")
    /\ IF verified[r] THEN UNCHANGED <<cache, verified, res>>
       ELSE IF ~VerifyOnClose
       THEN res' = [res EXCEPT ![r] = "nil"] /\ UNCHANGED <<cache, verified>>
       ELSE IF what[r] = "short"
       THEN res' = [res EXCEPT ![r] = "err"] /\ UNCHANGED <<cache, verified>>
       ELSE VerifyHash(r)
    /\ UNCHANGED <<file, from, what, pos>>

Return(r) ==
    /\ pc[r] \in {"done", "closed"}
    /\ Goto(r, "idle")
    /\ from' = [from EXCEPT ![r] = "source"]
    /\ what' = [what EXCEPT ![r] = None]
    /\ pos' = [pos EXCEPT ![r] = 0]
    /\ verified' = [verified EXCEPT ![r] = FALSE]
    /\ res' = [res EXCEPT ![r] = "nil"]
    /\ UNCHANGED <<cache, file>>

-----------------------------------------------------------------------------
\* A cached file is evicted or damaged on disk; it is not damaged while a
\* ReadFile is between its miss and its second look, which does not verify.
Damage(f) ==
    /\ conf.damage /\ cache[f] # None
    /\ \/ cache' = [cache EXCEPT ![f] = None]
       \/ /\ \A r \in Readers : pc[r] \notin {"do", "recheck"}
          /\ cache' = [cache EXCEPT ![f] = "bad"]
    /\ UNCHANGED <<pc, file, handle, res>>

Step(r) ==
    \/ Get(r) \/ DeleteBad(r) \/ Do(r) \/ Recheck(r) \/ ReadAll(r) \/ ReadAllFails(r) \/ Put(r)
    \/ Ensure(r) \/ EnsureRecheck(r) \/ Stream(r) \/ StreamFails(r) \/ GetAgain(r) \/ Return(r)

Call(r) ==
    \/ \E f \in Files : ReadFile(r, f) \/ Open(r, f)
    \/ Read(r) \/ ReadFails(r) \/ Close(r)

Next ==
    /\ \/ \E r \in Readers : Call(r) \/ Step(r)
       \/ \E f \in Files : Damage(f)
    /\ UNCHANGED <<source, conf>>

Spec == Init /\ [][Next]_vars

-----------------------------------------------------------------------------
(* Properties *)

\* ReadFile's content "is decompressed if necessary and verified against its
\* hash", and "callers must read to EOF or Close to ensure integrity": whatever the
\* source holds, even if it changes, and however cached files are damaged, what
\* ReadFile returns with a nil error is the file, and who reads to EOF without an
\* error, or closes without one where Close verifies, read the file.
ReadVerified ==
    \A r \in Readers :
        /\ res[r] = "nil"
        /\ At(r, "done") \/ At(r, "end") \/ (At(r, "closed") /\ VerifyOnClose)
        => what[r] = "good"

\* Only verified content enters the cache, also when the data blob is damaged
\* and Open streams it into the cache while it is being verified.
CacheClean == conf.damage \/ \A f \in Files : cache[f] \in {None, "good"}

\* Where the data is good and stays so, and nothing fails, no interleaving of
\* calls, evictions and full caches makes a call fail.
NoSpuriousError ==
    ~conf.damage /\ ~PutErrors /\ conf.steady =>
        \A r \in Readers : res[r] # "nil" => Source(r) # "good"

\* ReadFile and Open return: whoever leads a singleflight call answers all.
CallsReturn == \A r \in Readers : pc[r] \notin {"idle", "open", "end", "closed"}
                                     ~> pc[r] \in {"idle", "open"}
=============================================================================
