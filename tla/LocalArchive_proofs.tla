------------------------ MODULE LocalArchive_proofs ------------------------
(***************************************************************************)
(* What the run of MC_BlobRead checks on three goroutines and one file,    *)
(* for any number of goroutines, Blobs, files and writers.  The readers    *)
(* and the local files have an invariant each; the two meet in the         *)
(* sources of the Blobs, which change when a writer changes an inode.      *)
(***************************************************************************)
EXTENDS LocalArchive, TLAPS

\* Zenon proves the leaves that say nothing else; those with arithmetic cite SMT.
USE Zenon

Labels ==
    {"idle", "get", "delete", "do", "wait", "recheck", "readall", "put", "done", "ensure",
     "openwait", "openrecheck", "stream", "opened", "open", "end", "closed"}

ReadersType ==
    /\ conf \in Configs
    /\ cache \in [Files -> {None, "good", "bad"}]
    /\ pc \in [Readers -> Labels]
    /\ file = [r \in Readers |-> file[r]]
    /\ from = [r \in Readers |-> from[r]]
    /\ what = [r \in Readers |-> what[r]]
    /\ pos = [r \in Readers |-> pos[r]]
    /\ verified \in [Readers -> BOOLEAN]
    /\ res = [r \in Readers |-> res[r]]

\* A Blob is there to be read.
IsOpen(b) == conf.local => opened[b].inode # 0

\* What a reader that has begun relies on: it is inside a call for a file of an
\* open Blob, the second look of ReadFile cannot find a damaged file, and an open
\* file has not been verified before its end.
ReadersOK ==
    \A r \in Readers :
        /\ pc[r] # "idle" => file[r] \in Files /\ IsOpen(BlobOf(r))
        /\ pc[r] = "idle" => res[r] = "nil"
        /\ pc[r] \in {"do", "recheck"} => cache[file[r]] # "bad"
        /\ pc[r] = "open" => ~verified[r]

\* The data is good where it is good, and nothing fails.
Steady == ~conf.damage /\ ~PutErrors /\ conf.steady

\* Where the data is steady, a reader has open what the source holds or better.
SteadyOK ==
    Steady => \A r \in Readers :
        /\ pc[r] # "delete"
        /\ pc[r] \in {"open", "end"} => what[r] = "good" \/ Source(r) # "good"

ReadersInv ==
    ReadersType /\ ReadersOK /\ SteadyOK /\ ReadVerified /\ CacheClean /\ NoSpuriousError

\* What the call of r does to the readers it serves.
LEMMA LandKeeps ==
  ASSUME ReadersInv, NEW r \in Readers, NEW label \in {"done", "opened"}, NEW w, NEW e,
         Land(r, label, w, e), UNCHANGED <<source, conf, opened>>,
         cache' \in [Files -> {None, "good", "bad"}],
         \A f \in Files : cache'[f] \in {cache[f], None, "good"},
         pc[r] \notin {"idle", "open", "end", "closed"},
         label = "done" /\ e = "nil" => w = "good",
         e # "nil" /\ Steady => Source(r) # "good"
  PROVE  ReadersInv'
<1> USE DEF ReadersInv, ReadersType
<1>1. \A q \in Readers : q \in Served(r) =>
        /\ pc'[q] = label /\ what'[q] = w /\ res'[q] = e
        /\ pc[q] \notin {"idle", "open", "end", "closed"}
        /\ Source(q) = Source(r)
  BY DEF Land, Served, SameCall, Source
<1>2. \A q \in Readers : q \notin Served(r) =>
        pc'[q] = pc[q] /\ what'[q] = what[q] /\ res'[q] = res[q]
  BY DEF Land
<1>3. UNCHANGED <<file, from, pos, verified>> /\ \A q \in Readers : Source(q)' = Source(q)
  BY DEF Land, Source, BlobOf
<1>4. ReadersType'
  BY <1>3 DEF Land, Labels
<1>5. ReadersOK'
  BY <1>1, <1>2, <1>3, BlobReadAssumption, SMT DEF ReadersOK, IsOpen, BlobOf
<1>6. SteadyOK'
  BY <1>1, <1>2, <1>3, SMT DEF SteadyOK, Steady, PutErrors
<1>7. ReadVerified'
  BY <1>1, <1>2, <1>3 DEF ReadVerified, At, VerifyOnClose
<1>8. CacheClean'
  BY DEF CacheClean
<1>9. NoSpuriousError'
  BY <1>1, <1>2, <1>3, SMT DEF NoSpuriousError, Steady, PutErrors
<1> QED
  BY <1>4, <1>5, <1>6, <1>7, <1>8, <1>9

\* What a step of r alone does, when r goes from a call to label l.
LEMMA GoKeeps ==
  ASSUME ReadersInv, NEW r \in Readers, NEW l \in Labels \ {"idle"},
         pc' = [pc EXCEPT ![r] = l],
         UNCHANGED <<source, conf, opened, file>>, pc[r] # "idle",
         cache' \in [Files -> {None, "good", "bad"}],
         \A f \in Files : cache'[f] \in {cache[f], None, "good"},
         from' = [q \in Readers |-> from'[q]],
         pos' = [q \in Readers |-> pos'[q]],
         verified' \in [Readers -> BOOLEAN],
         what' = [q \in Readers |-> what'[q]],
         res' = [q \in Readers |-> res'[q]],
         \A q \in Readers : q # r => /\ what'[q] = what[q] /\ res'[q] = res[q]
                                     /\ verified'[q] = verified[q],
         l \in {"do", "recheck"} => cache'[file[r]] # "bad",
         l = "open" => ~verified'[r],
         l = "delete" => ~Steady,
         Steady /\ l \in {"open", "end"} => what'[r] = "good" \/ Source(r) # "good",
         Steady /\ res'[r] # "nil" => Source(r) # "good",
         res'[r] = "nil" /\ (l \in {"done", "end"} \/ (l = "closed" /\ VerifyOnClose))
             => what'[r] = "good"
  PROVE  ReadersInv'
<1> USE DEF ReadersInv, ReadersType
<1>1. pc'[r] = l /\ \A q \in Readers : q # r => pc'[q] = pc[q]
  OBVIOUS
<1>2. \A q \in Readers : Source(q)' = Source(q)
  BY DEF Source, BlobOf
<1>3. ReadersType'
  OBVIOUS
<1>4. ReadersOK'
  BY <1>1, BlobReadAssumption, SMT DEF ReadersOK, IsOpen, BlobOf
<1>5. SteadyOK'
  BY <1>1, <1>2, SMT DEF SteadyOK, Steady, PutErrors
<1>6. ReadVerified'
  BY <1>1, SMT DEF ReadVerified, At, VerifyOnClose
<1>7. CacheClean'
  BY DEF CacheClean
<1>8. NoSpuriousError'
  BY <1>1, <1>2, SMT DEF NoSpuriousError, Steady, PutErrors
<1> QED
  BY <1>3, <1>4, <1>5, <1>6, <1>7, <1>8

\* ReadFile and Open begin with an open Blob.
LEMMA BeginKeeps ==
  ASSUME ReadersInv, NEW r \in Readers, NEW f \in Files, ReadFile(r, f) \/ Open(r, f),
         IsOpen(BlobOf(r)), UNCHANGED <<source, conf, opened>>
  PROVE  ReadersInv'
<1> USE DEF ReadersInv, ReadersType
<1>1. /\ pc[r] = "idle" /\ file' = [file EXCEPT ![r] = f] /\ UNCHANGED <<cache, res>>
      /\ \E l \in {"get", "readall", "ensure", "open"} :
           /\ pc' = [pc EXCEPT ![r] = l]
           /\ l # "open" => UNCHANGED handle
           /\ l = "open" =>
                /\ verified' = [verified EXCEPT ![r] = FALSE]
                /\ from' = [q \in Readers |-> from'[q]]
                /\ pos' = [q \in Readers |-> pos'[q]]
                /\ \E w : /\ what' = [what EXCEPT ![r] = w]
                         /\ \/ w = source[BlobOf(r)][f]
                            \/ w = cache[f] /\ cache[f] # None
  <2>1. CASE ReadFile(r, f)
    BY <2>1 DEF ReadFile, At, Goto
  <2>2. CASE Open(r, f) /\ pc' = [pc EXCEPT ![r] = "ensure"] /\ UNCHANGED handle
    BY <2>2 DEF Open, At
  <2>3. CASE Open(r, f) /\ OpenHandle(r, "source", source[BlobOf(r)][f])
    BY <2>3 DEF Open, At, OpenHandle, Goto
  <2>4. CASE Open(r, f) /\ cache[f] # None /\ OpenHandle(r, "cache", cache[f])
    BY <2>4 DEF Open, At, OpenHandle, Goto
  <2> QED
    BY <2>1, <2>2, <2>3, <2>4 DEF Open, Goto
<1>2. PICK l \in {"get", "readall", "ensure", "open"} : pc' = [pc EXCEPT ![r] = l]
  BY <1>1
<1>3. ReadersType'
  <2>1. CASE UNCHANGED handle
    BY <1>1, <1>2, <2>1 DEF handle, Labels
  <2>2. CASE l = "open" /\ ~UNCHANGED handle
    BY <1>1, <1>2, <2>2 DEF Labels
  <2> QED
    BY <1>1, <1>2, <2>1, <2>2
<1>a. /\ \A q \in Readers : q # r => /\ pc'[q] = pc[q] /\ file'[q] = file[q]
                                     /\ Source(q)' = Source(q)
      /\ file'[r] = f /\ res[r] = "nil" /\ pc'[r] = l
  BY <1>1, <1>2 DEF Source, BlobOf, ReadersOK
<1>b. \A q \in Readers : q # r => what'[q] = what[q] /\ verified'[q] = verified[q]
  BY <1>1 DEF handle
<1>c. l = "open" =>
        /\ ~verified'[r]
        /\ what'[r] = source[BlobOf(r)][f] \/ (what'[r] = cache[f] /\ cache[f] # None)
  <2>1. pc'[r] = l
    BY <1>a
  <2> QED
    BY <1>1, <2>1
<1>d. UNCHANGED <<cache, res>>
  BY <1>1
<1>4. ReadersOK'
  BY <1>d, <1>a, <1>b, <1>c, SMT DEF ReadersOK, IsOpen, BlobOf
<1>5. SteadyOK'
  <2>1. Steady => cache[f] \in {None, "good"}
    BY DEF CacheClean, Steady
  <2>2. Source(r)' = source[BlobOf(r)][f]
    BY <1>a DEF Source, BlobOf
  <2> QED
    BY <1>a, <1>b, <1>c, <2>1, <2>2, SMT DEF SteadyOK, Steady, PutErrors
<1>6. ReadVerified'
  BY <1>a, <1>b, <1>d DEF ReadVerified, At, VerifyOnClose
<1>7. CacheClean'
  BY <1>d DEF CacheClean
<1>8. NoSpuriousError'
  BY <1>a, <1>d DEF NoSpuriousError, PutErrors
<1> QED
  BY <1>3, <1>4, <1>5, <1>6, <1>7, <1>8

\* A call that returned leaves nothing behind.
LEMMA ReturnKeeps ==
  ASSUME ReadersInv, NEW r \in Readers, Return(r), UNCHANGED <<source, conf, opened>>
  PROVE  ReadersInv'
<1> USE DEF ReadersInv, ReadersType
<1>1. /\ UNCHANGED <<cache, file>>
      /\ pc' = [pc EXCEPT ![r] = "idle"] /\ res' = [res EXCEPT ![r] = "nil"]
      /\ what' = [what EXCEPT ![r] = None] /\ verified' = [verified EXCEPT ![r] = FALSE]
      /\ from' = [from EXCEPT ![r] = "source"] /\ pos' = [pos EXCEPT ![r] = 0]
  BY DEF Return, Goto
<1>2. /\ \A q \in Readers : Source(q)' = Source(q)
      /\ \A q \in Readers : q # r => /\ pc'[q] = pc[q] /\ what'[q] = what[q] /\ res'[q] = res[q]
                                     /\ verified'[q] = verified[q]
      /\ pc'[r] = "idle" /\ res'[r] = "nil"
  BY <1>1 DEF Source, BlobOf
<1>3. ReadersType'
  BY <1>1 DEF Labels
<1>4. ReadersOK'
  BY <1>1, <1>2 DEF ReadersOK, IsOpen, BlobOf
<1>5. SteadyOK'
  BY <1>2 DEF SteadyOK, Steady, PutErrors
<1>6. ReadVerified'
  BY <1>1, <1>2 DEF ReadVerified, At, VerifyOnClose
<1>7. CacheClean'
  BY <1>1 DEF CacheClean
<1>8. NoSpuriousError'
  BY <1>1, <1>2, SMT DEF NoSpuriousError, PutErrors
<1> QED
  BY <1>3, <1>4, <1>5, <1>6, <1>7, <1>8

\* A file of the cache is evicted, or damaged while nobody relies on it.
LEMMA DamageKeeps ==
  ASSUME ReadersInv, NEW f \in Files, Damage(f), UNCHANGED <<source, conf, opened>>
  PROVE  ReadersInv'
<1> USE DEF ReadersInv, ReadersType
<1>1. /\ UNCHANGED <<pc, file, from, what, pos, verified, res>> /\ conf.damage
      /\ \/ cache' = [cache EXCEPT ![f] = None]
         \/ /\ \A r \in Readers : pc[r] \notin {"do", "recheck"}
            /\ cache' = [cache EXCEPT ![f] = "bad"]
  BY DEF Damage, handle
<1>2. ReadersType'
  BY <1>1
<1>3. ReadersOK'
  BY <1>1, BlobReadAssumption, SMT DEF ReadersOK, IsOpen, BlobOf
<1>4. SteadyOK' /\ CacheClean' /\ NoSpuriousError'
  BY <1>1 DEF SteadyOK, Steady, CacheClean, NoSpuriousError
<1>5. ReadVerified'
  BY <1>1 DEF ReadVerified, At, VerifyOnClose
<1> QED
  BY <1>2, <1>3, <1>4, <1>5

\* The steps of ReadFile and Open, some of which end the call for others too.
LEMMA StepKeeps ==
  ASSUME ReadersInv, NEW r \in Readers, Step(r), UNCHANGED <<source, conf, opened>>
  PROVE  ReadersInv'
<1> USE DEF At
<1>t. ReadersType /\ ReadersOK /\ SteadyOK /\ CacheClean /\ NoSpuriousError
  BY DEF ReadersInv
<1>a. ASSUME NEW l \in Labels \ {"idle", "delete", "open", "end", "done", "closed"},
             Goto(r, l), pc[r] # "idle",
             UNCHANGED <<cache, file, handle, res>>,
             l \in {"do", "recheck"} => cache[file[r]] # "bad"
      PROVE  ReadersInv'
  <2>1. Steady /\ res[r] # "nil" => Source(r) # "good"
    BY <1>t DEF NoSpuriousError, Steady
  <2> QED
    BY <1>a, <1>t, <2>1, GoKeeps DEF Goto, handle, ReadersType
<1>b. ASSUME NEW w, NEW e, Finish(r, w, e), pc[r] # "idle",
             cache' \in [Files -> {None, "good", "bad"}],
             \A f \in Files : cache'[f] \in {cache[f], None, "good"},
             e = "nil" => w = "good",
             e # "nil" /\ Steady => Source(r) # "good"
      PROVE  ReadersInv'
  <2>1. /\ pc' = [pc EXCEPT ![r] = "done"] /\ UNCHANGED <<file, from, pos, verified>>
        /\ what' = [q \in Readers |-> what'[q]] /\ res' = [q \in Readers |-> res'[q]]
        /\ \A q \in Readers : q # r => what'[q] = what[q] /\ res'[q] = res[q]
        /\ what'[r] = w /\ res'[r] = e
    BY <1>b, <1>t DEF Finish, Goto, ReadersType
  <2>2. "done" \in Labels \ {"idle"}
    BY DEF Labels
  <2>3. /\ from' = [q \in Readers |-> from'[q]] /\ pos' = [q \in Readers |-> pos'[q]]
        /\ verified' \in [Readers -> BOOLEAN]
        /\ \A q \in Readers : verified'[q] = verified[q]
    BY <1>t, <2>1 DEF ReadersType
  <2> QED
    BY <1>b, <2>1, <2>2, <2>3, GoKeeps
<1>c. ASSUME NEW w, NEW src, OpenHandle(r, src, w), pc[r] # "idle", UNCHANGED <<cache, file, res>>,
             Steady => w = "good" \/ Source(r) # "good"
      PROVE  ReadersInv'
  <2>1. /\ pc' = [pc EXCEPT ![r] = "open"]
        /\ from' = [q \in Readers |-> from'[q]] /\ pos' = [q \in Readers |-> pos'[q]]
        /\ what' = [q \in Readers |-> what'[q]] /\ verified' \in [Readers -> BOOLEAN]
        /\ \A q \in Readers : q # r => what'[q] = what[q] /\ verified'[q] = verified[q]
        /\ what'[r] = w /\ ~verified'[r]
    BY <1>c, <1>t DEF OpenHandle, Goto, ReadersType
  <2>2. Steady /\ res[r] # "nil" => Source(r) # "good"
    BY <1>t DEF NoSpuriousError, Steady
  <2> QED
    BY <1>c, <1>t, <2>1, <2>2, GoKeeps DEF ReadersType, Labels
<1>d. UNCHANGED cache => /\ cache' \in [Files -> {None, "good", "bad"}]
                         /\ \A f \in Files : cache'[f] \in {cache[f], None, "good"}
  BY <1>t DEF ReadersType
<1>e. ASSUME NEW v \in {None, "good"}, cache' = [cache EXCEPT ![file[r]] = v]
      PROVE  /\ cache' \in [Files -> {None, "good", "bad"}]
             /\ \A f \in Files : cache'[f] \in {cache[f], None, "good"}
  BY <1>e, <1>t DEF ReadersType
<1>f. Steady => \A f \in Files : cache[f] \in {None, "good"}
  BY <1>t DEF CacheClean, Steady
<1>g. pc[r] # "idle" => file[r] \in Files
  BY <1>t DEF ReadersOK
<1>1. CASE Get(r)
  <2>1. CASE cache[file[r]] = None
    BY <1>1, <1>a, <2>1, BlobReadAssumption DEF Get, Labels
  <2>2. CASE cache[file[r]] # None /\ HashOK(cache[file[r]])
    BY <1>1, <1>b, <1>d, <2>2 DEF Get, HashOK
  <2>3. CASE cache[file[r]] # None /\ ~HashOK(cache[file[r]])
    <3>1. /\ pc[r] = "get" /\ pc' = [pc EXCEPT ![r] = "delete"]
          /\ UNCHANGED <<cache, file, from, what, pos, verified, res>>
      BY <1>1, <2>3 DEF Get, Goto, handle
    <3>2. ~Steady
      BY <1>f, <1>g, <2>3, <3>1 DEF HashOK
    <3> QED
      BY <1>t, <1>d, <3>1, <3>2, GoKeeps DEF ReadersType, Labels
  <2> QED
    BY <2>1, <2>2, <2>3
<1>2. CASE DeleteBad(r)
  <2>1. ~Steady
    BY <1>2, <1>t DEF DeleteBad, SteadyOK
  <2> QED
    BY <1>2, <1>b, <1>e, <2>1 DEF DeleteBad
<1>3. CASE Do(r)
  BY <1>3, <1>a, <1>t DEF Do, Labels, ReadersOK
<1>4. CASE Recheck(r)
  <2>1. CASE cache[file[r]] # None
    <3>1. pc[r] = "recheck" /\ Land(r, "done", cache[file[r]], "nil") /\ UNCHANGED cache
      BY <1>4, <2>1 DEF Recheck
    <3>2. cache[file[r]] = "good"
      BY <1>t, <1>g, <2>1, <3>1 DEF ReadersType, ReadersOK
    <3> QED
      BY <1>d, <3>1, <3>2, LandKeeps
  <2>2. CASE cache[file[r]] = None
    BY <1>4, <1>a, <2>2 DEF Recheck, Labels
  <2> QED
    BY <2>1, <2>2
<1>5. CASE ReadAll(r)
  <2>1. CASE Caching
    BY <1>5, <1>a, <2>1 DEF ReadAll, Labels
  <2>2. CASE ~Caching
    BY <1>5, <1>b, <1>d, <2>2 DEF ReadAll
  <2> QED
    BY <2>1, <2>2
<1>6. CASE ReadAllFails(r)
  BY <1>6, <1>d, LandKeeps DEF ReadAllFails
<1>7. CASE Put(r)
  <2>1. /\ cache' \in [Files -> {None, "good", "bad"}]
        /\ \A f \in Files : cache'[f] \in {cache[f], None, "good"}
    BY <1>7, <1>d, <1>e DEF Put
  <2> QED
    BY <1>7, <2>1, LandKeeps DEF Put
<1>8. CASE Ensure(r)
  BY <1>8, <1>a DEF Ensure, Labels
<1>9. CASE EnsureRecheck(r)
  <2>1. CASE cache[file[r]] # None
    BY <1>9, <1>d, <2>1, LandKeeps DEF EnsureRecheck
  <2>2. CASE cache[file[r]] = None
    BY <1>9, <1>a, <2>2 DEF EnsureRecheck, Labels
  <2> QED
    BY <2>1, <2>2
<1>10. CASE Stream(r)
  <2>1. /\ cache' \in [Files -> {None, "good", "bad"}]
        /\ \A f \in Files : cache'[f] \in {cache[f], None, "good"}
    BY <1>10, <1>d, <1>e DEF Stream, StreamOK
  <2> QED
    BY <1>10, <2>1, LandKeeps DEF Stream
<1>11. CASE StreamFails(r)
  <2>1. Steady => Source(r) # "good"
    BY <1>11 DEF StreamFails, StreamOK, Steady
  <2> QED
    BY <1>11, <1>d, <2>1, LandKeeps DEF StreamFails
<1>12. CASE GetAgain(r)
  <2>1. CASE cache[file[r]] # None
    <3>1. Steady => cache[file[r]] = "good"
      BY <1>12, <1>f, <1>g, <2>1 DEF GetAgain
    <3> QED
      BY <1>12, <1>c, <2>1, <3>1 DEF GetAgain
  <2>2. CASE cache[file[r]] = None
    BY <1>12, <1>c, <2>2 DEF GetAgain, FromSource
  <2> QED
    BY <2>1, <2>2
<1>13. CASE Return(r)
  BY <1>13, ReturnKeeps
<1> QED
  BY <1>1, <1>2, <1>3, <1>4, <1>5, <1>6, <1>7, <1>8, <1>9, <1>10, <1>11, <1>12, <1>13 DEF Step

\* Reading an open file, to its end or until it fails, and closing it.
LEMMA HandleKeeps ==
  ASSUME ReadersInv, NEW r \in Readers, Read(r) \/ ReadFails(r) \/ Close(r),
         UNCHANGED <<source, conf, opened>>
  PROVE  ReadersInv'
<1> USE DEF At
<1>t. ReadersType /\ ReadersOK /\ SteadyOK /\ ReadVerified /\ NoSpuriousError
  BY DEF ReadersInv
<1>a. /\ Steady /\ pc[r] \in {"open", "end"} => what[r] = "good" \/ Source(r) # "good"
      /\ Steady /\ res[r] # "nil" => Source(r) # "good"
  BY <1>t DEF SteadyOK, NoSpuriousError, Steady
<1>b. ASSUME NEW l \in {"end", "closed"}, pc[r] \in {"open", "end"},
             VerifyHash(r), Goto(r, l), UNCHANGED <<file, from, what, pos>>
      PROVE  ReadersInv'
  <2>1. /\ cache' \in [Files -> {None, "good", "bad"}]
        /\ \A f \in Files : cache'[f] \in {cache[f], None, "good"}
    BY <1>b, <1>t DEF VerifyHash, ReadersType
  <2>2. /\ verified' \in [Readers -> BOOLEAN] /\ res' = [q \in Readers |-> res'[q]]
        /\ \A q \in Readers : q # r => res'[q] = res[q] /\ verified'[q] = verified[q]
        /\ res'[r] = IF what[r] = "good" THEN "nil" ELSE "mismatch"
    BY <1>b, <1>t DEF VerifyHash, SumOK, ReadersType
  <2> QED
    BY <1>b, <1>t, <1>a, <2>1, <2>2, GoKeeps DEF ReadersType, Goto, Labels
<1>c. ASSUME NEW e, pc[r] \in {"open", "end"},
             res' = [res EXCEPT ![r] = e], Goto(r, "closed"),
             UNCHANGED <<cache, file, from, what, pos, verified>>,
             e = "nil" => ~VerifyOnClose,
             e # "nil" => what[r] = "short"
      PROVE  ReadersInv'
  <2>1. /\ res' = [q \in Readers |-> res'[q]] /\ res'[r] = e
        /\ \A q \in Readers : q # r => res'[q] = res[q]
    BY <1>c, <1>t DEF ReadersType
  <2> QED
    BY <1>c, <1>t, <1>a, <2>1, GoKeeps DEF ReadersType, Goto, Labels
<1>1. CASE Read(r)
  <2>1. CASE pos[r] < Chunks
    <3>1. /\ pc[r] = "open" /\ ~verified[r] /\ UNCHANGED <<pc, cache, verified, res, file, from, what>>
          /\ pos' = [pos EXCEPT ![r] = @ + 1]
      BY <1>1, <2>1 DEF Read
    <3>2. pc' = [pc EXCEPT ![r] = "open"] /\ pos' = [q \in Readers |-> pos'[q]]
      BY <1>t, <3>1 DEF ReadersType
    <3>3. /\ pc[r] = "open" /\ ~verified[r] /\ UNCHANGED <<cache, verified, res, file, from, what>>
          /\ cache' \in [Files -> {None, "good", "bad"}]
          /\ \A f \in Files : cache'[f] \in {cache[f], None, "good"}
      BY <1>t, <3>1 DEF ReadersType
    <3>4. "open" \in Labels \ {"idle"}
      BY DEF Labels
    <3> QED
      BY <1>a, <1>t, <3>2, <3>3, <3>4, GoKeeps DEF ReadersType
  <2>2. CASE ~(pos[r] < Chunks)
    BY <1>1, <1>b, <2>2 DEF Read
  <2> QED
    BY <2>1, <2>2
<1>2. CASE ReadFails(r)
  <2>1. /\ pc[r] = "open" /\ what[r] = "short" /\ pc' = [pc EXCEPT ![r] = "end"]
        /\ UNCHANGED <<cache, file, from, what, pos, verified>>
    BY <1>2 DEF ReadFails, Unreadable, Goto, handle
  <2>2. /\ res' = [q \in Readers |-> res'[q]] /\ res'[r] = "err"
        /\ \A q \in Readers : q # r => res'[q] = res[q]
    BY <1>2, <1>t DEF ReadFails, ReadersType
  <2> QED
    BY <1>a, <1>t, <2>1, <2>2, GoKeeps DEF ReadersType, Labels
<1>3. CASE Close(r)
  <2>1. CASE verified[r]
    <3>1. /\ pc[r] = "end" /\ pc' = [pc EXCEPT ![r] = "closed"]
          /\ UNCHANGED <<cache, file, from, what, pos, verified, res>>
      BY <1>3, <1>t, <2>1 DEF Close, Goto, ReadersOK
    <3>2. res[r] = "nil" => what[r] = "good"
      BY <1>t, <3>1 DEF ReadVerified
    <3> QED
      BY <1>a, <1>t, <3>1, <3>2, GoKeeps DEF ReadersType, Labels
  <2>2. CASE ~verified[r] /\ ~VerifyOnClose
    BY <1>3, <1>c, <2>2, SMT DEF Close
  <2>3. CASE ~verified[r] /\ VerifyOnClose /\ what[r] = "short"
    BY <1>3, <1>c, <2>3, SMT DEF Close
  <2>4. CASE ~verified[r] /\ VerifyOnClose /\ what[r] # "short"
    BY <1>3, <1>b, <2>4 DEF Close
  <2> QED
    BY <2>1, <2>2, <2>3, <2>4
<1> QED
  BY <1>1, <1>2, <1>3

-----------------------------------------------------------------------------
(* The local files *)

Versions == Writers \cup {"old", None}
Contents == Versions \X {"part", "whole"}
CreateLabels ==
    {"create", "createdata", "write", "writerest", "writeindex", "close", "createundo", "undo"}
WriterLabels == {"none", "save", "savedata", "saveundo", "nil", "err"} \cup CreateLabels

FilesType ==
    /\ disk \in Seq(Contents)
    /\ link \in [{"index", "data"} -> 0..Len(disk)]
    /\ fd \in [Writers -> [{"index", "data"} -> Nat]]
    /\ wpc \in [Writers -> WriterLabels]
    /\ opened \in [Blobs -> [of : Versions, inode : 0..Len(disk), found : Contents]]

\* A Blob finds what the inode of its data holds, and nothing before it is open.
SourcesOK ==
    /\ source = [b \in Blobs |-> source[b]]
    /\ \A b \in Blobs :
         /\ opened[b].inode # 0 =>
              source[b] = [f \in Files |-> Finds(opened[b].of, disk[opened[b].inode])]
         /\ opened[b].inode = 0 /\ conf.local => source[b] = None
         /\ ~conf.local => opened[b] = NoFile

\* A writer is where its job leads.
JobsOK ==
    \A w \in Writers :
        /\ conf.jobs[w] = "none" => wpc[w] = "none"
        /\ conf.jobs[w] # "create" => wpc[w] \notin CreateLabels

\* Where archives are only saved, inodes are whole and never written again.
SavedOK ==
    (\A w \in Writers : conf.jobs[w] # "create") =>
        /\ \A p \in DOMAIN link : link[p] # 0 => disk[link[p]][2] = "whole"
        /\ \A b \in Blobs : opened[b].inode # 0 => disk[opened[b].inode] = opened[b].found

\* What a lone writer has done to the files, by where it is.
Stage(w) ==
    /\ link.index # 0 => link.index # link.data
    /\ wpc[w] \in {"save", "create", "nil", "err"} => link.index = 0 \/ Paired
    /\ wpc[w] = "savedata" => link.index # 0 /\ disk[link.index] = Whole(w)
    /\ wpc[w] \in {"createdata", "write", "writerest", "writeindex", "close"} =>
         link.index # 0 /\ fd[w].index = link.index
    /\ wpc[w] \in {"createdata", "write", "writerest", "writeindex"} => disk[link.index] = Empty
    /\ wpc[w] \in {"write", "writerest", "writeindex", "close"} =>
         link.data # 0 /\ fd[w].data = link.data
    /\ wpc[w] = "write" => disk[link.data] = Empty
    /\ wpc[w] = "writerest" => disk[link.data] = <<w, "part">>
    /\ wpc[w] \in {"writeindex", "close"} => disk[link.data] = Whole(w)
    /\ wpc[w] = "close" => disk[link.index] = Whole(w)

StagesOK ==
    \A w \in Writers :
        ~conf.removeErrors /\ (\A u \in Writers \ {w} : conf.jobs[u] = "none") => Stage(w)

FilesInv == FilesType /\ SourcesOK /\ JobsOK /\ SavedOK /\ StagesOK

IInv == ReadersInv /\ FilesInv

\* Readers while a writer changes the inodes to d, or a Blob is opened.
LEMMA BecomeKeeps ==
  ASSUME ReadersInv, NEW d, NEW o, Become(d, o),
         \A b \in Blobs : IsOpen(b) => IsOpen(b)' /\ (conf.steady => source'[b] = source[b])
  PROVE  ReadersInv'
<1> USE DEF ReadersInv, ReadersType
<1>1. UNCHANGED <<cache, pc, file, from, pos, verified, res, conf>>
  BY DEF Become
<1>2. /\ what' = [r \in Readers |-> what'[r]]
      /\ \A r \in Readers : pc[r] # "open" => what'[r] = what[r]
  BY SMT DEF Become, At
<1>3. \A r \in Readers : BlobOf(r) \in Blobs /\ BlobOf(r)' = BlobOf(r)
  BY <1>1, LocalAssumption DEF BlobOf
<1>4. ASSUME NEW r \in Readers, conf.steady, pc[r] # "idle"
      PROVE  Source(r)' = Source(r) /\ what'[r] = what[r]
  <2>1. source'[BlobOf(r)] = source[BlobOf(r)]
    BY <1>3, <1>4 DEF ReadersOK
  <2>2. Source(r)' = Source(r)
    BY <1>1, <1>3, <2>1 DEF Source
  <2>3. what'[r] = what[r]
    BY <2>1 DEF Become, Source
  <2> QED
    BY <2>2, <2>3
<1>5. ReadersType'
  BY <1>1, <1>2
<1>6. ReadersOK'
  BY <1>1, <1>3 DEF ReadersOK
<1>7. SteadyOK'
  BY <1>1, <1>4 DEF SteadyOK, Steady, PutErrors
<1>8. ReadVerified'
  BY <1>1, <1>2 DEF ReadVerified, At, VerifyOnClose
<1>9. CacheClean'
  BY <1>1 DEF CacheClean
<1>10. NoSpuriousError'
  BY <1>1, <1>4, SMT DEF NoSpuriousError, PutErrors, ReadersOK
<1> QED
  BY <1>5, <1>6, <1>7, <1>8, <1>9, <1>10

\* A writer leaves the inodes d, among them all that were there.
LEMMA BecomeInodes ==
  ASSUME IInv, NEW d \in Seq(Contents), Become(d, opened), Len(disk) <= Len(d),
         conf.steady => \A n \in 1..Len(disk) : d[n] = disk[n]
  PROVE  /\ ReadersInv' /\ SourcesOK' /\ disk' = d /\ UNCHANGED <<opened, conf>>
         /\ opened' \in [Blobs -> [of : Versions, inode : 0..Len(d), found : Contents]]
<1>1. disk' = d /\ opened' = opened /\ conf' = conf
  BY DEF Become
<1>2. \A b \in Blobs :
        source'[b] = IF opened[b].inode = 0 THEN source[b]
                     ELSE [f \in Files |-> Finds(opened[b].of, d[opened[b].inode])]
  BY DEF Become
<1>3. \A b \in Blobs : opened[b].inode # 0 => opened[b].inode \in 1..Len(disk)
  BY SMT DEF IInv, FilesInv, FilesType
<1>4. \A b \in Blobs : conf.steady => source'[b] = source[b]
  <2> SUFFICES ASSUME NEW b \in Blobs, conf.steady PROVE source'[b] = source[b]
    OBVIOUS
  <2>1. CASE opened[b].inode = 0
    BY <1>2, <2>1
  <2>2. CASE opened[b].inode # 0
    <3>1. d[opened[b].inode] = disk[opened[b].inode]
      BY <1>3, <2>2
    <3> QED
      <4> DEFINE v == opened[b].of
                 x == disk[opened[b].inode]
      <4>1. source[b] = [f \in Files |-> Finds(v, x)]
        BY <2>2 DEF IInv, FilesInv, SourcesOK
      <4>2. source'[b] = [f \in Files |-> Finds(v, x)]
        BY <1>2, <2>2, <3>1
      <4> QED
        BY <4>1, <4>2
  <2> QED
    BY <2>1, <2>2
<1>5. ReadersInv'
  BY <1>1, <1>4, BecomeKeeps DEF IInv, IsOpen
<1>6. SourcesOK'
  <2>1. source' = [b \in Blobs |-> source'[b]]
    BY DEF Become
  <2> QED
    BY <1>1, <1>2, <2>1 DEF IInv, FilesInv, SourcesOK
<1>7. opened' \in [Blobs -> [of : Versions, inode : 0..Len(d), found : Contents]]
  <2>1. 0..Len(disk) \subseteq 0..Len(d)
    BY SMT DEF IInv, FilesInv, FilesType
  <2> QED
    BY <1>1, <2>1 DEF IInv, FilesInv, FilesType
<1> QED
  BY <1>1, <1>5, <1>6, <1>7

\* A step of writer w keeps the invariant if it keeps the stage of w, should w be alone.
LEMMA WriterKeeps ==
  ASSUME IInv, NEW w \in Writers, NEW d \in Seq(Contents), Become(d, opened),
         Len(disk) <= Len(d),
         conf.jobs[w] # "create" =>
            /\ \A n \in 1..Len(disk) : d[n] = disk[n]
            /\ \A p \in DOMAIN link : link'[p] # 0 /\ link'[p] # link[p] => d[link'[p]][2] = "whole",
         link' \in [{"index", "data"} -> 0..Len(d)],
         fd' \in [Writers -> [{"index", "data"} -> Nat]],
         NEW l \in WriterLabels, wpc' = [wpc EXCEPT ![w] = l], wpc[w] # "none",
         wpc[w] \notin CreateLabels => l \notin CreateLabels,
         ~conf.removeErrors /\ Stage(w) => Stage(w)'
  PROVE  IInv'
<1> USE DEF IInv, FilesInv, FilesType
<1>1. conf \in Configs /\ conf.jobs \in [Writers -> {"none", "save", "create"}]
  BY LocalAssumption DEF ReadersInv, ReadersType
<1>2. conf.steady => conf.jobs[w] # "create"
  BY <1>1, LocalAssumption
<1>3. /\ ReadersInv' /\ SourcesOK' /\ disk' = d /\ UNCHANGED <<opened, conf>>
      /\ opened' \in [Blobs -> [of : Versions, inode : 0..Len(d), found : Contents]]
  BY <1>2, BecomeInodes
<1>4. FilesType'
  BY <1>3
<1>5. JobsOK'
  BY <1>3 DEF JobsOK
<1>6. SavedOK'
  <2> SUFFICES ASSUME \A u \in Writers : conf.jobs[u] # "create"
               PROVE  /\ \A p \in DOMAIN link' : link'[p] # 0 => d[link'[p]][2] = "whole"
                      /\ \A b \in Blobs : opened[b].inode # 0 => d[opened[b].inode] = opened[b].found
    BY <1>3 DEF SavedOK
  <2>1. \A n \in 1..Len(disk) : d[n] = disk[n]
    OBVIOUS
  <2>2. ASSUME NEW p \in {"index", "data"}, link'[p] # 0 PROVE d[link'[p]][2] = "whole"
    <3>1. CASE link'[p] # link[p]
      BY <2>2, <3>1
    <3>2. CASE link'[p] = link[p]
      <4>1. link[p] \in 1..Len(disk) /\ disk[link[p]][2] = "whole"
        BY <2>2, <3>2, SMT DEF SavedOK
      <4> QED
        BY <2>1, <3>2, <4>1
    <3> QED
      BY <3>1, <3>2
  <2>3. ASSUME NEW b \in Blobs, opened[b].inode # 0 PROVE d[opened[b].inode] = opened[b].found
    <3>1. opened[b].inode \in 1..Len(disk) /\ disk[opened[b].inode] = opened[b].found
      BY <2>3, SMT DEF SavedOK
    <3> QED
      BY <2>1, <3>1
  <2> QED
    BY <2>2, <2>3
<1>7. StagesOK'
  <2> SUFFICES ASSUME NEW u \in Writers, ~conf.removeErrors,
                      \A v \in Writers \ {u} : conf.jobs[v] = "none"
               PROVE  Stage(u)'
    BY <1>3 DEF StagesOK
  <2>1. u = w
    BY DEF JobsOK
  <2> QED
    BY <2>1 DEF StagesOK
<1> QED
  BY <1>3, <1>4, <1>5, <1>6, <1>7

\* The inodes after one was added.
LEMMA InodeAdded ==
  ASSUME NEW d \in Seq(Contents), NEW c \in Contents
  PROVE  /\ Append(d, c) \in Seq(Contents) /\ Len(Append(d, c)) = Len(d) + 1
         /\ Append(d, c)[Len(d) + 1] = c
         /\ \A n \in 1..Len(d) : Append(d, c)[n] = d[n]
  BY SMT

\* The inodes after one was written in place.
LEMMA InodeWritten ==
  ASSUME NEW d \in Seq(Contents), NEW c \in Contents, NEW k \in Nat
  PROVE  /\ [d EXCEPT ![k] = c] \in Seq(Contents) /\ Len([d EXCEPT ![k] = c]) = Len(d)
         /\ k \in 1..Len(d) => [d EXCEPT ![k] = c][k] = c
         /\ \A n \in 1..Len(d) : n # k => [d EXCEPT ![k] = c][n] = d[n]
<1> DEFINE e == [d EXCEPT ![k] = c]
<1>1. d \in [1..Len(d) -> Contents] /\ Len(d) \in Nat
  BY SMT
<1>2. e \in [1..Len(d) -> Contents] /\ (k \in 1..Len(d) => e[k] = c)
      /\ \A n \in 1..Len(d) : n # k => e[n] = d[n]
  BY <1>1
<1> HIDE DEF e
<1>3. e \in Seq(Contents) /\ Len(e) = Len(d)
  BY <1>1, <1>2, SMT
<1> QED
  BY <1>2, <1>3 DEF e

\* Every step of Save and CreateBlob keeps the invariant.
LEMMA WriterStepKeeps == ASSUME IInv, NEW w \in Writers, Writer(w) PROVE IInv'
<1> USE DEF WAt
<1>t. /\ disk \in Seq(Contents) /\ Len(disk) \in Nat
      /\ link \in [{"index", "data"} -> 0..Len(disk)]
      /\ fd \in [Writers -> [{"index", "data"} -> Nat]]
      /\ wpc \in [Writers -> WriterLabels]
  BY SMT DEF IInv, FilesInv, FilesType
<1>u. Whole(w) \in Contents /\ Empty \in Contents /\ Mixed \in Contents /\ <<w, "part">> \in Contents
  BY DEF Contents, Versions, Whole, Empty, Mixed
<1>v. wpc[w] \in CreateLabels => conf.jobs[w] = "create"
  BY LocalAssumption DEF IInv, FilesInv, JobsOK, ReadersInv, ReadersType
<1>a. ASSUME NEW l \in {"nil", "err", "saveundo", "createundo", "undo"}, WGoto(w, l),
             Become(disk, opened), UNCHANGED <<link, fd>>, wpc[w] # "none",
             wpc[w] \notin CreateLabels => l \in {"err", "saveundo"},
             l \in {"nil", "err"} => wpc[w] \in {"save", "create", "close"}
      PROVE  IInv'
  <2>1. l \in WriterLabels /\ (wpc[w] \notin CreateLabels => l \notin CreateLabels)
    BY <1>a DEF WriterLabels, CreateLabels
  <2>2. disk' = disk /\ wpc'[w] = l /\ wpc' = [wpc EXCEPT ![w] = l]
    BY <1>a, <1>t DEF Become, WGoto
  <2>3. Stage(w) => Stage(w)'
    BY <1>a, <2>2 DEF Stage, Paired
  <2>4. /\ \A n \in 1..Len(disk) : disk[n] = disk[n]
        /\ \A p \in DOMAIN link :
             link'[p] # 0 /\ link'[p] # link[p] => disk[link'[p]][2] = "whole"
        /\ link' \in [{"index", "data"} -> 0..Len(disk)]
        /\ fd' \in [Writers -> [{"index", "data"} -> Nat]] /\ Len(disk) <= Len(disk)
    BY <1>a, <1>t, SMT
  <2> QED
    BY <1>a, <1>t, <2>1, <2>2, <2>3, <2>4, WriterKeeps
<1>b. ASSUME NEW ps \in {{"index"}, {"index", "data"}}, Remove(w, ps), wpc[w] # "none"
      PROVE  IInv'
  <2>1. PICK gone \in {ps} \cup (IF conf.removeErrors THEN SUBSET ps ELSE {}) :
          link' = [p \in DOMAIN link |-> IF p \in gone THEN 0 ELSE link[p]]
    BY <1>b DEF Remove
  <2>2. link' \in [{"index", "data"} -> 0..Len(disk)]
    BY <1>t, <2>1, SMT
  <2>3. \A p \in DOMAIN link : link'[p] # 0 => link'[p] = link[p]
    BY <1>t, <2>1
  <2>4. ~conf.removeErrors => link'.index = 0
    BY <1>t, <2>1
  <2>5. /\ Become(disk, opened) /\ fd' = fd /\ wpc' = [wpc EXCEPT ![w] = "err"] /\ wpc'[w] = "err"
    BY <1>b, <1>t DEF Remove, WGoto
  <2>6. ~conf.removeErrors => Stage(w)'
    BY <2>4, <2>5 DEF Stage
  <2>7. "err" \in WriterLabels \ CreateLabels
    BY DEF WriterLabels, CreateLabels
  <2>8. /\ \A n \in 1..Len(disk) : disk[n] = disk[n]
        /\ \A p \in DOMAIN link :
             link'[p] # 0 /\ link'[p] # link[p] => disk[link'[p]][2] = "whole"
        /\ fd' \in [Writers -> [{"index", "data"} -> Nat]] /\ Len(disk) <= Len(disk)
    BY <1>t, <2>3, <2>5, SMT
  <2> QED
    BY <1>b, <1>t, <2>2, <2>5, <2>6, <2>7, <2>8, WriterKeeps
<1>c. ASSUME NEW p \in {"index", "data"}, NEW c \in {Whole(w), Empty}, NEW l \in WriterLabels,
             Become(Append(disk, c), opened), link' = [link EXCEPT ![p] = Len(disk) + 1],
             UNCHANGED fd \/ fd' = [fd EXCEPT ![w][p] = Len(disk) + 1],
             WGoto(w, l), wpc[w] # "none",
             wpc[w] \notin CreateLabels => l \notin CreateLabels /\ c = Whole(w),
             Stage(w) => Stage(w)'
      PROVE  IInv'
  <2> DEFINE d == Append(disk, c)
  <2>1. /\ d \in Seq(Contents) /\ Len(d) = Len(disk) + 1 /\ d[Len(disk) + 1] = c
        /\ \A n \in 1..Len(disk) : d[n] = disk[n]
    BY <1>c, <1>t, <1>u, InodeAdded, SMT
  <2> HIDE DEF d
  <2>2. link' \in [{"index", "data"} -> 0..Len(d)]
    BY <1>c, <1>t, <2>1, SMT
  <2>3. fd' \in [Writers -> [{"index", "data"} -> Nat]]
    <3> DEFINE new == [fd[w] EXCEPT ![p] = Len(disk) + 1]
    <3>1. new \in [{"index", "data"} -> Nat]
      BY <1>t, SMT
    <3>2. fd' = fd \/ fd' = [fd EXCEPT ![w] = new]
      BY <1>c
    <3> QED
      BY <1>t, <3>1, <3>2
  <2>4. \A q \in DOMAIN link : link'[q] # link[q] => link'[q] = Len(disk) + 1
    BY <1>c, <1>t
  <2>5. conf.jobs[w] # "create" => c[2] = "whole"
    BY <1>c, <1>v, SMT DEF Whole
  <2>6. /\ conf.jobs[w] # "create" =>
             \A q \in DOMAIN link : link'[q] # 0 /\ link'[q] # link[q] => d[link'[q]][2] = "whole"
        /\ Len(disk) <= Len(d) /\ wpc' = [wpc EXCEPT ![w] = l] /\ Become(d, opened)
    BY <1>c, <1>t, <2>1, <2>4, <2>5, SMT DEF WGoto, d
  <2> QED
    BY <1>c, <2>1, <2>2, <2>3, <2>6, WriterKeeps
<1>d. ASSUME NEW k \in Nat, NEW c \in Contents, NEW l \in CreateLabels,
             Become([disk EXCEPT ![k] = c], opened), UNCHANGED link,
             UNCHANGED fd \/ \E p \in {"index", "data"} : fd' = [fd EXCEPT ![w][p] = k],
             WGoto(w, l), wpc[w] \in CreateLabels,
             Stage(w) => Stage(w)'
      PROVE  IInv'
  <2> DEFINE d == [disk EXCEPT ![k] = c]
  <2>1. d \in Seq(Contents) /\ Len(d) = Len(disk)
    BY <1>t, InodeWritten
  <2>2. Become(d, opened)
    BY <1>d
  <2> HIDE DEF d
  <2>3. fd' \in [Writers -> [{"index", "data"} -> Nat]]
    <3>1. ASSUME NEW p \in {"index", "data"}, fd' = [fd EXCEPT ![w][p] = k]
          PROVE  fd' \in [Writers -> [{"index", "data"} -> Nat]]
      <4> DEFINE new == [fd[w] EXCEPT ![p] = k]
      <4>1. new \in [{"index", "data"} -> Nat]
        BY <1>t
      <4>2. fd' = [fd EXCEPT ![w] = new]
        BY <3>1
      <4> QED
        BY <1>t, <4>1, <4>2
    <3> QED
      BY <1>d, <1>t, <3>1
  <2>4. l \in WriterLabels /\ wpc[w] # "none" /\ conf.jobs[w] = "create" /\ wpc' = [wpc EXCEPT ![w] = l]
    BY <1>d, <1>v DEF WriterLabels, CreateLabels, WGoto
  <2> QED
    <3>1. link' \in [{"index", "data"} -> 0..Len(d)] /\ Len(disk) <= Len(d)
      BY <1>d, <1>t, <2>1, SMT
    <3>2. wpc[w] \in CreateLabels /\ (Stage(w) => Stage(w)')
      BY <1>d
    <3> QED
      BY <2>1, <2>2, <2>3, <2>4, <3>1, <3>2, WriterKeeps
<1>w. ASSUME NEW l, WGoto(w, l) PROVE wpc'[w] = l
  BY <1>w, <1>t DEF WGoto
<1>x. ASSUME NEW p \in {"index", "data"}, Replace(w, p)
      PROVE  /\ disk' = Append(disk, Whole(w)) /\ disk'[Len(disk) + 1] = Whole(w)
             /\ \A n \in 1..Len(disk) : disk'[n] = disk[n]
             /\ Become(Append(disk, Whole(w)), opened)
             /\ link' = [link EXCEPT ![p] = Len(disk) + 1] /\ link'[p] = Len(disk) + 1
  BY <1>x, <1>t, <1>u, InodeAdded DEF Replace, Become
<1>1. CASE SaveIndex(w)
  <2>1. CASE Replace(w, "index") /\ WGoto(w, "savedata") /\ UNCHANGED fd
    <3>1. Stage(w)'
      BY <1>t, <1>w, <1>x, <2>1, SMT DEF Stage
    <3>2. wpc[w] = "save"
      BY <1>1 DEF SaveIndex
    <3> QED
      BY <1>c, <1>x, <2>1, <3>1, <3>2 DEF WriterLabels, CreateLabels
  <2>2. CASE Fail(w, "err")
    BY <1>1, <1>a, <2>2 DEF SaveIndex, Fail, CreateLabels
  <2> QED
    BY <1>1, <2>1, <2>2 DEF SaveIndex
<1>2. CASE SaveData(w)
  <2>1. CASE Replace(w, "data") /\ WGoto(w, "nil") /\ UNCHANGED fd
    <3>1. wpc[w] = "savedata"
      BY <1>2 DEF SaveData
    <3>2. ASSUME Stage(w) PROVE Stage(w)'
      <4>1. link.index # 0 /\ disk[link.index] = Whole(w) /\ link'.index = link.index
        BY <1>t, <1>x, <2>1, <3>1, <3>2 DEF Stage
      <4>2. /\ link'.data = Len(disk) + 1 /\ disk'[link'.data] = Whole(w)
            /\ disk'[link'.index] = Whole(w)
        BY <1>t, <1>x, <2>1, <4>1, SMT
      <4>3. Paired' /\ link'.index # link'.data
        BY <1>t, <4>1, <4>2, SMT DEF Paired, Whole
      <4> QED
        BY <1>w, <2>1, <4>3 DEF Stage
    <3> QED
      BY <1>c, <1>x, <2>1, <3>1, <3>2 DEF WriterLabels, CreateLabels
  <2>2. CASE Fail(w, "saveundo")
    BY <1>2, <1>a, <2>2 DEF SaveData, Fail, CreateLabels
  <2> QED
    BY <1>2, <2>1, <2>2 DEF SaveData
<1>3. CASE SaveUndo(w) \/ CreateUndo(w) \/ Undo(w)
  BY <1>3, <1>b DEF SaveUndo, CreateUndo, Undo
<1>y. ASSUME NEW p \in {"index", "data"}, NEW l \in {"createdata", "write"},
             Truncate(w, p), WGoto(w, l), wpc[w] \in CreateLabels, Stage(w) => Stage(w)'
      PROVE  IInv'
  <2>1. CASE link[p] = 0
    <3>1. /\ Become(Append(disk, Empty), opened) /\ link' = [link EXCEPT ![p] = Len(disk) + 1]
          /\ fd' = [fd EXCEPT ![w][p] = Len(disk) + 1]
      BY <1>y, <2>1 DEF Truncate
    <3>2. l \in WriterLabels /\ wpc[w] # "none"
      BY <1>y DEF WriterLabels, CreateLabels
    <3> QED
      BY <1>c, <1>y, <3>1, <3>2
  <2>2. CASE link[p] # 0
    <3>1. /\ Become([disk EXCEPT ![link[p]] = Empty], opened) /\ UNCHANGED link
          /\ fd' = [fd EXCEPT ![w][p] = link[p]]
      BY <1>y, <2>2 DEF Truncate
    <3>2. l \in CreateLabels /\ link[p] \in Nat
      BY <1>y, <1>t, SMT DEF CreateLabels
    <3> QED
      BY <1>d, <1>u, <1>y, <3>1, <3>2
  <2> QED
    BY <2>1, <2>2
<1>z. ASSUME NEW p \in {"index", "data"}, Truncate(w, p)
      PROVE  /\ link'[p] \in 1..Len(disk) + 1 /\ fd'[w][p] = link'[p] /\ disk'[link'[p]] = Empty
             /\ link[p] # 0 => link'[p] = link[p]
             /\ link[p] = 0 => link'[p] = Len(disk) + 1
             /\ \A q \in {"index", "data"} : q # p => link'[q] = link[q] /\ fd'[w][q] = fd[w][q]
             /\ \A n \in 1..Len(disk) : n # link'[p] => disk'[n] = disk[n]
  <2>1. CASE link[p] = 0
    <3>1. /\ disk' = Append(disk, Empty) /\ link' = [link EXCEPT ![p] = Len(disk) + 1]
          /\ fd' = [fd EXCEPT ![w][p] = Len(disk) + 1]
      BY <1>z, <2>1 DEF Truncate, Become
    <3>2. disk'[Len(disk) + 1] = Empty /\ \A n \in 1..Len(disk) : disk'[n] = disk[n]
      BY <1>t, <1>u, <3>1, InodeAdded
    <3> QED
      BY <1>t, <2>1, <3>1, <3>2, SMT
  <2>2. CASE link[p] # 0
    <3>1. /\ disk' = [disk EXCEPT ![link[p]] = Empty] /\ link' = link
          /\ fd' = [fd EXCEPT ![w][p] = link[p]]
      BY <1>z, <2>2 DEF Truncate, Become
    <3>2. link[p] \in Nat /\ link[p] \in 1..Len(disk)
      BY <1>t, <2>2, SMT
    <3>3. disk'[link[p]] = Empty /\ \A n \in 1..Len(disk) : n # link[p] => disk'[n] = disk[n]
      BY <1>t, <1>u, <3>1, <3>2, InodeWritten, SMT
    <3> QED
      BY <1>t, <2>2, <3>1, <3>2, <3>3, SMT
  <2> QED
    BY <2>1, <2>2
<1>4. CASE CreateIndex(w)
  <2>1. CASE Truncate(w, "index") /\ WGoto(w, "createdata")
    <3>1. Stage(w) => Stage(w)'
      BY <1>t, <1>w, <1>z, <2>1, SMT DEF Stage
    <3> QED
      BY <1>4, <1>y, <2>1, <3>1 DEF CreateIndex, CreateLabels
  <2>2. CASE Fail(w, "err")
    BY <1>4, <1>a, <2>2 DEF CreateIndex, Fail, CreateLabels
  <2> QED
    BY <1>4, <2>1, <2>2 DEF CreateIndex
<1>5. CASE CreateData(w)
  <2>1. CASE Truncate(w, "data") /\ WGoto(w, "write")
    <3>1. wpc[w] = "createdata"
      BY <1>5 DEF CreateData
    <3>2. Stage(w) => Stage(w)'
      BY <1>t, <1>w, <1>z, <2>1, <3>1, SMT DEF Stage
    <3> QED
      BY <1>y, <2>1, <3>1, <3>2 DEF CreateLabels
  <2>2. CASE Fail(w, "createundo")
    BY <1>5, <1>a, <2>2 DEF CreateData, Fail, CreateLabels
  <2> QED
    BY <1>5, <2>1, <2>2 DEF CreateData
<1>e. ASSUME NEW p \in {"index", "data"}, NEW old \in Contents, NEW new \in Contents,
             NEW l \in CreateLabels, WriteTo(w, p, old, new), WGoto(w, l), wpc[w] \in CreateLabels,
             Stage(w) => Stage(w)'
      PROVE  IInv'
  <2> DEFINE k == fd[w][p]
             c == IF disk[k] = old THEN new ELSE Mixed
  <2>1. Become([disk EXCEPT ![k] = c], opened) /\ UNCHANGED <<link, fd>>
    BY <1>e DEF WriteTo
  <2>2. k \in Nat /\ c \in Contents
    BY <1>t, <1>u
  <2> HIDE DEF k, c
  <2> QED
    BY <1>d, <1>e, <2>1, <2>2
<1>f. ASSUME NEW p \in {"index", "data"}, NEW old \in Contents, NEW new \in Contents,
             WriteTo(w, p, old, new), fd[w][p] = link[p], link[p] # 0, disk[link[p]] = old
      PROVE  /\ disk'[link[p]] = new /\ UNCHANGED <<link, fd>>
             /\ \A n \in 1..Len(disk) : n # link[p] => disk'[n] = disk[n]
  <2>1. disk' = [disk EXCEPT ![link[p]] = new] /\ UNCHANGED <<link, fd>>
    BY <1>f DEF WriteTo, Become
  <2>2. link[p] \in Nat /\ link[p] \in 1..Len(disk)
    BY <1>f, <1>t, SMT
  <2> QED
    BY <1>t, <2>1, <2>2, InodeWritten, SMT
<1>6. CASE WriteData(w)
  <2>1. CASE WriteTo(w, "data", Empty, <<w, "part">>) /\ WGoto(w, "writerest")
    <3>1. wpc[w] = "write"
      BY <1>6 DEF WriteData
    <3>2. ASSUME Stage(w) PROVE Stage(w)'
      <4>1. /\ link.index \in 1..Len(disk) /\ link.data \in 1..Len(disk) /\ link.index # link.data
            /\ fd[w].index = link.index /\ fd[w].data = link.data
            /\ disk[link.index] = Empty /\ disk[link.data] = Empty
        BY <1>t, <3>1, <3>2, SMT DEF Stage
      <4>2. /\ disk'[link.data] = <<w, "part">> /\ UNCHANGED <<link, fd>>
            /\ \A n \in 1..Len(disk) : n # link.data => disk'[n] = disk[n]
        BY <1>f, <1>u, <2>1, <4>1, SMT
      <4>3. disk'[link.index] = disk[link.index]
        BY <4>1, <4>2
      <4> QED
        BY <1>w, <2>1, <4>1, <4>2, <4>3, SMT DEF Stage
    <3> QED
      BY <1>e, <1>u, <2>1, <3>1, <3>2 DEF CreateLabels
  <2>2. CASE Fail(w, "undo")
    BY <1>6, <1>a, <2>2 DEF WriteData, Fail, CreateLabels
  <2> QED
    BY <1>6, <2>1, <2>2 DEF WriteData
<1>7. CASE WriteRest(w)
  <2>1. CASE WriteTo(w, "data", <<w, "part">>, Whole(w)) /\ WGoto(w, "writeindex")
    <3>1. wpc[w] = "writerest"
      BY <1>7 DEF WriteRest
    <3>2. ASSUME Stage(w) PROVE Stage(w)'
      <4>1. /\ link.index \in 1..Len(disk) /\ link.data \in 1..Len(disk) /\ link.index # link.data
            /\ fd[w].index = link.index /\ fd[w].data = link.data
            /\ disk[link.index] = Empty /\ disk[link.data] = <<w, "part">>
        BY <1>t, <3>1, <3>2, SMT DEF Stage
      <4>2. /\ disk'[link.data] = Whole(w) /\ UNCHANGED <<link, fd>>
            /\ \A n \in 1..Len(disk) : n # link.data => disk'[n] = disk[n]
        BY <1>f, <1>u, <2>1, <4>1, SMT
      <4>3. disk'[link.index] = disk[link.index]
        BY <4>1, <4>2
      <4> QED
        BY <1>w, <2>1, <4>1, <4>2, <4>3, SMT DEF Stage
    <3> QED
      BY <1>e, <1>u, <2>1, <3>1, <3>2 DEF CreateLabels
  <2>2. CASE Fail(w, "undo")
    BY <1>7, <1>a, <2>2 DEF WriteRest, Fail, CreateLabels
  <2> QED
    BY <1>7, <2>1, <2>2 DEF WriteRest
<1>8. CASE WriteIndex(w)
  <2>1. CASE WriteTo(w, "index", Empty, Whole(w)) /\ WGoto(w, "close")
    <3>1. wpc[w] = "writeindex"
      BY <1>8 DEF WriteIndex
    <3>2. ASSUME Stage(w) PROVE Stage(w)'
      <4>1. /\ link.index \in 1..Len(disk) /\ link.data \in 1..Len(disk) /\ link.index # link.data
            /\ fd[w].index = link.index /\ fd[w].data = link.data
            /\ disk[link.index] = Empty /\ disk[link.data] = Whole(w)
        BY <1>t, <3>1, <3>2, SMT DEF Stage
      <4>2. /\ disk'[link.index] = Whole(w) /\ UNCHANGED <<link, fd>>
            /\ \A n \in 1..Len(disk) : n # link.index => disk'[n] = disk[n]
        BY <1>f, <1>u, <2>1, <4>1, SMT
      <4>3. disk'[link.data] = disk[link.data]
        BY <4>1, <4>2
      <4> QED
        BY <1>w, <2>1, <4>1, <4>2, <4>3, SMT DEF Stage
    <3> QED
      BY <1>e, <1>u, <2>1, <3>1, <3>2 DEF CreateLabels
  <2>2. CASE Fail(w, "undo")
    BY <1>8, <1>a, <2>2 DEF WriteIndex, Fail, CreateLabels
  <2> QED
    BY <1>8, <2>1, <2>2 DEF WriteIndex
<1>9. CASE CloseFiles(w)
  <2>1. CASE WGoto(w, "nil") /\ Become(disk, opened) /\ UNCHANGED <<link, fd>>
    BY <1>9, <1>a, <2>1 DEF CloseFiles, CreateLabels
  <2>2. CASE Fail(w, "undo")
    BY <1>9, <1>a, <2>2 DEF CloseFiles, Fail, CreateLabels
  <2> QED
    BY <1>9, <2>1, <2>2 DEF CloseFiles
<1> QED
  BY <1>1, <1>2, <1>3, <1>4, <1>5, <1>6, <1>7, <1>8, <1>9 DEF Writer

\* The two steps of OpenFile: Blob b has its index, its data, or nothing.
LEMMA OpenKeeps == ASSUME IInv, NEW b \in Blobs, OpenIndex(b) \/ OpenData(b) PROVE IInv'
<1>t. /\ ReadersInv /\ SourcesOK
      /\ disk \in Seq(Contents) /\ Len(disk) \in Nat
      /\ link \in [{"index", "data"} -> 0..Len(disk)]
      /\ opened \in [Blobs -> [of : Versions, inode : 0..Len(disk), found : Contents]]
  BY SMT DEF IInv, FilesInv, FilesType
<1>1. PICK x \in [of : Versions, inode : 0..Len(disk), found : Contents] :
        /\ Become(disk, [opened EXCEPT ![b] = x]) /\ UNCHANGED <<link, wpc, fd>>
        /\ conf.local /\ opened[b].inode = 0
        /\ x.inode # 0 => x.found = disk[x.inode]
  <2>1. CASE OpenIndex(b)
    <3> DEFINE v == disk[link.index][1]
    <3>1. v \in Versions /\ conf.local /\ opened[b] = NoFile
      BY <1>t, <2>1, SMT DEF OpenIndex, Contents
    <3> HIDE DEF v
    <3>2. [opened[b] EXCEPT !.of = v] \in [of : Versions, inode : 0..Len(disk), found : Contents]
      BY <1>t, <3>1
    <3>3. [opened[b] EXCEPT !.of = v].inode = 0 /\ opened[b].inode = 0
      BY <3>1, SMT DEF NoFile
    <3>4. Become(disk, [opened EXCEPT ![b] = [opened[b] EXCEPT !.of = v]]) /\ UNCHANGED <<link, wpc, fd>>
      BY <2>1 DEF OpenIndex, v
    <3> QED
      BY <3>1, <3>2, <3>3, <3>4
  <2>2. CASE OpenData(b)
    <3> DEFINE x == IF link.data = 0 THEN NoFile
                    ELSE [opened[b] EXCEPT !.inode = link.data, !.found = disk[link.data]]
    <3>1. opened[b] # NoFile /\ opened[b].inode = 0 /\ conf.local
      BY <1>t, <2>2 DEF OpenData, SourcesOK
    <3>2. Become(disk, [opened EXCEPT ![b] = x]) /\ UNCHANGED <<link, wpc, fd>>
      BY <2>2 DEF OpenData
    <3>3. NoFile \in [of : Versions, inode : 0..Len(disk), found : Contents]
      BY <1>t, SMT DEF NoFile, Empty, Versions, Contents
    <3>4. link.data # 0 => link.data \in 0..Len(disk) /\ disk[link.data] \in Contents
      BY <1>t, SMT
    <3>5. x \in [of : Versions, inode : 0..Len(disk), found : Contents]
      BY <1>t, <3>3, <3>4
    <3>6. x.inode # 0 => x.found = disk[x.inode]
      BY <1>t, <3>4 DEF NoFile
    <3> QED
      BY <3>1, <3>2, <3>5, <3>6
  <2> QED
    BY <2>1, <2>2
<1>2. /\ disk' = disk /\ conf' = conf /\ opened' = [opened EXCEPT ![b] = x]
      /\ source' = [c \in Blobs |-> source'[c]]
      /\ \A c \in Blobs :
           source'[c] = IF opened'[c].inode = 0 THEN source[c]
                        ELSE [f \in Files |-> Finds(opened'[c].of, disk[opened'[c].inode])]
  BY <1>1, SMT DEF Become
<1>3. opened'[b] = x /\ \A c \in Blobs : c # b => opened'[c] = opened[c]
  BY <1>t, <1>2
<1>4. ReadersInv'
  <2>1. \A c \in Blobs : IsOpen(c) => IsOpen(c)' /\ source'[c] = source[c]
    <3> SUFFICES ASSUME NEW c \in Blobs, IsOpen(c) PROVE IsOpen(c)' /\ source'[c] = source[c]
      OBVIOUS
    <3>1. c # b /\ opened'[c] = opened[c] /\ opened[c].inode # 0
      BY <1>1, <1>3 DEF IsOpen
    <3>2. source[c] = [f \in Files |-> Finds(opened[c].of, disk[opened[c].inode])]
      BY <1>t, <3>1 DEF SourcesOK
    <3>3. source'[c] = [f \in Files |-> Finds(opened[c].of, disk[opened[c].inode])]
      BY <1>2, <3>1, SMT
    <3> QED
      BY <3>1, <3>2, <3>3 DEF IsOpen
  <2> QED
    BY <1>1, <1>t, <2>1, BecomeKeeps
<1>5. FilesType'
  BY <1>1, <1>2 DEF IInv, FilesInv, FilesType
<1>6. SourcesOK'
  <2>1. \A c \in Blobs : opened'[c].inode = 0 => opened[c].inode = 0
    BY <1>1, <1>3
  <2> QED
    BY <1>1, <1>2, <1>t, <2>1, SMT DEF SourcesOK
<1>7. SavedOK'
  BY <1>1, <1>2, <1>3, SMT DEF IInv, FilesInv, SavedOK
<1>8. JobsOK' /\ StagesOK'
  BY <1>1, <1>2, SMT DEF IInv, FilesInv, JobsOK, StagesOK, Stage, Paired
<1> QED
  BY <1>4, <1>5, <1>6, <1>7, <1>8 DEF IInv, FilesInv

\* No Blob is open, nobody has begun, and the files are of one archive or absent.
LEMMA InitIInv == LocalInit => IInv
<1> SUFFICES ASSUME LocalInit PROVE IInv
  OBVIOUS
<1>1. /\ conf \in Configs /\ conf.blobOf \in [Readers -> Blobs]
      /\ conf.source \in [Blobs -> {None} \cup [Files -> {"good", "bad", "short"}]]
      /\ conf.jobs \in [Writers -> {"none", "save", "create"}]
      /\ conf.local => \A b \in Blobs : conf.source[b] = None
  BY LocalAssumption DEF LocalInit, Init
<1>2. ReadersType
  BY <1>1 DEF LocalInit, Init, ReadersType, Labels
<1>3. ReadersOK /\ SteadyOK /\ ReadVerified /\ CacheClean /\ NoSpuriousError
  BY DEF LocalInit, Init, ReadersOK, SteadyOK, ReadVerified, CacheClean, NoSpuriousError, At
<1>4. FilesType
  <2>1. disk \in Seq(Contents) /\ link \in [{"index", "data"} -> 0..Len(disk)]
    <3>1. CASE conf.existing
      BY <3>1, SMT DEF LocalInit, Whole, Contents, Versions
    <3>2. CASE ~conf.existing
      BY <3>2, SMT DEF LocalInit, NoFiles
    <3> QED
      BY <3>1, <3>2
  <2>2. fd \in [Writers -> [{"index", "data"} -> Nat]]
    BY SMT DEF LocalInit, NoFiles
  <2>3. wpc \in [Writers -> WriterLabels]
    BY <1>1 DEF LocalInit, WriterLabels, CreateLabels
  <2>4. NoFile \in [of : Versions, inode : 0..Len(disk), found : Contents]
    BY <2>1, SMT DEF NoFile, Empty, Versions, Contents
  <2>5. opened \in [Blobs -> [of : Versions, inode : 0..Len(disk), found : Contents]]
    BY <2>4 DEF LocalInit
  <2> QED
    BY <2>1, <2>2, <2>3, <2>5 DEF FilesType
<1>5. \A b \in Blobs : opened[b] = NoFile /\ opened[b].inode = 0
  BY DEF LocalInit, NoFile
<1>6. SourcesOK
  BY <1>1, <1>5 DEF LocalInit, Init, SourcesOK
<1>7. JobsOK
  BY <1>1 DEF LocalInit, JobsOK, CreateLabels
<1>8. SavedOK
  BY <1>5, SMT DEF LocalInit, SavedOK, Whole, NoFiles
<1>9. StagesOK
  <2>1. link.index # 0 => link.index # link.data
    BY SMT DEF LocalInit, NoFiles
  <2>2. link.index = 0 \/ Paired
    BY SMT DEF LocalInit, NoFiles, Paired
  <2> QED
    BY <1>1, <2>1, <2>2 DEF LocalInit, StagesOK, Stage
<1> QED
  BY <1>2, <1>3, <1>4, <1>6, <1>7, <1>8, <1>9 DEF IInv, ReadersInv, FilesInv

\* Every step of readers, writers and Blobs keeps the invariant.
LEMMA NextIInv == IInv /\ [LocalNext]_<<vars, local>> => IInv'
<1> SUFFICES ASSUME IInv, [LocalNext]_<<vars, local>> PROVE IInv'
  OBVIOUS
<1>a. ASSUME UNCHANGED <<source, conf, local>> PROVE FilesInv'
  BY <1>a, SMT DEF IInv, FilesInv, FilesType, SourcesOK, JobsOK, SavedOK, StagesOK, Stage, Paired, local
<1>b. UNCHANGED <<source, conf, local>> => UNCHANGED <<source, conf, opened>>
  BY DEF local
<1>1. ASSUME NEW r \in Readers, Reads(r) PROVE IInv'
  <2>1. UNCHANGED <<source, conf, opened>> /\ FilesInv'
    BY <1>1, <1>a, <1>b DEF Reads
  <2>2. CASE Step(r)
    BY <2>1, <2>2, StepKeeps DEF IInv
  <2>3. CASE Read(r) \/ ReadFails(r) \/ Close(r)
    BY <2>1, <2>3, HandleKeeps DEF IInv
  <2>4. ASSUME NEW f \in Files, ReadFile(r, f) \/ Open(r, f), source[BlobOf(r)] # None
        PROVE  IInv'
    <3>1. BlobOf(r) \in Blobs
      BY LocalAssumption DEF BlobOf, IInv, ReadersInv, ReadersType
    <3>2. IsOpen(BlobOf(r))
      BY <2>4, <3>1 DEF IsOpen, IInv, FilesInv, SourcesOK
    <3> QED
      BY <2>1, <2>4, <3>2, BeginKeeps DEF IInv
  <2> QED
    BY <1>1, <2>2, <2>3, <2>4 DEF Reads, Call
<1>2. ASSUME NEW f \in Files, Damage(f), UNCHANGED <<source, conf, local>> PROVE IInv'
  BY <1>2, <1>a, <1>b, DamageKeeps DEF IInv
<1>3. ASSUME NEW w \in Writers, Writer(w) PROVE IInv'
  BY <1>3, WriterStepKeeps
<1>4. ASSUME NEW b \in Blobs, OpenIndex(b) \/ OpenData(b) PROVE IInv'
  BY <1>4, OpenKeeps
<1>5. CASE UNCHANGED <<vars, local>>
  <2>1. UNCHANGED <<source, cache, pc, file, from, what, pos, verified, res, conf, opened>>
        /\ UNCHANGED <<source, conf, local>>
    BY <1>5 DEF vars, handle, local
  <2>2. ReadersType' /\ ReadersOK' /\ SteadyOK'
    BY <2>1
    DEF IInv, ReadersInv, ReadersType, ReadersOK, SteadyOK, Steady, PutErrors, Source, BlobOf, IsOpen
  <2>3. ReadVerified' /\ CacheClean' /\ NoSpuriousError'
    BY <2>1
    DEF IInv, ReadersInv, ReadVerified, CacheClean, NoSpuriousError, PutErrors, Source, BlobOf, At,
        VerifyOnClose
  <2> QED
    BY <1>a, <2>1, <2>2, <2>3 DEF IInv, ReadersInv
<1> QED
  BY <1>1, <1>2, <1>3, <1>4, <1>5 DEF LocalNext

\* The inductive invariant holds of the composition.
LEMMA Invariance == LocalSpec => []IInv
<1>1. LocalSpec => LocalInit /\ [][LocalNext]_<<vars, local>>
  BY PTL DEF LocalSpec
<1> QED
  BY <1>1, InitIInv, NextIInv, PTL

\* For any number of goroutines, Blobs and files, whatever the data blobs hold
\* and become, however cached files are damaged and evicted: ReadFile returns a
\* nil error only with the file, and whoever reads to EOF without an error, or
\* closes without one where Close verifies, has read the file.
THEOREM ReadVerifiedHolds == LocalSpec => []ReadVerified
<1>1. IInv => ReadVerified
  BY DEF IInv, ReadersInv
<1> QED
  BY <1>1, Invariance, PTL

\* For any number of Blobs that share a cache: only verified content enters it,
\* by ReadFile's Put as by the streaming Put of Open.
THEOREM CacheCleanHolds == LocalSpec => []CacheClean
<1>1. IInv => CacheClean
  BY DEF IInv, ReadersInv
<1> QED
  BY <1>1, Invariance, PTL

\* For any number of goroutines that share singleflight calls: a call that fails
\* does so because the data of its Blob is not good, provided that the data
\* stays as it is, which Save to the paths of open Blobs does not disturb.
THEOREM NoSpuriousErrorHolds == LocalSpec => []NoSpuriousError
<1>1. IInv => NoSpuriousError
  BY DEF IInv, ReadersInv
<1> QED
  BY <1>1, Invariance, PTL

\* For any number of concurrent calls of Save: the files at the paths are whole
\* and the data of an open Blob does not change; and a lone Save or CreateBlob,
\* failing at any step, leaves no index beside the data of another archive.
THEOREM FilesPairedHolds == LocalSpec => []FilesPaired
<1>1. IInv => FilesPaired
  BY DEF IInv, FilesInv, SavedOK, StagesOK, Stage, FilesPaired
<1> QED
  BY <1>1, Invariance, PTL
=============================================================================
