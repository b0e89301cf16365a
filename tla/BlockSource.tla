----------------------------- MODULE BlockSource -----------------------------
(***************************************************************************)
(* Random access to a data blob over HTTP, through the block cache.        *)
(* NewSource learns size and ETag from a HEAD and a range request; ReadAt  *)
(* of the wrapped source splits a read into blocks, and getBlock takes     *)
(* each from the cache directory or fetches it, once for all concurrent    *)
(* callers (singleflight), falling back to a request without conditions    *)
(* when the server answers 412.  The resource may be replaced at any time. *)
(*                                                                         *)
(* A byte is its position and the version of the resource it came from; a  *)
(* response or a block is a version, a first position and a length.  Of    *)
(* the size limit of the cache only the effect is kept: a block may be     *)
(* evicted or not be stored.                                               *)
(***************************************************************************)
EXTENDS Integers, Sequences, FiniteSetsExt

CONSTANTS
    Readers,      \* goroutines that read
    VersionSize,  \* VersionSize[v]: size of version v of the resource
    BlockSize,    \* WithBlockSize
    MaxBlocks,    \* WithMaxBlocksPerRead
    Configs,      \* readers, reads, server and options, see below
    None

Versions == DOMAIN VersionSize

ASSUME BlockSourceAssumption ==
    /\ BlockSize \in Nat \ {0}
    /\ MaxBlocks \in Nat
    /\ VersionSize \in Seq(Nat \ {0}) /\ VersionSize # <<>>
    /\ None \notin Versions
    /\ \A c \in Configs :
         /\ c.offsets \subseteq Int
         /\ c.lengths \subseteq Nat
         /\ c.versions \in Versions

VARIABLES
    remote,  \* the version of the resource now
    blocks,  \* blocks[k]: the file with key k
    pc,      \* pc[r]: what reader r does next
    src,     \* src[r]: ETag and size that the source of r has found
    off,     \* off[r], len[r]: arguments of ReadAt
    len,
    blk,     \* blk[r]: the block that the loop is at
    data,    \* data[r]: the block that r fetched
    out,     \* out[r]: the bytes copied to p
    res,     \* res[r]: "nil", "eof" or "err"
    conf     \* the configuration, which never changes

reads == <<pc, src, off, len, blk, data, out, res>>
vars == <<remote, blocks, reads, conf>>

CacheOf(r) == conf.cacheOf[r]
ETags == conf.etags              \* the server sends ETags
Conditional == conf.conditional  \* WithConditionalHeaders

\* defaultSourceID
NoETag(etag, size) == <<"size", size>>  \* mutant: validators are ignored
SourceID(etag, size) == IF ETags THEN <<"etag", etag>> ELSE <<"size", size>>

Sizes == {VersionSize[v] : v \in Versions}
BlocksOf(v) == 0 .. (VersionSize[v] - 1) \div BlockSize
SourceIDs == ({"etag"} \X Versions) \cup ({"size"} \X Sizes)

\* blockKeyHex; the block size is the same throughout.
Keys == SourceIDs \X UNION {BlocksOf(v) : v \in Versions}

Closed == [etag |-> None, size |-> 0]

Init ==
    /\ conf \in Configs
    /\ remote = 1
    /\ blocks = [k \in Keys |-> None]
    /\ pc = [r \in Readers |-> "closed"]
    /\ src = [r \in Readers |-> Closed]
    /\ off = [r \in Readers |-> 0]
    /\ len = [r \in Readers |-> 0]
    /\ blk = [r \in Readers |-> 0]
    /\ data = [r \in Readers |-> None]
    /\ out = [r \in Readers |-> <<>>]
    /\ res = [r \in Readers |-> "nil"]

At(r, label) == pc[r] = label
Goto(r, label) == pc' = [pc EXCEPT ![r] = label]

-----------------------------------------------------------------------------
(* NewSource *)

\* doHead learns s.  It may fail, and the status of the answer is not looked
\* at, so that s may be the length of an error page.
HeadAnswers(r, s) ==
    /\ At(r, "closed")
    /\ src' = [src EXCEPT ![r] = s]
    /\ Goto(r, "probe")
    /\ UNCHANGED <<remote, blocks, off, len, blk, data, out, res>>

Current == [etag |-> remote, size |-> VersionSize[remote]]
NoHead == {Closed, [etag |-> None, size |-> Max(Sizes) + 1]}

DoHead(r) == \E s \in {Current} \cup NoHead : HeadAnswers(r, s)

\* rangeProbe: the sizes must agree, and an ETag from HEAD is kept.
RangeProbe(r) ==
    /\ At(r, "probe")
    /\ IF src[r].size > 0 /\ src[r].size # VersionSize[remote]
       THEN src' = [src EXCEPT ![r] = Closed] /\ Goto(r, "closed")
       ELSE /\ src' = [src EXCEPT ![r] =
                 [etag |-> IF @.etag = None THEN remote ELSE @.etag,
                  size |-> VersionSize[remote]]]
            /\ Goto(r, "idle")
    /\ UNCHANGED <<remote, blocks, off, len, blk, data, out, res>>

-----------------------------------------------------------------------------
(* cachedSource.ReadAt *)

ExpectedOf(r, o, n) == Min({n, src[r].size - o})
EndBlockOf(r, o, n) == (o + ExpectedOf(r, o, n) - 1) \div BlockSize
Expected(r) == ExpectedOf(r, off[r], len[r])
EndBlock(r) == EndBlockOf(r, off[r], len[r])
BlockStart(r) == blk[r] * BlockSize
BlockEnd(r) == Min({BlockStart(r) + BlockSize, src[r].size})
BlockLen(r) == BlockEnd(r) - BlockStart(r)
KeyOf(r) == <<SourceID(src[r].etag, src[r].size), blk[r]>>

Finish(r, e) == res' = [res EXCEPT ![r] = e] /\ Goto(r, "done")

ReadAt(r, o, n) ==
    /\ At(r, "idle")
    /\ off' = [off EXCEPT ![r] = o]
    /\ len' = [len EXCEPT ![r] = n]
    /\ blk' = [blk EXCEPT ![r] = IF o < 0 THEN 0 ELSE o \div BlockSize]
    /\ IF n = 0 THEN Finish(r, "nil")
       ELSE IF o < 0 THEN Finish(r, "err")
       ELSE IF o >= src[r].size THEN Finish(r, "eof")
       ELSE /\ Goto(r, IF MaxBlocks > 0 /\ EndBlockOf(r, o, n) - o \div BlockSize >= MaxBlocks
                       THEN "direct" ELSE "block")
            /\ UNCHANGED res
    /\ UNCHANGED <<remote, blocks, src, data, out>>

\* cachedSource.ReadRange clamps the length, and its reader ends with ReadAt's EOF.
ReadRange(r, o, n) ==
    /\ 0 <= o /\ o < src[r].size
    /\ ReadAt(r, o, Min({n, src[r].size - o}))

FromStart(r) == 0  \* mutant: the block is copied from its start
SrcOffset(r) == Max({off[r], BlockStart(r)}) - BlockStart(r)

\* The bytes of block d that belong to the read of r.
Copied(r, d) ==
    LET length == Min({off[r] + Expected(r), BlockEnd(r)}) - Max({off[r], BlockStart(r)})
    IN  [i \in 1..length |-> [pos |-> d.from + SrcOffset(r) + i - 1, ver |-> d.ver]]

EOFOrNil(r) == IF Expected(r) < len[r] THEN "eof" ELSE "nil"

\* getBlock returns d to the readers in S, whose loops go on.
Deliver(S, d) ==
    /\ out' = [r \in Readers |-> IF r \in S THEN out[r] \o Copied(r, d) ELSE out[r]]
    /\ blk' = [r \in Readers |-> IF r \in S /\ blk[r] < EndBlock(r) THEN blk[r] + 1 ELSE blk[r]]
    /\ pc' = [r \in Readers |-> IF r \notin S THEN pc[r]
                                ELSE IF blk[r] < EndBlock(r) THEN "block" ELSE "done"]
    /\ res' = [r \in Readers |-> IF r \in S /\ blk[r] = EndBlock(r) THEN EOFOrNil(r) ELSE res[r]]

\* getBlock returns error e to the readers in S.
DeliverError(S, e) ==
    /\ res' = [r \in Readers |-> IF r \in S THEN e ELSE res[r]]
    /\ pc' = [r \in Readers |-> IF r \in S THEN "done" ELSE pc[r]]
    /\ UNCHANGED <<out, blk>>

-----------------------------------------------------------------------------
(* getBlock *)

SameCall(r, q) == CacheOf(r) = CacheOf(q) /\ KeyOf(r) = KeyOf(q)

\* Another reader obtains the block for this cache object.
InFlight(r) ==
    \E q \in Readers :
        /\ pc[q] \in {"lookup", "drop", "fetch", "fetchagain", "store", "rename"}
        /\ SameCall(r, q)

\* fetchGroup.Do: become the one that obtains the block, or wait for it.
Do(r) ==
    /\ At(r, "block")
    /\ Goto(r, IF InFlight(r) THEN "wait" ELSE "lookup")
    /\ UNCHANGED <<remote, blocks, src, off, len, blk, data, out, res>>

\* The readers that the call of r answers.
Served(r) ==
    {r} \cup {q \in Readers : At(q, "wait") /\ SameCall(r, q)}

\* os.ReadFile and the check of the length
Lookup(r) ==
    /\ At(r, "lookup")
    /\ LET d == blocks[KeyOf(r)] IN
       IF d # None /\ d.length = BlockLen(r) THEN Deliver(Served(r), d)
       ELSE /\ Goto(r, IF d = None THEN "fetch" ELSE "drop")
            /\ UNCHANGED <<out, blk, res>>
    /\ UNCHANGED <<remote, blocks, src, off, len, data>>

\* os.Remove, whatever is there now
Drop(r) ==
    /\ At(r, "drop")
    /\ blocks' = [blocks EXCEPT ![KeyOf(r)] = None]
    /\ Goto(r, "fetch")
    /\ UNCHANGED <<remote, src, off, len, blk, data, out, res>>

\* The range that r requests
From(r) == IF pc[r] \in {"direct", "directagain"} THEN off[r] ELSE BlockStart(r)
Length(r) == IF pc[r] \in {"direct", "directagain"} THEN Expected(r) ELSE BlockLen(r)

\* The condition of the first request fails: 412.
Unmet(r) == Conditional /\ ETags /\ pc[r] \in {"direct", "fetch"} /\ remote # src[r].etag

SameAgain(r) == Goto(r, pc[r])  \* mutant: the same request is sent again
\* The second request carries no conditions.
Unconditionally(r) == Goto(r, IF At(r, "direct") THEN "directagain" ELSE "fetchagain")

PreconditionFailed(r) ==
    /\ Unmet(r)
    /\ Unconditionally(r)
    /\ UNCHANGED <<remote, blocks, src, off, len, blk, data, out, res>>

\* 206 or 416 for a block: the range is checked to be complete, then stored.
FetchResponds(r) ==
    /\ pc[r] \in {"fetch", "fetchagain"} /\ ~Unmet(r)
    /\ IF From(r) >= VersionSize[remote]
       THEN DeliverError(Served(r), "eof") /\ UNCHANGED data
       ELSE IF From(r) + Length(r) > VersionSize[remote]
       THEN DeliverError(Served(r), "err") /\ UNCHANGED data
       ELSE /\ data' = [data EXCEPT ![r] =
                          [ver |-> remote, from |-> From(r), length |-> Length(r)]]
            /\ Goto(r, "store")
            /\ UNCHANGED <<out, blk, res>>
    /\ UNCHANGED <<remote, blocks, src, off, len>>

\* writeBlock: nothing is done if the file exists or the cache is full.
Store(r) ==
    /\ At(r, "store")
    /\ \/ blocks[KeyOf(r)] = None /\ Goto(r, "rename") /\ UNCHANGED <<out, blk, res, data>>
       \/ /\ Deliver(Served(r), data[r])
          /\ data' = [data EXCEPT ![r] = None]
    /\ UNCHANGED <<remote, blocks, src, off, len>>

\* Write a temporary file and rename it, perhaps over another cache's block.
Rename(r) ==
    /\ At(r, "rename")
    /\ blocks' = [blocks EXCEPT ![KeyOf(r)] = data[r]]
    /\ Deliver(Served(r), data[r])
    /\ data' = [data EXCEPT ![r] = None]
    /\ UNCHANGED <<remote, src, off, len>>

\* Source.ReadAt, for a read of more than MaxBlocks blocks
DirectResponds(r) ==
    /\ pc[r] \in {"direct", "directagain"} /\ ~Unmet(r)
    /\ IF From(r) >= VersionSize[remote] THEN Finish(r, "eof") /\ UNCHANGED out
       ELSE LET length == Min({Length(r), VersionSize[remote] - From(r)})
            IN  /\ out' = [out EXCEPT ![r] =
                              [i \in 1..length |-> [pos |-> From(r) + i - 1, ver |-> remote]]]
                /\ Finish(r, IF length < Length(r) THEN "err" ELSE EOFOrNil(r))
    /\ UNCHANGED <<remote, blocks, src, off, len, blk, data>>

\* The caller has the result; it reads again or opens a new source.
Return(r) ==
    /\ At(r, "done")
    /\ \/ Goto(r, "idle") /\ UNCHANGED src
       \/ Goto(r, "closed") /\ src' = [src EXCEPT ![r] = Closed]
    /\ off' = [off EXCEPT ![r] = 0]
    /\ len' = [len EXCEPT ![r] = 0]
    /\ blk' = [blk EXCEPT ![r] = 0]
    /\ out' = [out EXCEPT ![r] = <<>>]
    /\ res' = [res EXCEPT ![r] = "nil"]
    /\ UNCHANGED <<remote, blocks, data>>

-----------------------------------------------------------------------------
(* The world around the readers *)

\* A request fails, or the server does not support ranges.
RequestFails(r) ==
    /\ \/ /\ At(r, "probe")
          /\ src' = [src EXCEPT ![r] = Closed] /\ Goto(r, "closed") /\ UNCHANGED <<out, blk, res>>
       \/ /\ pc[r] \in {"direct", "directagain"}
          /\ Finish(r, "err") /\ UNCHANGED <<src, out, blk>>
       \/ /\ pc[r] \in {"fetch", "fetchagain"}
          /\ DeliverError(Served(r), "err") /\ UNCHANGED src
    /\ UNCHANGED <<remote, blocks, off, len, data>>

Replace ==
    /\ remote < conf.versions
    /\ remote' = remote + 1
    /\ UNCHANGED <<blocks, reads>>

\* A block is evicted or truncated on disk.
Damage(k) ==
    /\ conf.damage /\ blocks[k] # None
    /\ \E d \in {None, [blocks[k] EXCEPT !.length = 0]} : blocks' = [blocks EXCEPT ![k] = d]
    /\ UNCHANGED <<remote, reads>>

Step(r) ==
    \/ RangeProbe(r) \/ Do(r) \/ Lookup(r) \/ Drop(r) \/ PreconditionFailed(r)
    \/ FetchResponds(r) \/ Store(r) \/ Rename(r) \/ DirectResponds(r) \/ Return(r)

Call(r) ==
    \/ r \in conf.readers /\ DoHead(r)
    \/ \E o \in conf.offsets, n \in conf.lengths : ReadAt(r, o, n) \/ ReadRange(r, o, n)

Next ==
    /\ \/ \E r \in Readers : Call(r) \/ Step(r) \/ RequestFails(r)
       \/ Replace
       \/ \E k \in Keys : Damage(k)
    /\ UNCHANGED conf

Spec == Init /\ [][Next]_vars

-----------------------------------------------------------------------------
(* Properties *)

\* ReadAt of the wrapped source returns nil only with all bytes of p, and EOF
\* only with all bytes up to the end, each from its place, across block
\* boundaries, cached and fetched blocks and the bypass.  The one exception is
\* a resource that had become shorter.
ReadExact ==
    \A r \in Readers : At(r, "done") /\ res[r] # "err" =>
        LET n == IF len[r] = 0 \/ off[r] >= src[r].size THEN 0 ELSE Expected(r)
        IN  /\ \A i \in DOMAIN out[r] : out[r][i].pos = off[r] + i - 1
            /\ \/ Len(out[r]) = n /\ res[r] = (IF n < len[r] THEN "eof" ELSE "nil")
               \/ res[r] = "eof" /\ \E v \in 1..remote : VersionSize[v] < src[r].size

\* The cache outlives sources and the resource is replaced, but where the server
\* sends ETags a source never yields bytes older than the version that it found
\* when it was opened: blocks are cached under the ETag.
NoOlderBytes ==
    ETags => \A r \in Readers : \A i \in DOMAIN out[r] : out[r][i].ver >= src[r].etag

\* Every read returns: the one that obtains a block answers all that wait for it.
ReadReturns == \A r \in Readers : pc[r] \notin {"closed", "idle"} ~> pc[r] \in {"closed", "idle"}
=============================================================================
