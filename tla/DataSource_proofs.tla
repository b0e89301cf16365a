------------------------- MODULE DataSource_proofs -------------------------
(***************************************************************************)
(* What the run of MC_DataSource checks of reads through the block cache,  *)
(* for any number of readers and caches, for resources, blocks and reads   *)
(* of any size, and however often the resource is replaced; freshness and  *)
(* invalidation of authentication headers for any number of clients, hosts *)
(* and addresses, any TTL and any size of the cache; and that the sources  *)
(* of Pull are block sources that use the header cache, so that they have  *)
(* the properties of both.                                                 *)
(***************************************************************************)
EXTENDS DataSource, SequenceTheorems, TLAPS

\* Zenon proves the leaves that say nothing else; those with arithmetic cite SMT.
USE Zenon

-----------------------------------------------------------------------------
(* BlockSource *)

Block == [ver : Versions, from : Nat, length : Nat]
Byte == [pos : Int, ver : Versions]

Direct == {"direct", "directagain"}
Flight == {"lookup", "drop", "fetch", "fetchagain", "store", "rename"}
InBlocks == {"block", "wait"} \cup Flight
ReadLabels == {"closed", "probe", "idle", "done"} \cup Direct \cup InBlocks

\* A block has its place, and is not older than the ETag it is cached under.
BlockOK(k) ==
    blocks[k] # None =>
        /\ blocks[k] \in Block
        /\ blocks[k].from = k[2] * BlockSize
        /\ k[1][1] = "etag" => blocks[k].ver >= k[1][2]

ServerOK ==
    /\ conf \in Configs
    /\ remote \in Versions
    /\ DOMAIN blocks = Keys
    /\ \A k \in Keys : BlockOK(k)

Domains ==
    /\ DOMAIN pc = Readers /\ DOMAIN src = Readers /\ DOMAIN off = Readers /\ DOMAIN len = Readers
    /\ DOMAIN blk = Readers /\ DOMAIN data = Readers /\ DOMAIN out = Readers /\ DOMAIN res = Readers

ReadType(r) ==
    /\ pc[r] \in ReadLabels
    /\ off[r] \in Int
    /\ len[r] \in Nat
    /\ blk[r] \in Nat
    /\ out[r] \in Seq(Byte)
    /\ res[r] \in {"nil", "eof", "err"}

\* Size and ETag that a source has found belong to one version.
Seen == {[etag |-> v, size |-> VersionSize[v]] : v \in 1..remote}
SourceOK(r) ==
    /\ pc[r] = "probe" => src[r].etag = None \/ src[r] \in Seen
    /\ pc[r] \notin {"closed", "probe"} => src[r] \in Seen

\* The block that the loop of r is at overlaps the range that it reads, and the
\* bytes before it have been copied.
LoopOK(r) ==
    /\ BlockStart(r) < off[r] + Expected(r)
    /\ off[r] < BlockStart(r) + BlockSize
    /\ Len(out[r]) = (IF off[r] >= BlockStart(r) THEN 0 ELSE BlockStart(r) - off[r])

FetchedOK(r) ==
    /\ data[r] \in Block
    /\ data[r].from = BlockStart(r)
    /\ ETags => data[r].ver >= src[r].etag

BytesOK(r) ==
    \A i \in 1..Len(out[r]) :
        /\ out[r][i].pos = off[r] + i - 1
        /\ ETags => out[r][i].ver >= src[r].etag

\* What ReadExact says of the end of a read.
Ends(r) ==
    LET n == IF len[r] = 0 \/ off[r] >= src[r].size THEN 0 ELSE Expected(r)
    IN  \/ Len(out[r]) = n /\ res[r] = (IF n < len[r] THEN "eof" ELSE "nil")
        \/ res[r] = "eof" /\ \E v \in 1..remote : VersionSize[v] < src[r].size

ReadOK(r) ==
    /\ pc[r] \in {"closed", "probe", "idle"} \cup Direct => out[r] = <<>>
    /\ pc[r] \in Direct \cup InBlocks => off[r] \in Nat /\ off[r] < src[r].size /\ len[r] > 0
    /\ pc[r] \in InBlocks => LoopOK(r)
    /\ pc[r] \in {"store", "rename"} => FetchedOK(r)
    /\ BytesOK(r)
    /\ pc[r] = "done" /\ res[r] # "err" => Ends(r)

ReaderOK(r) == ReadType(r) /\ SourceOK(r) /\ ReadOK(r)

SInv == ServerOK /\ Domains /\ \A r \in Readers : ReaderOK(r)

\* The smaller and the larger of two numbers.
LEMMA OfTwo ==
  ASSUME NEW a \in Int, NEW b \in Int
  PROVE  /\ Min({a, b}) = IF a <= b THEN a ELSE b
         /\ Max({a, b}) = IF a >= b THEN a ELSE b
<1> DEFINE m == IF a <= b THEN a ELSE b
<1> DEFINE n == IF a >= b THEN a ELSE b
<1>1. \A x \in {a, b} : (\A y \in {a, b} : x =< y) <=> x = m
  BY SMT
<1>2. \A x \in {a, b} : (\A y \in {a, b} : x >= y) <=> x = n
  BY SMT
<1>3. m \in {a, b} /\ n \in {a, b}
  BY SMT
<1> HIDE DEF m, n
<1>4. Min({a, b}) = m
  BY <1>1, <1>3 DEF Min
<1>5. Max({a, b}) = n
  BY <1>2, <1>3 DEF Max
<1> QED
  BY <1>4, <1>5 DEF m, n

\* What the assumptions say of the sizes.
LEMMA SizesOK ==
  /\ BlockSize \in Nat /\ BlockSize > 0 /\ MaxBlocks \in Nat
  /\ Versions = 1..Len(VersionSize) /\ Len(VersionSize) \in Nat /\ 1 \in Versions
  /\ \A v \in Versions : VersionSize[v] \in Nat /\ VersionSize[v] > 0
  BY BlockSourceAssumption, SMT DEF Versions

\* Block number b begins at or before byte x iff b is at most the block of x.
LEMMA BlockOfByte ==
  ASSUME NEW x \in Nat, NEW b \in Nat
  PROVE  /\ x \div BlockSize \in Nat
         /\ b * BlockSize \in Nat
         /\ (b + 1) * BlockSize = b * BlockSize + BlockSize
         /\ b <= x \div BlockSize <=> b * BlockSize <= x
         /\ x < (x \div BlockSize) * BlockSize + BlockSize
<1> DEFINE q == x \div BlockSize
<1>0. BlockSize \in Nat /\ BlockSize > 0
  BY SizesOK
<1>1. q \in Nat /\ q * BlockSize <= x /\ x < q * BlockSize + BlockSize
  BY <1>0, SMT
<1>2. b * BlockSize \in Nat /\ (b + 1) * BlockSize = b * BlockSize + BlockSize
  BY <1>0, SMT
<1> HIDE DEF q
<1>3. q * BlockSize \in Nat
  BY <1>0, <1>1, SMT
<1>4. ASSUME b <= q PROVE b * BlockSize <= x
  <2>1. b * BlockSize <= q * BlockSize
    BY <1>0, <1>1, <1>4, SMT
  <2> QED
    BY <1>1, <1>2, <1>3, <2>1, SMT
<1>5. ASSUME ~(b <= q) PROVE ~(b * BlockSize <= x)
  <2>1. q + 1 \in Nat /\ q + 1 <= b
    BY <1>1, <1>5, SMT
  <2>2. (q + 1) * BlockSize <= b * BlockSize
    BY <1>0, <2>1, SMT
  <2>3. (q + 1) * BlockSize = q * BlockSize + BlockSize
    BY <1>0, <1>1, SMT
  <2> QED
    BY <1>0, <1>1, <1>2, <1>3, <2>2, <2>3, SMT
<1> QED
  BY <1>1, <1>2, <1>4, <1>5 DEF q

\* The range that a read asks for, of a version that its source has seen.
LEMMA RangeOK ==
  ASSUME ServerOK, NEW r \in Readers, ReaderOK(r), pc[r] \in Direct \cup InBlocks
  PROVE  /\ src[r].etag \in 1..remote /\ src[r].etag \in Versions
         /\ src[r].size = VersionSize[src[r].etag]
         /\ src[r].size \in Nat /\ off[r] \in Nat /\ len[r] \in Nat /\ len[r] > 0 /\ off[r] < src[r].size
         /\ Expected(r) = IF len[r] <= src[r].size - off[r] THEN len[r] ELSE src[r].size - off[r]
         /\ Expected(r) \in Nat /\ Expected(r) > 0
         /\ off[r] + Expected(r) <= src[r].size
<1>1. src[r] \in Seen
  BY DEF ReaderOK, SourceOK, Direct, InBlocks, Flight
<1>2. PICK v \in 1..remote : src[r] = [etag |-> v, size |-> VersionSize[v]]
  BY <1>1 DEF Seen
<1>3. src[r].etag = v /\ src[r].size = VersionSize[v]
  BY <1>2, SMT
<1>4. v \in Versions
  BY SizesOK, SMT DEF ServerOK
<1>5. src[r].size \in Nat /\ src[r].size > 0
  BY <1>3, <1>4, SizesOK
<1>6. off[r] \in Nat /\ len[r] \in Nat /\ len[r] > 0 /\ off[r] < src[r].size
  BY DEF ReaderOK, ReadType, ReadOK
<1>7. len[r] \in Int /\ src[r].size - off[r] \in Int
  BY <1>5, <1>6, SMT
<1>8. Expected(r) = IF len[r] <= src[r].size - off[r] THEN len[r] ELSE src[r].size - off[r]
  BY <1>7, OfTwo DEF Expected, ExpectedOf
<1>9. Expected(r) \in Nat /\ Expected(r) > 0 /\ off[r] + Expected(r) <= src[r].size
  BY <1>5, <1>6, <1>8, SMT
<1> QED
  BY <1>3, <1>4, <1>5, <1>6, <1>8, <1>9

\* A block number of a source that has been seen is a key.
LEMMA IsKey ==
  ASSUME NEW v \in Versions, NEW b \in Nat, b * BlockSize < VersionSize[v]
  PROVE  <<SourceID(v, VersionSize[v]), b>> \in Keys
<1>1. VersionSize[v] - 1 \in Nat /\ b * BlockSize <= VersionSize[v] - 1
  <2>1. VersionSize[v] \in Nat /\ VersionSize[v] > 0 /\ BlockSize \in Nat
    BY SizesOK
  <2>2. b * BlockSize \in Nat
    BY <2>1, SMT
  <2> QED
    BY <2>1, <2>2, SMT
<1>2. /\ (VersionSize[v] - 1) \div BlockSize \in Nat
      /\ b <= (VersionSize[v] - 1) \div BlockSize
  BY <1>1, BlockOfByte
<1>3. b \in BlocksOf(v)
  BY <1>2, SMT DEF BlocksOf
<1>4. b \in UNION {BlocksOf(w) : w \in Versions}
  BY <1>3
<1>5. SourceID(v, VersionSize[v]) \in SourceIDs
  BY DEF SourceID, SourceIDs, Sizes
<1> QED
  BY <1>4, <1>5 DEF Keys

\* The block that a loop is at.
LEMMA AtBlock ==
  ASSUME ServerOK, NEW r \in Readers, ReaderOK(r), pc[r] \in InBlocks
  PROVE  /\ BlockStart(r) \in Nat /\ blk[r] \in Nat
         /\ BlockStart(r) < off[r] + Expected(r) /\ off[r] < BlockStart(r) + BlockSize
         /\ BlockEnd(r) = IF BlockStart(r) + BlockSize <= src[r].size
                          THEN BlockStart(r) + BlockSize ELSE src[r].size
         /\ BlockLen(r) \in Nat
         /\ KeyOf(r) \in Keys /\ KeyOf(r)[2] = blk[r]
         /\ ETags => KeyOf(r)[1] = <<"etag", src[r].etag>>
         /\ EndBlock(r) \in Nat /\ blk[r] <= EndBlock(r)
         /\ blk[r] < EndBlock(r) <=> BlockStart(r) + BlockSize < off[r] + Expected(r)
         /\ (blk[r] + 1) * BlockSize = BlockStart(r) + BlockSize
<1>1. /\ src[r].etag \in Versions /\ src[r].size = VersionSize[src[r].etag]
      /\ src[r].size \in Nat /\ off[r] \in Nat
      /\ Expected(r) \in Nat /\ Expected(r) > 0 /\ off[r] + Expected(r) <= src[r].size
  BY RangeOK
<1>2. BlockSize \in Nat /\ BlockSize > 0
  BY SizesOK
<1>3. blk[r] \in Nat /\ blk[r] + 1 \in Nat
  BY SMT DEF ReaderOK, ReadType
<1>4. BlockStart(r) < off[r] + Expected(r) /\ off[r] < BlockStart(r) + BlockSize
  BY DEF ReaderOK, ReadOK, LoopOK
<1> DEFINE x == off[r] + Expected(r) - 1
<1>5. x \in Nat
  BY <1>1, SMT
<1>6. /\ BlockStart(r) \in Nat /\ (blk[r] + 1) * BlockSize = BlockStart(r) + BlockSize
      /\ x \div BlockSize \in Nat
      /\ blk[r] <= x \div BlockSize <=> BlockStart(r) <= x
      /\ blk[r] + 1 <= x \div BlockSize <=> (blk[r] + 1) * BlockSize <= x
  BY <1>3, <1>5, BlockOfByte DEF BlockStart
<1>7. EndBlock(r) = x \div BlockSize
  BY DEF EndBlock, EndBlockOf, Expected
<1> HIDE DEF x
<1>8. EndBlock(r) \in Nat /\ blk[r] <= EndBlock(r)
  BY <1>1, <1>4, <1>6, <1>7, SMT DEF x
<1>9. blk[r] < EndBlock(r) <=> BlockStart(r) + BlockSize < off[r] + Expected(r)
  BY <1>1, <1>2, <1>3, <1>6, <1>7, SMT DEF x
<1>10. BlockStart(r) + BlockSize \in Int /\ src[r].size \in Int
  BY <1>1, <1>2, <1>6, SMT
<1>11. BlockEnd(r) = IF BlockStart(r) + BlockSize <= src[r].size
                     THEN BlockStart(r) + BlockSize ELSE src[r].size
  BY <1>10, OfTwo DEF BlockEnd
<1>12. BlockLen(r) \in Nat
  BY <1>1, <1>2, <1>4, <1>6, <1>11, SMT DEF BlockLen
<1>13. blk[r] * BlockSize < VersionSize[src[r].etag]
  BY <1>1, <1>4, <1>6, SMT DEF BlockStart
<1>14. KeyOf(r) \in Keys
  BY <1>1, <1>3, <1>13, IsKey DEF KeyOf
<1>15. KeyOf(r)[2] = blk[r] /\ (ETags => KeyOf(r)[1] = <<"etag", src[r].etag>>)
  BY DEF KeyOf, SourceID
<1> QED
  BY <1>3, <1>4, <1>6, <1>8, <1>9, <1>11, <1>12, <1>14, <1>15

\* Readers that one call serves want the same block of the same source.
LEMMA SameBlock ==
  ASSUME ServerOK, NEW r \in Readers, ReaderOK(r), pc[r] \in InBlocks,
         NEW q \in Readers, ReaderOK(q), pc[q] \in InBlocks, SameCall(r, q)
  PROVE  /\ BlockStart(q) = BlockStart(r)
         /\ src[q].size = src[r].size
         /\ ETags => src[q].etag = src[r].etag
<1>1. blk[q] = blk[r] /\ SourceID(src[r].etag, src[r].size) = SourceID(src[q].etag, src[q].size)
  BY DEF SameCall, KeyOf
<1>2. src[r].size = VersionSize[src[r].etag] /\ src[q].size = VersionSize[src[q].etag]
  BY RangeOK
<1>3. CASE ETags
  BY <1>1, <1>2, <1>3 DEF SourceID, BlockStart
<1>4. CASE ~ETags
  BY <1>1, <1>4 DEF SourceID, BlockStart
<1> QED
  BY <1>3, <1>4

\* The bytes of a block that belong to a read continue those before it.
LEMMA CopiedOK ==
  ASSUME ServerOK, NEW q \in Readers, ReaderOK(q), pc[q] \in InBlocks,
         NEW d \in Block, d.from = BlockStart(q), ETags => d.ver >= src[q].etag
  PROVE  LET new == out[q] \o Copied(q, d)
         IN  /\ new \in Seq(Byte)
             /\ Len(new) = (IF blk[q] < EndBlock(q) THEN (BlockStart(q) + BlockSize) - off[q]
                            ELSE Expected(q))
             /\ \A i \in 1..Len(new) : /\ new[i].pos = off[q] + i - 1
                                       /\ ETags => new[i].ver >= src[q].etag
<1> DEFINE s == BlockStart(q)
<1> DEFINE m == Max({off[q], s})
<1> DEFINE n == Min({off[q] + Expected(q), BlockEnd(q)}) - m
<1> DEFINE old == out[q]
<1> DEFINE add == Copied(q, d)
<1>1. /\ src[q].size \in Nat /\ off[q] \in Nat /\ Expected(q) \in Nat
      /\ off[q] + Expected(q) <= src[q].size
  BY RangeOK
<1>2. /\ s \in Nat /\ s < off[q] + Expected(q) /\ off[q] < s + BlockSize
      /\ BlockEnd(q) = IF s + BlockSize <= src[q].size THEN s + BlockSize ELSE src[q].size
      /\ blk[q] < EndBlock(q) <=> s + BlockSize < off[q] + Expected(q)
  BY AtBlock
<1>3. BlockSize \in Nat /\ BlockSize > 0
  BY SizesOK
<1>4. /\ old \in Seq(Byte) /\ Len(old) = (IF off[q] >= s THEN 0 ELSE s - off[q])
      /\ \A i \in 1..Len(old) : /\ old[i].pos = off[q] + i - 1
                                /\ ETags => old[i].ver >= src[q].etag
  BY DEF ReaderOK, ReadType, ReadOK, LoopOK, BytesOK
<1>5. d.from + SrcOffset(q) = d.from + (m - s)
  BY DEF SrcOffset
<1>6. add = [i \in 1..n |-> [pos |-> d.from + SrcOffset(q) + i - 1, ver |-> d.ver]]
  BY DEF Copied
<1> HIDE DEF s, add
<1>7. off[q] \in Int /\ s \in Int /\ off[q] + Expected(q) \in Int /\ BlockEnd(q) \in Int
  BY <1>1, <1>2, <1>3, SMT
<1>8. m = IF off[q] >= s THEN off[q] ELSE s
  BY <1>7, OfTwo
<1>9. Min({off[q] + Expected(q), BlockEnd(q)}) =
         IF off[q] + Expected(q) <= BlockEnd(q) THEN off[q] + Expected(q) ELSE BlockEnd(q)
  BY <1>7, OfTwo
<1>10. Min({off[q] + Expected(q), BlockEnd(q)}) =
          IF blk[q] < EndBlock(q) THEN s + BlockSize ELSE off[q] + Expected(q)
  BY <1>1, <1>2, <1>3, <1>9, SMT
<1>11. m \in Nat /\ Len(old) = m - off[q] /\ off[q] <= m
  BY <1>1, <1>2, <1>4, <1>8, SMT
<1>12. /\ blk[q] < EndBlock(q) => n = (s + BlockSize) - m
       /\ ~(blk[q] < EndBlock(q)) => n = (off[q] + Expected(q)) - m
  <2>1. ASSUME blk[q] < EndBlock(q) PROVE n = (s + BlockSize) - m
    <3>1. Min({off[q] + Expected(q), BlockEnd(q)}) = s + BlockSize
      BY <1>10, <2>1
    <3> QED
      BY <3>1
  <2>2. ASSUME ~(blk[q] < EndBlock(q)) PROVE n = (off[q] + Expected(q)) - m
    <3>1. Min({off[q] + Expected(q), BlockEnd(q)}) = off[q] + Expected(q)
      BY <1>10, <2>2
    <3> QED
      BY <3>1
  <2> QED
    BY <2>1, <2>2
<1>13. n \in Nat
  BY <1>1, <1>2, <1>3, <1>8, <1>12, SMT
<1>14. d.from + SrcOffset(q) = m
  BY <1>2, <1>5, <1>11, SMT DEF s
<1> HIDE DEF m, n, old
<1>15. add \in Seq(Byte) /\ Len(add) = n /\ \A i \in 1..n : add[i] = [pos |-> m + i - 1, ver |-> d.ver]
  <2>1. d.ver \in Versions
    BY DEF Block
  <2>2. \A i \in 1..n : [pos |-> m + i - 1, ver |-> d.ver] \in Byte
    BY <1>11, <1>13, <2>1, SMT DEF Byte
  <2>3. add = [i \in 1..n |-> [pos |-> m + i - 1, ver |-> d.ver]]
    BY <1>6, <1>14
  <2> QED
    BY <1>13, <2>2, <2>3, SMT
<1> DEFINE new == old \o add
<1>16. /\ new \in Seq(Byte)
       /\ Len(new) = Len(old) + n
       /\ \A i \in 1 .. Len(old) + n : new[i] = IF i <= Len(old) THEN old[i] ELSE add[i - Len(old)]
  BY <1>4, <1>15, ConcatProperties
<1> HIDE DEF new
<1>17. Len(new) = IF blk[q] < EndBlock(q) THEN (s + BlockSize) - off[q] ELSE Expected(q)
  <2>1. Len(new) = (m - off[q]) + n
    BY <1>11, <1>16
  <2>2. CASE blk[q] < EndBlock(q)
    <3>1. n = (s + BlockSize) - m
      BY <1>12, <2>2
    <3>2. Len(new) = (s + BlockSize) - off[q]
      BY <1>1, <1>2, <1>3, <1>11, <2>1, <3>1, SMT
    <3> QED
      BY <2>2, <3>2
  <2>3. CASE ~(blk[q] < EndBlock(q))
    <3>1. n = (off[q] + Expected(q)) - m
      BY <1>12, <2>3
    <3>2. Len(new) = Expected(q)
      BY <1>1, <1>11, <2>1, <3>1, SMT
    <3> QED
      BY <2>3, <3>2
  <2> QED
    BY <2>2, <2>3
<1>18. ASSUME NEW i \in 1..Len(new)
       PROVE  new[i].pos = off[q] + i - 1 /\ (ETags => new[i].ver >= src[q].etag)
  <2>0. i \in 1 .. Len(old) + n /\ Len(old) \in Nat
    <3>1. Len(old) \in Nat
      BY <1>1, <1>11, SMT
    <3> QED
      BY <1>16, <3>1
  <2>1. CASE i <= Len(old)
    <3>1. i \in 1..Len(old)
      BY <1>13, <2>0, <2>1, SMT
    <3>2. new[i] = old[i]
      BY <1>16, <2>0, <2>1
    <3> QED
      BY <1>4, <3>1, <3>2
  <2>2. CASE ~(i <= Len(old))
    <3>1. i - Len(old) \in 1..n
      BY <1>13, <2>0, <2>2, SMT
    <3>2. new[i] = add[i - Len(old)]
      BY <1>16, <2>0, <2>2
    <3>3. new[i] = [pos |-> m + (i - Len(old)) - 1, ver |-> d.ver]
      BY <1>15, <3>1, <3>2
    <3>4. m + (i - Len(old)) - 1 = off[q] + i - 1
      <4>1. i \in Int
        BY <1>13, <2>0, SMT
      <4>2. Len(old) = m - off[q] /\ m \in Nat /\ off[q] \in Nat
        BY <1>1, <1>11
      <4>3. m + (i - (m - off[q])) - 1 = off[q] + i - 1
        BY <4>1, <4>2, SMT
      <4> QED
        BY <4>2, <4>3
    <3>5. new[i].pos = off[q] + i - 1 /\ new[i].ver = d.ver
      BY <3>3, <3>4, SMT
    <3> QED
      BY <3>5
  <2> QED
    BY <2>1, <2>2
<1> QED
  BY <1>16, <1>17, <1>18 DEF new, old, add, s

\* getBlock has returned block d to reader q.
LEMMA Delivered ==
  ASSUME ServerOK, NEW q \in Readers, ReaderOK(q), pc[q] \in InBlocks,
         NEW d \in Block, d.from = BlockStart(q), ETags => d.ver >= src[q].etag,
         out'[q] = out[q] \o Copied(q, d),
         blk'[q] = (IF blk[q] < EndBlock(q) THEN blk[q] + 1 ELSE blk[q]),
         pc'[q] = (IF blk[q] < EndBlock(q) THEN "block" ELSE "done"),
         res'[q] = (IF blk[q] = EndBlock(q) THEN EOFOrNil(q) ELSE res[q]),
         UNCHANGED <<remote, conf, src, off, len>>
  PROVE  ReaderOK(q)'
<1>1. /\ src[q].size \in Nat /\ off[q] \in Nat /\ len[q] \in Nat /\ len[q] > 0 /\ off[q] < src[q].size
      /\ Expected(q) \in Nat
  BY RangeOK
<1>2. /\ BlockStart(q) \in Nat /\ blk[q] \in Nat /\ EndBlock(q) \in Nat /\ blk[q] <= EndBlock(q)
      /\ off[q] < BlockStart(q) + BlockSize
      /\ blk[q] < EndBlock(q) <=> BlockStart(q) + BlockSize < off[q] + Expected(q)
      /\ (blk[q] + 1) * BlockSize = BlockStart(q) + BlockSize
  BY AtBlock
<1>3. BlockSize \in Nat /\ BlockSize > 0
  BY SizesOK
<1>4. /\ out'[q] \in Seq(Byte)
      /\ Len(out'[q]) = (IF blk[q] < EndBlock(q) THEN (BlockStart(q) + BlockSize) - off[q]
                         ELSE Expected(q))
      /\ \A i \in 1..Len(out'[q]) : /\ out'[q][i].pos = off[q] + i - 1
                                    /\ ETags => out'[q][i].ver >= src[q].etag
  BY CopiedOK
<1>5. BytesOK(q)'
  BY <1>4 DEF BytesOK, ETags
<1>6. src[q] \in Seen /\ Seen' = Seen /\ src'[q] = src[q]
  BY DEF ReaderOK, SourceOK, InBlocks, Flight, Seen
<1>7. SourceOK(q)'
  BY <1>6 DEF SourceOK
<1>8. Expected(q)' = Expected(q)
  BY DEF Expected, ExpectedOf
<1>9. CASE blk[q] < EndBlock(q)
  <2>1. blk'[q] = blk[q] + 1 /\ pc'[q] = "block" /\ res'[q] = res[q]
    BY <1>2, <1>9, SMT
  <2>2. BlockStart(q)' = BlockStart(q) + BlockSize
    BY <1>2, <2>1 DEF BlockStart
  <2>3. ReadType(q)'
    <3>1. blk'[q] \in Nat
      BY <1>2, <2>1, SMT
    <3> QED
      BY <1>4, <2>1, <3>1 DEF ReaderOK, ReadType, ReadLabels, InBlocks
  <2>4. /\ BlockStart(q)' < off'[q] + Expected(q)' /\ off'[q] < BlockStart(q)' + BlockSize
        /\ Len(out'[q]) = (IF off'[q] >= BlockStart(q)' THEN 0 ELSE BlockStart(q)' - off'[q])
    <3>1. Len(out'[q]) = (BlockStart(q) + BlockSize) - off[q] /\ off'[q] = off[q]
      BY <1>4, <1>9
    <3>2. BlockStart(q) + BlockSize < off[q] + Expected(q)
      BY <1>2, <1>9
    <3>3. ~(off[q] >= BlockStart(q) + BlockSize) /\ off[q] < BlockStart(q) + BlockSize + BlockSize
      BY <1>1, <1>2, <1>3, SMT
    <3>4. ~(off'[q] >= BlockStart(q)') /\ Len(out'[q]) = BlockStart(q)' - off'[q]
      BY <2>2, <3>1, <3>3
    <3>5. BlockStart(q)' < off'[q] + Expected(q)' /\ off'[q] < BlockStart(q)' + BlockSize
      BY <1>8, <2>2, <3>1, <3>2, <3>3
    <3> QED
      BY <3>4, <3>5
  <2>5. ReadOK(q)'
    BY <1>1, <1>5, <2>1, <2>4 DEF ReadOK, LoopOK, Direct
  <2> QED
    BY <1>7, <2>3, <2>5 DEF ReaderOK
<1>10. CASE ~(blk[q] < EndBlock(q))
  <2>1. blk[q] = EndBlock(q)
    BY <1>2, <1>10, SMT
  <2>2. blk'[q] = blk[q] /\ pc'[q] = "done" /\ res'[q] = EOFOrNil(q)
    BY <1>10, <2>1
  <2>3. ReadType(q)'
    BY <1>2, <1>4, <2>2 DEF ReaderOK, ReadType, ReadLabels, EOFOrNil
  <2>4. Len(out'[q]) = Expected(q) /\ res'[q] = IF Expected(q) < len[q] THEN "eof" ELSE "nil"
    BY <1>4, <1>10, <2>2 DEF EOFOrNil
  <2>5. ~(len'[q] = 0 \/ off'[q] >= src'[q].size)
    BY <1>1, SMT
  <2>6. Ends(q)'
    BY <1>8, <2>4, <2>5 DEF Ends
  <2>7. ReadOK(q)'
    BY <1>5, <2>2, <2>6 DEF ReadOK, Direct, InBlocks, Flight
  <2> QED
    BY <1>7, <2>3, <2>7 DEF ReaderOK
<1> QED
  BY <1>9, <1>10

\* A reader that does nothing stays well while the resource is replaced.
LEMMA Rests ==
  ASSUME NEW q \in Readers, ReaderOK(q), remote \in Nat, remote' \in Nat, remote <= remote', conf' = conf,
         pc'[q] = pc[q], src'[q] = src[q], off'[q] = off[q], len'[q] = len[q],
         blk'[q] = blk[q], data'[q] = data[q], out'[q] = out[q], res'[q] = res[q]
  PROVE  ReaderOK(q)'
<1>1. ReadType(q)'
  BY DEF ReaderOK, ReadType
<1>2. 1..remote \subseteq 1..remote'
  BY SMT
<1>3. SourceOK(q)'
  BY <1>2 DEF ReaderOK, SourceOK, Seen
<1>4. Expected(q)' = Expected(q) /\ BlockStart(q)' = BlockStart(q)
  BY DEF Expected, ExpectedOf, BlockStart
<1>5. LoopOK(q) => LoopOK(q)'
  BY <1>4 DEF LoopOK
<1>6. FetchedOK(q) => FetchedOK(q)'
  BY <1>4 DEF FetchedOK, ETags
<1>7. BytesOK(q) => BytesOK(q)'
  BY DEF BytesOK, ETags
<1>8. Ends(q) => Ends(q)'
  BY <1>2, <1>4 DEF Ends
<1>9. ReadOK(q)'
  BY <1>5, <1>6, <1>7, <1>8 DEF ReaderOK, ReadOK
<1> QED
  BY <1>1, <1>3, <1>9 DEF ReaderOK

\* Reader q does nothing.
Still(q) ==
    /\ pc'[q] = pc[q] /\ src'[q] = src[q] /\ off'[q] = off[q] /\ len'[q] = len[q]
    /\ blk'[q] = blk[q] /\ data'[q] = data[q] /\ out'[q] = out[q] /\ res'[q] = res[q]

\* A step of one reader.
LEMMA OneReader ==
  ASSUME SInv, NEW r \in Readers, UNCHANGED <<remote, conf>>, ServerOK', Domains', ReaderOK(r)',
         \A q \in Readers : q # r => Still(q)
  PROVE  SInv'
<1>1. remote \in Nat /\ remote <= remote
  BY SizesOK, SMT DEF SInv, ServerOK
<1>2. ASSUME NEW q \in Readers, q # r PROVE ReaderOK(q)'
  BY <1>1, <1>2, Rests DEF SInv, Still
<1> QED
  BY <1>2 DEF SInv

\* The server and the cache stay as they are.
LEMMA SameServer ==
  ASSUME ServerOK, UNCHANGED <<remote, blocks, conf>>
  PROVE  ServerOK'
  BY DEF ServerOK, BlockOK

\* Those that a call serves are at the same block.
LEMMA ServedOK ==
  ASSUME SInv, NEW r \in Readers, pc[r] \in Flight, NEW q \in Served(r)
  PROVE  /\ q \in Readers /\ pc[q] \in InBlocks
         /\ BlockStart(q) = BlockStart(r)
         /\ src[q].size = src[r].size
         /\ ETags => src[q].etag = src[r].etag
<1>1. pc[r] \in InBlocks
  BY DEF InBlocks
<1>2. CASE q = r
  BY <1>1, <1>2
<1>3. CASE q # r
  <2>1. q \in Readers /\ pc[q] \in InBlocks /\ SameCall(r, q)
    BY <1>3 DEF Served, At, InBlocks
  <2> QED
    BY <1>1, <2>1, SameBlock DEF SInv
<1> QED
  BY <1>2, <1>3

\* A block is returned to all that wait for it.
LEMMA DeliverKeeps ==
  ASSUME SInv, NEW r \in Readers, pc[r] \in Flight,
         NEW d \in Block, d.from = BlockStart(r), ETags => d.ver >= src[r].etag,
         Deliver(Served(r), d), UNCHANGED <<remote, conf, src, off, len>>, ServerOK',
         DOMAIN data' = Readers, \A q \in Readers : q # r => data'[q] = data[q]
  PROVE  SInv'
<1>1. Domains'
  BY DEF SInv, Domains, Deliver
<1>2. remote \in Nat /\ remote <= remote
  BY SizesOK, SMT DEF SInv, ServerOK
<1>3. ASSUME NEW q \in Served(r) PROVE q \in Readers /\ ReaderOK(q)'
  <2>1. /\ q \in Readers /\ pc[q] \in InBlocks /\ d.from = BlockStart(q)
        /\ ETags => d.ver >= src[q].etag
    BY ServedOK
  <2>2. /\ out'[q] = out[q] \o Copied(q, d)
        /\ blk'[q] = (IF blk[q] < EndBlock(q) THEN blk[q] + 1 ELSE blk[q])
        /\ pc'[q] = (IF blk[q] < EndBlock(q) THEN "block" ELSE "done")
        /\ res'[q] = (IF blk[q] = EndBlock(q) THEN EOFOrNil(q) ELSE res[q])
    BY <2>1 DEF Deliver
  <2> QED
    BY <2>1, <2>2, Delivered DEF SInv
<1>4. ASSUME NEW q \in Readers, q \notin Served(r) PROVE ReaderOK(q)'
  <2>1. q # r
    BY <1>4 DEF Served
  <2>2. Still(q)
    BY <1>4, <2>1 DEF Still, Deliver
  <2> QED
    BY <1>2, <2>2, Rests DEF SInv, Still
<1> QED
  BY <1>1, <1>3, <1>4 DEF SInv

\* A reader that ends with an error, or with EOF since the resource is shorter.
LEMMA EndsEarly ==
  ASSUME ServerOK, NEW q \in Readers, ReaderOK(q), pc[q] \in Direct \cup InBlocks,
         NEW e \in {"eof", "err"}, e = "eof" => VersionSize[remote] < src[q].size,
         pc'[q] = "done", res'[q] = e, UNCHANGED <<remote, conf>>,
         src'[q] = src[q], off'[q] = off[q], len'[q] = len[q], blk'[q] = blk[q], out'[q] = out[q]
  PROVE  ReaderOK(q)'
<1>1. ReadType(q)'
  BY DEF ReaderOK, ReadType, ReadLabels
<1>2. src[q] \in Seen /\ Seen' = Seen
  BY DEF ReaderOK, SourceOK, Direct, InBlocks, Flight, Seen
<1>3. SourceOK(q)'
  BY <1>2 DEF SourceOK
<1>4. BytesOK(q)'
  BY DEF ReaderOK, ReadOK, BytesOK, ETags
<1>5. remote \in 1..remote
  BY SizesOK, SMT DEF ServerOK
<1>6. res'[q] # "err" => Ends(q)'
  BY <1>5 DEF Ends
<1>7. ReadOK(q)'
  BY <1>4, <1>6 DEF ReadOK, Direct, InBlocks, Flight
<1> QED
  BY <1>1, <1>3, <1>7 DEF ReaderOK

\* An error is returned to all that wait for the block.
LEMMA DeliverErrorKeeps ==
  ASSUME SInv, NEW r \in Readers, pc[r] \in Flight,
         NEW e \in {"eof", "err"}, e = "eof" => BlockStart(r) >= VersionSize[remote],
         DeliverError(Served(r), e), UNCHANGED <<remote, blocks, conf, src, off, len, data>>
  PROVE  SInv'
<1>1. Domains'
  BY DEF SInv, Domains, DeliverError
<1>2. remote \in Nat /\ remote <= remote /\ remote \in Versions
  BY SizesOK, SMT DEF SInv, ServerOK
<1>3. ASSUME NEW q \in Served(r) PROVE q \in Readers /\ ReaderOK(q)'
  <2>1. /\ q \in Readers /\ pc[q] \in InBlocks /\ BlockStart(q) = BlockStart(r)
    BY ServedOK
  <2>2. BlockStart(q) \in Nat /\ BlockStart(q) < off[q] + Expected(q)
    BY <2>1, AtBlock DEF SInv
  <2>3. src[q].size \in Nat /\ off[q] \in Nat /\ Expected(q) \in Nat /\ off[q] + Expected(q) <= src[q].size
    BY <2>1, RangeOK DEF SInv
  <2>4. VersionSize[remote] \in Nat
    BY <1>2, SizesOK
  <2>5. e = "eof" => VersionSize[remote] < src[q].size
    BY <2>1, <2>2, <2>3, <2>4, SMT
  <2>6. pc'[q] = "done" /\ res'[q] = e
    BY <2>1 DEF DeliverError
  <2> QED
    BY <2>1, <2>5, <2>6, EndsEarly DEF SInv, DeliverError
<1>4. ASSUME NEW q \in Readers, q \notin Served(r) PROVE ReaderOK(q)'
  <2>1. Still(q)
    BY <1>4 DEF Still, DeliverError
  <2> QED
    BY <1>2, <2>1, Rests DEF SInv, Still
<1>5. ServerOK'
  BY SameServer DEF SInv
<1> QED
  BY <1>1, <1>3, <1>4, <1>5 DEF SInv

\* A file of the cache changes.
LEMMA Stores ==
  ASSUME SInv, NEW k \in Keys, NEW d, UNCHANGED <<remote, conf>>,
         blocks' = [blocks EXCEPT ![k] = d],
         d # None => /\ d \in Block /\ d.from = k[2] * BlockSize
                     /\ k[1][1] = "etag" => d.ver >= k[1][2]
  PROVE  ServerOK'
<1>1. DOMAIN blocks' = Keys
  BY DEF SInv, ServerOK
<1>2. ASSUME NEW j \in Keys PROVE BlockOK(j)'
  <2>1. CASE j = k
    BY <2>1 DEF SInv, ServerOK, BlockOK
  <2>2. CASE j # k
    BY <2>2 DEF SInv, ServerOK, BlockOK
  <2> QED
    BY <2>1, <2>2
<1> QED
  BY <1>1, <1>2 DEF SInv, ServerOK

\* A block that r has fetched, or that is in its file, is the one that r wants.
LEMMA CachedOK ==
  ASSUME SInv, NEW r \in Readers, pc[r] \in Flight, blocks[KeyOf(r)] # None
  PROVE  /\ blocks[KeyOf(r)] \in Block
         /\ blocks[KeyOf(r)].from = BlockStart(r)
         /\ ETags => blocks[KeyOf(r)].ver >= src[r].etag
<1>1. pc[r] \in InBlocks
  BY DEF InBlocks
<1>2. /\ KeyOf(r) \in Keys /\ KeyOf(r)[2] = blk[r]
      /\ ETags => KeyOf(r)[1] = <<"etag", src[r].etag>>
  BY <1>1, AtBlock DEF SInv
<1>3. BlockOK(KeyOf(r))
  BY <1>2 DEF SInv, ServerOK
<1> QED
  BY <1>2, <1>3, SMT DEF BlockOK, BlockStart

\* A reader that is not reading.
LEMMA Quiet ==
  ASSUME NEW r \in Readers, ReadType(r)', SourceOK(r)',
         pc'[r] \in {"closed", "probe", "idle"}, out'[r] = <<>>
  PROVE  ReaderOK(r)'
<1>1. Len(out'[r]) = 0
  BY SMT
<1>2. BytesOK(r)'
  BY <1>1, SMT DEF BytesOK
<1>3. ReadOK(r)'
  BY <1>2 DEF ReadOK, Direct, InBlocks, Flight
<1> QED
  BY <1>3 DEF ReaderOK

\* A reader goes on with the same read.
LEMMA Moves ==
  ASSUME NEW r \in Readers, ReaderOK(r), UNCHANGED <<remote, conf>>,
         \/ pc[r] \in Direct /\ pc'[r] \in Direct
         \/ pc[r] \in InBlocks /\ pc'[r] \in InBlocks,
         pc'[r] \in {"store", "rename"} => FetchedOK(r)',
         src'[r] = src[r], off'[r] = off[r], len'[r] = len[r], blk'[r] = blk[r],
         out'[r] = out[r], res'[r] = res[r]
  PROVE  ReaderOK(r)'
<1>1. ReadType(r)'
  BY DEF ReaderOK, ReadType, ReadLabels
<1>2. src[r] \in Seen /\ Seen' = Seen
  BY DEF ReaderOK, SourceOK, Direct, InBlocks, Flight, Seen
<1>3. SourceOK(r)'
  BY <1>2 DEF SourceOK
<1>4. BytesOK(r)'
  BY DEF ReaderOK, ReadOK, BytesOK, ETags
<1>5. Expected(r)' = Expected(r) /\ BlockStart(r)' = BlockStart(r)
  BY DEF Expected, ExpectedOf, BlockStart
<1>6. LoopOK(r) => LoopOK(r)'
  BY <1>5 DEF LoopOK
<1>7. ReadOK(r)'
  <2>1. CASE pc[r] \in Direct /\ pc'[r] \in Direct
    BY <1>4, <2>1 DEF ReaderOK, ReadOK, Direct, InBlocks, Flight
  <2>2. CASE pc[r] \in InBlocks /\ pc'[r] \in InBlocks
    BY <1>4, <1>6, <2>2 DEF ReaderOK, ReadOK, Direct, InBlocks, Flight
  <2> QED
    BY <2>1, <2>2
<1> QED
  BY <1>1, <1>3, <1>7 DEF ReaderOK

\* HEAD has answered.
LEMMA HeadKeeps ==
  ASSUME SInv, NEW r \in Readers, NEW s \in {Current} \cup NoHead, HeadAnswers(r, s), UNCHANGED conf
  PROVE  SInv'
<1> USE DEF HeadAnswers, Goto
<1>1. ServerOK'
  BY SameServer DEF SInv
<1>2. Domains'
  BY DEF SInv, Domains
<1>3. pc'[r] = "probe" /\ src'[r] = s
  BY DEF SInv, Domains
<1>4. remote \in 1..remote
  BY SizesOK, SMT DEF SInv, ServerOK
<1>5. s.etag = None \/ s \in Seen
  BY <1>4, SMT DEF Current, NoHead, Closed, Seen
<1>6. SourceOK(r)'
  BY <1>3, <1>5 DEF SourceOK, Seen
<1>7. ReadType(r)' /\ out'[r] = <<>>
  BY <1>3 DEF SInv, ReaderOK, ReadType, ReadOK, ReadLabels, At
<1>8. ReaderOK(r)'
  BY <1>3, <1>6, <1>7, Quiet
<1>9. \A q \in Readers : q # r => Still(q)
  BY DEF SInv, Domains, Still
<1> QED
  BY <1>1, <1>2, <1>8, <1>9, OneReader

\* A source that could not be opened.
LEMMA CloseKeeps ==
  ASSUME SInv, NEW r \in Readers, At(r, "probe"),
         src' = [src EXCEPT ![r] = Closed], Goto(r, "closed"),
         UNCHANGED <<remote, blocks, off, len, blk, data, out, res, conf>>
  PROVE  SInv'
<1> USE DEF Goto
<1>1. ServerOK'
  BY SameServer DEF SInv
<1>2. Domains'
  BY DEF SInv, Domains
<1>3. pc'[r] = "closed"
  BY DEF SInv, Domains
<1>4. SourceOK(r)'
  BY <1>3 DEF SourceOK
<1>5. ReadType(r)' /\ out'[r] = <<>>
  BY <1>3 DEF SInv, ReaderOK, ReadType, ReadOK, ReadLabels, At
<1>6. ReaderOK(r)'
  BY <1>3, <1>4, <1>5, Quiet
<1>7. \A q \in Readers : q # r => Still(q)
  BY DEF SInv, Domains, Still
<1> QED
  BY <1>1, <1>2, <1>6, <1>7, OneReader

\* The range probe has answered.
LEMMA ProbeKeeps ==
  ASSUME SInv, NEW r \in Readers, RangeProbe(r), UNCHANGED conf
  PROVE  SInv'
<1> DEFINE new == [etag |-> IF src[r].etag = None THEN remote ELSE src[r].etag,
                   size |-> VersionSize[remote]]
<1>1. CASE src[r].size > 0 /\ src[r].size # VersionSize[remote]
  BY <1>1, CloseKeeps DEF RangeProbe
<1>2. CASE ~(src[r].size > 0 /\ src[r].size # VersionSize[remote])
  <2>1. /\ At(r, "probe") /\ src' = [src EXCEPT ![r] = new] /\ pc' = [pc EXCEPT ![r] = "idle"]
        /\ UNCHANGED <<remote, blocks, off, len, blk, data, out, res>>
    BY <1>2 DEF RangeProbe, Goto, SInv, Domains
  <2>2. ServerOK'
    BY <2>1, SameServer DEF SInv
  <2>3. Domains'
    BY <2>1 DEF SInv, Domains
  <2>4. pc'[r] = "idle" /\ src'[r] = new
    BY <2>1 DEF SInv, Domains
  <2>5. remote \in 1..remote /\ 1..remote \subseteq Versions
    BY SizesOK, SMT DEF SInv, ServerOK
  <2>6. new \in Seen
    <3>1. CASE src[r].etag = None
      BY <2>5, <3>1 DEF Seen
    <3>2. CASE src[r].etag # None
      <4>1. PICK v \in 1..remote : src[r] = [etag |-> v, size |-> VersionSize[v]]
        BY <2>1, <3>2 DEF SInv, ReaderOK, SourceOK, Seen, At
      <4>2. src[r].etag = v /\ src[r].size = VersionSize[v] /\ VersionSize[v] > 0
        BY <2>5, <4>1, SizesOK, SMT
      <4>3. VersionSize[remote] = VersionSize[v]
        BY <1>2, <4>2
      <4>4. new = [etag |-> v, size |-> VersionSize[v]]
        BY <3>2, <4>2, <4>3
      <4> QED
        BY <4>4 DEF Seen
    <3> QED
      BY <3>1, <3>2
  <2> HIDE DEF new
  <2>7. SourceOK(r)'
    BY <2>1, <2>4, <2>6 DEF SourceOK, Seen
  <2>8. ReadType(r)' /\ out'[r] = <<>>
    BY <2>1, <2>4 DEF SInv, ReaderOK, ReadType, ReadOK, ReadLabels, At
  <2>9. ReaderOK(r)'
    BY <2>4, <2>7, <2>8, Quiet
  <2>10. \A q \in Readers : q # r => Still(q)
    BY <2>1 DEF SInv, Domains, Still
  <2> QED
    BY <2>1, <2>2, <2>3, <2>9, <2>10, OneReader
<1> QED
  BY <1>1, <1>2

\* A read begins, or ends at once.
LEMMA ReadAtKeeps ==
  ASSUME SInv, NEW r \in Readers, NEW o \in Int, NEW n \in Nat, ReadAt(r, o, n), UNCHANGED conf
  PROVE  SInv'
<1>0. /\ pc[r] = "idle" /\ UNCHANGED <<remote, blocks, src, data, out>>
      /\ off' = [off EXCEPT ![r] = o] /\ len' = [len EXCEPT ![r] = n]
      /\ blk' = [blk EXCEPT ![r] = IF o < 0 THEN 0 ELSE o \div BlockSize]
  BY DEF ReadAt, At
<1>1. ServerOK'
  BY <1>0, SameServer DEF SInv
<1>2. Domains'
  BY <1>0 DEF SInv, Domains, ReadAt, Goto, Finish
<1>3. off'[r] = o /\ len'[r] = n /\ blk'[r] = (IF o < 0 THEN 0 ELSE o \div BlockSize)
  BY <1>0 DEF SInv, Domains
<1>4. out'[r] = <<>> /\ Len(out'[r]) = 0 /\ src'[r] = src[r]
  <2>1. out'[r] = <<>> /\ src'[r] = src[r]
    BY <1>0 DEF SInv, ReaderOK, ReadOK
  <2> QED
    BY <2>1, SMT
<1>5. src[r] \in Seen /\ Seen' = Seen
  BY <1>0 DEF SInv, ReaderOK, SourceOK, Seen
<1>6. SourceOK(r)'
  <2>1. pc'[r] # "probe"
    BY <1>0 DEF ReadAt, Goto, Finish, SInv, Domains
  <2> QED
    BY <1>4, <1>5, <2>1 DEF SourceOK
<1>7. BytesOK(r)'
  BY <1>4, SMT DEF BytesOK
<1>8. blk'[r] \in Nat
  <2>1. CASE o < 0
    BY <1>3, <2>1, SMT
  <2>2. CASE ~(o < 0)
    <3>1. o \in Nat
      BY <2>2, SMT
    <3> QED
      BY <1>3, <2>2, <3>1, BlockOfByte
  <2> QED
    BY <2>1, <2>2
<1>9. \A q \in Readers : q # r => Still(q)
  <2>1. \A q \in Readers : q # r => pc'[q] = pc[q] /\ res'[q] = res[q]
    BY DEF SInv, Domains, ReadAt, Goto, Finish
  <2>2. \A q \in Readers : q # r => off'[q] = off[q] /\ len'[q] = len[q] /\ blk'[q] = blk[q]
    BY <1>0 DEF SInv, Domains
  <2> QED
    BY <1>0, <2>1, <2>2 DEF Still
<1>10. ASSUME NEW e \in {"nil", "eof", "err"}, Finish(r, e), e # "err" => Ends(r)'
       PROVE  ReaderOK(r)'
  <2>1. pc'[r] = "done" /\ res'[r] = e
    BY <1>10 DEF Finish, Goto, SInv, Domains
  <2>2. ReadType(r)'
    BY <1>0, <1>3, <1>8, <2>1 DEF SInv, ReaderOK, ReadType, ReadLabels
  <2>3. ReadOK(r)'
    BY <1>7, <1>10, <2>1 DEF ReadOK, Direct, InBlocks, Flight
  <2> QED
    BY <1>6, <2>2, <2>3 DEF ReaderOK
<1>11. ReaderOK(r)'
  <2>1. CASE n = 0
    <3>1. Finish(r, "nil") /\ res'[r] = "nil"
      BY <2>1 DEF ReadAt, Finish, SInv, Domains
    <3>2. Ends(r)'
      BY <1>3, <1>4, <2>1, <3>1, SMT DEF Ends
    <3> QED
      BY <1>10, <3>1, <3>2
  <2>2. CASE n # 0 /\ o < 0
    <3>1. Finish(r, "err")
      BY <2>2 DEF ReadAt
    <3> QED
      BY <1>10, <3>1
  <2>3. CASE n # 0 /\ ~(o < 0) /\ o >= src[r].size
    <3>1. Finish(r, "eof") /\ res'[r] = "eof"
      BY <2>3 DEF ReadAt, Finish, SInv, Domains
    <3>2. 0 < n
      BY <2>3, SMT
    <3>3. Ends(r)'
      BY <1>3, <1>4, <2>3, <3>1, <3>2, SMT DEF Ends
    <3> QED
      BY <1>10, <3>1, <3>3
  <2>4. CASE n # 0 /\ ~(o < 0) /\ ~(o >= src[r].size)
    <3>1. pc'[r] \in {"direct", "block"} /\ res' = res
      BY <2>4 DEF ReadAt, Goto, SInv, Domains
    <3>2. ReadType(r)'
      BY <1>0, <1>3, <1>8, <3>1 DEF SInv, ReaderOK, ReadType, ReadLabels, Direct, InBlocks
    <3>3. PICK v \in 1..remote : src[r] = [etag |-> v, size |-> VersionSize[v]]
      BY <1>5 DEF Seen
    <3>4. v \in Versions
      BY SizesOK, SMT DEF SInv, ServerOK
    <3>5. src[r].size \in Nat
      BY <3>3, <3>4, SizesOK, SMT
    <3>6. o \in Nat /\ o < src[r].size /\ n > 0 /\ n \in Int /\ src[r].size - o \in Int
      BY <2>4, <3>5, SMT
    <3>7. Expected(r)' = IF n <= src[r].size - o THEN n ELSE src[r].size - o
      <4>1. Expected(r)' = Min({n, src[r].size - o})
        BY <1>3, <1>4 DEF Expected, ExpectedOf
      <4>2. Min({n, src[r].size - o}) = IF n <= src[r].size - o THEN n ELSE src[r].size - o
        BY <3>6, OfTwo
      <4> QED
        BY <4>1, <4>2
    <3>8. BlockStart(r)' = (o \div BlockSize) * BlockSize
      BY <1>3, <2>4 DEF BlockStart
    <3>9. /\ o \div BlockSize \in Nat /\ (o \div BlockSize) * BlockSize \in Nat
          /\ (o \div BlockSize) * BlockSize <= o /\ o < (o \div BlockSize) * BlockSize + BlockSize
      <4>1. o \div BlockSize \in Nat /\ o < (o \div BlockSize) * BlockSize + BlockSize
        BY <3>6, BlockOfByte
      <4>2. o \div BlockSize <= o \div BlockSize
        BY <4>1, SMT
      <4> QED
        BY <3>6, <4>1, <4>2, BlockOfByte
    <3>10. /\ BlockStart(r)' < off'[r] + Expected(r)' /\ off'[r] < BlockStart(r)' + BlockSize
           /\ off'[r] >= BlockStart(r)'
      BY <1>3, <3>5, <3>6, <3>7, <3>8, <3>9, SMT
    <3>11. LoopOK(r)'
      BY <1>4, <3>10, SMT DEF LoopOK
    <3>12. off'[r] \in Nat /\ off'[r] < src'[r].size /\ len'[r] > 0
      BY <1>3, <1>4, <3>6
    <3>13. ReadOK(r)'
      BY <1>4, <1>7, <3>1, <3>11, <3>12 DEF ReadOK, Direct, InBlocks, Flight
    <3> QED
      BY <1>6, <3>2, <3>13 DEF ReaderOK
  <2> QED
    BY <2>1, <2>2, <2>3, <2>4
<1> QED
  BY <1>0, <1>1, <1>2, <1>9, <1>11, OneReader

\* ReadRange clamps the length and reads.
LEMMA ReadRangeKeeps ==
  ASSUME SInv, NEW r \in Readers, NEW o \in Int, NEW n \in Nat, ReadRange(r, o, n), UNCHANGED conf
  PROVE  SInv'
<1>1. pc[r] = "idle" /\ 0 <= o /\ o < src[r].size
  BY DEF ReadRange, ReadAt, At
<1>2. PICK v \in 1..remote : src[r] = [etag |-> v, size |-> VersionSize[v]]
  BY <1>1 DEF SInv, ReaderOK, SourceOK, Seen
<1>3. v \in Versions
  BY SizesOK, SMT DEF SInv, ServerOK
<1>4. src[r].size \in Nat
  BY <1>2, <1>3, SizesOK, SMT
<1>5. n \in Int /\ src[r].size - o \in Int /\ src[r].size - o \in Nat
  BY <1>1, <1>4, SMT
<1>6. Min({n, src[r].size - o}) \in Nat
  BY <1>5, OfTwo
<1> QED
  BY <1>6, ReadAtKeeps DEF ReadRange

\* A reader goes on, and nothing else changes but what it has fetched.
LEMMA MoveKeeps ==
  ASSUME SInv, NEW r \in Readers, NEW l, Goto(r, l), ServerOK',
         \/ pc[r] \in Direct /\ l \in Direct
         \/ pc[r] \in InBlocks /\ l \in InBlocks,
         l \in {"store", "rename"} => FetchedOK(r)',
         UNCHANGED <<remote, src, off, len, blk, out, res, conf>>,
         DOMAIN data' = Readers, \A q \in Readers : q # r => data'[q] = data[q]
  PROVE  SInv'
<1> USE DEF Goto
<1>1. Domains'
  BY DEF SInv, Domains
<1>2. pc'[r] = l
  BY DEF SInv, Domains
<1>3. ReaderOK(r)'
  BY <1>2, Moves DEF SInv
<1>4. \A q \in Readers : q # r => Still(q)
  BY DEF SInv, Domains, Still
<1> QED
  BY <1>1, <1>3, <1>4, OneReader

\* The call is joined or made.
LEMMA DoKeeps ==
  ASSUME SInv, NEW r \in Readers, Do(r), UNCHANGED conf
  PROVE  SInv'
<1>1. PICK l \in {"wait", "lookup"} : Goto(r, l)
  BY DEF Do
<1>2. ServerOK'
  BY SameServer DEF SInv, Do
<1> QED
  BY <1>1, <1>2, MoveKeeps DEF SInv, Domains, Do, At, InBlocks, Flight

\* The cache is asked.
LEMMA LookupKeeps ==
  ASSUME SInv, NEW r \in Readers, Lookup(r), UNCHANGED conf
  PROVE  SInv'
<1> DEFINE d == blocks[KeyOf(r)]
<1>0. pc[r] = "lookup" /\ UNCHANGED <<remote, blocks, src, off, len, data>>
  BY DEF Lookup, At
<1>1. ServerOK'
  BY <1>0, SameServer DEF SInv
<1>2. CASE d # None /\ d.length = BlockLen(r)
  <2>1. Deliver(Served(r), d)
    BY <1>2 DEF Lookup
  <2>2. pc[r] \in Flight
    BY <1>0 DEF Flight
  <2>3. d \in Block /\ d.from = BlockStart(r) /\ (ETags => d.ver >= src[r].etag)
    BY <1>2, <2>2, CachedOK
  <2>4. DOMAIN data' = Readers /\ \A q \in Readers : q # r => data'[q] = data[q]
    BY <1>0 DEF SInv, Domains
  <2> QED
    BY <1>0, <1>1, <2>1, <2>2, <2>3, <2>4, DeliverKeeps
<1>3. CASE ~(d # None /\ d.length = BlockLen(r))
  <2>1. UNCHANGED <<out, blk, res>> /\ Goto(r, IF d = None THEN "fetch" ELSE "drop")
    BY <1>3 DEF Lookup
  <2>2. PICK l \in {"fetch", "drop"} : Goto(r, l)
    BY <2>1
  <2> QED
    BY <1>0, <1>1, <2>1, <2>2, MoveKeeps DEF SInv, Domains, InBlocks, Flight
<1> QED
  BY <1>2, <1>3

\* A file of the wrong length is removed.
LEMMA DropKeeps ==
  ASSUME SInv, NEW r \in Readers, Drop(r), UNCHANGED conf
  PROVE  SInv'
<1>0. pc[r] = "drop" /\ pc[r] \in InBlocks
  BY DEF Drop, At, InBlocks, Flight
<1>1. KeyOf(r) \in Keys
  BY <1>0, AtBlock DEF SInv
<1>2. ServerOK'
  BY <1>1, Stores DEF Drop
<1> QED
  BY <1>0, <1>2, MoveKeeps DEF SInv, Domains, Drop, InBlocks, Flight

\* 412: the request is sent again without conditions.
LEMMA PreconditionKeeps ==
  ASSUME SInv, NEW r \in Readers, PreconditionFailed(r), UNCHANGED conf
  PROVE  SInv'
<1>0. pc[r] \in {"direct", "fetch"}
  BY DEF PreconditionFailed, Unmet
<1>1. Goto(r, IF pc[r] = "direct" THEN "directagain" ELSE "fetchagain")
  BY DEF PreconditionFailed, Unconditionally, At
<1>2. ServerOK'
  BY SameServer DEF SInv, PreconditionFailed
<1>3. CASE pc[r] = "direct"
  BY <1>1, <1>2, <1>3, MoveKeeps DEF SInv, Domains, PreconditionFailed, Direct
<1>4. CASE pc[r] = "fetch"
  BY <1>1, <1>2, <1>4, MoveKeeps DEF SInv, Domains, PreconditionFailed, InBlocks, Flight
<1> QED
  BY <1>0, <1>3, <1>4

\* The server answers a request for a block.
LEMMA FetchKeeps ==
  ASSUME SInv, NEW r \in Readers, FetchResponds(r), UNCHANGED conf
  PROVE  SInv'
<1> DEFINE d == [ver |-> remote, from |-> From(r), length |-> Length(r)]
<1>0. pc[r] \in {"fetch", "fetchagain"} /\ UNCHANGED <<remote, blocks, src, off, len>>
  BY DEF FetchResponds
<1>1. pc[r] \in Flight /\ pc[r] \in InBlocks
  BY <1>0 DEF Flight, InBlocks
<1>2. ServerOK'
  BY <1>0, SameServer DEF SInv
<1>3. From(r) = BlockStart(r) /\ Length(r) = BlockLen(r)
  BY <1>0 DEF From, Length
<1>4. CASE From(r) >= VersionSize[remote]
  <2>1. DeliverError(Served(r), "eof") /\ UNCHANGED data
    BY <1>4 DEF FetchResponds
  <2> QED
    BY <1>0, <1>1, <1>3, <1>4, <2>1, DeliverErrorKeeps
<1>5. CASE ~(From(r) >= VersionSize[remote]) /\ From(r) + Length(r) > VersionSize[remote]
  <2>1. DeliverError(Served(r), "err") /\ UNCHANGED data
    BY <1>5 DEF FetchResponds
  <2> QED
    BY <1>0, <1>1, <2>1, DeliverErrorKeeps
<1>6. CASE ~(From(r) >= VersionSize[remote]) /\ ~(From(r) + Length(r) > VersionSize[remote])
  <2>1. data' = [data EXCEPT ![r] = d] /\ Goto(r, "store") /\ UNCHANGED <<out, blk, res>>
    BY <1>6 DEF FetchResponds
  <2>2. BlockStart(r) \in Nat /\ BlockLen(r) \in Nat
    BY <1>1, AtBlock DEF SInv
  <2>3. src[r].etag \in 1..remote
    BY <1>1, RangeOK DEF SInv
  <2>4. remote >= src[r].etag
    BY <2>3, SizesOK, SMT DEF SInv, ServerOK
  <2>5. d \in Block /\ d.from = BlockStart(r) /\ d.ver = remote
    BY <1>3, <2>2 DEF Block, SInv, ServerOK
  <2> HIDE DEF d
  <2>6. data'[r] = d /\ DOMAIN data' = Readers /\ \A q \in Readers : q # r => data'[q] = data[q]
    BY <2>1 DEF SInv, Domains
  <2>7. BlockStart(r)' = BlockStart(r)
    BY <2>1 DEF BlockStart
  <2>8. FetchedOK(r)'
    BY <1>0, <2>4, <2>5, <2>6, <2>7 DEF FetchedOK, ETags
  <2> QED
    BY <1>0, <1>1, <1>2, <2>1, <2>6, <2>8, MoveKeeps DEF InBlocks, Flight
<1> QED
  BY <1>4, <1>5, <1>6

\* A fetched block is returned.
LEMMA FetchedKeeps ==
  ASSUME SInv, NEW r \in Readers, pc[r] \in {"store", "rename"}, Deliver(Served(r), data[r]),
         data' = [data EXCEPT ![r] = None], UNCHANGED <<remote, src, off, len, conf>>, ServerOK'
  PROVE  SInv'
<1>1. pc[r] \in Flight
  BY DEF Flight
<1>2. data[r] \in Block /\ data[r].from = BlockStart(r) /\ (ETags => data[r].ver >= src[r].etag)
  BY DEF SInv, ReaderOK, ReadOK, FetchedOK
<1>3. DOMAIN data' = Readers /\ \A q \in Readers : q # r => data'[q] = data[q]
  BY DEF SInv, Domains
<1> QED
  BY <1>1, <1>2, <1>3, DeliverKeeps

\* The block is not stored, or about to be.
LEMMA StoreKeeps ==
  ASSUME SInv, NEW r \in Readers, Store(r), UNCHANGED conf
  PROVE  SInv'
<1>0. pc[r] = "store" /\ UNCHANGED <<remote, blocks, src, off, len>>
  BY DEF Store, At
<1>1. ServerOK'
  BY <1>0, SameServer DEF SInv
<1>2. CASE Goto(r, "rename") /\ UNCHANGED <<out, blk, res, data>>
  <2>1. FetchedOK(r)'
    BY <1>0, <1>2 DEF SInv, ReaderOK, ReadOK, FetchedOK, BlockStart, ETags
  <2> QED
    BY <1>0, <1>1, <1>2, <2>1, MoveKeeps DEF SInv, Domains, InBlocks, Flight
<1>3. CASE Deliver(Served(r), data[r]) /\ data' = [data EXCEPT ![r] = None]
  BY <1>0, <1>1, <1>3, FetchedKeeps
<1> QED
  BY <1>2, <1>3 DEF Store

\* The block is stored.
LEMMA RenameKeeps ==
  ASSUME SInv, NEW r \in Readers, Rename(r), UNCHANGED conf
  PROVE  SInv'
<1>0. pc[r] = "rename" /\ pc[r] \in InBlocks
  BY DEF Rename, At, InBlocks, Flight
<1>1. /\ KeyOf(r) \in Keys /\ KeyOf(r)[2] = blk[r]
      /\ ETags => KeyOf(r)[1] = <<"etag", src[r].etag>>
  BY <1>0, AtBlock DEF SInv
<1>2. data[r] \in Block /\ data[r].from = BlockStart(r) /\ (ETags => data[r].ver >= src[r].etag)
  BY <1>0 DEF SInv, ReaderOK, ReadOK, FetchedOK
<1>3. KeyOf(r)[1][1] = "etag" => data[r].ver >= KeyOf(r)[1][2]
  <2>1. CASE ETags
    BY <1>1, <1>2, <2>1, SMT
  <2>2. CASE ~ETags
    <3>1. KeyOf(r)[1][1] = "size"
      BY <2>2 DEF KeyOf, SourceID
    <3> QED
      BY <3>1
  <2> QED
    BY <2>1, <2>2
<1>4. ServerOK'
  BY <1>1, <1>2, <1>3, Stores DEF Rename, BlockStart
<1> QED
  BY <1>0, <1>4, FetchedKeeps DEF Rename

\* A reader of a direct range ends with an error or early.
LEMMA DirectEnds ==
  ASSUME SInv, NEW r \in Readers, pc[r] \in Direct,
         NEW e \in {"eof", "err"}, e = "eof" => VersionSize[remote] < src[r].size,
         Finish(r, e), UNCHANGED <<remote, blocks, src, off, len, blk, data, out, conf>>
  PROVE  SInv'
<1> USE DEF Finish, Goto
<1>1. ServerOK'
  BY SameServer DEF SInv
<1>2. Domains'
  BY DEF SInv, Domains
<1>3. pc'[r] = "done" /\ res'[r] = e
  BY DEF SInv, Domains
<1>4. ReaderOK(r)'
  BY <1>3, EndsEarly DEF SInv
<1>5. \A q \in Readers : q # r => Still(q)
  BY DEF SInv, Domains, Still
<1> QED
  BY <1>1, <1>2, <1>4, <1>5, OneReader

\* The server answers a request for the whole range.
LEMMA DirectKeeps ==
  ASSUME SInv, NEW r \in Readers, DirectResponds(r), UNCHANGED conf
  PROVE  SInv'
<1> DEFINE n == Min({Length(r), VersionSize[remote] - From(r)})
<1> DEFINE new == [i \in 1..n |-> [pos |-> From(r) + i - 1, ver |-> remote]]
<1> DEFINE e == IF n < Length(r) THEN "err" ELSE EOFOrNil(r)
<1>0. pc[r] \in Direct /\ UNCHANGED <<remote, blocks, src, off, len, blk, data>>
  BY DEF DirectResponds, Direct
<1>1. From(r) = off[r] /\ Length(r) = Expected(r)
  BY <1>0 DEF From, Length, Direct
<1>2. /\ src[r].etag \in 1..remote /\ src[r].size \in Nat /\ off[r] \in Nat /\ len[r] \in Nat
      /\ len[r] > 0 /\ off[r] < src[r].size /\ Expected(r) \in Nat /\ Expected(r) > 0
  BY <1>0, RangeOK DEF SInv
<1>3. remote \in Versions /\ remote \in Nat /\ VersionSize[remote] \in Nat /\ src[r].etag <= remote
  <2>1. remote \in Versions
    BY DEF SInv, ServerOK
  <2>2. remote \in Nat
    BY <2>1, SizesOK, SMT
  <2> QED
    BY <1>2, <2>1, <2>2, SizesOK, SMT
<1>4. CASE From(r) >= VersionSize[remote]
  <2>1. Finish(r, "eof") /\ UNCHANGED out
    BY <1>4 DEF DirectResponds
  <2>2. VersionSize[remote] < src[r].size
    BY <1>1, <1>2, <1>3, <1>4, SMT
  <2> QED
    BY <1>0, <2>1, <2>2, DirectEnds
<1>5. CASE ~(From(r) >= VersionSize[remote])
  <2>1. out' = [out EXCEPT ![r] = new] /\ Finish(r, e)
    BY <1>5 DEF DirectResponds
  <2>2. Expected(r) \in Int /\ VersionSize[remote] - off[r] \in Int
    BY <1>2, <1>3, SMT
  <2>3. n = IF Expected(r) <= VersionSize[remote] - off[r] THEN Expected(r) ELSE VersionSize[remote] - off[r]
    <3>1. n = Min({Expected(r), VersionSize[remote] - off[r]})
      BY <1>1
    <3> QED
      BY <2>2, <3>1, OfTwo
  <2>4. n \in Nat /\ n <= Expected(r)
    BY <1>1, <1>2, <1>3, <1>5, <2>3, SMT
  <2> HIDE DEF n
  <2>5. new \in Seq(Byte) /\ Len(new) = n /\ \A i \in 1..n : new[i] = [pos |-> off[r] + i - 1, ver |-> remote]
    <3>1. \A i \in 1..n : [pos |-> off[r] + i - 1, ver |-> remote] \in Byte
      BY <1>2, <1>3, <2>4, SMT DEF Byte
    <3>2. new = [i \in 1..n |-> [pos |-> off[r] + i - 1, ver |-> remote]]
      BY <1>1
    <3> HIDE DEF new
    <3> QED
      BY <2>4, <3>1, <3>2, SMT
  <2>6. e \in {"nil", "eof", "err"} /\ (e # "err" => n = Expected(r) /\ e = EOFOrNil(r))
    BY <1>1, <1>2, <2>4, SMT DEF EOFOrNil
  <2> HIDE DEF new, e
  <2>7. /\ out'[r] = new /\ pc'[r] = "done" /\ res'[r] = e /\ src'[r] = src[r] /\ off'[r] = off[r]
        /\ len'[r] = len[r] /\ blk'[r] = blk[r]
    BY <1>0, <2>1 DEF Finish, Goto, SInv, Domains
  <2>8. ServerOK'
    BY <1>0, SameServer DEF SInv
  <2>9. Domains'
    BY <1>0, <2>1 DEF SInv, Domains, Finish, Goto
  <2>10. \A q \in Readers : q # r => Still(q)
    BY <1>0, <2>1 DEF SInv, Domains, Still, Finish, Goto
  <2>11. ReadType(r)'
    BY <2>5, <2>6, <2>7 DEF SInv, ReaderOK, ReadType, ReadLabels
  <2>12. SourceOK(r)'
    <3>1. src[r] \in Seen /\ Seen' = Seen
      BY <1>0 DEF SInv, ReaderOK, SourceOK, Direct, Seen
    <3> QED
      BY <2>7, <3>1 DEF SourceOK
  <2>13. BytesOK(r)'
    <3>1. remote >= src[r].etag
      BY <1>2, <1>3, SMT
    <3> QED
      BY <2>5, <2>7, <3>1, SMT DEF BytesOK
  <2>14. res'[r] # "err" => Ends(r)'
    <3>1. Expected(r)' = Expected(r)
      BY <1>0 DEF Expected, ExpectedOf
    <3>2. ~(len'[r] = 0 \/ off'[r] >= src'[r].size)
      BY <1>2, <2>7, SMT
    <3> QED
      BY <2>5, <2>6, <2>7, <3>1, <3>2 DEF Ends, EOFOrNil
  <2>15. ReadOK(r)'
    BY <2>7, <2>13, <2>14 DEF ReadOK, Direct, InBlocks, Flight
  <2>16. ReaderOK(r)'
    BY <2>11, <2>12, <2>15 DEF ReaderOK
  <2> QED
    BY <1>0, <2>8, <2>9, <2>10, <2>16, OneReader
<1> QED
  BY <1>4, <1>5

\* The caller has the result.
LEMMA ReturnKeeps ==
  ASSUME SInv, NEW r \in Readers, Return(r), UNCHANGED conf
  PROVE  SInv'
<1>0. /\ pc[r] = "done" /\ UNCHANGED <<remote, blocks, data>>
      /\ off' = [off EXCEPT ![r] = 0] /\ len' = [len EXCEPT ![r] = 0] /\ blk' = [blk EXCEPT ![r] = 0]
      /\ out' = [out EXCEPT ![r] = <<>>] /\ res' = [res EXCEPT ![r] = "nil"]
      /\ \/ pc' = [pc EXCEPT ![r] = "idle"] /\ src' = src
         \/ pc' = [pc EXCEPT ![r] = "closed"] /\ src' = [src EXCEPT ![r] = Closed]
  BY DEF Return, At, Goto
<1>1. ServerOK'
  BY <1>0, SameServer DEF SInv
<1>2. Domains'
  BY <1>0 DEF SInv, Domains
<1>3. /\ off'[r] = 0 /\ len'[r] = 0 /\ blk'[r] = 0 /\ out'[r] = <<>> /\ res'[r] = "nil"
      /\ pc'[r] = "closed" \/ (pc'[r] = "idle" /\ src'[r] = src[r])
  BY <1>0 DEF SInv, Domains
<1>4. ReadType(r)'
  <2>1. 0 \in Nat /\ 0 \in Int /\ <<>> \in Seq(Byte)
    BY SMT
  <2> QED
    BY <1>3, <2>1 DEF ReadType, ReadLabels
<1>5. SourceOK(r)'
  <2>1. src[r] \in Seen /\ Seen' = Seen
    BY <1>0 DEF SInv, ReaderOK, SourceOK, Seen
  <2> QED
    BY <1>3, <2>1 DEF SourceOK
<1>6. ReaderOK(r)'
  BY <1>3, <1>4, <1>5, Quiet
<1>7. \A q \in Readers : q # r => Still(q)
  BY <1>0 DEF SInv, Domains, Still
<1> QED
  BY <1>0, <1>1, <1>2, <1>6, <1>7, OneReader

\* A request fails.
LEMMA FailKeeps ==
  ASSUME SInv, NEW r \in Readers, RequestFails(r), UNCHANGED conf
  PROVE  SInv'
<1>1. CASE /\ At(r, "probe") /\ src' = [src EXCEPT ![r] = Closed]
           /\ Goto(r, "closed") /\ UNCHANGED <<out, blk, res>>
  BY <1>1, CloseKeeps DEF RequestFails
<1>2. CASE pc[r] \in Direct /\ Finish(r, "err") /\ UNCHANGED <<src, out, blk>>
  BY <1>2, DirectEnds DEF RequestFails
<1>3. CASE pc[r] \in {"fetch", "fetchagain"} /\ DeliverError(Served(r), "err") /\ UNCHANGED src
  BY <1>3, DeliverErrorKeeps DEF RequestFails, Flight
<1> QED
  BY <1>1, <1>2, <1>3 DEF RequestFails, Direct

\* The resource is replaced.
LEMMA ReplaceKeeps ==
  ASSUME SInv, Replace, UNCHANGED conf
  PROVE  SInv'
<1>1. conf.versions \in Versions /\ remote \in Versions
  BY BlockSourceAssumption DEF SInv, ServerOK
<1>2. remote \in Nat /\ remote' \in Nat /\ remote <= remote' /\ remote' \in Versions
  BY <1>1, SizesOK, SMT DEF Replace
<1>3. ServerOK'
  BY <1>2 DEF SInv, ServerOK, BlockOK, Replace
<1>4. Domains'
  BY DEF SInv, Domains, Replace, reads
<1>5. ASSUME NEW q \in Readers PROVE ReaderOK(q)'
  BY <1>2, Rests DEF SInv, Replace, reads
<1> QED
  BY <1>3, <1>4, <1>5 DEF SInv

\* Files of the cache are lost or truncated.
LEMMA DamageKeeps ==
  ASSUME SInv, NEW k \in Keys, Damage(k), UNCHANGED conf
  PROVE  SInv'
<1>1. PICK d \in {None, [blocks[k] EXCEPT !.length = 0]} : blocks' = [blocks EXCEPT ![k] = d]
  BY DEF Damage
<1>2. BlockOK(k) /\ blocks[k] # None
  BY DEF SInv, ServerOK, Damage
<1>3. d # None => /\ d \in Block /\ d.from = k[2] * BlockSize
                  /\ k[1][1] = "etag" => d.ver >= k[1][2]
  <2>1. [blocks[k] EXCEPT !.length = 0] \in Block
    BY <1>2, SMT DEF BlockOK, Block
  <2>2. /\ [blocks[k] EXCEPT !.length = 0].from = blocks[k].from
        /\ [blocks[k] EXCEPT !.length = 0].ver = blocks[k].ver
    BY <1>2, SMT DEF BlockOK, Block
  <2> QED
    BY <1>1, <1>2, <2>1, <2>2 DEF BlockOK
<1>4. ServerOK'
  BY <1>1, <1>3, Stores DEF Damage
<1>5. remote' = remote /\ remote \in Nat /\ remote <= remote
  BY SizesOK, SMT DEF SInv, ServerOK, Damage
<1>6. Domains'
  BY DEF SInv, Domains, Damage, reads
<1>7. ASSUME NEW q \in Readers PROVE ReaderOK(q)'
  BY <1>5, Rests DEF SInv, Damage, reads
<1> QED
  BY <1>4, <1>6, <1>7 DEF SInv

\* Initially no source is open and nothing is cached.
LEMMA SInvInit == Init => SInv
<1> SUFFICES ASSUME Init PROVE SInv
  OBVIOUS
<1>1. ServerOK
  BY SizesOK DEF Init, ServerOK, BlockOK
<1>2. Domains
  BY DEF Init, Domains
<1>3. ASSUME NEW r \in Readers PROVE ReaderOK(r)
  <2>1. 0 \in Nat /\ 0 \in Int /\ <<>> \in Seq(Byte) /\ Len(<<>>) = 0
    BY SMT
  <2>2. pc[r] = "closed" /\ out[r] = <<>> /\ off[r] = 0 /\ len[r] = 0 /\ blk[r] = 0 /\ res[r] = "nil"
    BY DEF Init
  <2>3. ReadType(r)
    BY <2>1, <2>2 DEF ReadType, ReadLabels
  <2>4. SourceOK(r)
    BY <2>2 DEF SourceOK
  <2>5. BytesOK(r)
    BY <2>1, <2>2, SMT DEF BytesOK
  <2>6. ReadOK(r)
    BY <2>2, <2>5 DEF ReadOK, Direct, InBlocks, Flight
  <2> QED
    BY <2>3, <2>4, <2>6 DEF ReaderOK
<1> QED
  BY <1>1, <1>2, <1>3 DEF SInv

\* Every step keeps the invariant.
LEMMA SInvNext == SInv /\ [Next]_vars => SInv'
<1> SUFFICES ASSUME SInv, [Next]_vars PROVE SInv'
  OBVIOUS
<1>1. CASE UNCHANGED vars
  <2>1. remote' = remote /\ remote \in Nat /\ remote <= remote
    BY <1>1, SizesOK, SMT DEF SInv, ServerOK, vars
  <2>2. ServerOK'
    BY <1>1, SameServer DEF SInv, vars
  <2>3. Domains'
    BY <1>1 DEF SInv, Domains, vars, reads
  <2>4. ASSUME NEW q \in Readers PROVE ReaderOK(q)'
    BY <1>1, <2>1, Rests DEF SInv, vars, reads
  <2> QED
    BY <2>2, <2>3, <2>4 DEF SInv
<1>2. ASSUME NEW r \in Readers, Call(r), UNCHANGED conf PROVE SInv'
  <2>1. conf.offsets \subseteq Int /\ conf.lengths \subseteq Nat
    BY BlockSourceAssumption DEF SInv, ServerOK
  <2>2. CASE DoHead(r)
    BY <1>2, <2>2, HeadKeeps DEF DoHead
  <2>3. ASSUME NEW o \in conf.offsets, NEW n \in conf.lengths, ReadAt(r, o, n) \/ ReadRange(r, o, n)
        PROVE  SInv'
    BY <1>2, <2>1, <2>3, ReadAtKeeps, ReadRangeKeeps
  <2> QED
    BY <1>2, <2>2, <2>3 DEF Call
<1>3. ASSUME NEW r \in Readers, Step(r), UNCHANGED conf PROVE SInv'
  BY <1>3, ProbeKeeps, DoKeeps, LookupKeeps, DropKeeps, PreconditionKeeps, FetchKeeps, StoreKeeps,
     RenameKeeps, DirectKeeps, ReturnKeeps DEF Step
<1> QED
  BY <1>1, <1>2, <1>3, FailKeeps, ReplaceKeeps, DamageKeeps DEF Next

\* The invariant says what the properties say.
LEMMA SInvImplies == SInv => ReadExact /\ NoOlderBytes
<1> SUFFICES ASSUME SInv PROVE ReadExact /\ NoOlderBytes
  OBVIOUS
<1>1. ASSUME NEW r \in Readers
      PROVE  /\ DOMAIN out[r] = 1..Len(out[r])
             /\ BytesOK(r)
             /\ pc[r] = "done" /\ res[r] # "err" => Ends(r)
  <2>1. out[r] \in Seq(Byte)
    BY DEF SInv, ReaderOK, ReadType
  <2>2. DOMAIN out[r] = 1..Len(out[r])
    BY <2>1, SMT
  <2> QED
    BY <2>2 DEF SInv, ReaderOK, ReadOK
<1>2. ReadExact
  BY <1>1 DEF ReadExact, BytesOK, Ends, At
<1>3. NoOlderBytes
  BY <1>1 DEF NoOlderBytes, BytesOK
<1> QED
  BY <1>2, <1>3

\* ReadAt of the wrapped source returns exactly the bytes asked for, each from its
\* place, for blocks, reads, offsets and resources of any size, from the cache,
\* the server or both; only a resource that had become shorter gives less.
THEOREM ReadExactHolds == Spec => []ReadExact
  BY SInvInit, SInvNext, SInvImplies, PTL DEF Spec

\* Where the server sends ETags, no byte is older than the version that the source
\* found when it was opened, whoever filled the shared cache.
THEOREM NoOlderBytesHolds == Spec => []NoOlderBytes
  BY SInvInit, SInvNext, SInvImplies, PTL DEF Spec

-----------------------------------------------------------------------------
(* AuthHeaders *)

Entry == [value : Nat, expires : Int]
InLookup(c) == hpc[c] \in {"get", "lookup", "set"}

\* The types that the argument needs; credentials in the store have been issued.
Shape ==
    /\ creds \in [Addresses -> Nat] /\ \A a \in Addresses : creds[a] <= issued
    /\ issued \in 0..MaxIssued
    /\ clock \in Nat
    /\ entry \in [Hosts -> Entry]
    /\ hpc \in [Clients -> {"none", "get", "lookup", "set", "ok", "error"}]
    /\ host \in [Clients -> Hosts]
    /\ tried \in [Clients -> Nat]
    /\ header \in [Clients -> Nat]
    /\ began \in [Clients -> Nat]
    /\ until \in [Issues -> Nat]
    /\ revoked \in [Hosts -> SUBSET (1..issued)]
    /\ known \in [Clients -> SUBSET (1..issued)]

\* A lookup has an address left to ask, and has found nothing yet.
Asking ==
    \A c \in Clients : hpc[c] \in {"get", "lookup"} =>
        tried[c] < Len(AddressesOf[host[c]]) /\ header[c] = 0

\* A call that is going on has not taken longer than LookupTime.
Timely ==
    /\ \A v \in Issues : until[v] <= clock
    /\ \A c \in Clients :
          /\ began[c] <= clock
          /\ InLookup(c) => clock <= began[c] + LookupTime

\* What is cached, or about to be, was in the store when it was looked up.
CachedFresh ==
    /\ \A h \in Hosts : entry[h].value # 0 =>
          /\ entry[h].value <= issued
          /\ InStore(entry[h].value) >= entry[h].expires - HeaderTTL - LookupTime
    /\ \A c \in Clients : Doing(c, "set") =>
          /\ header[c] \in 1..issued
          /\ InStore(header[c]) >= began[c]
    /\ \A c \in Clients : Doing(c, "ok") => header[c] <= issued

\* No revoked credential is in the store, in the cache or on its way there.
NotRevoked ==
    /\ \A h \in Hosts, a \in Addresses : creds[a] \notin revoked[h]
    /\ \A h \in Hosts : entry[h].value \notin revoked[h]
    /\ \A c \in Clients : known[c] \subseteq revoked[host[c]]
    /\ \A c \in Clients : Doing(c, "set") => header[c] \notin revoked[host[c]]

HInv == Shape /\ Asking /\ Timely /\ CachedFresh /\ NotRevoked /\ HeaderFresh /\ Refreshed

\* The durations and the bound on credentials are natural numbers.
LEMMA Times == HeaderTTL \in Nat /\ LookupTime \in Nat /\ MaxIssued \in Nat
  BY AuthHeadersAssumption

\* What the assumptions say of the constants.
LEMMA Constants ==
  /\ HeaderTTL \in Nat /\ LookupTime \in Nat /\ MaxIssued \in Nat
  /\ \A h \in Hosts : /\ Len(AddressesOf[h]) \in Nat \ {0}
                      /\ \A i \in 1..Len(AddressesOf[h]) : AddressesOf[h][i] \in Addresses
<1>1. \A h \in Hosts : AddressesOf[h] \in Seq(Addresses) /\ AddressesOf[h] # <<>>
  BY AuthHeadersAssumption
<1> QED
  BY <1>1, AuthHeadersAssumption, SMT

\* Initially nothing is cached or looked up.
LEMMA InitHInv == HeaderInit => HInv
<1> SUFFICES ASSUME HeaderInit PROVE HInv
  OBVIOUS
<1>1. Shape
  BY Constants, SMT DEF HeaderInit, Shape, Entry, NoEntry, Issues
<1>2. Asking /\ Timely
  BY Constants, SMT DEF HeaderInit, Asking, Timely, InLookup, Issues
<1>3. CachedFresh /\ NotRevoked
  BY DEF HeaderInit, CachedFresh, NotRevoked, NoEntry, Doing
<1>4. HeaderFresh /\ Refreshed
  BY DEF HeaderInit, HeaderFresh, Refreshed, Doing
<1> QED
  BY <1>1, <1>2, <1>3, <1>4 DEF HInv

\* While the store and the clock stand still, so does InStore.
LEMMA SameStore ==
  ASSUME UNCHANGED store, NEW v
  PROVE  InStore(v)' = InStore(v)
  BY DEF store, InStore, Stored

\* The time at which a credential was in the store is a number.
LEMMA InStoreInt ==
  ASSUME HInv, NEW v \in 1..issued
  PROVE  InStore(v) \in Int
  BY Times, SMT DEF HInv, Shape, InStore, Issues

\* An entry that is not there is not revoked.
LEMMA NoEntryOK ==
  ASSUME HInv, NEW h \in Hosts
  PROVE  NoEntry.value \notin revoked[h] /\ revoked[h] \subseteq 1..issued
  BY SMT DEF HInv, Shape, NoEntry

\* A credential found in the store is issued, not revoked and in the store now.
LEMMA FoundFacts ==
  ASSUME HInv, NEW c \in Clients, Doing(c, "lookup")
  PROVE  /\ Found(c) \in 0..issued
         /\ Found(c) \notin revoked[host[c]]
         /\ InStore(Found(c)) = clock
<1> DEFINE a == AddressesOf[host[c]][tried[c] + 1]
<1>1. host[c] \in Hosts /\ tried[c] \in Nat /\ tried[c] < Len(AddressesOf[host[c]])
  BY DEF HInv, Shape, Asking, Doing
<1>2. a \in Addresses
  BY <1>1, Constants, SMT
<1>3. Found(c) = creds[a]
  BY DEF Found, Asked
<1>4. Found(c) \in 0..issued
  BY <1>2, <1>3, SMT DEF HInv, Shape
<1>5. Found(c) \notin revoked[host[c]]
  BY <1>1, <1>2, <1>3 DEF HInv, NotRevoked
<1>6. Found(c) \in Stored
  BY <1>2, <1>3 DEF Stored
<1> QED
  BY <1>4, <1>5, <1>6 DEF InStore

\* AuthHeaders is called.
LEMMA CallStep ==
  ASSUME HInv, NEW c \in Clients, NEW h \in Hosts, AuthHeadersOf(c, h)
  PROVE  HInv'
<1> USE DEF AuthHeadersOf, Proceed, headers
<1>1. Shape'
  BY DEF HInv, Shape, store
<1>2. Asking'
  BY Constants, SMTT(30) DEF HInv, Shape, Asking
<1>3. Timely'
  BY Constants, SMT DEF HInv, Shape, Timely, InLookup, store
<1>4. \A v : InStore(v)' = InStore(v)
  BY SameStore
<1>5. CachedFresh'
  BY <1>4 DEF HInv, Shape, CachedFresh, Doing, store
<1>6. NotRevoked'
  BY DEF HInv, Shape, NotRevoked, Doing, store
<1>7. HeaderFresh' /\ Refreshed'
  BY <1>4 DEF HInv, Shape, HeaderFresh, Refreshed, Doing
<1> QED
  BY <1>1, <1>2, <1>3, <1>5, <1>6, <1>7 DEF HInv

\* A hit, a miss or an expired entry.
LEMMA GetStep ==
  ASSUME HInv, NEW c \in Clients, CacheGet(c)
  PROVE  HInv'
<1> DEFINE h == host[c]
<1>0. h \in Hosts /\ hpc[c] = "get" /\ UNCHANGED <<store, revoked, host, tried, failed, began, known>>
  BY DEF HInv, Shape, CacheGet, Doing, Answer
<1>1. \A g \in Hosts : entry'[g] \in {entry[g], NoEntry}
  BY <1>0 DEF HInv, Shape, CacheGet, Answer, removeLocked
<1>2. entry' \in [Hosts -> Entry]
  BY <1>0, <1>1, SMT DEF HInv, Shape, CacheGet, Answer, removeLocked, NoEntry, Entry
<1>3. \/ hpc' = [hpc EXCEPT ![c] = "lookup"] /\ header' = header
      \/ /\ hpc' = [hpc EXCEPT ![c] = "ok"]
         /\ header' = [header EXCEPT ![c] = entry[h].value]
         /\ ~Expired(h)
  BY DEF CacheGet, Answer, Proceed
<1>4. \A v : InStore(v)' = InStore(v)
  BY <1>0, SameStore
<1>5. Shape'
  BY <1>0, <1>2, <1>3, Zenon DEF HInv, Shape, Entry, store
<1>6. Asking' /\ Timely'
  BY <1>0, <1>3 DEF HInv, Shape, Asking, Timely, InLookup, store
<1>7. CachedFresh'
  BY <1>0, <1>1, <1>3, <1>4, SMT DEF HInv, Shape, CachedFresh, Doing, NoEntry, store, Entry
<1>8. NotRevoked'
  <2>1. \A g \in Hosts : entry'[g].value \notin revoked'[g]
    BY <1>0, <1>1, NoEntryOK DEF HInv, NotRevoked
  <2>2. creds' = creds /\ revoked' = revoked /\ known' = known /\ host' = host
    BY <1>0 DEF store
  <2>3. \A d \in Clients : Doing(d, "set")' => Doing(d, "set") /\ header'[d] = header[d]
    BY <1>0, <1>3 DEF HInv, Shape, Doing
  <2> QED
    BY <2>1, <2>2, <2>3 DEF HInv, NotRevoked
<1>9. HeaderFresh'
  <2>1. ASSUME entry[h].value # 0, ~Expired(h)
        PROVE  InStore(entry[h].value) >= began[c] - HeaderTTL - LookupTime
    <3>1. entry[h] \in Entry /\ clock \in Nat /\ began[c] \in Nat /\ began[c] <= clock
      BY <1>0 DEF HInv, Shape, Timely
    <3>2. clock <= entry[h].expires /\ entry[h].value \in 1..issued
      BY <1>0, <2>1, <3>1, SMT DEF HInv, Shape, Expired, CachedFresh, Entry
    <3>3. InStore(entry[h].value) >= entry[h].expires - HeaderTTL - LookupTime
      BY <1>0, <2>1 DEF HInv, CachedFresh
    <3>4. InStore(entry[h].value) \in Int
      BY <3>2, InStoreInt
    <3> QED
      BY <3>1, <3>2, <3>3, <3>4, Times, SMT DEF Entry
  <2> QED
    BY <1>0, <1>3, <1>4, <2>1 DEF HInv, Shape, HeaderFresh, Doing
<1>10. Refreshed'
  BY <1>0, <1>3 DEF HInv, Shape, Refreshed, NotRevoked, Doing
<1> QED
  BY <1>5, <1>6, <1>7, <1>8, <1>9, <1>10 DEF HInv

\* The store has a credential.
LEMMA FindStep ==
  ASSUME HInv, NEW c \in Clients, StoreFinds(c)
  PROVE  HInv'
<1> USE DEF StoreFinds, Proceed, headers
<1>0. Found(c) \in 1..issued /\ Found(c) \notin revoked[host[c]] /\ InStore(Found(c)) = clock
  BY FoundFacts, SMTT(30) DEF HInv, Shape
<1>1. Shape'
  BY <1>0, SMT DEF HInv, Shape, store
<1>2. Asking' /\ Timely'
  BY DEF HInv, Shape, Asking, Timely, InLookup, store, Doing
<1>3. \A v : InStore(v)' = InStore(v)
  BY SameStore
<1>4. CachedFresh'
  BY <1>0, <1>3, SMT DEF HInv, Shape, CachedFresh, Timely, Doing, store
<1>5. NotRevoked'
  BY <1>0 DEF HInv, Shape, NotRevoked, Doing, store
<1>6. HeaderFresh'
  <2>1. InStore(Found(c)) >= began[c] - HeaderTTL - LookupTime
    BY <1>0, Times, SMT DEF HInv, Shape, Timely
  <2> QED
    BY <1>3, <2>1 DEF HInv, Shape, HeaderFresh, Doing
<1>7. Refreshed'
  BY <1>0 DEF HInv, Shape, Refreshed, NotRevoked, Doing
<1> QED
  BY <1>1, <1>2, <1>4, <1>5, <1>6, <1>7 DEF HInv

\* An address is asked in vain.
LEMMA AskStep ==
  ASSUME HInv, NEW c \in Clients, NEW e, Doing(c, "lookup"), AskNext(c, e)
  PROVE  HInv'
<1> USE DEF AskNext, Proceed, headers
<1>0. header[c] = 0 /\ host[c] \in Hosts /\ tried[c] \in Nat
  BY DEF HInv, Shape, Asking, Doing
<1>1. Shape'
  BY SMT DEF HInv, Shape, store
<1>2. Asking'
  <2>1. Len(AddressesOf[host[c]]) \in Nat /\ Asked(c) = AddressesOf[host[c]]
    BY <1>0, Constants DEF Asked
  <2> QED
    BY <1>0, <2>1 DEF HInv, Shape, Asking
<1>3. Timely'
  BY DEF HInv, Shape, Timely, InLookup, store, Doing
<1>4. \A v : InStore(v)' = InStore(v)
  BY SameStore
<1>5. CachedFresh'
  BY <1>0, <1>4, SMT DEF HInv, Shape, CachedFresh, Doing, store
<1>6. NotRevoked'
  BY DEF HInv, Shape, NotRevoked, Doing, store
<1>7. HeaderFresh' /\ Refreshed'
  BY <1>0, <1>4, SMT DEF HInv, Shape, HeaderFresh, Refreshed, Doing
<1> QED
  BY <1>1, <1>2, <1>3, <1>5, <1>6, <1>7 DEF HInv

\* What was found is cached and returned, and other hosts may lose their entry.
LEMMA SetStep ==
  ASSUME HInv, NEW c \in Clients, CacheSet(c)
  PROVE  HInv'
<1> DEFINE h == host[c]
<1> DEFINE new == [value |-> header[c], expires |-> clock + HeaderTTL]
<1>0. /\ h \in Hosts /\ hpc[c] = "set" /\ header[c] \in 1..issued /\ InStore(header[c]) >= began[c]
      /\ clock <= began[c] + LookupTime /\ header[c] \notin revoked[h]
  BY DEF HInv, Shape, CacheSet, Doing, CachedFresh, NotRevoked, Timely, InLookup
<1>1. /\ hpc' = [hpc EXCEPT ![c] = "ok"] /\ header' = [header EXCEPT ![c] = header[c]]
      /\ UNCHANGED <<store, revoked, host, tried, failed, began, known>>
  BY DEF CacheSet, Answer, Proceed
<1>2. entry'[h] = new /\ \A g \in Hosts : g # h => entry'[g] \in {entry[g], NoEntry}
  BY <1>0 DEF CacheSet, SetEntry
<1>3. entry' \in [Hosts -> Entry]
  <2>1. new \in Entry /\ NoEntry \in Entry
    BY <1>0, Constants, SMT DEF HInv, Shape, Entry, NoEntry
  <2>2. \A g \in Hosts : entry'[g] \in Entry
    BY <1>2, <2>1 DEF HInv, Shape
  <2> QED
    BY <2>2 DEF CacheSet, SetEntry
<1>4. \A v : InStore(v)' = InStore(v)
  BY <1>1, SameStore
<1>5. Shape'
  BY <1>1, <1>3 DEF HInv, Shape, store
<1>6. Asking' /\ Timely'
  BY <1>0, <1>1 DEF HInv, Shape, Asking, Timely, InLookup, store
<1>7. InStore(header[c]) \in Int
  BY <1>0, InStoreInt
<1>8. CachedFresh'
  <2>1. ASSUME NEW g \in Hosts, entry'[g].value # 0
        PROVE  /\ entry'[g].value <= issued
               /\ InStore(entry'[g].value) >= entry'[g].expires - HeaderTTL - LookupTime
    <3>1. CASE g = h
      <4>1. clock \in Nat /\ began[c] \in Nat /\ issued \in Nat
        BY Constants, SMT DEF HInv, Shape
      <4>2. entry'[g].value = header[c] /\ entry'[g].expires = clock + HeaderTTL
        BY <1>2, <3>1, SMT
      <4> QED
        BY <1>0, <1>7, <4>1, <4>2, Constants, SMT
    <3>2. CASE g # h
      BY <1>2, <2>1, <3>2, SMT DEF HInv, CachedFresh, NoEntry
    <3> QED
      BY <3>1, <3>2
  <2> QED
    BY <1>0, <1>1, <1>4, <2>1, SMT DEF HInv, Shape, CachedFresh, Doing, store
<1>9. NotRevoked'
  <2>1. \A g \in Hosts : entry'[g].value \notin revoked'[g]
    BY <1>0, <1>1, <1>2, NoEntryOK, SMT DEF HInv, NotRevoked
  <2>2. creds' = creds /\ revoked' = revoked /\ known' = known /\ host' = host
    BY <1>1 DEF store
  <2>3. \A d \in Clients : Doing(d, "set")' => Doing(d, "set") /\ header'[d] = header[d]
    BY <1>1 DEF HInv, Shape, Doing
  <2> QED
    BY <2>1, <2>2, <2>3 DEF HInv, NotRevoked
<1>10. HeaderFresh'
  <2>1. InStore(header[c]) >= began[c] - HeaderTTL - LookupTime
    BY <1>0, <1>7, Times, SMT DEF HInv, Shape
  <2> QED
    BY <1>1, <1>4, <2>1 DEF HInv, Shape, HeaderFresh, Doing
<1>11. Refreshed'
  BY <1>0, <1>1 DEF HInv, Shape, Refreshed, NotRevoked, Doing
<1> QED
  BY <1>5, <1>6, <1>8, <1>9, <1>10, <1>11 DEF HInv

\* The entry of a host is removed; what is not in the store is revoked, unless
\* a call has a header for the host in hand.
LEMMA InvalidateStep ==
  ASSUME HInv, NEW h \in Hosts, InvalidateAuthHeaders(h)
  PROVE  HInv'
<1> USE DEF InvalidateAuthHeaders
<1>0. UNCHANGED <<store, hpc, host, tried, failed, header, began, known>>
  BY DEF lookups
<1>1. entry' = [entry EXCEPT ![h] = NoEntry]
  BY DEF removeLocked
<1>2. ASSUME InHand(h) PROVE Shape' /\ NotRevoked'
  <2>1. revoked' = revoked
    BY <1>2 DEF HInv, Shape
  <2>2. Shape'
    BY <1>0, <1>1, <2>1, SMTT(30) DEF HInv, Shape, NoEntry, Entry, store
  <2>3. NotRevoked'
    BY <1>0, <1>1, <2>1, NoEntryOK, SMT DEF HInv, Shape, NotRevoked, Doing, store
  <2> QED
    BY <2>2, <2>3
<1>3. ASSUME ~InHand(h) PROVE Shape' /\ NotRevoked'
  <2> DEFINE old == {v \in Issues : v <= issued} \ Stored
  <2>1. revoked' = [revoked EXCEPT ![h] = old]
    BY <1>3
  <2>2. old = 1..issued \ Stored
    BY Times, SMT DEF HInv, Shape, Issues
  <2> HIDE DEF old, InvalidateAuthHeaders
  <2>3. \A a \in Addresses : creds[a] \notin old
    BY <2>2 DEF Stored
  <2>4. revoked[h] \subseteq old
    BY <2>2, SMT DEF HInv, Shape, NotRevoked, Stored
  <2>5. NoEntry.value \notin old
    BY <2>2, SMT DEF HInv, Shape, NoEntry
  <2>6. Shape'
    BY <1>0, <1>1, <2>1, <2>2, SMT DEF HInv, Shape, NoEntry, Entry, store
  <2>7. NotRevoked'
    <3>1. \A g \in Hosts : entry'[g].value \notin revoked'[g]
      BY <1>1, <2>1, <2>5 DEF HInv, Shape, NotRevoked
    <3>2. \A c \in Clients : known'[c] \subseteq revoked'[host'[c]]
      BY <1>0, <2>1, <2>4 DEF HInv, Shape, NotRevoked
    <3>3. \A c \in Clients : Doing(c, "set")' => header'[c] \notin revoked'[host'[c]]
      BY <1>0, <1>3, <2>1 DEF HInv, Shape, NotRevoked, Doing, InHand
    <3>4. \A g \in Hosts, a \in Addresses : creds'[a] \notin revoked'[g]
      BY <1>0, <2>1, <2>3 DEF HInv, Shape, NotRevoked, store
    <3> QED
      BY <3>1, <3>2, <3>3, <3>4 DEF NotRevoked
  <2> QED
    BY <2>6, <2>7
<1>7. \A v : InStore(v)' = InStore(v)
  BY <1>0, SameStore
<1>4. Shape' /\ NotRevoked'
  BY <1>2, <1>3
<1>5. Asking' /\ Timely'
  BY <1>0 DEF HInv, Asking, Timely, InLookup, store
<1>6. CachedFresh'
  BY <1>0, <1>1, <1>7 DEF HInv, Shape, CachedFresh, Doing, NoEntry, store
<1>8. HeaderFresh' /\ Refreshed'
  BY <1>0, <1>7 DEF HInv, HeaderFresh, Refreshed, Doing
<1> QED
  BY <1>4, <1>5, <1>6, <1>8 DEF HInv

\* The caller is done with its header.
LEMMA ReleaseStep ==
  ASSUME HInv, NEW c \in Clients, Release(c)
  PROVE  HInv'
<1> USE DEF Release, Proceed, headers
<1>1. \A v : InStore(v)' = InStore(v)
  BY SameStore
<1>2. Shape' /\ Asking' /\ Timely'
  BY DEF HInv, Shape, Asking, Timely, InLookup, store
<1>3. CachedFresh'
  BY <1>1 DEF HInv, Shape, CachedFresh, Doing, store
<1>4. NotRevoked'
  BY DEF HInv, Shape, NotRevoked, Doing, store
<1>5. HeaderFresh' /\ Refreshed'
  BY <1>1 DEF HInv, Shape, HeaderFresh, Refreshed, Doing
<1> QED
  BY <1>2, <1>3, <1>4, <1>5 DEF HInv

\* A step of the store or of the clock keeps the invariant if no credential was
\* in the store last earlier than before.
LEMMA StoreStep ==
  ASSUME HInv, UNCHANGED headers, UNCHANGED lookups, issued <= issued', Shape', Timely',
         \A v \in 1..issued : InStore(v)' >= InStore(v) /\ InStore(v)' \in Int,
         \A h \in Hosts, a \in Addresses : creds'[a] \notin revoked[h]
  PROVE  HInv'
<1> USE DEF headers, lookups
<1>0. issued \in Nat /\ issued' \in Nat
  BY Constants, SMT DEF HInv, Shape
<1>1. Asking'
  BY DEF HInv, Asking
<1>2. CachedFresh'
  <2>1. ASSUME NEW h \in Hosts, entry[h].value # 0
        PROVE  /\ entry[h].value <= issued'
               /\ InStore(entry[h].value)' >= entry[h].expires - HeaderTTL - LookupTime
    <3>1. entry[h] \in Entry /\ entry[h].value \in 1..issued
      BY <1>0, <2>1, SMT DEF HInv, Shape, CachedFresh, Entry
    <3>2. InStore(entry[h].value) >= entry[h].expires - HeaderTTL - LookupTime
      BY <2>1 DEF HInv, CachedFresh
    <3>3. InStore(entry[h].value)' >= InStore(entry[h].value) /\ InStore(entry[h].value)' \in Int
      BY <3>1
    <3> QED
      BY <1>0, <3>1, <3>2, <3>3, InStoreInt, Times, SMTT(30) DEF Entry
  <2>2. ASSUME NEW c \in Clients, hpc[c] = "set"
        PROVE  header[c] \in 1..issued' /\ InStore(header[c])' >= began[c]
    BY <1>0, <2>2, InStoreInt, SMTT(30) DEF HInv, Shape, CachedFresh, Doing
  <2>3. \A c \in Clients : hpc[c] = "ok" => header[c] <= issued'
    BY <1>0, SMT DEF HInv, Shape, CachedFresh, Doing
  <2> QED
    BY <2>1, <2>2, <2>3 DEF CachedFresh, Doing
<1>3. NotRevoked'
  BY DEF HInv, NotRevoked, Doing
<1>4. HeaderFresh'
  <2>1. ASSUME NEW c \in Clients, hpc[c] = "ok", header[c] # 0
        PROVE  InStore(header[c])' >= began[c] - HeaderTTL - LookupTime
    <3>1. header[c] \in 1..issued /\ began[c] \in Nat
      BY <1>0, <2>1, SMT DEF HInv, Shape, CachedFresh, Doing
    <3>2. InStore(header[c]) >= began[c] - HeaderTTL - LookupTime
      BY <2>1 DEF HInv, HeaderFresh, Doing
    <3> QED
      BY <3>1, <3>2, InStoreInt, Times, SMTT(30)
  <2> QED
    BY <2>1 DEF HeaderFresh, Doing
<1>5. Refreshed'
  BY DEF HInv, Refreshed, Doing
<1> QED
  BY <1>1, <1>2, <1>3, <1>4, <1>5 DEF HInv

\* A new credential is issued.
LEMMA NewStep ==
  ASSUME HInv, NEW a \in Addresses, NewCredential(a)
  PROVE  HInv'
<1> USE DEF NewCredential
<1>0. issued \in Nat /\ issued' = issued + 1 /\ issued + 1 \in Issues
  BY Constants, SMT DEF HInv, Shape, Issues
<1>1. Shape'
  BY <1>0, SMT DEF HInv, Shape, headers, lookups, Issues
<1>2. Timely'
  BY SMT DEF HInv, Shape, Timely, InLookup, lookups
<1>3. ASSUME NEW v \in 1..issued PROVE InStore(v)' >= InStore(v) /\ InStore(v)' \in Int
  <2>1. v \in Issues /\ until[v] \in Nat /\ until[v] <= clock /\ clock \in Nat
    BY Constants, SMT DEF HInv, Shape, Timely, Issues
  <2>2. CASE v \in Stored'
    BY <2>1, <2>2, SMT DEF InStore
  <2>3. CASE v \notin Stored' /\ v = creds[a]
    BY <2>1, <2>3, SMT DEF InStore
  <2>4. CASE v \notin Stored' /\ v # creds[a]
    <3>1. v \notin Stored
      BY <2>4 DEF Stored, HInv, Shape
    <3> QED
      BY <2>1, <2>4, <3>1, SMT DEF InStore
  <2> QED
    BY <2>2, <2>3, <2>4
<1>4. \A h \in Hosts, b \in Addresses : creds'[b] \notin revoked[h]
  BY <1>0, SMTT(30) DEF HInv, Shape, NotRevoked
<1> QED
  BY <1>0, <1>1, <1>2, <1>3, <1>4, StoreStep, SMT

\* Time passes.
LEMMA TickStep ==
  ASSUME HInv, Tick
  PROVE  HInv'
<1> USE DEF Tick
<1>0. clock \in Nat /\ issued' = issued /\ issued \in Nat
  BY SMT DEF HInv, Shape
<1>1. Shape'
  BY <1>0, SMT DEF HInv, Shape, headers, lookups
<1>2. Timely'
  <2>1. clock' = clock + 1 /\ UNCHANGED <<hpc, began, until>>
    BY DEF headers, lookups
  <2>2. \A v \in Issues : until[v] \in Nat /\ until[v] <= clock
    BY DEF HInv, Shape, Timely
  <2>3. \A v \in Issues : until[v] <= clock + 1
    BY <1>0, <2>2, SMT
  <2>4. \A c \in Clients : began[c] \in Nat /\ began[c] <= clock
    BY DEF HInv, Shape, Timely
  <2>5. \A c \in Clients : began[c] <= clock + 1
    BY <1>0, <2>4, SMT
  <2>6. \A c \in Clients : InLookup(c) => clock + 1 <= began[c] + LookupTime
    <3>1. \A c \in Clients : InLookup(c) => clock < began[c] + LookupTime
      BY DEF InLookup
    <3> QED
      BY <1>0, <2>4, <3>1, Constants, SMT
  <2> QED
    BY <2>1, <2>3, <2>5, <2>6 DEF Timely, InLookup
<1>3. ASSUME NEW v \in 1..issued PROVE InStore(v)' >= InStore(v) /\ InStore(v)' \in Int
  BY <1>0, InStoreInt, SMT DEF InStore, Stored
<1>4. \A h \in Hosts, b \in Addresses : creds'[b] \notin revoked[h]
  BY DEF HInv, NotRevoked
<1> QED
  BY <1>0, <1>1, <1>2, <1>3, <1>4, StoreStep, SMT

\* Every step keeps the invariant.
LEMMA HInvStep == HInv /\ [HeaderNext]_headerVars => HInv'
<1> SUFFICES ASSUME HInv, [HeaderNext]_headerVars PROVE HInv'
  OBVIOUS
<1>1. CASE UNCHANGED headerVars
  <2> USE <1>1 DEF headerVars, store, headers, lookups, HInv
  <2>1. \A v : InStore(v)' = InStore(v)
    BY DEF InStore, Stored
  <2>2. Shape' /\ Asking' /\ Timely'
    BY DEF Shape, Asking, Timely, InLookup
  <2>3. CachedFresh' /\ NotRevoked'
    BY <2>1 DEF CachedFresh, NotRevoked, Doing
  <2>4. HeaderFresh' /\ Refreshed'
    BY <2>1 DEF HeaderFresh, Refreshed, Doing
  <2> QED
    BY <2>2, <2>3, <2>4
<1>2. ASSUME NEW c \in Clients, HeaderStep(c) \/ StoreFails(c) \/ Release(c) PROVE HInv'
  BY <1>2, GetStep, FindStep, AskStep, SetStep, ReleaseStep DEF HeaderStep, StoreEmpty, StoreFails
<1> QED
  BY <1>1, <1>2, CallStep, InvalidateStep, NewStep, TickStep DEF HeaderNext

-----------------------------------------------------------------------------
(* createDataSource: the two put together *)

HeaderLabels == {"none", "get", "lookup", "set", "ok", "error"}

\* While a source is open its reader is not inside AuthHeaders, so that closing the
\* source gives up a header that was returned.
Linked ==
    /\ conf.hostOf \in [Clients -> Hosts]
    /\ hpc \in [Clients -> HeaderLabels]
    /\ ~conf.headers => \A c \in Clients : hpc[c] = "none"
    /\ \A r \in Readers : pc[r] # "closed" => hpc[r] \in {"none", "ok"}

\* A step of the composition is a step of the block source.
LEMMA IsSourceStep == [DataNext]_allVars => [Next]_vars
<1> SUFFICES ASSUME [DataNext]_allVars PROVE [Next]_vars
  OBVIOUS
<1>1. CASE UNCHANGED allVars
  BY <1>1 DEF allVars
<1>2. ASSUME UNCHANGED sourceVars, UNCHANGED conf PROVE [Next]_vars
  BY <1>2 DEF sourceVars, vars
<1>3. ASSUME NEW r \in Readers, Proceeds(r) \/ Read(r) \/ Fails(r), UNCHANGED conf PROVE [Next]_vars
  <2>1. CASE createDataSource(r) \/ Authenticate(r) \/ Invalidates(r)
    BY <1>2, <1>3, <2>1 DEF createDataSource, Authenticate, Invalidates
  <2>2. CASE SendHead(r)
    <3>1. r \in conf.readers /\ DoHead(r)
      BY <2>2 DEF SendHead, DoHead
    <3> QED
      BY <1>3, <3>1 DEF Next, Call
  <2>3. CASE Read(r)
    BY <1>3, <2>3 DEF Read, Next, Call
  <2>4. CASE Works(r)
    BY <1>3, <2>4 DEF Works, Next
  <2>5. CASE Unauthorized(r)
    BY <1>3, <2>5 DEF Unauthorized, Next
  <2>6. CASE Fails(r)
    BY <1>2, <1>3, <2>6 DEF Fails, Next
  <2> QED
    BY <1>3, <2>1, <2>2, <2>3, <2>4, <2>5, <2>6 DEF Proceeds
<1>4. ASSUME World, UNCHANGED conf PROVE [Next]_vars
  BY <1>2, <1>4 DEF World, Next
<1> QED
  BY <1>1, <1>3, <1>4 DEF DataNext

\* A step of a reader opens no source, and closes none but its own.
LEMMA StepCloses ==
  ASSUME SInv, NEW r \in Readers, Step(r) \/ RequestFails(r), NEW q \in Readers
  PROVE  /\ pc[q] = "closed" => pc'[q] = "closed"
         /\ q # r /\ pc'[q] = "closed" => pc[q] = "closed"
<1>1. ASSUME NEW l, pc[r] # "closed", Goto(r, l)
      PROVE  /\ pc[q] = "closed" => pc'[q] = "closed"
             /\ q # r /\ pc'[q] = "closed" => pc[q] = "closed"
  BY <1>1 DEF Goto, SInv, Domains
<1>2. pc[r] # "closed" => \A p \in Served(r) : pc[p] # "closed"
  BY DEF Served, At
<1>3. ASSUME NEW d, pc[r] # "closed", Deliver(Served(r), d) \/ DeliverError(Served(r), d)
      PROVE  /\ pc[q] = "closed" => pc'[q] = "closed"
             /\ q # r /\ pc'[q] = "closed" => pc[q] = "closed"
  BY <1>2, <1>3 DEF Deliver, DeliverError
<1>4. CASE RangeProbe(r) \/ Do(r) \/ Drop(r) \/ PreconditionFailed(r) \/ DirectResponds(r) \/ Return(r)
  <2>1. pc[r] # "closed" /\ \E l : Goto(r, l)
    BY <1>4 DEF RangeProbe, Do, Drop, PreconditionFailed, Unmet, Unconditionally, DirectResponds, Return,
                At, Finish
  <2> QED
    BY <1>1, <2>1
<1>5. CASE Lookup(r) \/ FetchResponds(r) \/ Store(r) \/ Rename(r)
  <2>1. /\ pc[r] # "closed"
        /\ \/ \E l : Goto(r, l)
           \/ \E d : Deliver(Served(r), d) \/ DeliverError(Served(r), d)
    BY <1>5 DEF Lookup, FetchResponds, Store, Rename, At
  <2> QED
    BY <1>1, <1>3, <2>1
<1>6. CASE RequestFails(r)
  <2>1. /\ pc[r] # "closed"
        /\ \/ \E l : Goto(r, l)
           \/ \E d : Deliver(Served(r), d) \/ DeliverError(Served(r), d)
    BY <1>6 DEF RequestFails, At, Finish
  <2> QED
    BY <1>1, <1>3, <2>1
<1> QED
  BY <1>4, <1>5, <1>6 DEF Step

\* A reader that works gives its header up, or leaves all headers alone.
LEMMA WorkLinked ==
  ASSUME SInv, Linked, NEW r \in Readers, Step(r) \/ RequestFails(r), Discard, UNCHANGED conf
  PROVE  Linked' /\ (Release(r) \/ UNCHANGED headerVars)
<1>1. Clients = Readers
  BY DataSourceAssumption
<1>2. \A q \in Readers : hpc'[q] = IF pc[q] # "closed" /\ pc'[q] = "closed" THEN "none" ELSE hpc[q]
  BY DEF Discard
<1>3. hpc' \in [Clients -> HeaderLabels]
  BY <1>1 DEF Discard, Linked, HeaderLabels
<1>4. Linked'
  <2>1. \A q \in Readers : pc'[q] # "closed" => hpc'[q] \in {"none", "ok"}
    BY <1>2, StepCloses DEF Linked
  <2>2. ~conf.headers => \A c \in Clients : hpc'[c] = "none"
    BY <1>1, <1>2 DEF Linked
  <2> QED
    BY <1>3, <2>1, <2>2 DEF Linked
<1>5. CASE pc[r] # "closed" /\ pc'[r] = "closed" /\ hpc[r] = "ok"
  <2>1. \A q \in Readers : q # r => hpc'[q] = hpc[q]
    BY <1>2, StepCloses
  <2>2. hpc' = [hpc EXCEPT ![r] = "none"]
    BY <1>1, <1>2, <1>3, <1>5, <2>1 DEF Linked
  <2> QED
    BY <1>4, <1>5, <2>2 DEF Release, Doing, Proceed, Discard
<1>6. CASE ~(pc[r] # "closed" /\ pc'[r] = "closed" /\ hpc[r] = "ok")
  <2>1. \A q \in Readers : hpc'[q] = hpc[q]
    BY <1>2, <1>6, StepCloses DEF Linked
  <2>2. hpc' = hpc
    BY <1>1, <1>3, <2>1, SMT DEF Linked
  <2> QED
    BY <1>4, <2>2 DEF Discard, headerVars, lookups
<1> QED
  BY <1>5, <1>6

\* A step of a call of AuthHeaders.
LEMMA CallLinked ==
  ASSUME Linked, NEW r \in Readers, UNCHANGED <<pc, conf>>, conf.headers, pc[r] = "closed",
         NEW l \in HeaderLabels, hpc' = [hpc EXCEPT ![r] = l]
  PROVE  Linked'
<1>1. Clients = Readers
  BY DataSourceAssumption
<1> QED
  BY <1>1 DEF Linked

\* A call that is inside AuthHeaders belongs to a source that is not open.
LEMMA InsideLinked ==
  ASSUME Linked, NEW r \in Readers, hpc[r] \in {"get", "lookup", "set"}
  PROVE  conf.headers /\ pc[r] = "closed"
  BY DataSourceAssumption DEF Linked

\* Every step keeps the link, and is a step of the header cache.
LEMMA IsHeaderStep ==
  ASSUME SInv, Linked, [DataNext]_allVars
  PROVE  Linked' /\ [HeaderNext]_headerVars
<1>0. Clients = Readers
  BY DataSourceAssumption
<1>1. ASSUME UNCHANGED headerVars, UNCHANGED <<pc, conf>> PROVE Linked' /\ [HeaderNext]_headerVars
  BY <1>1 DEF headerVars, lookups, Linked
<1>2. CASE UNCHANGED allVars
  BY <1>1, <1>2 DEF allVars, vars, reads
<1>3. ASSUME NEW r \in Readers, Step(r) \/ RequestFails(r), Discard, UNCHANGED conf
      PROVE  Linked' /\ [HeaderNext]_headerVars
  BY <1>0, <1>3, WorkLinked DEF HeaderNext
<1>4. ASSUME NEW r \in Readers, HeaderStep(r) \/ StoreFails(r), UNCHANGED <<pc, conf>>
      PROVE  Linked' /\ [HeaderNext]_headerVars
  <2>1. /\ hpc[r] \in {"get", "lookup", "set"}
        /\ \E l \in HeaderLabels : hpc' = [hpc EXCEPT ![r] = l]
    BY <1>4 DEF HeaderStep, CacheGet, StoreFinds, StoreEmpty, StoreFails, CacheSet, AskNext, Answer,
                Proceed, Doing, HeaderLabels
  <2>2. Linked'
    BY <1>4, <2>1, InsideLinked, CallLinked
  <2> QED
    BY <1>0, <1>4, <2>2 DEF HeaderNext
<1>5. ASSUME NEW r \in Readers, createDataSource(r), UNCHANGED conf
      PROVE  Linked' /\ [HeaderNext]_headerVars
  <2>1. conf.hostOf[r] \in Hosts
    BY <1>0 DEF Linked
  <2>2. AuthHeadersOf(r, conf.hostOf[r]) /\ pc[r] = "closed" /\ conf.headers /\ UNCHANGED pc
    BY <1>5 DEF createDataSource, At, WithHeaders, sourceVars, reads
  <2>3. \E l \in HeaderLabels : hpc' = [hpc EXCEPT ![r] = l]
    BY <2>2 DEF AuthHeadersOf, Proceed, HeaderLabels
  <2>4. Linked'
    BY <1>5, <2>2, <2>3, CallLinked
  <2> QED
    BY <1>0, <2>1, <2>2, <2>4 DEF HeaderNext
<1>6. ASSUME NEW r \in Readers, SendHead(r), UNCHANGED conf
      PROVE  Linked' /\ [HeaderNext]_headerVars
  <2>1. \E s \in {Current} \cup NoHead : HeadAnswers(r, s)
    BY <1>6 DEF SendHead, DoHead
  <2>2. pc' = [pc EXCEPT ![r] = "probe"]
    BY <2>1 DEF HeadAnswers, Goto
  <2>3. hpc[r] \in {"none", "ok"}
    BY <1>0, <1>6 DEF SendHead, WithHeaders, Doing, Linked
  <2>4. hpc' = hpc /\ UNCHANGED headerVars
    BY <1>6 DEF SendHead, headerVars, lookups
  <2>5. Linked'
    BY <1>6, <2>2, <2>3, <2>4 DEF Linked, SInv, Domains
  <2> QED
    BY <2>4, <2>5
<1>7. ASSUME NEW r \in Readers, Read(r), UNCHANGED conf
      PROVE  Linked' /\ [HeaderNext]_headerVars
  <2>1. PICK o, n : ReadAt(r, o, n)
    BY <1>7 DEF Read, ReadRange
  <2>2. pc[r] = "idle" /\ \E l : pc' = [pc EXCEPT ![r] = l]
    BY <2>1 DEF ReadAt, At, Finish, Goto
  <2>3. hpc' = hpc /\ UNCHANGED headerVars
    BY <1>7 DEF Read, headerVars, lookups
  <2>4. Linked'
    BY <1>7, <2>2, <2>3 DEF Linked, SInv, Domains
  <2> QED
    BY <2>3, <2>4
<1>8. ASSUME NEW r \in Readers, Invalidates(r), UNCHANGED conf
      PROVE  Linked' /\ [HeaderNext]_headerVars
  <2>1. conf.hostOf[r] \in Hosts /\ InvalidateAuthHeaders(conf.hostOf[r])
    BY <1>0, <1>8 DEF Linked, Invalidates
  <2>2. UNCHANGED <<hpc, pc>>
    BY <1>8, <2>1 DEF InvalidateAuthHeaders, lookups, Invalidates, sourceVars, reads
  <2> QED
    BY <1>8, <2>1, <2>2 DEF HeaderNext, Linked
<1>9. ASSUME World, UNCHANGED conf PROVE Linked' /\ [HeaderNext]_headerVars
  <2>1. CASE (Replace \/ \E k \in Keys : Damage(k)) /\ UNCHANGED headerVars
    BY <1>1, <1>9, <2>1 DEF Replace, Damage, reads
  <2>2. CASE (Tick \/ \E a \in Addresses : NewCredential(a)) /\ UNCHANGED sourceVars
    <3>1. UNCHANGED <<hpc, pc>>
      BY <2>2 DEF Tick, NewCredential, lookups, sourceVars, reads
    <3> QED
      BY <1>9, <2>2, <3>1 DEF HeaderNext, Linked
  <2> QED
    BY <1>9, <2>1, <2>2 DEF World
<1>10. ASSUME NEW r \in Readers, Proceeds(r) \/ Read(r) \/ Fails(r), UNCHANGED conf
       PROVE  Linked' /\ [HeaderNext]_headerVars
  <2>1. CASE Authenticate(r)
    BY <1>4, <1>10, <2>1 DEF Authenticate, sourceVars, reads
  <2>2. CASE Works(r) \/ Unauthorized(r)
    BY <1>3, <1>10, <2>2 DEF Works, Unauthorized
  <2>3. CASE Fails(r)
    BY <1>3, <1>4, <1>10, <2>3 DEF Fails, sourceVars, reads
  <2> QED
    BY <1>5, <1>6, <1>7, <1>8, <1>10, <2>1, <2>2, <2>3 DEF Proceeds
<1> QED
  BY <1>2, <1>9, <1>10 DEF DataNext

\* The sources that Pull opens are block sources whatever headers they carry, and
\* use the header cache as its interface allows: each goroutine is in one call at
\* a time, and the composition of the two adds no behaviour to either.
THEOREM ImplementsParts == DataSpec => Spec /\ HeaderSpec
<1>1. DataInit => Init /\ HeaderInit /\ Linked
  <2> SUFFICES ASSUME DataInit PROVE Linked
    BY DEF DataInit
  <2>1. conf.hostOf \in [Clients -> Hosts] /\ hpc = [c \in Clients |-> "none"]
    BY DEF DataInit, HeaderInit
  <2> QED
    BY <2>1, DataSourceAssumption DEF Linked, HeaderLabels
<1>2. SInv /\ Linked /\ [DataNext]_allVars => Linked' /\ [HeaderNext]_headerVars
  BY IsHeaderStep
<1> QED
  BY <1>1, <1>2, IsSourceStep, SInvInit, SInvNext, PTL DEF DataSpec, Spec, HeaderSpec

\* The sources of Pull read exactly, whatever their requests carry.
THEOREM DataReadExact == DataSpec => []ReadExact
  BY ReadExactHolds, ImplementsParts, PTL

\* The sources of Pull never yield bytes older than the version they opened.
THEOREM DataNoOlderBytes == DataSpec => []NoOlderBytes
  BY NoOlderBytesHolds, ImplementsParts, PTL

\* A header that is returned was in the credential store at most HeaderTTL before
\* the call, plus the time of the call that cached it: for any number of clients,
\* hosts and addresses, whatever is evicted, invalidated or issued meanwhile, for
\* AuthHeaders by itself and under the sources that use it.
THEOREM HeaderFreshHolds == (HeaderSpec => []HeaderFresh) /\ (DataSpec => []HeaderFresh)
<1>1. HInv => HeaderFresh
  BY DEF HInv
<1>2. HeaderSpec => []HeaderFresh
  BY InitHInv, HInvStep, <1>1, PTL DEF HeaderSpec
<1> QED
  BY <1>2, ImplementsParts, PTL

\* After InvalidateAuthHeaders a credential replaced before is not returned by a
\* call that begins later, unless another call had it in hand.
THEOREM RefreshedHolds == (HeaderSpec => []Refreshed) /\ (DataSpec => []Refreshed)
<1>1. HInv => Refreshed
  BY DEF HInv
<1>2. HeaderSpec => []Refreshed
  BY InitHInv, HInvStep, <1>1, PTL DEF HeaderSpec
<1> QED
  BY <1>2, ImplementsParts, PTL
=============================================================================
