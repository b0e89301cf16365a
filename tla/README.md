# Formal models of blob

`blob` stores a tree of files as two pieces, a small index and a data blob,
pushes them to an OCI registry, and reads single files or directories back with
range requests, verifying hashes and keeping what it read in caches on disk.
This directory holds TLA+ modules that model the library, configurations that
check them with TLC, and proofs that TLAPS checks. `PROJECT.json` lists
components, runs, mutants, hazards, findings and theorems, and maps each
definition to the lines it models.

Check a run with `tlc -config <run>.cfg MC_<module>`, the proofs with
`tlapm <module>_proofs.tla`.

## The system and its parts

| part of the system | source | module | state |
|---|---|---|---|
| disk caches: files, byte counter, pruning | `core/cache/disk/{cache,size}.go`; the same order of steps in `registry/cache/disk` and `blockcache.go` | `DiskCache` | modelled |
| what callers rely on of a content cache | `core/cache` as used by `core/blob.go` | `ContentCache`, `DiskCacheInterface` | abstract specification, and that `DiskCache` implements it |
| batch pipeline: readers, read-ahead budget, ordered consumer | `core/internal/batch/batch.go` | `BatchPipeline` | modelled |
| grouping of adjacent entries | `core/internal/batch/group.go` | `Grouping` | modelled |
| extraction: workers, file sink, commit and discard; CopyFile | `core/internal/batch/{batch,filesink,sink}.go`, `core/blob.go` | `Extraction` | modelled |
| creating the index, lookup, prefix scan, listing, Stat, DirStats, directory handles | `core/create.go`, `core/internal/index`, `core/blob.go` | `ArchiveIndex` | encoding, compression left out |
| reading files: ReadFile, Open, Read, Close | `core/blob.go`, `core/cache_support.go`, `core/internal/file` | `BlobRead` | `ReadAt` left out |
| archives in local files: Save, CreateBlob, OpenFile | `core/{save,create_file,file}.go` | `LocalArchive` (with `BlobRead`) | modelled |
| block cache over an HTTP source | `core/cache/disk/blockcache.go`, `core/http/source.go` | `BlockSource` | Last-Modified left out |
| authentication headers and the reads that carry them | `registry/oras/auth*.go`, `registry/pull.go` | `AuthHeaders`, `DataSource` (with `BlockSource`) | credentials with only a refresh token left out |
| Fetch, Inspect, Pull; ref, manifest and index caches | `registry/{fetch,inspect,pull}.go`, `registry/cache/disk` | `RegistryClient` | modelled |
| Push, Tag, Sign; referrers; policies | `registry/{push,tag,sign,referrers,policy}.go`, `registry/oras/client.go`, `policy/` | `Publishing` | parsing, cryptography, Rego abstracted |
| gittuf policy and its repository cache | `policy/gittuf` | `GittufPolicy` (with `Publishing`) | the gittuf library is external |
| client facade, options | root package | | passes options on |
| FlatBuffers code, mocks, examples, test utilities | | | generated, or not part of the library |

How they interact: Create writes index and data (`ArchiveIndex`), Push stores
them in a repository and Sign attaches a signature (`Publishing`). Pull resolves
a tag, checks the policies (`Publishing`, `GittufPolicy`) and loads the index
(`RegistryClient`); the data is an HTTP source behind a block cache
(`BlockSource`) whose requests may carry a cached header (`AuthHeaders`,
composed in `DataSource`). An archive may also be a pair of local files
(`LocalArchive`). ReadFile and Open read one
file through the content cache (`BlobRead`), which is `ContentCache` and whose
directory is `DiskCache`;
CopyTo and CopyDir read groups of adjacent files (`Grouping`) through the
pipeline (`BatchPipeline`) and write them to the disk (`Extraction`).

## Conventions

A goroutine, process or call is a member of a set; its program counter and
locals are functions on that set. A step is what happens between two points
where another actor may act: a system call, a request to the registry, an
atomic counter access, a channel or lock operation. Crashes, failing calls and
what others do to shared directories are actions of their own.

Most modules have a constant `Configs` and a variable `conf` that is chosen in
`Init` and never changes. One run so covers several option settings and
environments, and properties may refer to the setting they are about. The
mutants (marked `mutant` in the modules) are small plausible bugs; each property
of a passing run is violated by one of them.

Three modules compose others by `EXTENDS`: `DataSource` (`BlockSource` and
`AuthHeaders`), `LocalArchive` (on `BlobRead`) and `GittufPolicy` (on
`Publishing`). Their next-state relations take a step of one part and leave the
others alone, except where the code connects them: a 401 makes a reader
invalidate, a rewritten file changes what a Blob reads, and an evaluation looks
at what Sign attached.

Abstractions: content is the hash it belongs to and whether it is whole or
damaged; a digest is the content it stands for; a path is a sequence of names
only in `ArchiveIndex`, where the comparison of bytes is the question. Logging,
progress events and wording of errors are left out.

## Modules, runs and what they show

State counts and times are for two TLC workers.

### DiskCache

`disk` is the directory (keys and temporary names), `bytes` the counter per
cache object, `pruneMu` its mutex, `pr` the locals of `pruneDir`. `Put` is stat,
create, copy, capacity check (which may prune: lock, walk, removals, store),
rename, counter. `conf.capacityFirst` tells the content cache, which makes room
after writing the temporary file, from the other caches, which make it before.

Run `DiskCache` (113,897 states): two goroutines of one process with a limit and
failing I/O; two processes on one directory with a crash; one goroutine with and
without a limit, in both orders. Keys of sizes 1, 2 and 4 with a limit of 2 give
content that fits, that fits only alone and that never fits; two to four Puts
are enough for a Put that prunes what an earlier one stored. Files are whole
(`WholeAtKey`), temporary files go away (`NoTempLeak`), pruning reaches its
target (`PruneReachesTarget`), and calls return (`CallsReturn`: weak fairness
for goroutines, strong fairness for the mutex, whose starvation mode hands it to
a waiting goroutine). The accounting properties (`CounterExact`, `WithinLimit`)
are stated for a single goroutine, because they do not hold for several (see
Observations).

`ContentCache` is what a caller sees: a map from hashes to content, on which Put
and Delete act in one instant of their call or not at all, and from which
entries are evicted at any time. `DiskCacheInterface` maps the directory to it:
the content is the whole files at key paths, a Put takes effect with its rename
and a Delete with its removal, everything else is a stutter or an eviction
(`ImplementsCache`, checked in the same run and proved).

Run `DiskCache_selfprune` violates `PutSucceeds`: a Put of more than half of the
limit prunes its own temporary file and fails.

### BatchPipeline

The feeder, the readers and the consumer of `processGroupsPipelined`, the
weighted semaphore with its queue, and the errgroup. Run `Batch` (43,387
states): four groups, one and three readers, no budget and one that is smaller
than all groups. The error is genuine and nil means that all was processed
(`HonestResult`), the budget is conserved, and with one reader or without a budget the pipeline ends.
Deadlock is not checked in these runs, because a budget with several readers can
stall: run `Batch_stuck` violates `Terminates` with two readers and a budget
into which every group fits. With four groups a reader can hold a later group
while another waits for the budget and a third result is buffered. Fairness:
each goroutine is scheduled and reads return.

### Extraction and Grouping

`dest` and `temp` hold what is at the destination paths and in the temporary
files; workers take every n-th entry of a group. CopyFile is the case of one
entry (`conf.single`): stat, open, temporary file, copy, removal of the
destination when overwriting, rename. Run `Extract` (11,301 states):
five entries, one of them empty, in two groups; compressed, corrupt,
out-of-range and existing entries, with overwriting, cleaned destination and
neither, and CopyFile with and without overwriting, every read and file
operation failing at any time. A destination holds its old content or the whole
new one (`AtomicFiles`; one that CopyFile overwrites may also be missing),
nothing unfinished stays, statistics count what is there, nil means everything
is there and existing files are kept (`NilMeansCopied`), and the call returns.

### ArchiveIndex

`Create`'s walk appends entries; the searches are operators on the finished
index, with `NormalizePath`, the path validation, Stat, IsDir, DirStats, and
directories that are open and read in pages. Run `Archive` (12,554 states) takes
every tree of up to two levels over the names `a`, `a.b` and `b`. The data of a
directory is one contiguous range in every tree (`OneRangePerDirectory`).
Questions about a path (`PathsAnswered`), prefix scan and DirStats
(`PrefixExact`), and listing (`ListingExact`) are exact unless a directory stands
beside a name that extends its own with a byte before `/`; pages of any sizes
yield together what the listing has (`PagesExact`). Run `Archive_lookup`
violates `LookupExact` with such a tree: the walk orders `a/b` before `a.b`, the
binary search expects the reverse. Two levels and three names contain every
relation between two paths that the searches can tell apart (equal, prefix,
sibling before and after the slash).

### BlobRead and LocalArchive

`ReadFile` and `Open` with their two singleflight groups, and the open file
(`cachedFile`, `file.File`) with `Read` and `Close`. `cache` is what the cache
directory holds; Put is one step, which `ImplementsCache` justifies.
`LocalArchive` puts the Blobs on files: the index and the data are inodes behind
two paths, Save replaces the paths one after the other by temporary files,
CreateBlob truncates and rewrites the files, OpenFile reads the index and opens
the data in two steps, and an inode lives on while a Blob has it open.

Run `BlobRead` (175,138 states): three goroutines on two Blobs, one file, data
that is good, wrong or truncated, a cache that loses and damages files or fails,
and none; then local files under one Save, two Saves, CreateBlob alone and with
a Save, which fail or stop anywhere, over an archive or none. What is returned
is verified, also while the file below is rewritten (`ReadVerified`), only
verified content is cached (`CacheClean`), good data never fails
(`NoSpuriousError`), files at the paths are whole and open Blobs undisturbed
where archives are only saved, and a lone Save or CreateBlob that returns leaves
no index beside the data of another archive (`FilesPaired`); calls return
(goroutines inside a call are scheduled, writers need not be). Where local files
are involved, a file takes two reads and the read that finds its end, so that it
can be rewritten in between; elsewhere one read. The singleflight groups
separate hashes, so one file is enough. Damage is excluded in one window, see
Observations.

### BlockSource, AuthHeaders and DataSource

`BlockSource`: a resource that is replaced on the server, `NewSource` (HEAD,
then range probe), the wrapped source's `ReadAt` with its block loop, `getBlock`
under singleflight and `writeBlock`. `AuthHeaders`: the header cache, an LRU
list with a TTL under a mutex, and the credential store, which is asked without
it. `DataSource` is Pull's data source: its header is fixed when it is opened;
after a 401 the caller invalidates and opens it again.

Run `DataSource` (101,767 states): a resource of five bytes in blocks of two, every offset and
length with damaged blocks; two readers of one and of two cache objects;
versions of five, three and three bytes with and without ETags and conditional
requests; one reader, two of one host and two of two hosts with headers, while
two credentials are issued and the header cache has one place. Reads are exact
(`ReadExact`; only of a resource that had become shorter may a read end early),
never older than the source (`NoOlderBytes`), and return (`ReadReturns`). A header was in the store at most TTL and one lookup before the
call (`HeaderFresh`); a credential replaced before an invalidation is not
handed out to a later call, unless another call had found it and not cached it
yet (`Refreshed`). Even with this exception a caller that is refused gets through
in the end, without any header expiring (`Recovers`): credentials are replaced
only so often, and calls that hold an old one run out. Five bytes give a first,
a middle and a short last block; `MaxBlocks` = 2 lets a read of three blocks
bypass the cache. Fairness: readers go on, requests are answered, and a caller
that is refused does invalidate and open again; that a request fails is possible
and not assumed. The resource is replaced twice at most, and no version comes
back.

### RegistryClient

Fetch, Inspect and Pull as steps (stat and read of the ref entry, resolve,
manifest cache, fetch, policies, index cache, data source) against a tag that
moves, a clock, caches that lose and damage files, and policies that change
their mind. Run `Registry` (1.53 million states, symmetric in calls and
archives): two calls, TTL and call duration one, time up to three, which lets an
entry be written, expire and be replaced during a call; and Inspect by tag and
Pull by digest under damage. Staleness is bounded by TTL plus a call's duration,
what is returned is verified, and the policies accepted it during the call. Pull
by tag consists of the steps of these two.

### Publishing and GittufPolicy

The requests of Push, Tag and Sign in their order, on a repository of blobs,
manifests and tags; a request fails without effect, has its effect and loses its
answer, or is the caller's last. Policies list artifact types, fetch referrers
and decide. `GittufPolicy` adds the gittuf policy: it looks for provenance among
the referrers, gets a clone from a repository cache (validity, loading, cloning,
metadata, eviction, all under the mutex of the cache object), and without the
mutex asks for a policy, pulls the reference state log and verifies the ref.
Cache objects share one directory and no mutex, since `DefaultCache` makes an
object per policy. The gittuf library is not part of the repository: a clone
into a directory that exists may fail or replace it, and an unfinished clone
gives an error or looks like one without gittuf.

Run `Publish` (1.30 million states): a publisher, a second signer and an
evaluator with eight combinations of policies; failing requests; two publishers
and a tag that is moved; damaged data; a ref cache; and two evaluations of a
gittuf policy, of one source repository or two, with one cache object or two,
with room for one clone, entries that expire or are invalidated, and a source
repository that moves on to a version that may not verify. Everything behind a
tag or referrer is there (`Complete`), tags stand for what was pushed, Push
followed by Sign signs it, and policies pass only what has evidence
(`AcceptedWithEvidence`) and all of it, unless a request fails or a Rego rule
denies another attestation (`EvidenceAccepted`).
The gittuf policy passes what it verified at a version not older than its
evaluation, or what an option excuses (`GittufVerified`): the clone may be as
old as it likes and may be replaced at any moment, because the log is pulled,
and where the pull fails on a clone that someone is replacing, the replacement
was begun later than the evaluation. If requests fail, the code goes on with the
cached log, and only what it verified is claimed. Two tags (a Push with an
additional one) and two values of the clock (a second Push of one archive makes
another manifest, a clone expires) are enough for tags to disagree. Most callers
repeat their job for ever; in the gittuf configurations, and in those with
failing requests but one, each does it once, and the run may come to rest then.
Run `Publish_stale` violates `PushedIsSigned` with a ref cache.

An attestation is trusted or not, and the Rego policy is one that allows a
trusted and denies an untrusted attestation; the sigstore policy has an identity
requirement.

## What is proved

The proofs hold for all values of the constants that satisfy the named `ASSUME`s
of the modules: types of the constants, `None` distinct from everything else,
and configurations of the right shape. TLC evaluates them in each run.

* `DiskCache_proofs`: `WholeAtKeyHolds`, `NoTempLeakHolds`, `OnePrunerHolds`,
  `StateOKHolds`, for any number of goroutines, processes, keys and crashes.
  `WholeAtKey` alone is not inductive: a rename is safe because the temporary
  file is whole, belongs to one Put only, and is not recreated. `IInv` adds that
  (`TempFilesOK`, `TempsOK`) and which arguments each label has (`ArgsOK`).
  `ImplementsCacheHolds` is the refinement, for the safety part of the
  specification: under `IInv` the content of a key is the key or nothing; each
  action is then an action of `ContentCache` or a stutter.
  `PruneReachesTargetHolds` rests on `WalkOK`: what Prune counts as remaining is
  never less than the entries still listed, because it is lowered only with them.
  `CounterExactHolds` and `WithinLimitHolds` are about a cache that one goroutine
  uses (with more they do not hold, see the observations). `SoloInv` says how far
  the counter is from the settled files at each label: by the file that was
  renamed and is not counted yet, or removed and not taken off. The sums are the
  library's `SumFunction`, a recursion over a set; the lemmas before `WalkOK`
  show what it adds up to, by induction over finite sets.
* `BatchPipeline_proofs`: `HonestResultHolds`. `IInv` says where each group is:
  as long as nobody failed, a group that was handed out is processed, with a
  reader, in the channel or with the consumer (`Flow`). So the channel is never
  found closed and empty too early. `BudgetConservedHolds` adds to it that each
  group is handed out once (`Once`) and that what the semaphore counts as used is
  the sum of the sizes of the groups that hold some of it, where a reader that
  waits holds nothing and is in the semaphore's queue only once (`SemOK`).
* `Extraction_proofs`: `AtomicFilesHolds`. `IInv` says what the temporary file
  holds at each label; a worker, or CopyFile, reaches its commit only with whole
  content. The module also proves what the groups and the workers' turns are, for
  any archive: sorting and grouping put each entry that is to be copied into
  exactly one place of one group (`PlanFacts`, and `PlanOK` as an invariant), and
  the workers of a group share its places so that each has one owner (`OwnsOnce`,
  `OwnsAll`; `TurnsOK`).
* `ExtractionFiles_proofs`: `StatsExactHolds`, `NilMeansCopiedHolds`,
  `NothingUnfinishedHolds`, the last for destinations cleaned first too. None of
  them is inductive, because they speak of the moment of return only. `CInv` adds
  that while a group is processed the whole files are those of earlier groups, of
  places passed, and of workers about to count theirs, and that the counts agree
  with them (`DestOK`); that between groups what is not in place is in a later
  group or skipped, and after a nil error is skipped (`RestOK`); that what was
  there before and is not to be overwritten is left alone (`OldOK`); and that an
  unfinished file under its final name is that of a worker that is writing or
  about to discard it (`UnfinishedOK`).
* `LocalArchive_proofs`: `ReadVerifiedHolds`, `CacheCleanHolds`,
  `NoSpuriousErrorHolds`, `FilesPairedHolds`, for any number of readers, Blobs,
  writers, files and reads per file, of the composition of `BlobRead` with local
  files. `IInv` has two halves. `ReadersInv` says what each label of a reader
  knows of the content it has (`ReadersOK`), and what is the same from one read
  to the next where nothing rewrites the file (`SteadyOK`). `FilesInv` says which
  inodes a writer alone has (`JobsOK`, `StagesOK`), that a Blob keeps the inode
  it opened (`SourcesOK`), and what is at the two paths at each stage of a lone
  Save or CreateBlob (`SavedOK`).
* `DataSource_proofs`, of `BlockSource`: `ReadExactHolds`, `NoOlderBytesHolds`,
  for any size of blocks and versions, any offsets and lengths, and any number of
  readers. `ReadExact` speaks of results only; `SInv` adds what the block loop has
  copied before it is at a block (`LoopOK`), that the bytes a reader has fetched
  are those of one version (`FetchedOK`), that a source's size and ETag belong to
  one version (`SourceOK`), and that a cached block is in its place and no older
  than the ETag it is stored under (`BlockOK`).
* `DataSource_proofs`, of the composition: `ImplementsParts`, that Pull's data source behaves as a
  `BlockSource` and as `AuthHeaders`, each seen alone; its invariant `Linked`
  says that a reader whose source is open is not inside a header lookup. What
  holds of the parts therefore holds of the composition: `DataReadExact`,
  `DataNoOlderBytes`, `HeaderFreshHolds`, `RefreshedHolds`, the last two for any
  number of clients, hosts, addresses and places in the cache. `HInv` bounds how
  long ago a cached credential, and one that a call has just found, was in the
  store (`CachedFresh`, `Timely`), and says that what an invalidation is to
  forget is cached nowhere and found by no later call (`NotRevoked`).
* `RegistryClient_proofs`: `OnlyVerifiedHolds` with the types,
  `PolicyEnforcedHolds`, `BoundedStalenessHolds`. The last rests on `StaleInv`:
  the cached digest was current at most one call duration before the time of its
  file, and each label of a call bounds how old its digest may be.
* `Publishing_proofs`: `CompleteHolds`, of `Publishing` and of its composition
  with `GittufPolicy`; `StageOK` says what a caller has in the repository at each
  label, and nothing is ever removed, so other callers keep it. Of the
  composition also `PushTaggedHolds`, `PushedIsSignedHolds` (without a ref cache;
  with one it does not hold, see `Publish_stale`), `AcceptedWithEvidenceHolds`,
  `EvidenceAcceptedHolds` and `GittufVerifiedHolds`. `GInv` adds what a caller's
  locals stand for (`LabelOK`), which manifests tags and referrers can lead to
  (`TagOK`, `ReferrersOK`), what an evaluation has seen at each label (`EvalOK`),
  and how old the clone and the log of a gittuf evaluation are (`GittufOK`).

Only model-checked: all liveness properties and deadlock freedom, because the
prover has no rules for fairness and `ENABLED`; and `ArchiveIndex`, whose parser
and searches are `RECURSIVE` operators, which the prover's SMT backend does not
take. Induction over data is done where a proof needs it (sums over files and
groups, the grouping fold, sorting by offset): the set of the numbers, or of the
finite sets, of which the claim holds is shown to be all of them (`NatSet`,
`SubsetInduction`), from the least-element theorem of the library. `SortByOffset`
is defined by what it returns, the increasing enumeration, and the proof shows
that one exists.

## Findings

* `core/cache/disk/cache.go:155`: a Put may prune its own temporary file
  (`DiskCache_selfprune`).
* `core/internal/batch/batch.go:279`: the read-ahead budget is taken out of
  order and given back in order; the pipeline can stall (`Batch_stuck`).
* `core/create.go:120`: the index is in the order of the walk, not of the paths
  (`Archive_lookup`).
* `registry/sign.go:42`: Sign after Push to a moved tag signs the manifest the
  ref cache remembers (`Publish_stale`).

## Observations

Met while modelling, and not stated as properties:

* `DiskCache`: on a limited content cache a Put that prunes counts its own
  temporary file twice, so `SizeBytes` drifts upwards. Concurrent Puts are
  admitted on the same counter value, and the directory may exceed the limit.
  `bytes.Store` in Prune overwrites Adds made since the walk, in both
  directions, so that `SizeBytes` may even become negative.
* `ReadFile`'s second look into the cache (`core/blob.go:390`) returns what it
  finds without comparing the hash. A file that another goroutine stores and
  something damages between the two looks would be returned. The `Damage` action
  of `BlobRead` leaves this window out.
* Open fails if the cache's Put fails (`core/cache_support.go:170`); ReadFile
  ignores that error.
* `NewSource` does not look at the status of the answer to HEAD
  (`core/http/source.go:260`): of a server that refuses HEAD it takes the length
  and validators of the refusal, and the range probe reports a size mismatch.
* Stat and Open of `.` in an empty archive say "not exist", although
  `ReadDir(".")` succeeds. A directory handle that was closed starts over.
* CopyFile with overwriting removes the destination before the rename, so it may
  be missing for a moment, or for good if the rename fails.
* Save removes the index, also that of the archive that was there before, when
  writing the data fails. A crash between its two renames, or two Saves at once,
  leave the index of one archive beside the data of another, and OpenFile does
  not compare them: reads then fail with hash mismatches. CreateBlob rewrites the
  files below open Blobs, with the same effect.
* The gittuf cache checks its TTL against the last use, so that an entry in use
  never expires, while `policy/gittuf/options.go:42` says "Repositories older
  than the TTL will be refreshed on next use"; the log is pulled at each
  evaluation all the same. An expired entry is not removed before it is cloned
  again. With `WithAllowMissingGittuf` every failure to clone excuses, also one
  of the network.
* After a 412 the HTTP source reads the newer version, and the block cache keeps
  it under the older ETag: wrong, if the server goes back to the older version.
  A resource that has become shorter gives an early EOF.
* `getBlock` subtracts the length of a truncated block from the counter, not the
  length that was added for it.
* `registry/fetch_opts.go:12` says that with `WithSkipCache` the manifest "is
  still added to the cache after retrieval"; `registry/fetch.go:47` does not add
  it. The digest is offered to the ref cache, but `PutDigest` keeps an existing
  entry, so that such a fetch does not refresh it.
* `docs/docs/guides/caching.md:61` gives the ref cache a default TTL of 15
  minutes; `DefaultRefCacheTTL` is 5 minutes.
* A second Close of an open compressed file after a read error may use a
  decoder that was given back to the pool.

## Not modelled

* Encoding: FlatBuffers (generated), zstd, and the formats of manifests,
  bundles, predicates and Rego policies. They are abstracted to what they decide.
* The client facade and its options, which pass values on and change no state.
* `ReadAt` of an open file, which does not verify and keeps no state;
  Last-Modified as a validator, whose part the ETag plays.
* URLs and the token exchange of the ORAS library; credentials that hold only a
  refresh token.
* Progress events and logging.
* `Extraction` takes groups as they are delivered in order; that they are is
  `HonestResult` of `BatchPipeline`, and the two are not composed.
