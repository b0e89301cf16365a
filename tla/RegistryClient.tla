--------------------------- MODULE RegistryClient ---------------------------
(***************************************************************************)
(* Fetch, Pull and Inspect of the registry client, with the disk caches of *)
(* references, manifests and indexes, against a registry where a tag moves *)
(* from archive to archive.  Several calls run at once, in one process or  *)
(* in several that share the cache directory.                              *)
(*                                                                         *)
(* An archive is named by the digest of its manifest, which determines its *)
(* index.  A cached file is "good" (it has the digest it is stored under), *)
(* "bad" (damaged on disk) or absent.  Of the caches' size limits only the *)
(* effect is kept: an entry may be evicted or not be stored at all.        *)
(***************************************************************************)
EXTENDS Integers

CONSTANTS
    Archives,  \* digests of the archives that the tag may point to
    Clients,   \* concurrent calls
    TTL,       \* WithRefCacheTTL
    CallTime,  \* longest duration of a call
    Configs,   \* what may happen around the calls, see below
    None       \* no digest, no file

ASSUME RegistryAssumption ==
    /\ TTL \in Nat
    /\ CallTime \in Nat
    /\ None \notin Archives \cup {"good", "bad"}
    /\ "bad" \notin Archives
    /\ \A f \in Configs :
         /\ f.archives \subseteq Archives
         /\ f.ops \subseteq {"fetch", "inspect", "pull", "pinned"}

VARIABLES
    now,        \* the clock
    tag,        \* the archive that the tag points to
    last,       \* last[a]: when the tag last pointed to a, if it has moved on
    accepted,   \* archives that the policies accept at present
    ref,        \* the cached digest of the tag, None, or "bad" (not a digest)
    mtime,      \* modification time of that file
    manifests,  \* manifests[a]: the cached manifest of a
    indexes,    \* indexes[a]: the cached index of a
    pc,         \* pc[c]: what call c does next
    op,         \* op[c]: Fetch, Inspect or Pull of the tag; "pinned" is Pull by digest
    skip,       \* skip[c]: the skip-cache option
    started,    \* started[c]: when the call began
    dig,        \* dig[c]: the digest that the tag was resolved to
    wrote,      \* wrote[c]: modification time of the temporary ref file of c
    fromCache,  \* fromCache[c]: the manifest came from the cache
    got,        \* got[c]: whether what the call read is "good"
    seen,       \* seen[c]: archives the policies accepted at some time in the call
    conf        \* the configuration, which never changes

registry == <<tag, last, accepted>>
caches == <<ref, mtime, manifests, indexes>>
args == <<op, skip, started>>
results == <<dig, fromCache, got>>
vars == <<now, registry, caches, pc, args, results, wrote, seen, conf>>

Pushed == conf.archives   \* the archives in the registry
Ops == conf.ops           \* the calls that are made
Moody == conf.moody       \* whether what the policies accept changes
Damage == conf.damage     \* whether the caches damage, evict or refuse files
MaxTime == conf.maxTime   \* bound on the clock

Never == 0 - (TTL + CallTime + 1)
Files == {None, "good", "bad"}

Init ==
    /\ conf \in Configs
    /\ now = 0
    /\ tag \in Pushed
    /\ last = [a \in Archives |-> Never]
    /\ accepted = Archives
    /\ ref = None
    /\ mtime = 0
    /\ manifests = [a \in Archives |-> None]
    /\ indexes = [a \in Archives |-> None]
    /\ pc = [c \in Clients |-> "idle"]
    /\ op = [c \in Clients |-> "fetch"]
    /\ skip = [c \in Clients |-> FALSE]
    /\ started = [c \in Clients |-> 0]
    /\ dig = [c \in Clients |-> None]
    /\ wrote = [c \in Clients |-> 0]
    /\ fromCache = [c \in Clients |-> FALSE]
    /\ got = [c \in Clients |-> "good"]
    /\ seen = [c \in Clients |-> {}]

At(c, label) == pc[c] = label
Goto(c, label) == pc' = [pc EXCEPT ![c] = label]
Active(c) == ~At(c, "idle")

-----------------------------------------------------------------------------
(* The world around the calls *)

Tick ==
    /\ now < MaxTime
    /\ \A c \in Clients : Active(c) => now - started[c] < CallTime
    /\ now' = now + 1
    /\ UNCHANGED <<registry, caches, pc, args, results, wrote, seen>>

\* A push or Tag moves the tag.
Retag(a) ==
    /\ a # tag
    /\ last' = [last EXCEPT ![tag] = now]
    /\ tag' = a
    /\ UNCHANGED <<now, accepted, caches, pc, args, results, wrote, seen>>

\* What the policies find (signatures, attestations) changes.
PolicyChanges(a) ==
    /\ Moody
    /\ accepted' = IF a \in accepted THEN accepted \ {a} ELSE accepted \cup {a}
    /\ seen' = [c \in Clients |-> IF Active(c) THEN seen[c] \cup accepted' ELSE {}]
    /\ UNCHANGED <<now, tag, last, caches, pc, args, results, wrote>>

DamageRef ==
    /\ Damage /\ ref # None
    /\ ref' \in {None, "bad"}
    /\ UNCHANGED <<now, registry, mtime, manifests, indexes, pc, args, results, wrote, seen>>

DamageManifest(a) ==
    /\ Damage /\ manifests[a] # None
    /\ \E f \in {None, "bad"} : manifests' = [manifests EXCEPT ![a] = f]
    /\ UNCHANGED <<now, registry, ref, mtime, indexes, pc, args, results, wrote, seen>>

DamageIndex(a) ==
    /\ Damage /\ indexes[a] # None
    /\ \E f \in {None, "bad"} : indexes' = [indexes EXCEPT ![a] = f]
    /\ UNCHANGED <<now, registry, ref, mtime, manifests, pc, args, results, wrote, seen>>

-----------------------------------------------------------------------------
(* resolveDigest *)

Start(c, o, s) ==
    /\ At(c, "idle")
    /\ op' = [op EXCEPT ![c] = o]
    /\ skip' = [skip EXCEPT ![c] = s]
    /\ started' = [started EXCEPT ![c] = now]
    /\ seen' = [seen EXCEPT ![c] = accepted]
    /\ IF o = "pinned" THEN Goto(c, "manifest") /\ \E a \in Pushed : dig' = [dig EXCEPT ![c] = a]
       ELSE Goto(c, IF s THEN "resolve" ELSE "stat") /\ UNCHANGED dig
    /\ UNCHANGED <<now, registry, caches, fromCache, got, wrote>>

NeverExpires == FALSE  \* mutant: the age is not compared
\* c.ttl > 0 and time.Since(info.ModTime()) > c.ttl
Expired == TTL > 0 /\ now - mtime > TTL

\* GetDigest: stat for the age.
RefStat(c) ==
    /\ At(c, "stat")
    /\ Goto(c, IF ref = None THEN "resolve" ELSE IF Expired THEN "expire" ELSE "read")
    /\ UNCHANGED <<now, registry, caches, args, results, wrote, seen>>

\* deleteByPath removes whatever is there now, which may be a newer file.
RefExpire(c) ==
    /\ At(c, "expire")
    /\ ref' = None
    /\ Goto(c, "resolve")
    /\ UNCHANGED <<now, registry, mtime, manifests, indexes, args, results, wrote, seen>>

\* isValidDigestFormat
IsDigest(f) == f \in Archives

\* GetDigest: read the file and check that it holds a digest.
RefRead(c) ==
    /\ At(c, "read")
    /\ IF IsDigest(ref)
       THEN dig' = [dig EXCEPT ![c] = ref] /\ Goto(c, "manifest")
       ELSE UNCHANGED dig /\ Goto(c, IF ref = "bad" THEN "expire" ELSE "resolve")
    /\ UNCHANGED <<now, registry, caches, args, fromCache, got, wrote, seen>>

\* oci.Resolve
Resolve(c) ==
    /\ At(c, "resolve")
    /\ dig' = [dig EXCEPT ![c] = tag]
    /\ Goto(c, "refput")
    /\ UNCHANGED <<now, registry, caches, args, fromCache, got, wrote, seen>>

\* PutDigest keeps an existing entry; otherwise it writes a temporary file ...
RefPut(c) ==
    /\ At(c, "refput")
    /\ IF ref # None THEN Goto(c, "manifest") /\ UNCHANGED wrote
       ELSE wrote' = [wrote EXCEPT ![c] = now] /\ Goto(c, "rename")
    /\ UNCHANGED <<now, registry, caches, args, results, seen>>

\* ... and renames it, also over a file that appeared in the meantime.
RefRename(c) ==
    /\ At(c, "rename")
    /\ ref' = dig[c]
    /\ mtime' = wrote[c]
    /\ wrote' = [wrote EXCEPT ![c] = 0]
    /\ Goto(c, "manifest")
    /\ UNCHANGED <<now, registry, manifests, indexes, args, results, seen>>

-----------------------------------------------------------------------------
(* fetchManifestByDigest, evaluatePolicies and the rest of Fetch *)

AcceptBad(f) == f # None  \* mutant: the digest is not recomputed
\* digestMatches on what was read from a cache
Matches(f) == f = "good"

\* GetManifest
GetManifest(c) ==
    /\ At(c, "manifest")
    /\ LET f == manifests[dig[c]] IN
       IF ~skip[c] /\ Matches(f)
       THEN /\ fromCache' = [fromCache EXCEPT ![c] = TRUE]
            /\ got' = [got EXCEPT ![c] = f]
            /\ Goto(c, "policy")
       ELSE /\ Goto(c, IF skip[c] \/ f = None THEN "fetch" ELSE "drop")
            /\ UNCHANGED <<fromCache, got>>
    /\ UNCHANGED <<now, registry, caches, args, dig, wrote, seen>>

\* A damaged file is deleted, whatever is there now.
DropManifest(c) ==
    /\ At(c, "drop")
    /\ manifests' = [manifests EXCEPT ![dig[c]] = None]
    /\ Goto(c, "fetch")
    /\ UNCHANGED <<now, registry, ref, mtime, indexes, args, results, wrote, seen>>

\* oci.FetchManifest by digest, which is verified.
FetchManifest(c) ==
    /\ At(c, "fetch")
    /\ fromCache' = [fromCache EXCEPT ![c] = FALSE]
    /\ got' = [got EXCEPT ![c] = "good"]
    /\ Goto(c, "policy")
    /\ UNCHANGED <<now, registry, caches, args, dig, wrote, seen>>

\* Fetch is done; Pull and Inspect go on to the index, Pull to the data source.
AfterFetch(c) == IF op[c] = "fetch" THEN "ok" ELSE "index"
AfterIndex(c) == IF op[c] = "inspect" THEN "ok" ELSE "source"

TrustCached(c) == dig[c] \in accepted \/ fromCache[c]  \* mutant: only fetched manifests are judged
\* Every policy accepts.
PoliciesAccept(c) == dig[c] \in accepted

EvaluatePolicies(c) ==
    /\ At(c, "policy")
    /\ Goto(c, IF ~PoliciesAccept(c) THEN (IF fromCache[c] THEN "reject" ELSE "err")
               ELSE IF fromCache[c] \/ skip[c] THEN AfterFetch(c) ELSE "put")
    /\ UNCHANGED <<now, registry, caches, args, results, wrote, seen>>

\* A cached manifest that is rejected leaves the cache.
RejectManifest(c) ==
    /\ At(c, "reject")
    /\ manifests' = [manifests EXCEPT ![dig[c]] = None]
    /\ Goto(c, "err")
    /\ UNCHANGED <<now, registry, ref, mtime, indexes, args, results, wrote, seen>>

PutManifest(c) ==
    /\ At(c, "put")
    /\ manifests' = [manifests EXCEPT ![dig[c]] = IF @ = None THEN got[c] ELSE @]
    /\ Goto(c, AfterFetch(c))
    /\ UNCHANGED <<now, registry, ref, mtime, indexes, args, results, wrote, seen>>

-----------------------------------------------------------------------------
(* fetchIndexBlob *)

\* tryIndexCache, with GetIndex and validateCachedIndex
TryIndexCache(c) ==
    /\ At(c, "index")
    /\ LET f == indexes[dig[c]] IN
       IF ~skip[c] /\ Matches(f)
       THEN got' = [got EXCEPT ![c] = f] /\ Goto(c, AfterIndex(c))
       ELSE UNCHANGED got /\ Goto(c, IF skip[c] \/ f = None THEN "fetchindex" ELSE "dropindex")
    /\ UNCHANGED <<now, registry, caches, args, dig, fromCache, wrote, seen>>

DropIndex(c) ==
    /\ At(c, "dropindex")
    /\ indexes' = [indexes EXCEPT ![dig[c]] = None]
    /\ Goto(c, "fetchindex")
    /\ UNCHANGED <<now, registry, ref, mtime, manifests, args, results, wrote, seen>>

\* oci.FetchBlob, readIndexData and verifyIndexDigest
FetchIndex(c) ==
    /\ At(c, "fetchindex")
    /\ got' = [got EXCEPT ![c] = "good"]
    /\ Goto(c, "putindex")
    /\ UNCHANGED <<now, registry, caches, args, dig, fromCache, wrote, seen>>

\* PutIndex, with the skip-cache option too.
PutIndex(c) ==
    /\ At(c, "putindex")
    /\ indexes' = [indexes EXCEPT ![dig[c]] = IF @ = None THEN got[c] ELSE @]
    /\ Goto(c, AfterIndex(c))
    /\ UNCHANGED <<now, registry, ref, mtime, manifests, args, results, wrote, seen>>

\* createDataSource and blob.New touch no cache.
CreateDataSource(c) ==
    /\ At(c, "source")
    /\ Goto(c, "ok")
    /\ UNCHANGED <<now, registry, caches, args, results, wrote, seen>>

\* A cache stores nothing and reports success: it is full, or its rename failed
\* where another call's file is in place.
CacheDeclines(c) ==
    /\ Damage
    /\ \/ At(c, "refput") /\ Goto(c, "manifest")
       \/ At(c, "rename") /\ ref # None /\ Goto(c, "manifest")
       \/ At(c, "put") /\ Goto(c, AfterFetch(c))
       \/ At(c, "putindex") /\ Goto(c, AfterIndex(c))
    /\ UNCHANGED <<now, registry, caches, args, results, wrote, seen>>

\* A request to the registry or a write to a cache fails; the manifest does not
\* parse ("policy"); the index is too large ("index").
CallFails(c) ==
    /\ pc[c] \in {"resolve", "refput", "rename", "fetch", "policy", "put", "index",
                  "fetchindex", "putindex", "source"}
    /\ Goto(c, "err")
    /\ UNCHANGED <<now, registry, caches, args, results, wrote, seen>>

\* The caller has the result and the call's locals are gone.
Returns(c) ==
    /\ pc[c] \in {"ok", "err"}
    /\ Goto(c, "idle")
    /\ op' = [op EXCEPT ![c] = "fetch"]
    /\ skip' = [skip EXCEPT ![c] = FALSE]
    /\ started' = [started EXCEPT ![c] = 0]
    /\ dig' = [dig EXCEPT ![c] = None]
    /\ fromCache' = [fromCache EXCEPT ![c] = FALSE]
    /\ got' = [got EXCEPT ![c] = "good"]
    /\ wrote' = [wrote EXCEPT ![c] = 0]
    /\ seen' = [seen EXCEPT ![c] = {}]
    /\ UNCHANGED <<now, registry, caches>>

Call(c) ==
    \/ \E o \in Ops, s \in BOOLEAN : Start(c, o, s)
    \/ RefStat(c) \/ RefExpire(c) \/ RefRead(c) \/ Resolve(c) \/ RefPut(c) \/ RefRename(c)
    \/ GetManifest(c) \/ DropManifest(c) \/ FetchManifest(c)
    \/ EvaluatePolicies(c) \/ RejectManifest(c) \/ PutManifest(c)
    \/ TryIndexCache(c) \/ DropIndex(c) \/ FetchIndex(c) \/ PutIndex(c)
    \/ CreateDataSource(c) \/ CacheDeclines(c) \/ CallFails(c) \/ Returns(c)

World ==
    \/ Tick \/ DamageRef
    \/ \E a \in Pushed : Retag(a) \/ PolicyChanges(a) \/ DamageManifest(a) \/ DamageIndex(a)

Next ==
    /\ World \/ \E c \in Clients : Call(c)
    /\ UNCHANGED conf

Spec == Init /\ [][Next]_vars
-----------------------------------------------------------------------------
(* Properties *)

Labels ==
    {"idle", "stat", "expire", "read", "resolve", "refput", "rename", "manifest", "drop",
     "fetch", "policy", "reject", "put", "index", "dropindex", "fetchindex", "putindex",
     "source", "ok", "err"}

\* The types of the variables, from which the proofs start: only digests are
\* taken from the ref cache, and pc stays among the labels.
TypeOK ==
    /\ now \in Nat
    /\ tag \in Archives
    /\ last \in [Archives -> Int]
    /\ accepted \subseteq Archives
    /\ ref \in Archives \cup {None, "bad"}
    /\ mtime \in Nat
    /\ manifests \in [Archives -> Files]
    /\ indexes \in [Archives -> Files]
    /\ pc \in [Clients -> Labels]
    /\ op \in [Clients -> {"fetch", "inspect", "pull", "pinned"}]
    /\ skip \in [Clients -> BOOLEAN]
    /\ started \in [Clients -> Nat]
    /\ dig \in [Clients -> Archives \cup {None}]
    /\ wrote \in [Clients -> Nat]
    /\ fromCache \in [Clients -> BOOLEAN]
    /\ got \in [Clients -> Files]
    /\ seen \in [Clients -> SUBSET Archives]
    /\ conf \in Configs

\* When the tag last pointed to a.
Held(a) == IF tag = a THEN now ELSE last[a]

\* "Entries older than the configured TTL are treated as cache misses"
\* (GetDigest), and the skip-cache option "forces a fresh fetch": a call that
\* succeeds returns an archive that the tag pointed to at most TTL before the
\* call began, plus the time that the call that wrote the cache entry took;
\* with skip-cache, one that the tag pointed to during the call.  (A call by
\* digest resolves nothing; without a TTL entries never expire.)
BoundedStaleness ==
    \A c \in Clients : At(c, "ok") /\ op[c] # "pinned" /\ (TTL > 0 \/ skip[c]) =>
        Held(dig[c]) >= started[c] - (IF skip[c] THEN 0 ELSE TTL + CallTime)

\* Fetch evaluates the policies on cached manifests too: no call returns an
\* archive that the policies rejected during all of the call.
PolicyEnforced == \A c \in Clients : At(c, "ok") => dig[c] \in seen[c]

\* "Delete, return miss" (caching.md): a damaged manifest or index is never
\* returned, and never spreads from a call to the caches.
OnlyVerified == \A c \in Clients : got[c] = "good"
=============================================================================
