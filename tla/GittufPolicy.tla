---------------------------- MODULE GittufPolicy ----------------------------
(***************************************************************************)
(* The gittuf policy: Evaluate finds provenance among the referrers of the *)
(* manifest, gets a clone of the source repository from a RepositoryCache, *)
(* refreshes its reference state log (RSL) and verifies a ref.  Callers    *)
(* evaluate while others publish, as Publishing says; cache objects, each  *)
(* with a mutex, share one directory, as those that DefaultCache makes do. *)
(*                                                                         *)
(* The source repository is its version: the ref verifies at the versions  *)
(* conf.good.  Attestations are SLSA provenance.                           *)
(***************************************************************************)
EXTENDS Publishing, FiniteSets

CONSTANTS
    Urls,        \* source repositories
    Caches,      \* RepositoryCache objects
    MaxVersion   \* bound on the versions of a source repository

ASSUME GittufAssumption ==
    /\ None \notin Callers
    /\ \A c \in Configs, p \in Callers : c.gittuf[p].url \in Urls

VARIABLES
    remote,  \* remote[u]: version of the source repository
    clone,   \* clone[u]: the clone in the cache directory
    meta,    \* meta[u]: LastUsed in the metadata file
    mu,      \* mu[c]: who holds the mutex of cache object c
    trace    \* trace[p]: history of p's evaluation

disk == <<clone, meta>>
gittuf == <<remote, disk, mu, trace>>

Policy(p) == conf.gittuf[p]
Url(p) == Policy(p).url

NoClone == [by |-> None, rsl |-> 0, whole |-> FALSE]
NoTrace == [began |-> 0, saw |-> 0, why |-> "none"]

GittufInit ==
    /\ Init
    /\ remote = [u \in Urls |-> 0]
    /\ clone = [u \in Urls |-> NoClone]
    /\ meta = [u \in Urls |-> None]
    /\ mu = [c \in Caches |-> None]
    /\ trace = [p \in Callers |-> NoTrace]

\* Evaluate returns r, because of why.
Exit(p, r, why) == Return(p, r) /\ trace' = [trace EXCEPT ![p].why = why]
\* The step leaves all of Publishing alone but where p is and what it returns.
Inside == UNCHANGED <<repo, cached, clock, man, pushed, at, eval>>

-----------------------------------------------------------------------------
(* extractSourceInfo *)

Provenance(m) == \E r \in manifests : r.subject = m /\ \E b \in r.layers \cap blobs : b.kind = "intoto"

\* Provenance v1 names the ref, v0.2 ("other") does not.
NamesRef(b) == b.by = "trusted"

GittufEvaluate(p) ==
    LET m == tags[Tag1(p)] IN
    /\ At(p, "idle") /\ Job(p).do = "gittuf" /\ m # None
    /\ man' = [man EXCEPT ![p] = m]
    /\ must' = [must EXCEPT ![p] = Provenance(m)]
    /\ kinds' = [kinds EXCEPT ![p] = <<"intoto", "bundle">>]
    /\ trace' = [trace EXCEPT ![p] = [NoTrace EXCEPT !.began = remote[Url(p)]]]
    /\ Goto(p, "extract")
    /\ UNCHANGED <<repo, cached, clock, pushed, at, todo, found, ret, remote, disk, mu>>

Searching(p) == At(p, "extract") /\ found[p] = {}

ListProvenance(p) ==
    /\ Searching(p) /\ todo[p] = {} /\ kinds[p] # <<>>
    /\ kinds' = [kinds EXCEPT ![p] = Tail(@)]
    /\ todo' = [todo EXCEPT ![p] = Referrers(man[p], Head(kinds[p]))]
    /\ UNCHANGED <<repo, cached, clock, pc, man, pushed, at, found, must, ret, gittuf>>

\* The next type is tried, unless the registry does not know referrers.
ListProvenanceFails(p) ==
    /\ conf.faults /\ Searching(p) /\ todo[p] = {} /\ kinds[p] # <<>>
    /\ \/ kinds' = [kinds EXCEPT ![p] = Tail(@)] /\ UNCHANGED <<pc, ret>>
       \/ Return(p, "err") /\ UNCHANGED kinds
    /\ UNCHANGED <<repo, cached, clock, man, pushed, at, todo, found, must, gittuf>>

\* What cannot be fetched or parsed is passed over.
tryExtractSourceInfo(p) ==
    /\ Searching(p)
    /\ \E r \in todo[p] :
         /\ todo' = [todo EXCEPT ![p] = @ \ {r}]
         /\ \/ found' = [found EXCEPT ![p] = {b \in r.layers \cap blobs : b.kind = "intoto"}]
            \/ conf.faults /\ UNCHANGED found
    /\ UNCHANGED <<repo, cached, clock, pc, man, pushed, at, kinds, must, ret, gittuf>>

NoProvenance(p) ==
    /\ Searching(p) /\ todo[p] = {} /\ kinds[p] = <<>>
    /\ Exit(p, IF Policy(p).allowMissingProvenance THEN "nil" ELSE "err", "no provenance")
    /\ Inside /\ UNCHANGED <<remote, disk, mu>>

-----------------------------------------------------------------------------
(* RepositoryCache.Get, under the mutex of the cache object *)

Lock(p) ==
    /\ At(p, "extract") /\ found[p] # {}
    /\ mu[Policy(p).cache] = None
    /\ mu' = [mu EXCEPT ![Policy(p).cache] = p]
    /\ Goto(p, "check")
    /\ Inside /\ UNCHANGED <<ret, remote, disk, trace>>
Unlock(p) == mu' = [mu EXCEPT ![Policy(p).cache] = None]

RemoveAll(us) ==
    /\ clone' = [u \in Urls |-> IF u \in us THEN NoClone ELSE clone[u]]
    /\ meta' = [u \in Urls |-> IF u \in us THEN None ELSE meta[u]]

\* The metadata that can be read; WriteFile first truncates the file.
Known == {u \in Urls : meta[u] # None /\ \A p \in Callers : Url(p) = u => pc[p] \notin {"touch", "stamp"}}

\* time.Since(meta.LastUsed) < c.ttl
isValidCache(u) == u \in Known /\ clock - meta[u] < conf.ttl

\* A valid entry is loaded; one that does not load is removed.
LoadRepository(p) ==
    LET u == Url(p) IN
    /\ At(p, "check")
    /\ IF isValidCache(u) /\ clone[u].whole
       THEN Goto(p, "touch") /\ UNCHANGED disk
       ELSE /\ IF isValidCache(u) THEN RemoveAll({u}) ELSE UNCHANGED disk
            /\ Goto(p, "clone")
    /\ Inside /\ UNCHANGED <<ret, remote, mu, trace>>

\* Clone begins; where an entry has expired its directory is still there.
Clone(p) ==
    /\ At(p, "clone")
    /\ clone' = [clone EXCEPT ![Url(p)] = [by |-> p, rsl |-> remote[Url(p)], whole |-> FALSE]]
    /\ Goto(p, "cloning")
    /\ Inside /\ UNCHANGED <<ret, remote, meta, mu, trace>>

CloneDone(p) ==
    LET u == Url(p) IN
    /\ At(p, "cloning") /\ clone[u].by = p
    /\ \E v \in clone[u].rsl .. remote[u] : clone' = [clone EXCEPT ![u].whole = TRUE, ![u].rsl = v]
    /\ Goto(p, "stamp")
    /\ Inside /\ UNCHANGED <<ret, remote, meta, mu, trace>>

\* The remote fails, the directory is not empty, or another one removes it.
CloneFails(p) ==
    LET u == Url(p) IN
    /\ \/ At(p, "clone") /\ (conf.faults \/ clone[u] # NoClone)
       \/ At(p, "cloning") /\ (conf.faults \/ clone[u].by # p)
    /\ RemoveAll({u})
    /\ Unlock(p)
    /\ Exit(p, IF Policy(p).allowMissingGittuf THEN "nil" ELSE "err", "no clone")
    /\ Inside /\ UNCHANGED remote

\* The write goes nowhere if another cache object has removed the entry; that it
\* fails is ignored.
updateMetadata(p) ==
    LET u == Url(p) IN
    /\ pc[p] \in {"touch", "stamp"}
    /\ \/ clone[u] # NoClone /\ meta' = [meta EXCEPT ![u] = clock]
       \/ clone[u] = NoClone /\ UNCHANGED meta
       \/ conf.faults /\ meta' \in {meta, [meta EXCEPT ![u] = None]}
    /\ IF At(p, "touch") THEN Unlock(p) /\ Goto(p, "has") ELSE Goto(p, "evict") /\ UNCHANGED mu
    /\ Inside /\ UNCHANGED <<ret, remote, clone, trace>>

\* Of the entries with metadata maxEntries are left; the oldest are removed.
Evicted ==
    {us \in SUBSET Known : /\ Cardinality(Known \ us) = conf.maxEntries
                           /\ \A u \in us, v \in Known \ us : meta[u] <= meta[v]}

Entries == {u \in Urls : clone[u] # NoClone \/ meta[u] # None}

evictOldEntries(p) ==
    /\ At(p, "evict")
    /\ IF Cardinality(Entries) > conf.maxEntries /\ Cardinality(Known) > conf.maxEntries
       THEN \E us \in Evicted : RemoveAll(us)
       ELSE UNCHANGED disk
    /\ Unlock(p)
    /\ Goto(p, "has")
    /\ Inside /\ UNCHANGED <<ret, remote, trace>>

\* Invalidate, and Clear for all repositories
Invalidate(c, us) ==
    /\ conf.invalidates /\ mu[c] = None
    /\ RemoveAll(us)
    /\ Inside /\ UNCHANGED <<pc, ret, remote, mu, trace>>

-----------------------------------------------------------------------------
(* Verification, without the mutex: the clone may change or go *)

HasPolicy(p) ==
    LET u == Url(p) IN
    /\ At(p, "has")
    /\ \/ clone[u].whole /\ u \in conf.enabled /\ Goto(p, "pull") /\ UNCHANGED <<ret, trace>>
       \/ /\ clone[u] # NoClone /\ (clone[u].whole => u \notin conf.enabled)
          /\ Exit(p, IF Policy(p).allowMissingGittuf THEN "nil" ELSE "err", "no gittuf")
       \/ (conf.faults \/ ~clone[u].whole) /\ Exit(p, "err", "no clone")
    /\ Inside /\ UNCHANGED <<remote, disk, mu>>

SkipPull(p) ==  \* mutant: the log is not refreshed
    /\ At(p, "pull")
    /\ Goto(p, "verify")
    /\ Inside /\ UNCHANGED <<ret, gittuf>>
\* A failure is ignored, and the log that was cloned is used.
PullRSL(p) ==
    LET u == Url(p) IN
    /\ At(p, "pull")
    /\ \/ clone[u].whole /\ clone' = [clone EXCEPT ![u].rsl = remote[u]]
       \/ (conf.faults \/ ~clone[u].whole) /\ UNCHANGED clone
    /\ Goto(p, "verify")
    /\ Inside /\ UNCHANGED <<ret, remote, meta, mu, trace>>

\* WithOverrideRef, or the ref that the provenance names
RefToVerify(p) == Policy(p).overrideRef \/ \E b \in found[p] : NamesRef(b)

VerifyRef(p) ==
    LET u == Url(p) IN
    /\ At(p, "verify")
    /\ \/ /\ RefToVerify(p) /\ clone[u].whole /\ clone[u].rsl \in conf.good
          /\ Return(p, "nil")
          /\ trace' = [trace EXCEPT ![p].why = "verified", ![p].saw = clone[u].rsl]
       \/ /\ conf.faults \/ ~RefToVerify(p) \/ ~clone[u].whole \/ clone[u].rsl \notin conf.good
          /\ Exit(p, "err", "not verified")
    /\ Inside /\ UNCHANGED <<remote, disk, mu>>

-----------------------------------------------------------------------------
\* Someone pushes to the source repository.
Commit(u) ==
    /\ remote[u] < MaxVersion
    /\ \E p \in Callers : Job(p).do = "gittuf" /\ Url(p) = u
    /\ remote' = [remote EXCEPT ![u] = @ + 1]
    /\ Inside /\ UNCHANGED <<pc, ret, disk, mu, trace>>

GittufStep(p) ==
    \/ GittufEvaluate(p) \/ ListProvenance(p) \/ ListProvenanceFails(p) \/ tryExtractSourceInfo(p)
    \/ NoProvenance(p) \/ Lock(p) \/ LoadRepository(p) \/ Clone(p) \/ CloneDone(p) \/ CloneFails(p)
    \/ updateMetadata(p) \/ evictOldEntries(p) \/ HasPolicy(p) \/ PullRSL(p) \/ VerifyRef(p)

\* Every job is done once, or there is nothing to evaluate.
Over == conf.once /\ \A p \in Callers : At(p, "done") \/ (At(p, "idle") /\ tags[Tag1(p)] = None)

GittufNext ==
    \/ Next /\ UNCHANGED gittuf
    \/ /\ \/ \E p \in Callers : GittufStep(p)
          \/ \E u \in Urls : Commit(u)
          \/ \E c \in Caches, us \in {{u} : u \in Urls} \cup {Urls} : Invalidate(c, us)
       /\ UNCHANGED conf
    \/ Over /\ UNCHANGED <<vars, gittuf>>

GittufSpec == GittufInit /\ [][GittufNext]_<<vars, gittuf>>

-----------------------------------------------------------------------------
(* Properties *)

\* The gittuf policy passes only what it verified, at a version of the source
\* repository that is not older than the evaluation, however old the cached clone
\* is and whoever evicts or replaces it meanwhile; the options for repositories
\* without gittuf and artifacts without provenance excuse nothing else.
GittufVerified ==
    \A p \in Callers : At(p, "done") /\ Job(p).do = "gittuf" /\ ret[p] = "nil" =>
        LET t == trace[p] IN
        \/ /\ t.why = "verified" /\ Url(p) \in conf.enabled /\ t.saw \in conf.good
           /\ conf.faults \/ t.saw >= t.began
        \/ /\ t.why \in {"no clone", "no gittuf"} /\ Policy(p).allowMissingGittuf
        \/ /\ t.why = "no provenance" /\ Policy(p).allowMissingProvenance
           /\ conf.faults \/ ~must[p]
=============================================================================
