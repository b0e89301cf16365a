----------------------------- MODULE Publishing -----------------------------
(***************************************************************************)
(* Publishing an archive and deciding whether to trust it: Push, Tag and   *)
(* Sign of the registry client, and the policies that look for what Sign   *)
(* attached.  Callers work on one repository at the same time.  Each       *)
(* request to the registry is a step; it may fail without effect, or have  *)
(* its effect while the answer is lost.  A caller that stops for good has  *)
(* crashed.                                                                *)
(*                                                                         *)
(* A digest is the content it stands for.  Signatures and attestations are *)
(* "trusted" (they satisfy the policy that looks at them) or "other".      *)
(***************************************************************************)
EXTENDS Naturals, Sequences

CONSTANTS
    Callers,
    Tags,
    Archives,
    MaxTime,  \* bound on the clock
    Configs,  \* configurations: the job of each caller, and the environment
    None

\* What a caller does, over and over or once.
Jobs ==
    [do : {"push", "push and sign", "sign", "tag", "evaluate", "gittuf", "nothing"},
     archive : Archives,
     tags : Seq(Tags),                         \* the tag of ref, then WithTags
     kind : {"bundle", "intoto"},              \* what the ManifestSigner returns
     by : {"trusted", "other"},
     mode : {"all", "any"},                    \* RequireAll or RequireAny
     policies : Seq({"sigstore", "slsa", "opa"})]

ASSUME PublishingAssumption ==
    /\ MaxTime \in Nat
    /\ \A c \in Configs : \A p \in Callers :
         c.job[p] \in Jobs /\ Len(c.job[p].tags) > 0

VARIABLES
    blobs, manifests, tags,  \* the repository
    cached,   \* cached[t]: the digest the ref cache holds for t, or None
    clock,
    pc,       \* pc[p]: what caller p does next
    man,      \* man[p]: the manifest it works on
    pushed,   \* pushed[p]: the manifest its Push returned nil for
    at,       \* at[p]: position in its tags or its policies
    kinds,    \* kinds[p]: artifact types its policy has yet to list
    todo,     \* todo[p]: listed referrers it has yet to fetch
    found,    \* found[p]: layers it has fetched
    must,     \* must[p]: its policies were satisfied when it began (history)
    ret,      \* ret[p]: "nil" or "err"
    conf      \* the configuration, which never changes

repo == <<blobs, manifests, tags>>
eval == <<kinds, todo, found, must>>
vars == <<repo, cached, clock, pc, man, pushed, at, eval, ret, conf>>

Job(p) == conf.job[p]
Tag1(p) == Job(p).tags[1]

Blob(kind, by, of) == [kind |-> kind, by |-> by, of |-> of]
Config == Blob("config", None, None)
Index(a) == Blob("index", None, a)
Data(a) == Blob("data", None, a)
Signature(p, m) == Blob(Job(p).kind, Job(p).by, m)

buildManifest(a, t) == [layers |-> {Index(a), Data(a)}, subject |-> None, created |-> t]
NoSubject(layer, m) == [layers |-> {layer}, subject |-> None, created |-> 0]  \* mutant
referrerManifest(layer, m) == [layers |-> {layer}, subject |-> m, created |-> 0]

Init ==
    /\ conf \in Configs
    /\ blobs = {} /\ manifests = {}
    /\ tags = [t \in Tags |-> None]
    /\ cached = [t \in Tags |-> None]
    /\ clock = 0
    /\ pc = [p \in Callers |-> "idle"]
    /\ man = [p \in Callers |-> None]
    /\ pushed = [p \in Callers |-> None]
    /\ at = [p \in Callers |-> 1]
    /\ kinds = [p \in Callers |-> <<>>]
    /\ todo = [p \in Callers |-> {}]
    /\ found = [p \in Callers |-> {}]
    /\ must = [p \in Callers |-> FALSE]
    /\ ret = [p \in Callers |-> "nil"]

At(p, label) == pc[p] = label
Goto(p, label) == pc' = [pc EXCEPT ![p] = label]
Return(p, r) == Goto(p, "done") /\ ret' = [ret EXCEPT ![p] = r]

\* oras.Client.PushBlob
PushBlob(p, b, next) ==
    /\ \/ blobs' = blobs \cup {b} /\ Goto(p, next) /\ UNCHANGED ret
       \/ conf.faults /\ blobs' \in {blobs, blobs \cup {b}} /\ Return(p, "err")
    /\ UNCHANGED <<manifests, tags, cached, clock, man, pushed, at, eval>>

\* A read request fails.
RequestFails(p) ==
    /\ conf.faults
    /\ Return(p, "err")
    /\ UNCHANGED <<repo, cached, clock, man, pushed, at, eval>>

-----------------------------------------------------------------------------
(* Push *)

Push(p) ==
    /\ At(p, "idle") /\ Job(p).do \in {"push", "push and sign"}
    /\ Goto(p, "config")
    /\ UNCHANGED <<repo, cached, clock, man, pushed, at, eval, ret>>

pushEmptyConfig(p) == At(p, "config") /\ PushBlob(p, Config, "index")

SkipData == "manifest"  \* mutant: the manifest is pushed ahead of the data
AfterIndex == "data"
PushIndex(p) == At(p, "index") /\ PushBlob(p, Index(Job(p).archive), AfterIndex)

\* The registry refuses data that has not the digest recorded in the index.
PushData(p) ==
    /\ At(p, "data") /\ Job(p).archive \notin conf.damaged
    /\ PushBlob(p, Data(Job(p).archive), "manifest")

DataRefused(p) ==
    /\ At(p, "data") /\ Job(p).archive \in conf.damaged
    /\ Return(p, "err")
    /\ UNCHANGED <<repo, cached, clock, man, pushed, at, eval>>

AlmostLast(p) == at[p] + 1 >= Len(Job(p).tags)  \* mutant: the last tag is left out
LastTag(p) == at[p] >= Len(Job(p).tags)

\* One request stores m under tag number at[p]; then Push goes on to the next.
PutManifest(p, m) ==
    LET set == [tags EXCEPT ![Job(p).tags[at[p]]] = m]
        all == manifests \cup {m} IN
    \/ /\ tags' = set /\ manifests' = all
       /\ IF LastTag(p)
          THEN /\ pushed' = [pushed EXCEPT ![p] = m]
               /\ IF Job(p).do = "push and sign" THEN Goto(p, "resolve") /\ UNCHANGED ret
                                                 ELSE Return(p, "nil")
               /\ UNCHANGED at
          ELSE Goto(p, "tag") /\ at' = [at EXCEPT ![p] = @ + 1] /\ UNCHANGED <<pushed, ret>>
    \/ /\ conf.faults
       /\ (tags' = tags /\ manifests' = manifests) \/ (tags' = set /\ manifests' = all)
       /\ Return(p, "err")
       /\ UNCHANGED <<at, pushed>>

PushManifest(p) ==
    LET m == buildManifest(Job(p).archive, clock) IN
    /\ At(p, "manifest")
    /\ PutManifest(p, m)
    /\ man' = [man EXCEPT ![p] = m]
    /\ UNCHANGED <<blobs, cached, clock, eval>>

PushTag(p) ==
    /\ At(p, "tag")
    /\ PutManifest(p, man[p])
    /\ UNCHANGED <<blobs, cached, clock, man, eval>>

-----------------------------------------------------------------------------
(* Tag *)

\* Resolve finds the manifest with the digest that the caller gave.
Tag(p) ==
    /\ At(p, "idle") /\ Job(p).do = "tag"
    /\ \E m \in manifests : man' = [man EXCEPT ![p] = m]
    /\ Goto(p, "settag")
    /\ UNCHANGED <<repo, cached, clock, pushed, at, eval, ret>>

TagResolved(p) ==
    /\ At(p, "settag")
    /\ \/ tags' = [tags EXCEPT ![Tag1(p)] = man[p]] /\ Return(p, "nil")
       \/ conf.faults /\ tags' \in {tags, [tags EXCEPT ![Tag1(p)] = man[p]]} /\ Return(p, "err")
    /\ UNCHANGED <<blobs, manifests, cached, clock, man, pushed, at, eval>>

-----------------------------------------------------------------------------
(* Sign *)

Sign(p) ==
    /\ At(p, "idle") /\ Job(p).do = "sign"
    /\ Goto(p, "resolve")
    /\ UNCHANGED <<repo, cached, clock, man, pushed, at, eval, ret>>

\* resolveDigest: the ref cache, then the registry
resolveDigest(p) ==
    LET t == Tag1(p)
        m == IF conf.refCache /\ cached[t] # None THEN cached[t] ELSE tags[t] IN
    /\ At(p, "resolve")
    /\ IF m = None THEN Return(p, "err") /\ UNCHANGED <<cached, man>>
       ELSE /\ man' = [man EXCEPT ![p] = m]
            /\ cached' = IF conf.refCache THEN [cached EXCEPT ![t] = m] ELSE cached
            /\ Goto(p, "fetch")
            /\ UNCHANGED ret
    /\ UNCHANGED <<repo, clock, pushed, at, eval>>

\* FetchManifest, whose bytes are signed
SignManifest(p) ==
    /\ At(p, "fetch") /\ man[p] \in manifests
    /\ Goto(p, "signature")
    /\ UNCHANGED <<repo, cached, clock, man, pushed, at, eval, ret>>

PushSignature(p) == At(p, "signature") /\ PushBlob(p, Signature(p, man[p]), "sigconfig")
PushSigConfig(p) == At(p, "sigconfig") /\ PushBlob(p, Config, "referrer")

PushManifestByDigest(p) ==
    LET all == manifests \cup {referrerManifest(Signature(p, man[p]), man[p])} IN
    /\ At(p, "referrer")
    /\ \/ manifests' = all /\ Return(p, "nil")
       \/ conf.faults /\ manifests' \in {manifests, all} /\ Return(p, "err")
    /\ UNCHANGED <<blobs, tags, cached, clock, man, pushed, at, eval>>

-----------------------------------------------------------------------------
(* Evaluate *)

\* The artifact types that a policy lists, and the one it can parse.
ArtifactTypes(policy) ==
    CASE policy = "sigstore" -> <<"bundle">>
      [] policy = "slsa" -> <<"intoto", "bundle">>
      [] policy = "opa" -> <<"intoto">>
Parses(policy) == IF policy = "sigstore" THEN "bundle" ELSE "intoto"

AnyIdentity(b, m) == b.kind = "bundle" /\ b.of = m  \* mutant: whoever signed it
verifyBundle(b, m) == b.kind = "bundle" /\ b.of = m /\ b.by = "trusted"

\* The validators of a slsa policy: builder, source, workflow.
validator(b) == b.by = "trusted"

\* The Rego policy allows if there is a trusted attestation and denies if there
\* is another.
evaluatePolicy(attestations) ==
    attestations # {} /\ \A b \in attestations : b.by = "trusted"

Accepts(policy, bs, m) ==
    LET parsed == {b \in bs : b.kind = Parses(policy)} IN
    CASE policy = "sigstore" -> \E b \in bs : verifyBundle(b, m)
      [] policy = "slsa" -> \E b \in parsed : validator(b)
      [] policy = "opa" -> evaluatePolicy(parsed)

Referrers(m, kind) ==
    {r \in manifests : r.subject = m /\ \E b \in r.layers : b.kind = kind}

\* What a policy is there to establish: something trusted refers to m.
Evidence(policy, m) ==
    \E r \in manifests : r.subject = m /\
        \E b \in r.layers \cap blobs : b.kind = Parses(policy) /\ b.of = m /\ b.by = "trusted"

Satisfied(p, m) ==
    LET ps == Job(p).policies IN
    IF Job(p).mode = "all" THEN \A i \in DOMAIN ps : Evidence(ps[i], m)
                           ELSE \E i \in DOMAIN ps : Evidence(ps[i], m)

\* Policy number i is next.
Begin(p, i) ==
    /\ at' = [at EXCEPT ![p] = i]
    /\ kinds' = [kinds EXCEPT ![p] = ArtifactTypes(Job(p).policies[i])]
    /\ todo' = [todo EXCEPT ![p] = {}]
    /\ found' = [found EXCEPT ![p] = {}]
    /\ Goto(p, "policy")
    /\ UNCHANGED ret

\* RequireAll and the client's own list stop at the first failure, RequireAny at
\* the first success; without policies they pass and fail.
GoOn(p, i) ==
    IF i < Len(Job(p).policies) THEN Begin(p, i + 1)
    ELSE /\ Return(p, IF Job(p).mode = "all" THEN "nil" ELSE "err")
         /\ UNCHANGED <<at, kinds, todo, found>>

Verdict(p, ok) ==
    IF ok = (Job(p).mode = "any")
    THEN Return(p, IF ok THEN "nil" ELSE "err") /\ UNCHANGED <<at, kinds, todo, found>>
    ELSE GoOn(p, at[p])

\* The manifest was fetched by its tag (RegistryClient models how).
Evaluate(p) ==
    /\ At(p, "idle") /\ Job(p).do = "evaluate"
    /\ tags[Tag1(p)] # None
    /\ man' = [man EXCEPT ![p] = tags[Tag1(p)]]
    /\ must' = [must EXCEPT ![p] = Satisfied(p, tags[Tag1(p)])]
    /\ GoOn(p, 0)
    /\ UNCHANGED <<repo, cached, clock, pushed>>

policy(p) == Job(p).policies[at[p]]

FirstOnly(p) == found[p] # {} \/ (todo[p] = {} /\ kinds[p] = <<>>)  \* mutant: gives up at the first
\* sigstore stops at the first bundle that verifies.
Enough(p) ==
    \/ todo[p] = {} /\ kinds[p] = <<>>
    \/ policy(p) = "sigstore" /\ Accepts("sigstore", found[p], man[p])

List(p) ==
    /\ At(p, "policy") /\ ~Enough(p) /\ todo[p] = {} /\ kinds[p] # <<>>
    /\ todo' = [todo EXCEPT ![p] = Referrers(man[p], Head(kinds[p]))]
    /\ kinds' = [kinds EXCEPT ![p] = Tail(@)]
    /\ UNCHANGED <<repo, cached, clock, pc, man, pushed, at, found, must, ret>>

\* slsa goes on with the next type; the others reject, and so does slsa if the
\* registry does not know referrers, and sigstore if it cannot fetch the subject.
ListFails(p) ==
    /\ At(p, "policy") /\ ~Enough(p) /\ todo[p] = {} /\ kinds[p] # <<>> /\ conf.faults
    /\ \/ /\ policy(p) = "slsa"
          /\ kinds' = [kinds EXCEPT ![p] = Tail(@)]
          /\ UNCHANGED <<pc, at, todo, found, ret>>
       \/ Verdict(p, FALSE)
    /\ UNCHANGED <<repo, cached, clock, man, pushed, must>>

\* A referrer and its layers are fetched; what cannot be fetched is passed over.
FetchDescriptor(p) ==
    /\ At(p, "policy") /\ ~Enough(p)
    /\ \E r \in todo[p] :
         /\ todo' = [todo EXCEPT ![p] = @ \ {r}]
         /\ \/ found' = [found EXCEPT ![p] = @ \cup (r.layers \cap blobs)]
            \/ conf.faults /\ UNCHANGED found
    /\ UNCHANGED <<repo, cached, clock, pc, man, pushed, at, kinds, must, ret>>

Decide(p) ==
    /\ At(p, "policy") /\ Enough(p)
    /\ Verdict(p, Accepts(policy(p), found[p], man[p]))
    /\ UNCHANGED <<repo, cached, clock, man, pushed, must>>

-----------------------------------------------------------------------------
Again(p) ==
    /\ At(p, "done") /\ ~conf.once
    /\ Goto(p, "idle")
    /\ man' = [man EXCEPT ![p] = None]
    /\ pushed' = [pushed EXCEPT ![p] = None]
    /\ at' = [at EXCEPT ![p] = 1]
    /\ kinds' = [kinds EXCEPT ![p] = <<>>]
    /\ todo' = [todo EXCEPT ![p] = {}]
    /\ found' = [found EXCEPT ![p] = {}]
    /\ must' = [must EXCEPT ![p] = FALSE]
    /\ ret' = [ret EXCEPT ![p] = "nil"]
    /\ UNCHANGED <<repo, cached, clock>>

\* time.Now().UTC().Format(time.RFC3339) changes; an entry of the ref cache expires.
Tick ==
    /\ clock < MaxTime
    /\ clock' = clock + 1
    /\ UNCHANGED <<repo, cached, pc, man, pushed, at, eval, ret>>

Expire(t) ==
    /\ cached[t] # None
    /\ cached' = [cached EXCEPT ![t] = None]
    /\ UNCHANGED <<repo, clock, pc, man, pushed, at, eval, ret>>

Step(p) ==
    \/ Push(p) \/ pushEmptyConfig(p) \/ PushIndex(p) \/ PushData(p) \/ DataRefused(p)
    \/ PushManifest(p) \/ PushTag(p) \/ Tag(p) \/ TagResolved(p)
    \/ Sign(p) \/ resolveDigest(p) \/ SignManifest(p) \/ PushSignature(p) \/ PushSigConfig(p)
    \/ PushManifestByDigest(p)
    \/ Evaluate(p) \/ List(p) \/ ListFails(p) \/ FetchDescriptor(p) \/ Decide(p)
    \/ (pc[p] \in {"resolve", "fetch"} /\ RequestFails(p))
    \/ Again(p)

Next ==
    /\ (\E p \in Callers : Step(p)) \/ Tick \/ \E t \in Tags : Expire(t)
    /\ UNCHANGED conf

Spec == Init /\ [][Next]_vars

-----------------------------------------------------------------------------
(* Properties *)

\* Whoever finds a tag or a referrer can fetch everything behind it: a manifest
\* is in the repository only with its config, its layers and its subject, and a
\* tag only on such a manifest, whichever Push or Sign fails or stops half way.
Complete ==
    /\ \A m \in manifests :
         /\ Config \in blobs
         /\ m.layers \subseteq blobs
         /\ m.subject # None => m.subject \in manifests
    /\ \A t \in Tags : tags[t] # None => tags[t] \in manifests

\* Nobody but p sets the tags of p.
Sole(p) ==
    \A q \in Callers \ {p} : Job(q).do \in {"push", "push and sign", "tag"} =>
        \A i \in DOMAIN Job(p).tags, j \in DOMAIN Job(q).tags :
            Job(p).tags[i] # Job(q).tags[j]

\* When Push returns nil, its tag and "additional tags to the same manifest" all
\* stand for what was pushed.
PushTagged ==
    \A p \in Callers : pushed[p] # None /\ Sole(p) =>
        \A i \in DOMAIN Job(p).tags : tags[Job(p).tags[i]] = pushed[p]

\* "Pushed and signed": Sign after Push of the same tag signs what was pushed.
PushedIsSigned ==
    \A p \in Callers :
        At(p, "done") /\ ret[p] = "nil" /\ Job(p).do = "push and sign" /\ Sole(p) =>
            \E r \in manifests : r.subject = pushed[p] /\ Signature(p, pushed[p]) \in r.layers

\* A policy passes only what it has evidence for: with RequireAll for each of
\* its policies, with RequireAny for one.
AcceptedWithEvidence ==
    \A p \in Callers : At(p, "done") /\ Job(p).do = "evaluate" /\ ret[p] = "nil" =>
        Satisfied(p, man[p])

\* A Rego rule of p denies what refers to m.
Denied(p, m) ==
    /\ \E i \in DOMAIN Job(p).policies : Job(p).policies[i] = "opa"
    /\ \E r \in manifests : r.subject = m /\
         \E b \in r.layers \cap blobs : b.kind = "intoto" /\ b.by = "other"

\* Evidence is found: where it was there when the evaluation began, no request
\* failed, and no Rego rule denies, the policy passes, whatever else refers to
\* the manifest and is attached meanwhile.
EvidenceAccepted ==
    \A p \in Callers :
        At(p, "done") /\ Job(p).do = "evaluate" /\ must[p] /\ ~conf.faults =>
            ret[p] = "nil" \/ Denied(p, man[p])
=============================================================================
