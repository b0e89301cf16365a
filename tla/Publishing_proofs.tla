------------------------- MODULE Publishing_proofs -------------------------
(***************************************************************************)
(* What the run of MC_Publishing checks on three callers, for any number   *)
(* of callers, tags, archives, source repositories and cache objects, and  *)
(* any jobs.  IInv is about the order of the requests; GInv adds the tags  *)
(* that were set, what evaluations have found, and the age of clones.      *)
(***************************************************************************)
EXTENDS GittufPolicy, TLAPS

\* Zenon proves the leaves that say nothing else; those with arithmetic cite SMT.
USE Zenon

Shape ==
    /\ pc = [p \in Callers |-> pc[p]]
    /\ man = [p \in Callers |-> man[p]]
    /\ tags = [t \in Tags |-> tags[t]]

\* What a caller has pushed, or knows to be in the repository, by where it is.
StageOK ==
    \A p \in Callers :
        /\ pc[p] \in {"index", "data", "manifest", "referrer"} => Config \in blobs
        /\ pc[p] \in {"data", "manifest"} => Index(Job(p).archive) \in blobs
        /\ pc[p] = "manifest" => Data(Job(p).archive) \in blobs
        /\ pc[p] \in {"tag", "settag", "signature", "sigconfig", "referrer"} => man[p] \in manifests
        /\ pc[p] \in {"sigconfig", "referrer"} => Signature(p, man[p]) \in blobs

IInv == Shape /\ StageOK /\ Complete

\* The repository is empty and nobody has begun.
LEMMA InitIInv == Init => IInv
<1> SUFFICES ASSUME Init PROVE IInv
  OBVIOUS
<1>1. Shape
  BY DEF Init, Shape
<1>2. StageOK
  BY DEF Init, StageOK
<1>3. Complete
  BY DEF Init, Complete
<1> QED
  BY <1>1, <1>2, <1>3 DEF IInv

\* What a push of a blob b by p does, when p goes on to next or gives up.
LEMMA PushBlobKeeps ==
  ASSUME IInv, NEW p \in Callers, NEW b, NEW next, PushBlob(p, b, next), conf' = conf
  PROVE  /\ blobs \subseteq blobs'
         /\ UNCHANGED <<manifests, tags, man, conf>>
         /\ (pc' = [pc EXCEPT ![p] = next] /\ b \in blobs') \/ pc' = [pc EXCEPT ![p] = "done"]
         /\ Shape' /\ Complete'
<1>1. /\ blobs \subseteq blobs'
      /\ UNCHANGED <<manifests, tags, man, conf>>
      /\ (pc' = [pc EXCEPT ![p] = next] /\ b \in blobs') \/ pc' = [pc EXCEPT ![p] = "done"]
  BY DEF PushBlob, Goto, Return
<1>2. Shape'
  BY <1>1 DEF IInv, Shape
<1>3. Complete'
  BY <1>1 DEF IInv, Complete, Config, Blob
<1> QED
  BY <1>1, <1>2, <1>3

\* What storing a manifest under a tag does.
LEMMA PutManifestKeeps ==
  ASSUME IInv, NEW p \in Callers, NEW m, PutManifest(p, m)
  PROVE  /\ tags' = [t \in Tags |-> tags'[t]]
         /\ manifests' = manifests \/ manifests' = manifests \cup {m}
         /\ \A t \in Tags : tags'[t] = tags[t] \/ (tags'[t] = m /\ m \in manifests')
         /\ \/ pc' = [pc EXCEPT ![p] = "resolve"]
            \/ pc' = [pc EXCEPT ![p] = "done"]
            \/ pc' = [pc EXCEPT ![p] = "tag"] /\ m \in manifests'
<1> DEFINE set == [tags EXCEPT ![Job(p).tags[at[p]]] = m]
<1>1. set = [t \in Tags |-> set[t]] /\ \A t \in Tags : set[t] \in {tags[t], m}
  BY DEF IInv, Shape
<1>2. \/ tags' = tags /\ manifests' = manifests
      \/ tags' = set /\ manifests' = manifests \cup {m}
  BY DEF PutManifest
<1>3. \/ pc' = [pc EXCEPT ![p] = "resolve"]
      \/ pc' = [pc EXCEPT ![p] = "done"]
      \/ pc' = [pc EXCEPT ![p] = "tag"] /\ manifests' = manifests \cup {m}
  BY DEF PutManifest, Goto, Return
<1> HIDE DEF set
<1>4. tags' = [t \in Tags |-> tags'[t]]
  BY <1>1, <1>2 DEF IInv, Shape
<1> QED
  BY <1>1, <1>2, <1>3, <1>4

\* Every step of a caller keeps the repository complete.
LEMMA StepKeeps == ASSUME IInv, NEW p \in Callers, Step(p), conf' = conf PROVE IInv'
<1> USE DEF IInv, At
<1>a. ASSUME NEW l, NEW q \in Callers PROVE [pc EXCEPT ![p] = l][q] = IF q = p THEN l ELSE pc[q]
  BY DEF Shape
<1>b. ASSUME NEW b, NEW next, PushBlob(p, b, next), next # "done",
             next \notin {"tag", "settag", "signature"},
             next \in {"index", "data", "manifest", "referrer"} => b = Config \/ Config \in blobs,
             next \in {"data", "manifest"} =>
                 b = Index(Job(p).archive) \/ Index(Job(p).archive) \in blobs,
             next = "manifest" => b = Data(Job(p).archive) \/ Data(Job(p).archive) \in blobs,
             next \in {"sigconfig", "referrer"} =>
                 /\ man[p] \in manifests
                 /\ b = Signature(p, man[p]) \/ Signature(p, man[p]) \in blobs
      PROVE  IInv'
  <2>1. /\ blobs \subseteq blobs' /\ UNCHANGED <<manifests, man, conf>> /\ Shape' /\ Complete'
        /\ (pc' = [pc EXCEPT ![p] = next] /\ b \in blobs') \/ pc' = [pc EXCEPT ![p] = "done"]
    BY <1>b, PushBlobKeeps
  <2>2. \A q \in Callers : q # p => pc'[q] = pc[q]
    BY <2>1 DEF Shape
  <2>3. (pc'[p] = next /\ b \in blobs') \/ pc'[p] = "done"
    BY <1>a, <2>1
  <2>4. StageOK'
    BY <1>b, <2>1, <2>2, <2>3 DEF StageOK, Job, Config, Index, Data, Signature, Blob
  <2> QED
    BY <2>1, <2>4
<1>c. ASSUME UNCHANGED repo, NEW l, pc' = [pc EXCEPT ![p] = l],
             l \in {"idle", "done", "config", "resolve", "fetch", "policy"},
             NEW m, man' = man \/ man' = [man EXCEPT ![p] = m]
      PROVE  IInv'
  <2>1. Shape' /\ Complete'
    BY <1>c DEF Shape, Complete, repo, Config, Blob
  <2>2. /\ \A q \in Callers : q # p => pc'[q] = pc[q] /\ man'[q] = man[q]
        /\ pc'[p] = l
    BY <1>a, <1>c DEF Shape
  <2>3. StageOK'
    BY <1>c, <2>2 DEF StageOK, repo, Job, Config, Index, Data, Signature, Blob
  <2> QED
    BY <2>1, <2>3
<1>1. CASE Push(p)
  BY <1>1, <1>c DEF Push, Goto
<1>2. CASE pushEmptyConfig(p)
  BY <1>2, <1>b DEF pushEmptyConfig
<1>3. CASE PushIndex(p)
  BY <1>3, <1>b, SMT DEF PushIndex, AfterIndex, StageOK
<1>4. CASE PushData(p)
  BY <1>4, <1>b, SMT DEF PushData, StageOK
<1>5. CASE DataRefused(p)
  BY <1>5, <1>c DEF DataRefused, Return, Goto
<1>d. ASSUME NEW m, PutManifest(p, m), UNCHANGED blobs,
             m.layers \subseteq blobs, m.subject # None => m.subject \in manifests,
             Config \in blobs,
             man' = man \/ man' = [man EXCEPT ![p] = m],
             man'[p] = m
      PROVE  IInv'
  <2>1. /\ tags' = [t \in Tags |-> tags'[t]]
        /\ manifests' = manifests \/ manifests' = manifests \cup {m}
        /\ \A t \in Tags : tags'[t] = tags[t] \/ (tags'[t] = m /\ m \in manifests')
        /\ \/ pc' = [pc EXCEPT ![p] = "resolve"]
           \/ pc' = [pc EXCEPT ![p] = "done"]
           \/ pc' = [pc EXCEPT ![p] = "tag"] /\ m \in manifests'
    BY <1>d, PutManifestKeeps
  <2>2. /\ \A q \in Callers : q # p => pc'[q] = pc[q] /\ man'[q] = man[q]
        /\ pc'[p] \in {"resolve", "done"} \/ (pc'[p] = "tag" /\ m \in manifests')
    BY <1>a, <1>d, <2>1 DEF Shape
  <2>3. Shape'
    BY <1>d, <2>1 DEF Shape
  <2>4. Complete'
    BY <1>d, <2>1 DEF Complete, Config, Blob
  <2>5. StageOK'
    BY <1>d, <2>1, <2>2 DEF StageOK, Job, Config, Index, Data, Signature, Blob
  <2> QED
    BY <2>3, <2>4, <2>5
<1>6. CASE PushManifest(p)
  <2> DEFINE m == buildManifest(Job(p).archive, clock)
  <2>1. m.layers \subseteq blobs /\ m.subject = None /\ Config \in blobs
    BY <1>6 DEF PushManifest, StageOK, buildManifest
  <2>2. PutManifest(p, m) /\ UNCHANGED blobs /\ man' = [man EXCEPT ![p] = m]
    BY <1>6 DEF PushManifest
  <2>3. man'[p] = m
    BY <2>2 DEF Shape
  <2> HIDE DEF m
  <2> QED
    BY <1>d, <2>1, <2>2, <2>3
<1>7. CASE PushTag(p)
  <2>1. man[p] \in manifests /\ PutManifest(p, man[p]) /\ UNCHANGED <<blobs, man>>
    BY <1>7 DEF PushTag, StageOK
  <2> QED
    BY <1>d, <2>1 DEF Complete
<1>8. CASE Tag(p)
  <2>1. PICK m \in manifests : man' = [man EXCEPT ![p] = m]
    BY <1>8 DEF Tag
  <2>2. UNCHANGED repo /\ pc' = [pc EXCEPT ![p] = "settag"]
    BY <1>8 DEF Tag, Goto
  <2>3. /\ \A q \in Callers : q # p => pc'[q] = pc[q] /\ man'[q] = man[q]
        /\ pc'[p] = "settag" /\ man'[p] = m
    BY <1>a, <2>1, <2>2 DEF Shape
  <2>4. Shape' /\ Complete'
    BY <2>1, <2>2 DEF Shape, Complete, repo, Config, Blob
  <2>5. StageOK'
    BY <2>1, <2>2, <2>3, SMT DEF StageOK, repo, Job, Config, Index, Data, Signature, Blob
  <2> QED
    BY <2>4, <2>5
<1>9. CASE TagResolved(p)
  <2>1. /\ man[p] \in manifests /\ UNCHANGED <<blobs, manifests, man>>
        /\ tags' = tags \/ tags' = [tags EXCEPT ![Tag1(p)] = man[p]]
        /\ pc' = [pc EXCEPT ![p] = "done"]
    BY <1>9 DEF TagResolved, StageOK, Return, Goto
  <2>2. /\ \A q \in Callers : q # p => pc'[q] = pc[q]
        /\ pc'[p] = "done"
    BY <1>a, <2>1
  <2>3. Shape' /\ Complete'
    BY <2>1 DEF Shape, Complete, Config, Blob
  <2>4. StageOK'
    BY <2>1, <2>2 DEF StageOK, Job, Config, Index, Data, Signature, Blob
  <2> QED
    BY <2>3, <2>4
<1>10. CASE Sign(p)
  BY <1>10, <1>c DEF Sign, Goto
<1>11. CASE resolveDigest(p)
  <2>1. /\ UNCHANGED repo
        /\ \/ UNCHANGED man /\ pc' = [pc EXCEPT ![p] = "done"]
           \/ \E m : man' = [man EXCEPT ![p] = m] /\ pc' = [pc EXCEPT ![p] = "fetch"]
    BY <1>11 DEF resolveDigest, Return, Goto
  <2> QED
    BY <2>1, <1>c
<1>12. CASE SignManifest(p)
  <2>1. /\ man[p] \in manifests /\ UNCHANGED <<repo, man>>
        /\ pc' = [pc EXCEPT ![p] = "signature"]
    BY <1>12 DEF SignManifest, Goto
  <2>2. /\ \A q \in Callers : q # p => pc'[q] = pc[q]
        /\ pc'[p] = "signature"
    BY <1>a, <2>1
  <2>3. Shape' /\ Complete'
    BY <2>1 DEF Shape, Complete, repo, Config, Blob
  <2>4. StageOK'
    BY <2>1, <2>2 DEF StageOK, repo, Job, Config, Index, Data, Signature, Blob
  <2> QED
    BY <2>3, <2>4
<1>13. CASE PushSignature(p)
  BY <1>13, <1>b, SMT DEF PushSignature, StageOK
<1>14. CASE PushSigConfig(p)
  BY <1>14, <1>b DEF PushSigConfig, StageOK
<1>15. CASE PushManifestByDigest(p)
  <2> DEFINE r == referrerManifest(Signature(p, man[p]), man[p])
  <2>1. /\ UNCHANGED <<blobs, tags, man>> /\ pc' = [pc EXCEPT ![p] = "done"]
        /\ manifests' = manifests \/ manifests' = manifests \cup {r}
        /\ man[p] \in manifests /\ Signature(p, man[p]) \in blobs /\ Config \in blobs
    BY <1>15 DEF PushManifestByDigest, Return, Goto, StageOK
  <2>2. r.layers \subseteq blobs /\ r.subject \in manifests
    BY <2>1 DEF referrerManifest
  <2>3. /\ \A q \in Callers : q # p => pc'[q] = pc[q]
        /\ pc'[p] = "done"
    BY <1>a, <2>1
  <2> HIDE DEF r
  <2>4. Shape' /\ Complete'
    BY <2>1, <2>2 DEF Shape, Complete, Config, Blob
  <2>5. StageOK'
    BY <2>1, <2>3 DEF StageOK, Job, Config, Index, Data, Signature, Blob
  <2> QED
    BY <2>4, <2>5
<1>f. At(p, "policy") => pc = [pc EXCEPT ![p] = "policy"]
  BY DEF Shape
<1>g. ASSUME NEW i, GoOn(p, i)
      PROVE  \E l \in {"done", "policy"} : pc' = [pc EXCEPT ![p] = l]
  BY <1>g DEF GoOn, Begin, Return, Goto
<1>h. ASSUME NEW ok, Verdict(p, ok)
      PROVE  \E l \in {"done", "policy"} : pc' = [pc EXCEPT ![p] = l]
  BY <1>g, <1>h DEF Verdict, Return, Goto
<1>16. CASE Evaluate(p)
  <2>1. /\ UNCHANGED repo /\ man' = [man EXCEPT ![p] = tags[Tag1(p)]]
        /\ GoOn(p, 0)
    BY <1>16 DEF Evaluate
  <2> QED
    BY <1>c, <1>g, <2>1
<1>17. CASE List(p)
  BY <1>c, <1>f, <1>17 DEF List
<1>18. CASE ListFails(p)
  <2>1. /\ At(p, "policy") /\ UNCHANGED <<repo, man>>
        /\ UNCHANGED pc \/ Verdict(p, FALSE)
    BY <1>18 DEF ListFails
  <2> QED
    BY <1>c, <1>f, <1>h, <2>1
<1>19. CASE FetchDescriptor(p)
  BY <1>c, <1>f, <1>19 DEF FetchDescriptor
<1>20. CASE Decide(p)
  <2>1. UNCHANGED <<repo, man>> /\ \E ok : Verdict(p, ok)
    BY <1>20 DEF Decide
  <2> QED
    BY <1>c, <1>h, <2>1
<1>21. CASE RequestFails(p)
  BY <1>c, <1>21 DEF RequestFails, Return, Goto
<1>22. CASE Again(p)
  BY <1>c, <1>22 DEF Again, Goto
<1> QED
  BY <1>1, <1>2, <1>3, <1>4, <1>5, <1>6, <1>7, <1>8, <1>9, <1>10, <1>11, <1>12, <1>13, <1>14,
     <1>15, <1>16, <1>17, <1>18, <1>19, <1>20, <1>21, <1>22 DEF Step

\* The inductive invariant is kept by every step.
LEMMA NextIInv == IInv /\ [Next]_vars => IInv'
<1> SUFFICES ASSUME IInv, [Next]_vars PROVE IInv'
  OBVIOUS
<1>1. conf' = conf
  BY DEF Next, vars
<1>2. CASE \E p \in Callers : Step(p)
  BY <1>1, <1>2, StepKeeps
<1>3. ASSUME UNCHANGED <<repo, pc, man>> PROVE IInv'
  BY <1>1, <1>3
  DEF IInv, Shape, StageOK, Complete, repo, Job, Config, Index, Data, Signature, Blob
<1>4. CASE Tick \/ \E t \in Tags : Expire(t)
  BY <1>3, <1>4 DEF Tick, Expire
<1>5. CASE UNCHANGED vars
  BY <1>3, <1>5 DEF vars
<1> QED
  BY <1>2, <1>4, <1>5 DEF Next

-----------------------------------------------------------------------------
\* The state of each caller is there, and the conf is one of the configurations.
Locals ==
    /\ conf \in Configs
    /\ pc = [p \in Callers |-> pc[p]]
    /\ man = [p \in Callers |-> man[p]]
    /\ pushed = [p \in Callers |-> pushed[p]]
    /\ at \in [Callers -> Nat]
    /\ kinds \in [Callers -> Seq({"bundle", "intoto"})]
    /\ todo = [p \in Callers |-> todo[p]]
    /\ found = [p \in Callers |-> found[p]]
    /\ must \in [Callers -> BOOLEAN]
    /\ ret = [p \in Callers |-> ret[p]]
    /\ tags = [t \in Tags |-> tags[t]]

\* Where Push, Sign and a gittuf policy are under way.
PushLabels == {"config", "index", "data", "manifest", "tag"}
SignLabels == {"resolve", "fetch", "signature", "sigconfig", "referrer"}
CloneLabels == {"check", "clone", "cloning", "touch", "stamp", "evict", "has"}
GittufLabels == {"extract", "pull", "verify"} \cup CloneLabels

\* A caller is where its job leads.
LabelOK(p) ==
    /\ pc[p] \in PushLabels => Job(p).do \in {"push", "push and sign"}
    /\ pc[p] \in SignLabels => Job(p).do \in {"push and sign", "sign"}
    /\ pc[p] = "settag" => Job(p).do = "tag"
    /\ pc[p] = "policy" => Job(p).do = "evaluate"
    /\ pc[p] \in GittufLabels => Job(p).do = "gittuf"
    /\ pc[p] \in PushLabels \cup SignLabels \cup GittufLabels \cup {"idle", "settag", "policy", "done"}

\* The first n tags of p stand for m.
TaggedWith(p, n, m) == \A i \in 1 .. n : tags[Job(p).tags[i]] = m

\* How far p has come with its tags, and that it signs what it pushed.
TagOK(p) ==
    /\ pc[p] \in {"idle", "config", "index", "data", "manifest"} => at[p] = 1
    /\ pc[p] = "tag" => at[p] \in DOMAIN Job(p).tags
    /\ pushed[p] # None => pc[p] \in SignLabels \cup {"done"} /\ Job(p).do \in {"push", "push and sign"}
    /\ Sole(p) =>
         /\ pc[p] = "tag" => TaggedWith(p, at[p] - 1, man[p])
         /\ pushed[p] # None \/ (pc[p] = "resolve" /\ Job(p).do = "push and sign") =>
              TaggedWith(p, Len(Job(p).tags), pushed[p])
         /\ Job(p).do = "push and sign" /\ ~conf.refCache =>
              /\ pc[p] \in SignLabels \ {"resolve"} => man[p] = pushed[p]
              /\ pc[p] = "done" /\ ret[p] = "nil" =>
                   \E r \in manifests : r.subject = pushed[p] /\ Signature(p, pushed[p]) \in r.layers

\* What refers to a manifest is about it.
ReferrersOK ==
    \A r \in manifests : r.subject # None =>
        \A b \in r.layers : b.of = r.subject /\ b.by \in {"trusted", "other"}

\* b belongs to a referrer of m.
Attached(b, m) == b \in blobs /\ \E r \in manifests : r.subject = m /\ b \in r.layers

\* p has found a member of B, or will find it among the referrers it has listed.
Listed(p, B) ==
    \/ \E r \in todo[p] : r.layers \cap blobs \cap B # {}
    \/ found[p] \cap B # {}
\* p has yet to list referrers of the kind.
Unlisted(p, kind) == \E i \in DOMAIN kinds[p] : kinds[p][i] = kind

\* What the policy accepts; it is found, or will be; and p has reason to pass.
Trusted(pol, m) == {b \in blobs : b.kind = Parses(pol) /\ b.of = m /\ b.by = "trusted"}
Sought(p) ==
    \/ Unlisted(p, Parses(policy(p))) /\ Evidence(policy(p), man[p])
    \/ Listed(p, Trusted(policy(p), man[p]))
Hopeful(p) ==
    LET ps == Job(p).policies IN
    IF Job(p).mode = "all"
    THEN Sought(p) /\ \A i \in DOMAIN ps : i > at[p] => Evidence(ps[i], man[p])
    ELSE Sought(p) \/ Denied(p, man[p]) \/ \E i \in DOMAIN ps : i > at[p] /\ Evidence(ps[i], man[p])

\* What an evaluation has established, and what it can still find.
EvalOK(p) ==
    /\ pc[p] = "policy" =>
         /\ man[p] # None
         /\ at[p] \in DOMAIN Job(p).policies
         /\ \A r \in todo[p] : r \in manifests /\ r.subject = man[p]
         /\ \A b \in found[p] : Attached(b, man[p])
         /\ Job(p).mode = "all" =>
              \A i \in DOMAIN Job(p).policies : i < at[p] => Evidence(Job(p).policies[i], man[p])
         /\ must[p] /\ ~conf.faults => Hopeful(p)
    /\ pc[p] = "done" /\ Job(p).do = "evaluate" =>
         /\ ret[p] = "nil" => Satisfied(p, man[p])
         /\ must[p] /\ ~conf.faults => ret[p] = "nil" \/ Denied(p, man[p])

\* Why an evaluation of a gittuf policy ended as it did.
Whys == {"none", "verified", "not verified", "no clone", "no gittuf", "no provenance"}

\* The types of the variables of GittufPolicy.
GittufTypes ==
    /\ remote \in [Urls -> Nat]
    /\ clone \in [Urls -> [by : Callers \cup {None}, rsl : Nat, whole : BOOLEAN]]
    /\ trace \in [Callers -> [began : Nat, saw : Nat, why : Whys]]

\* The attestations in the repository.
Intoto == {b \in blobs : b.kind = "intoto"}

\* The clone that p verifies, if there is one, is not older than p's evaluation.
Fresh(p) == clone[Url(p)] = NoClone \/ clone[Url(p)].rsl >= trace[p].began

\* How far p has come with the clone, and that provenance is found.
GittufOK(p) ==
    /\ pc[p] \in GittufLabels => trace[p].began <= remote[Url(p)]
    /\ pc[p] = "extract" /\ must[p] /\ ~conf.faults =>
         (Unlisted(p, "intoto") /\ Provenance(man[p])) \/ Listed(p, Intoto)
    /\ pc[p] \in {"pull", "verify"} => Url(p) \in conf.enabled
    /\ pc[p] = "pull" => clone[Url(p)].whole \/ Fresh(p)
    /\ pc[p] = "verify" /\ ~conf.faults => Fresh(p)
    /\ pc[p] = "done" /\ Job(p).do = "gittuf" /\ ret[p] = "nil" =>
         LET t == trace[p] IN
         \/ /\ t.why = "verified" /\ Url(p) \in conf.enabled /\ t.saw \in conf.good
            /\ conf.faults \/ t.saw >= t.began
         \/ /\ t.why \in {"no clone", "no gittuf"} /\ Policy(p).allowMissingGittuf
         \/ /\ t.why = "no provenance" /\ Policy(p).allowMissingProvenance
            /\ conf.faults \/ ~must[p]

\* The inductive invariant.
GInv ==
    /\ IInv /\ Locals /\ ReferrersOK /\ GittufTypes
    /\ \A p \in Callers : LabelOK(p) /\ TagOK(p) /\ EvalOK(p) /\ GittufOK(p)

\* The step changes the state of no caller but p.
Touches(p) ==
    /\ pc' = [pc EXCEPT ![p] = pc'[p]]
    /\ man' = [man EXCEPT ![p] = man'[p]]
    /\ pushed' = [pushed EXCEPT ![p] = pushed'[p]]
    /\ at' = [at EXCEPT ![p] = at'[p]]
    /\ kinds' = [kinds EXCEPT ![p] = kinds'[p]]
    /\ todo' = [todo EXCEPT ![p] = todo'[p]]
    /\ found' = [found EXCEPT ![p] = found'[p]]
    /\ must' = [must EXCEPT ![p] = must'[p]]
    /\ ret' = [ret EXCEPT ![p] = ret'[p]]

\* A step of Publishing is one of a single caller.
LEMMA StepTouches == ASSUME Locals, NEW p \in Callers, Step(p), UNCHANGED conf PROVE Touches(p)
<1> USE DEF Touches, Locals, eval, Goto, Return
<1>1. CASE Push(p)
  BY <1>1 DEF Push
<1>2. ASSUME NEW b, NEW next, PushBlob(p, b, next) PROVE Touches(p)
  BY <1>2 DEF PushBlob
<1>3. ASSUME NEW m, PutManifest(p, m), UNCHANGED <<man, eval>> \/ (man' = [man EXCEPT ![p] = m] /\ UNCHANGED eval) PROVE Touches(p)
  BY <1>3 DEF PutManifest
<1>4. ASSUME NEW i, GoOn(p, i), UNCHANGED <<man, pushed, must>> PROVE Touches(p)
  <2>1. CASE Begin(p, i + 1)
    BY <1>4, <2>1 DEF Begin
  <2>2. CASE Goto(p, "done") /\ UNCHANGED <<at, kinds, todo, found>> /\ \E r : ret' = [ret EXCEPT ![p] = r]
    BY <1>4, <2>2
  <2> QED
    BY <1>4, <2>1, <2>2 DEF GoOn
<1>5. ASSUME NEW ok, Verdict(p, ok), UNCHANGED <<man, pushed, must>> PROVE Touches(p)
  <2>1. CASE GoOn(p, at[p])
    BY <1>4, <1>5, <2>1
  <2>2. CASE Goto(p, "done") /\ UNCHANGED <<at, kinds, todo, found>> /\ \E r : ret' = [ret EXCEPT ![p] = r]
    BY <1>5, <2>2
  <2> QED
    BY <1>5, <2>1, <2>2 DEF Verdict
<1>6. CASE Evaluate(p)
  BY <1>6, SMT DEF Evaluate, GoOn, Begin
<1>7. CASE List(p)
  BY <1>7 DEF List
<1>8. CASE ListFails(p)
  <2>1. CASE Verdict(p, FALSE)
    BY <1>5, <1>8, <2>1 DEF ListFails
  <2>2. CASE kinds' = [kinds EXCEPT ![p] = Tail(@)] /\ UNCHANGED <<pc, at, todo, found, ret>>
    <3>1. UNCHANGED <<man, pushed, must>>
      BY <1>8 DEF ListFails
    <3> QED
      BY <2>2, <3>1
  <2> QED
    BY <1>8, <2>1, <2>2 DEF ListFails
<1>9. CASE FetchDescriptor(p)
  BY <1>9 DEF FetchDescriptor
<1>10. CASE Decide(p)
  BY <1>5, <1>10 DEF Decide
<1>11. CASE Again(p)
  BY <1>11 DEF Again
<1>12. CASE pushEmptyConfig(p) \/ PushIndex(p) \/ PushData(p) \/ PushSignature(p) \/ PushSigConfig(p)
  BY <1>2, <1>12 DEF pushEmptyConfig, PushIndex, PushData, PushSignature, PushSigConfig
<1>13. CASE PushManifest(p) \/ PushTag(p)
  BY <1>3, <1>13 DEF PushManifest, PushTag
<1>14. CASE DataRefused(p) \/ RequestFails(p)
  BY <1>14 DEF DataRefused, RequestFails
<1>15. CASE Tag(p) \/ TagResolved(p)
  BY <1>15 DEF Tag, TagResolved
<1>16. CASE Sign(p) \/ SignManifest(p)
  BY <1>16 DEF Sign, SignManifest
<1>17. CASE resolveDigest(p)
  BY <1>17 DEF resolveDigest
<1>18. CASE PushManifestByDigest(p)
  BY <1>18 DEF PushManifestByDigest
<1> QED
  BY <1>1, <1>6, <1>7, <1>8, <1>9, <1>10, <1>11, <1>12, <1>13, <1>14, <1>15, <1>16, <1>17, <1>18
  DEF Step

\* Jobs are what the assumption says.
LEMMA JobType ==
  ASSUME Locals, NEW p \in Callers
  PROVE  /\ Job(p).tags \in Seq(Tags) /\ 1 \in DOMAIN Job(p).tags
         /\ Job(p).by \in {"trusted", "other"} /\ Job(p).mode \in {"all", "any"}
         /\ Job(p).policies \in Seq({"sigstore", "slsa", "opa"})
<1>1. Job(p) \in Jobs /\ Len(Job(p).tags) > 0
  BY PublishingAssumption DEF Locals, Job
<1>2. /\ Job(p).tags \in Seq(Tags)
      /\ Job(p).by \in {"trusted", "other"} /\ Job(p).mode \in {"all", "any"}
      /\ Job(p).policies \in Seq({"sigstore", "slsa", "opa"})
  BY <1>1 DEF Jobs
<1>3. 1 \in DOMAIN Job(p).tags
  BY <1>1, <1>2, SMT
<1> QED
  BY <1>2, <1>3

\* The tags that p may set.
Sets(p, t) ==
    /\ Job(p).do \in {"push", "push and sign", "tag"}
    /\ \E i \in DOMAIN Job(p).tags : t = Job(p).tags[i]

\* Blobs and manifests are added and never removed, referrers are about their
\* subject, and p sets its own tags only.
LEMMA StepRepo ==
  ASSUME IInv, Locals, ReferrersOK, NEW p \in Callers, LabelOK(p), TagOK(p), Step(p), UNCHANGED conf
  PROVE  /\ blobs \subseteq blobs' /\ manifests \subseteq manifests'
         /\ ReferrersOK'
         /\ \A t \in Tags : tags'[t] = tags[t] \/ Sets(p, t)
<1> DEFINE Goal == /\ blobs \subseteq blobs' /\ manifests \subseteq manifests'
                   /\ ReferrersOK'
                   /\ \A t \in Tags : tags'[t] = tags[t] \/ Sets(p, t)
<1> SUFFICES Goal
  OBVIOUS
<1>1. ASSUME blobs \subseteq blobs', UNCHANGED <<manifests, tags>> PROVE Goal
  BY <1>1 DEF ReferrersOK
<1>2. ASSUME UNCHANGED blobs, NEW m, manifests' = manifests \/ manifests' = manifests \cup {m},
             m.subject # None => \A b \in m.layers : b.of = m.subject /\ b.by \in {"trusted", "other"},
             \/ tags' = tags
             \/ \E t : tags' = [tags EXCEPT ![t] = m] /\ Sets(p, t)
      PROVE Goal
  <2>1. ReferrersOK'
    BY <1>2 DEF ReferrersOK
  <2>2. \A t \in Tags : tags'[t] = tags[t] \/ Sets(p, t)
    BY <1>2 DEF Locals
  <2> QED
    BY <1>2, <2>1, <2>2
<1>3. ASSUME NEW b, NEW next, PushBlob(p, b, next) PROVE Goal
  BY <1>1, <1>3 DEF PushBlob
<1>4. CASE pushEmptyConfig(p) \/ PushIndex(p) \/ PushData(p) \/ PushSignature(p) \/ PushSigConfig(p)
  BY <1>3, <1>4 DEF pushEmptyConfig, PushIndex, PushData, PushSignature, PushSigConfig
<1>5. ASSUME NEW m, PutManifest(p, m), UNCHANGED blobs, pc[p] \in {"manifest", "tag"},
             m.subject # None => \A b \in m.layers : b.of = m.subject /\ b.by \in {"trusted", "other"}
      PROVE Goal
  <2>1. at[p] \in DOMAIN Job(p).tags
    BY <1>5, JobType DEF TagOK
  <2>3. Sets(p, Job(p).tags[at[p]])
    BY <1>5, <2>1 DEF LabelOK, PushLabels, Sets
  <2>2. /\ manifests' = manifests \/ manifests' = manifests \cup {m}
        /\ tags' = tags \/ tags' = [tags EXCEPT ![Job(p).tags[at[p]]] = m]
    BY <1>5 DEF PutManifest
  <2> QED
    BY <1>2, <1>5, <2>2, <2>3
<1>6. CASE PushManifest(p)
  BY <1>5, <1>6 DEF PushManifest, buildManifest, At
<1>7. CASE PushTag(p)
  BY <1>5, <1>7 DEF PushTag, At, IInv, StageOK, ReferrersOK
<1>8. CASE TagResolved(p)
  <2>1. Sets(p, Tag1(p))
    BY <1>8, JobType DEF TagResolved, At, LabelOK, Sets, Tag1
  <2>2. /\ UNCHANGED <<blobs, manifests>>
        /\ tags' = tags \/ tags' = [tags EXCEPT ![Tag1(p)] = man[p]]
    BY <1>8 DEF TagResolved
  <2>3. man[p] \in manifests
    BY <1>8 DEF TagResolved, At, IInv, StageOK
  <2> QED
    BY <1>2, <2>1, <2>2, <2>3 DEF ReferrersOK
<1>9. CASE PushManifestByDigest(p)
  <2> DEFINE r == referrerManifest(Signature(p, man[p]), man[p])
  <2>1. /\ UNCHANGED <<blobs, tags>>
        /\ manifests' = manifests \/ manifests' = manifests \cup {r}
    BY <1>9 DEF PushManifestByDigest
  <2>2. \A b \in r.layers : b.of = r.subject /\ b.by \in {"trusted", "other"}
    BY JobType, SMT DEF referrerManifest, Signature, Blob
  <2> HIDE DEF r
  <2> QED
    BY <1>2, <2>1, <2>2
<1>10. CASE UNCHANGED repo
  BY <1>1, <1>10 DEF repo
<1> QED
  BY <1>4, <1>6, <1>7, <1>8, <1>9, <1>10
  DEF Step, Push, DataRefused, Tag, Sign, resolveDigest, SignManifest, Evaluate, List, ListFails,
      FetchDescriptor, Decide, RequestFails, Again

\* Callers keep their types if p does.
LEMMA TouchesKeeps ==
  ASSUME Locals, NEW p \in Callers, Touches(p), UNCHANGED conf,
         at'[p] \in Nat, kinds'[p] \in Seq({"bundle", "intoto"}), must'[p] \in BOOLEAN,
         tags' = [t \in Tags |-> tags'[t]]
  PROVE  Locals'
<1>1. at' \in [Callers -> Nat]
  BY DEF Locals, Touches
<1>2. kinds' \in [Callers -> Seq({"bundle", "intoto"})]
  BY DEF Locals, Touches
<1>3. must' \in [Callers -> BOOLEAN]
  BY DEF Locals, Touches
<1>4. /\ pc' = [q \in Callers |-> pc'[q]] /\ man' = [q \in Callers |-> man'[q]]
      /\ pushed' = [q \in Callers |-> pushed'[q]]
  BY DEF Locals, Touches
<1>5. /\ todo' = [q \in Callers |-> todo'[q]] /\ found' = [q \in Callers |-> found'[q]]
      /\ ret' = [q \in Callers |-> ret'[q]]
  BY DEF Locals, Touches
<1> QED
  BY <1>1, <1>2, <1>3, <1>4, <1>5 DEF Locals

\* q is as it was.
Same(q) ==
    /\ pc'[q] = pc[q] /\ man'[q] = man[q] /\ pushed'[q] = pushed[q] /\ at'[q] = at[q]
    /\ kinds'[q] = kinds[q] /\ todo'[q] = todo[q] /\ found'[q] = found[q] /\ must'[q] = must[q]
    /\ ret'[q] = ret[q]

\* A step of p leaves every other caller as it was.
LEMMA TouchesSame == ASSUME Locals, NEW p \in Callers, Touches(p), NEW q \in Callers, q # p PROVE Same(q)
<1>1. pc'[q] = pc[q] /\ man'[q] = man[q] /\ pushed'[q] = pushed[q] /\ at'[q] = at[q]
  BY DEF Locals, Touches
<1>2. kinds'[q] = kinds[q] /\ todo'[q] = todo[q] /\ found'[q] = found[q] /\ must'[q] = must[q]
  BY DEF Locals, Touches
<1>3. ret'[q] = ret[q]
  BY DEF Locals, Touches
<1> QED
  BY <1>1, <1>2, <1>3 DEF Same

\* The repository only grows.
Grows == blobs \subseteq blobs' /\ manifests \subseteq manifests' /\ UNCHANGED conf

\* What is attached stays attached.
LEMMA EvidenceGrows ==
  ASSUME Grows, NEW pol, NEW m, NEW p
  PROVE  /\ Evidence(pol, m) => Evidence(pol, m)'
         /\ Denied(p, m) => Denied(p, m)'
         /\ Provenance(m) => Provenance(m)'
<1>1. Evidence(pol, m) => Evidence(pol, m)'
  BY DEF Grows, Evidence
<1>2. Denied(p, m) => Denied(p, m)'
  BY DEF Grows, Denied, Job
<1>3. Provenance(m) => Provenance(m)'
  BY DEF Grows, Provenance
<1> QED
  BY <1>1, <1>2, <1>3

\* Policies that are satisfied stay so.
LEMMA SatisfiedGrows == ASSUME Grows, NEW m, NEW p PROVE Satisfied(p, m) => Satisfied(p, m)'
BY EvidenceGrows DEF Satisfied, Job, Grows

\* Nobody moves another caller.
LEMMA LabelsKept == ASSUME NEW q \in Callers, Same(q), Grows, LabelOK(q) PROVE LabelOK(q)'
BY DEF Same, Grows, LabelOK, Job

\* Nobody moves the tags that q alone sets.
LEMMA TagsKept ==
  ASSUME Locals, NEW q \in Callers, Same(q), Grows, TagOK(q),
         Sole(q) => \A i \in DOMAIN Job(q).tags : tags'[Job(q).tags[i]] = tags[Job(q).tags[i]]
  PROVE  TagOK(q)'
<1>1. Job(q)' = Job(q) /\ Sole(q)' = Sole(q) /\ conf'.refCache = conf.refCache
  BY DEF Grows, Job, Sole
<1>2. ASSUME Sole(q), NEW n \in Nat, n <= Len(Job(q).tags), NEW m, TaggedWith(q, n, m)
      PROVE  \A i \in 1 .. n : tags'[Job(q).tags[i]] = m
  BY <1>2, JobType, SMT DEF TaggedWith
<1>3. Len(Job(q).tags) \in Nat /\ DOMAIN Job(q).tags = 1 .. Len(Job(q).tags)
  BY JobType, SMT
<1>4. ASSUME Sole(q), pc[q] = "tag" PROVE TaggedWith(q, at[q] - 1, man[q])'
  <2>1. at[q] \in 1 .. Len(Job(q).tags) /\ TaggedWith(q, at[q] - 1, man[q])
    BY <1>3, <1>4 DEF TagOK
  <2>2. at[q] - 1 \in Nat /\ at[q] - 1 <= Len(Job(q).tags)
    BY <1>3, <2>1, SMT
  <2>3. \A i \in 1 .. (at[q] - 1) : tags'[Job(q).tags[i]] = man[q]
    BY <1>2, <1>4, <2>1, <2>2
  <2> QED
    BY <1>1, <2>3 DEF TaggedWith, Same
<1>5. ASSUME Sole(q), TaggedWith(q, Len(Job(q).tags), pushed[q])
      PROVE  TaggedWith(q, Len(Job(q).tags), pushed[q])'
  <2>1. \A i \in 1 .. Len(Job(q).tags) : tags'[Job(q).tags[i]] = pushed[q]
    BY <1>2, <1>3, <1>5, SMT
  <2> QED
    BY <1>1, <2>1 DEF TaggedWith, Same
<1>6. ASSUME Sole(q)
      PROVE  /\ pc'[q] = "tag" => TaggedWith(q, at[q] - 1, man[q])'
             /\ pushed'[q] # None \/ (pc'[q] = "resolve" /\ Job(q).do = "push and sign") =>
                  TaggedWith(q, Len(Job(q).tags), pushed[q])'
  BY <1>4, <1>5, <1>6 DEF TagOK, Same
<1>7. ASSUME Sole(q), Job(q).do = "push and sign", ~conf.refCache
      PROVE  /\ pc'[q] \in SignLabels \ {"resolve"} => man'[q] = pushed'[q]
             /\ pc'[q] = "done" /\ ret'[q] = "nil" =>
                  \E r \in manifests' : r.subject = pushed'[q] /\ Signature(q, pushed[q])' \in r.layers
  <2>1. Signature(q, pushed[q])' = Signature(q, pushed[q])
    BY <1>1 DEF Signature, Blob, Same
  <2> QED
    BY <1>7, <2>1 DEF TagOK, Same, Grows
<1> QED
  BY <1>1, <1>6, <1>7 DEF TagOK, Same

\* What q can find it can find when more is attached.
LEMMA SoughtGrows ==
  ASSUME Grows, NEW q \in Callers, Same(q)
  PROVE  /\ Hopeful(q) => Hopeful(q)'
         /\ Listed(q, Intoto) => Listed(q, Intoto)'
<1>1. Job(q)' = Job(q) /\ policy(q)' = policy(q)
  BY DEF Grows, Job, Same, policy
<1>2. ASSUME NEW A, NEW B, A \subseteq B, Listed(q, A)
      PROVE  \/ \E r \in todo[q]' : r.layers \cap blobs' \cap B # {}
             \/ found[q]' \cap B # {}
  BY <1>2 DEF Listed, Same, Grows
<1>3. Listed(q, Intoto) => Listed(q, Intoto)'
  BY <1>2 DEF Intoto, Listed, Grows, Same
<1>4. Listed(q, Trusted(policy(q), man[q])) => Listed(q, Trusted(policy(q), man[q]))'
  <2>1. Trusted(policy(q), man[q]) \subseteq Trusted(policy(q), man[q])'
    BY <1>1 DEF Trusted, Grows, Same
  <2> QED
    BY <1>2, <2>1 DEF Listed
<1>5. ASSUME NEW k PROVE Unlisted(q, k)' = Unlisted(q, k)
  BY DEF Unlisted, Same
<1>6. Sought(q) => Sought(q)'
  BY <1>1, <1>4, <1>5, EvidenceGrows DEF Sought, Same
<1>7. Hopeful(q) => Hopeful(q)'
  BY <1>1, <1>6, EvidenceGrows DEF Hopeful, Same
<1> QED
  BY <1>3, <1>7

\* No step of another caller takes from q what its evaluation established.
LEMMA EvalsKept == ASSUME NEW q \in Callers, Same(q), Grows, EvalOK(q) PROVE EvalOK(q)'
<1>1. Job(q)' = Job(q) /\ conf'.faults = conf.faults
  BY DEF Grows, Job
<1>2. ASSUME pc[q] = "policy"
      PROVE  /\ man'[q] # None
             /\ at'[q] \in DOMAIN Job(q)'.policies
             /\ \A r \in todo'[q] : r \in manifests' /\ r.subject = man'[q]
             /\ \A b \in found'[q] : Attached(b, man[q])'
  BY <1>1, <1>2 DEF EvalOK, Attached, Grows, Same
<1>3. ASSUME pc[q] = "policy", Job(q).mode = "all",
             NEW i \in DOMAIN Job(q).policies, i < at[q]
      PROVE  Evidence(Job(q).policies[i], man[q])'
  BY <1>1, <1>3, EvidenceGrows DEF EvalOK, Same
<1>4. ASSUME pc[q] = "policy", must[q], ~conf.faults PROVE Hopeful(q)'
  BY <1>4, SoughtGrows DEF EvalOK
<1>5. ASSUME pc[q] = "done", Job(q).do = "evaluate"
      PROVE  /\ ret'[q] = "nil" => Satisfied(q, man[q])'
             /\ must'[q] /\ ~conf'.faults => ret'[q] = "nil" \/ Denied(q, man[q])'
  BY <1>1, <1>5, SatisfiedGrows, EvidenceGrows DEF EvalOK, Same
<1> QED
  BY <1>1, <1>2, <1>3, <1>4, <1>5 DEF EvalOK, Same

\* Where an evaluation is after a policy.
LEMMA GoOnTypes ==
  ASSUME Locals, NEW p \in Callers, NEW i \in Nat, GoOn(p, i)
  PROVE  /\ at'[p] \in Nat /\ kinds'[p] \in Seq({"bundle", "intoto"})
         /\ pc'[p] \in {"policy", "done"}
<1>1. CASE i < Len(Job(p).policies)
  <2>1. i + 1 \in DOMAIN Job(p).policies
    BY <1>1, JobType, SMT
  <2>2. ArtifactTypes(Job(p).policies[i + 1]) \in Seq({"bundle", "intoto"})
    <3>1. /\ <<"bundle">> \in Seq({"bundle", "intoto"}) /\ <<"intoto">> \in Seq({"bundle", "intoto"})
          /\ <<"intoto", "bundle">> \in Seq({"bundle", "intoto"})
      BY SMT
    <3>2. Job(p).policies[i + 1] \in {"sigstore", "slsa", "opa"}
      BY <2>1, JobType, SMT
    <3> QED
      BY <3>1, <3>2 DEF ArtifactTypes
  <2>3. Begin(p, i + 1)
    BY <1>1 DEF GoOn
  <2>4. at'[p] = i + 1 /\ kinds'[p] = ArtifactTypes(Job(p).policies[i + 1]) /\ pc'[p] = "policy"
    BY <2>3 DEF Begin, Goto, Locals
  <2> QED
    BY <2>2, <2>4, SMT
<1>2. CASE ~(i < Len(Job(p).policies))
  BY <1>2 DEF GoOn, Return, Goto, Locals
<1> QED
  BY <1>1, <1>2

\* Where an evaluation is after a verdict.
LEMMA VerdictTypes ==
  ASSUME Locals, NEW p \in Callers, NEW ok, Verdict(p, ok)
  PROVE  /\ at'[p] \in Nat /\ kinds'[p] \in Seq({"bundle", "intoto"})
         /\ pc'[p] \in {"policy", "done"}
<1>1. CASE GoOn(p, at[p])
  BY <1>1, GoOnTypes DEF Locals
<1>2. CASE Goto(p, "done") /\ UNCHANGED <<at, kinds, todo, found>>
  BY <1>2 DEF Goto, Locals
<1> QED
  BY <1>1, <1>2 DEF Verdict, Return

\* Every step leads where the job of the caller leads.
LEMMA StepLabels ==
  ASSUME Locals, NEW p \in Callers, LabelOK(p), Step(p), UNCHANGED conf
  PROVE  /\ at'[p] \in Nat /\ kinds'[p] \in Seq({"bundle", "intoto"}) /\ must'[p] \in BOOLEAN
         /\ LabelOK(p)'
         /\ Job(p).do # "gittuf" \/ pc'[p] = "idle"
<1> USE DEF At
<1>a. Job(p)' = Job(p)
  BY DEF Job
<1>b. ASSUME UNCHANGED <<at, eval>> PROVE at'[p] \in Nat /\ kinds'[p] \in Seq({"bundle", "intoto"}) /\ must'[p] \in BOOLEAN
  BY <1>b DEF Locals, eval
<1>c. ASSUME NEW l, Goto(p, l) PROVE pc'[p] = l
  BY <1>c DEF Goto, Locals
<1> DEFINE Goal == /\ at'[p] \in Nat /\ kinds'[p] \in Seq({"bundle", "intoto"}) /\ must'[p] \in BOOLEAN
                   /\ LabelOK(p)'
                   /\ Job(p).do # "gittuf" \/ pc'[p] = "idle"
<1> SUFFICES Goal
  OBVIOUS
<1>d. ASSUME UNCHANGED <<at, eval>>, LabelOK(p)', Job(p).do # "gittuf" PROVE Goal
  BY <1>b, <1>d
<1> HIDE DEF Goal
<1>1. CASE Push(p)
  BY <1>1, <1>a, <1>c, <1>d DEF Push, LabelOK, PushLabels, SignLabels, GittufLabels, CloneLabels
<1>2. ASSUME NEW b, NEW next, PushBlob(p, b, next),
             \/ next \in PushLabels /\ Job(p).do \in {"push", "push and sign"}
             \/ next \in SignLabels /\ Job(p).do \in {"push and sign", "sign"}
      PROVE Goal
  <2>1. UNCHANGED <<at, eval>> /\ (Goto(p, next) \/ Goto(p, "done"))
    BY <1>2 DEF PushBlob, Return
  <2>2. pc'[p] \in {next, "done"}
    BY <1>c, <2>1
  <2> QED
    BY <1>2, <1>a, <1>d, <2>1, <2>2 DEF LabelOK, PushLabels, SignLabels, GittufLabels, CloneLabels
<1>3. CASE pushEmptyConfig(p) \/ PushIndex(p) \/ PushData(p)
  BY <1>2, <1>3 DEF pushEmptyConfig, PushIndex, PushData, AfterIndex, LabelOK, PushLabels
<1>4. CASE PushSignature(p) \/ PushSigConfig(p)
  BY <1>2, <1>4 DEF PushSignature, PushSigConfig, LabelOK, SignLabels
<1>5. ASSUME NEW m, PutManifest(p, m), UNCHANGED eval, pc[p] \in PushLabels PROVE Goal
  <2>a. Goto(p, "done") \/ Goto(p, "tag") \/ (Goto(p, "resolve") /\ Job(p).do = "push and sign")
    BY <1>5 DEF PutManifest, Return
  <2>b. at' = at \/ at' = [at EXCEPT ![p] = @ + 1]
    BY <1>5 DEF PutManifest
  <2>c. at'[p] \in Nat
    BY <2>b, SMT DEF Locals
  <2>1. /\ pc'[p] \in {"done", "tag"} \/ (pc'[p] = "resolve" /\ Job(p).do = "push and sign")
        /\ at'[p] \in Nat
    BY <1>c, <2>a, <2>c
  <2>2. Job(p).do \in {"push", "push and sign"}
    BY <1>5 DEF LabelOK
  <2>3. kinds'[p] \in Seq({"bundle", "intoto"}) /\ must'[p] \in BOOLEAN
    BY <1>5 DEF eval, Locals
  <2> QED
    BY <1>a, <2>1, <2>2, <2>3 DEF Goal, LabelOK, PushLabels, SignLabels, GittufLabels, CloneLabels
<1>6. CASE PushManifest(p) \/ PushTag(p)
  BY <1>5, <1>6 DEF PushManifest, PushTag, PushLabels
<1>7. ASSUME Return(p, "err") \/ Return(p, "nil"), UNCHANGED <<at, eval>>, Job(p).do # "gittuf" PROVE Goal
  BY <1>7, <1>c, <1>d DEF Return, LabelOK, PushLabels, SignLabels, GittufLabels, CloneLabels
<1>8. CASE DataRefused(p)
  BY <1>7, <1>8 DEF DataRefused, LabelOK, PushLabels
<1>9. CASE pc[p] \in {"resolve", "fetch"} /\ RequestFails(p)
  BY <1>7, <1>9 DEF RequestFails, LabelOK, SignLabels
<1>10. CASE TagResolved(p)
  BY <1>7, <1>10 DEF TagResolved, LabelOK
<1>11. CASE PushManifestByDigest(p)
  BY <1>7, <1>11 DEF PushManifestByDigest, LabelOK, SignLabels
<1>12. CASE Tag(p)
  BY <1>12, <1>a, <1>c, <1>d DEF Tag, LabelOK, PushLabels, SignLabels, GittufLabels, CloneLabels
<1>13. CASE Sign(p)
  BY <1>13, <1>a, <1>c, <1>d DEF Sign, LabelOK, PushLabels, SignLabels, GittufLabels, CloneLabels
<1>14. CASE resolveDigest(p)
  <2>1. UNCHANGED <<at, eval>> /\ pc'[p] \in {"fetch", "done"} /\ Job(p).do \in {"push and sign", "sign"}
    BY <1>14, <1>c DEF resolveDigest, Return, LabelOK, SignLabels
  <2> QED
    BY <1>a, <1>d, <2>1 DEF LabelOK, PushLabels, SignLabels, GittufLabels, CloneLabels
<1>15. CASE SignManifest(p)
  <2>1. UNCHANGED <<at, eval>> /\ pc'[p] = "signature" /\ Job(p).do \in {"push and sign", "sign"}
    BY <1>15, <1>c DEF SignManifest, LabelOK, SignLabels
  <2> QED
    BY <1>a, <1>d, <2>1 DEF LabelOK, PushLabels, SignLabels, GittufLabels, CloneLabels
<1>16. ASSUME Job(p).do = "evaluate", pc'[p] \in {"policy", "done"},
              at'[p] \in Nat /\ kinds'[p] \in Seq({"bundle", "intoto"}) /\ must'[p] \in BOOLEAN
       PROVE Goal
  BY <1>16, <1>a DEF Goal, LabelOK, PushLabels, SignLabels, GittufLabels, CloneLabels
<1>17. CASE Evaluate(p)
  <2>1. must'[p] \in BOOLEAN
    BY <1>17 DEF Evaluate, Satisfied, Locals
  <2> QED
    BY <1>16, <1>17, <2>1, GoOnTypes DEF Evaluate
<1>e. At(p, "policy") => Job(p).do = "evaluate"
  BY DEF LabelOK
<1>18. CASE List(p)
  <2>1. kinds'[p] \in Seq({"bundle", "intoto"})
    BY <1>18, SMT DEF List, Locals
  <2> QED
    BY <1>16, <1>18, <1>e, <2>1 DEF List, Locals
<1>19. CASE ListFails(p)
  <2>1. must'[p] \in BOOLEAN
    BY <1>19 DEF ListFails, Locals
  <2>2. CASE Verdict(p, FALSE)
    BY <1>16, <1>19, <1>e, <2>1, <2>2, VerdictTypes DEF ListFails
  <2>3. CASE kinds' = [kinds EXCEPT ![p] = Tail(@)] /\ UNCHANGED <<pc, at>>
    <3>1. kinds'[p] \in Seq({"bundle", "intoto"})
      BY <1>19, <2>3, SMT DEF ListFails, Locals
    <3> QED
      BY <1>16, <1>19, <1>e, <2>1, <2>3, <3>1 DEF ListFails, Locals
  <2> QED
    BY <1>19, <2>2, <2>3 DEF ListFails
<1>20. CASE FetchDescriptor(p)
  BY <1>16, <1>20, <1>e DEF FetchDescriptor, Locals
<1>21. CASE Decide(p)
  <2>1. must'[p] \in BOOLEAN
    BY <1>21 DEF Decide, Locals
  <2> QED
    BY <1>16, <1>21, <1>e, <2>1, VerdictTypes DEF Decide
<1>22. CASE Again(p)
  <2>1. at'[p] = 1 /\ kinds'[p] = <<>> /\ must'[p] = FALSE /\ pc'[p] = "idle"
    BY <1>22, <1>c DEF Again, Locals
  <2>2. <<>> \in Seq({"bundle", "intoto"})
    BY SMT
  <2>3. LabelOK(p)'
    BY <2>1 DEF LabelOK, PushLabels, SignLabels, GittufLabels, CloneLabels
  <2>4. must'[p] \in BOOLEAN
    BY <2>1
  <2>5. at'[p] \in Nat
    BY <2>1, SMT
  <2> QED
    BY <2>1, <2>2, <2>3, <2>4, <2>5 DEF Goal
<1> QED
  BY <1>1, <1>3, <1>4, <1>6, <1>8, <1>9, <1>10, <1>11, <1>12, <1>13, <1>14, <1>15, <1>17, <1>18,
     <1>19, <1>20, <1>21, <1>22 DEF Step

\* The loop over the tags in Push, and Sign after it.
LEMMA StepTags ==
  ASSUME IInv, Locals, NEW p \in Callers, LabelOK(p), TagOK(p), Step(p), UNCHANGED conf
  PROVE  TagOK(p)'
<1> DEFINE Pushes == Job(p).do \in {"push", "push and sign"}
<1> USE DEF At
<1>a. Job(p)' = Job(p) /\ Sole(p)' = Sole(p) /\ conf'.refCache = conf.refCache
  BY DEF Job, Sole
<1>b. ASSUME NEW l, Goto(p, l) PROVE pc'[p] = l
  BY <1>b DEF Goto, Locals
<1>c. LabelOK(p)'
  BY StepLabels
<1>d. ASSUME NEW r, Return(p, r) PROVE pc'[p] = "done" /\ ret'[p] = r
  BY <1>b, <1>d DEF Return, Locals
<1>e. /\ UNCHANGED pushed => pushed'[p] = pushed[p]
      /\ UNCHANGED at => at'[p] = at[p]
      /\ UNCHANGED man => man'[p] = man[p]
  OBVIOUS
<1>f. DOMAIN Job(p).tags = 1 .. Len(Job(p).tags) /\ Len(Job(p).tags) \in Nat /\ 1 <= Len(Job(p).tags)
  BY JobType, SMT
\* p neither pushes nor begins anew
<1>1. ASSUME ~Pushes, UNCHANGED pushed, pc'[p] # "idle" PROVE TagOK(p)'
  BY <1>1, <1>a, <1>c, <1>e DEF TagOK, LabelOK, PushLabels
\* p is before its first manifest, or gives up
<1>2. ASSUME pushed'[p] = None,
             \/ pc'[p] \in {"config", "index", "data", "manifest"} /\ at'[p] = 1
             \/ pc'[p] = "done" /\ ret'[p] = "err"
             \/ pc'[p] = "idle" /\ at'[p] = 1
      PROVE  TagOK(p)'
  BY <1>2, <1>a DEF TagOK, SignLabels
\* p signs
<1>3. ASSUME pc[p] \in SignLabels, UNCHANGED <<pushed, tags>>, pc'[p] \in (SignLabels \ {"resolve"}) \cup {"done"},
             pc'[p] # "done" /\ Job(p).do = "push and sign" /\ ~conf.refCache /\ Sole(p) => man'[p] = pushed[p],
             pc'[p] = "done" /\ ret'[p] = "nil" /\ Job(p).do = "push and sign" /\ ~conf.refCache /\ Sole(p) =>
                 \E r \in manifests' : r.subject = pushed[p] /\ Signature(p, pushed[p]) \in r.layers
      PROVE  TagOK(p)'
  <2>1. Signature(p, pushed[p])' = Signature(p, pushed[p]) /\ pushed'[p] = pushed[p]
    BY <1>3, <1>a DEF Signature, Blob
  <2>2. Sole(p) /\ pushed'[p] # None => TaggedWith(p, Len(Job(p).tags), pushed[p])'
    BY <1>3, <1>a, <2>1 DEF TagOK, TaggedWith
  <2> QED
    BY <1>3, <1>a, <2>1, <2>2 DEF TagOK, SignLabels
\* p stores a manifest under one of its tags
<1>4. ASSUME NEW m, PutManifest(p, m), man'[p] = m, pc[p] = "manifest" \/ (pc[p] = "tag" /\ m = man[p])
      PROVE  TagOK(p)'
  <2>a. pc[p] = "manifest" => at[p] = 1
    BY DEF TagOK
  <2>b. pc[p] = "tag" => at[p] \in DOMAIN Job(p).tags
    BY DEF TagOK
  <2>c. pushed[p] = None
    BY <1>4 DEF TagOK, SignLabels
  <2>d. Pushes
    BY <1>4 DEF LabelOK, PushLabels
  <2>1. at[p] \in 1 .. Len(Job(p).tags)
    BY <1>4, <1>f, <2>a, <2>b, SMT
  <2>2. Sole(p) => TaggedWith(p, at[p] - 1, m)
    <3>1. CASE pc[p] = "manifest"
      BY <2>a, <3>1, SMT DEF TaggedWith
    <3>2. CASE pc[p] = "tag"
      BY <1>4, <3>2 DEF TagOK
    <3> QED
      BY <1>4, <3>1, <3>2
  <2>3. CASE Return(p, "err") /\ UNCHANGED pushed
    BY <1>2, <1>d, <1>e, <2>3, <2>c
  <2> DEFINE set == [tags EXCEPT ![Job(p).tags[at[p]]] = m]
  <2>4. ASSUME Sole(p), tags' = set
        PROVE  \A i \in 1 .. at[p] : tags'[Job(p).tags[i]] = m
    <3> SUFFICES ASSUME NEW i \in 1 .. at[p] PROVE tags'[Job(p).tags[i]] = m
      OBVIOUS
    <3>a. i \in 1 .. Len(Job(p).tags) /\ at[p] \in Nat
      BY <2>1, <1>f, SMT
    <3>b. \A j \in 1 .. Len(Job(p).tags) : Job(p).tags[j] \in Tags
      BY JobType, SMT
    <3>1. Job(p).tags[i] \in Tags /\ Job(p).tags[at[p]] \in Tags
      BY <2>1, <3>a, <3>b
    <3>2. i = at[p] \/ i \in 1 .. (at[p] - 1)
      BY <3>a, SMT
    <3> QED
      BY <2>2, <2>4, <3>1, <3>2 DEF TaggedWith, Locals
  <2>5. CASE tags' = set /\ LastTag(p) /\ pushed' = [pushed EXCEPT ![p] = m]
             /\ IF Job(p).do = "push and sign" THEN Goto(p, "resolve") /\ UNCHANGED ret ELSE Return(p, "nil")
    <3>1. pushed'[p] = m
      BY <2>5 DEF Locals
    <3>a. at[p] >= Len(Job(p).tags)
      BY <2>5 DEF LastTag
    <3>2. at[p] = Len(Job(p).tags)
      BY <1>f, <2>1, <3>a, SMT
    <3>3. Sole(p) => TaggedWith(p, Len(Job(p).tags), pushed[p])'
      BY <1>a, <2>4, <2>5, <3>1, <3>2 DEF TaggedWith
    <3>4. pc'[p] = "resolve" \/ (pc'[p] = "done" /\ Job(p).do # "push and sign")
      BY <1>b, <1>d, <2>5
    <3> QED
      BY <1>a, <2>d, <3>3, <3>4 DEF TagOK, SignLabels
  <2>6. CASE tags' = set /\ ~LastTag(p) /\ Goto(p, "tag") /\ at' = [at EXCEPT ![p] = @ + 1] /\ UNCHANGED pushed
    <3>1. at'[p] = at[p] + 1 /\ pc'[p] = "tag" /\ pushed'[p] = None
      BY <1>b, <1>e, <2>c, <2>6 DEF Locals
    <3>a. at[p] < Len(Job(p).tags)
      BY <1>f, <2>1, <2>6, SMT DEF LastTag
    <3>2. at'[p] \in DOMAIN Job(p).tags /\ at'[p] - 1 = at[p]
      BY <1>f, <2>1, <3>1, <3>a, SMT
    <3>3. Sole(p) => TaggedWith(p, at[p] - 1, man[p])'
      BY <1>4, <1>a, <2>4, <2>6, <3>2 DEF TaggedWith
    <3> QED
      BY <1>a, <3>1, <3>2, <3>3 DEF TagOK, SignLabels
  <2> QED
    BY <1>4, <2>3, <2>5, <2>6 DEF PutManifest
<1>5. CASE Push(p)
  BY <1>2, <1>5, <1>b, <1>e DEF Push, TagOK, SignLabels
<1>6. ASSUME NEW b, NEW next, PushBlob(p, b, next), pc[p] \in {"config", "index", "data"},
             next \in {"config", "index", "data", "manifest"}
      PROVE  TagOK(p)'
  <2>1. /\ UNCHANGED <<pushed, at>>
        /\ Goto(p, next) \/ Return(p, "err")
    BY <1>6 DEF PushBlob
  <2>2. pushed[p] = None /\ at[p] = 1
    BY <1>6 DEF TagOK, SignLabels
  <2> QED
    BY <1>2, <1>6, <1>b, <1>d, <1>e, <2>1, <2>2
<1>7. CASE pushEmptyConfig(p) \/ PushIndex(p) \/ PushData(p)
  BY <1>6, <1>7 DEF pushEmptyConfig, PushIndex, PushData, AfterIndex
<1>8. CASE DataRefused(p)
  BY <1>2, <1>8, <1>d, <1>e DEF DataRefused, TagOK, SignLabels
<1>9. CASE PushManifest(p)
  <2>1. man'[p] = buildManifest(Job(p).archive, clock)
    BY <1>9 DEF PushManifest, Locals
  <2> QED
    BY <1>4, <1>9, <2>1 DEF PushManifest
<1>10. CASE PushTag(p)
  BY <1>4, <1>10, <1>e DEF PushTag
<1>11. CASE Tag(p) \/ TagResolved(p)
  <2>1. ~Pushes /\ UNCHANGED pushed
    BY <1>11 DEF Tag, TagResolved, LabelOK
  <2>2. pc'[p] # "idle"
    BY <1>11, <1>b, <1>d DEF Tag, TagResolved
  <2> QED
    BY <1>1, <2>1, <2>2
<1>12. CASE Sign(p)
  BY <1>1, <1>12, <1>b DEF Sign
<1>13. CASE resolveDigest(p)
  <2> DEFINE t == Tag1(p)
             m == IF conf.refCache /\ cached[t] # None THEN cached[t] ELSE tags[t]
  <2>1. /\ pc[p] = "resolve" /\ UNCHANGED <<pushed, tags>>
        /\ Return(p, "err") \/ (man' = [man EXCEPT ![p] = m] /\ Goto(p, "fetch"))
    BY <1>13 DEF resolveDigest, repo
  <2>2. Job(p).do = "push and sign" /\ ~conf.refCache /\ Sole(p) => m = pushed[p]
    <3>1. Job(p).do = "push and sign" /\ Sole(p) => TaggedWith(p, Len(Job(p).tags), pushed[p])
      BY <2>1 DEF TagOK
    <3>2. 1 \in 1 .. Len(Job(p).tags)
      BY <1>f, SMT
    <3> QED
      BY <3>1, <3>2 DEF TaggedWith, Tag1
  <2> HIDE DEF m
  <2>3. \/ pc'[p] = "done" /\ ret'[p] = "err"
        \/ pc'[p] = "fetch" /\ man'[p] = m
    BY <1>b, <1>d, <2>1 DEF Locals
  <2> QED
    BY <1>3, <2>1, <2>2, <2>3 DEF SignLabels
<1>14. CASE pc[p] \in {"resolve", "fetch"} /\ RequestFails(p)
  <2>1. UNCHANGED <<pushed, tags>> /\ Return(p, "err")
    BY <1>14 DEF RequestFails, repo
  <2> QED
    BY <1>3, <1>14, <1>d, <2>1 DEF SignLabels
<1>g. ASSUME pc[p] \in SignLabels \ {"resolve"}, UNCHANGED man, Job(p).do = "push and sign", ~conf.refCache, Sole(p)
      PROVE  man'[p] = pushed[p]
  BY <1>g, <1>e DEF TagOK
<1>15. CASE SignManifest(p)
  <2>1. pc[p] = "fetch" /\ UNCHANGED <<pushed, tags, man>> /\ Goto(p, "signature")
    BY <1>15 DEF SignManifest, repo
  <2> QED
    BY <1>3, <1>b, <1>g, <2>1 DEF SignLabels
<1>16. ASSUME NEW b, NEW next, PushBlob(p, b, next), pc[p] \in {"signature", "sigconfig"},
              next \in {"sigconfig", "referrer"}
       PROVE  TagOK(p)'
  <2>1. /\ UNCHANGED <<pushed, tags, man>>
        /\ Goto(p, next) \/ Return(p, "err")
    BY <1>16 DEF PushBlob
  <2>2. (pc'[p] = next /\ next # "done") \/ (pc'[p] = "done" /\ ret'[p] = "err")
    BY <1>16, <1>b, <1>d, <2>1
  <2> QED
    BY <1>3, <1>16, <1>g, <2>1, <2>2 DEF SignLabels
<1>17. CASE PushSignature(p) \/ PushSigConfig(p)
  BY <1>16, <1>17 DEF PushSignature, PushSigConfig
<1>18. CASE PushManifestByDigest(p)
  <2> DEFINE r == referrerManifest(Signature(p, man[p]), man[p])
  <2>1. /\ pc[p] = "referrer" /\ UNCHANGED <<pushed, tags, man>>
        /\ (manifests' = manifests \cup {r} /\ Return(p, "nil")) \/ Return(p, "err")
    BY <1>18 DEF PushManifestByDigest
  <2>2. r.subject = man[p] /\ Signature(p, man[p]) \in r.layers
    BY DEF referrerManifest
  <2> HIDE DEF r
  <2>3. /\ pc'[p] = "done"
        /\ ret'[p] = "nil" => r \in manifests'
    BY <1>d, <2>1, SMT
  <2>4. Job(p).do = "push and sign" /\ ~conf.refCache /\ Sole(p) => man[p] = pushed[p]
    BY <2>1 DEF TagOK, SignLabels
  <2> QED
    BY <1>3, <2>1, <2>2, <2>3, <2>4 DEF SignLabels
<1>19. CASE At(p, "policy") /\ UNCHANGED pushed /\ pc'[p] # "idle"
  BY <1>1, <1>19 DEF LabelOK
<1>20. CASE Evaluate(p)
  BY <1>1, <1>20, GoOnTypes DEF Evaluate
<1>21. CASE List(p) \/ FetchDescriptor(p)
  BY <1>19, <1>21 DEF List, FetchDescriptor
<1>22. CASE ListFails(p) \/ Decide(p)
  <2>1. At(p, "policy") /\ UNCHANGED pushed /\ (UNCHANGED pc \/ \E ok : Verdict(p, ok))
    BY <1>22 DEF ListFails, Decide
  <2>2. pc'[p] # "idle"
    BY <2>1, VerdictTypes
  <2> QED
    BY <1>19, <2>1, <2>2
<1>23. CASE Again(p)
  <2>1. pc'[p] = "idle" /\ at'[p] = 1 /\ pushed'[p] = None
    BY <1>23, <1>b DEF Again, Locals
  <2> QED
    BY <1>2, <2>1
<1> QED
  BY <1>5, <1>7, <1>8, <1>9, <1>10, <1>11, <1>12, <1>13, <1>14, <1>15, <1>17, <1>18, <1>20, <1>21,
     <1>22, <1>23 DEF Step

\* A policy that begins can find all the evidence there is.
LEMMA GoOnKeeps ==
  ASSUME Locals, NEW p \in Callers, UNCHANGED <<repo, conf>>, NEW i \in Nat, GoOn(p, i),
         man'[p] # None,
         Job(p).mode = "all" =>
             \A j \in DOMAIN Job(p).policies : j <= i => Evidence(Job(p).policies[j], man'[p]),
         must'[p] /\ ~conf.faults =>
             IF Job(p).mode = "all"
             THEN \A j \in DOMAIN Job(p).policies : j > i => Evidence(Job(p).policies[j], man'[p])
             ELSE \/ Denied(p, man'[p])
                  \/ \E j \in DOMAIN Job(p).policies : j > i /\ Evidence(Job(p).policies[j], man'[p])
  PROVE  EvalOK(p)'
<1> DEFINE ps == Job(p).policies
           m == man'[p]
<1>a. /\ Job(p)' = Job(p) /\ conf'.faults = conf.faults
      /\ blobs' = blobs /\ manifests' = manifests
  BY DEF Job, repo
<1>b. \A j \in DOMAIN ps : Evidence(ps[j], man[p])' <=> Evidence(ps[j], m)
  BY <1>a DEF Evidence
<1>c. Denied(p, man[p])' <=> Denied(p, m)
  BY <1>a DEF Denied
<1>d. DOMAIN ps = 1 .. Len(ps) /\ Len(ps) \in Nat
  BY JobType, SMT
<1>1. CASE i < Len(ps)
  <2>1. Begin(p, i + 1)
    BY <1>1 DEF GoOn
  <2>2. /\ at'[p] = i + 1 /\ kinds'[p] = ArtifactTypes(ps[i + 1]) /\ todo'[p] = {} /\ found'[p] = {}
        /\ pc'[p] = "policy"
    BY <2>1 DEF Begin, Goto, Locals
  <2>3. i + 1 \in DOMAIN ps
    BY <1>1, <1>d, SMT
  <2>4. ps[i + 1] \in {"sigstore", "slsa", "opa"}
    BY <2>3, JobType, SMT
  <2>5. policy(p)' = ps[i + 1]
    BY <1>a, <2>2 DEF policy
  <2>6. Unlisted(p, Parses(policy(p)))'
    <3>1. 1 \in DOMAIN kinds'[p] /\ kinds'[p][1] = Parses(ps[i + 1])
      BY <2>2, <2>4, SMT DEF ArtifactTypes, Parses
    <3> QED
      BY <2>5, <3>1 DEF Unlisted
  <2>7. Evidence(ps[i + 1], m) => Sought(p)'
    <3>1. Evidence(ps[i + 1], m) => Evidence(policy(p), man[p])'
      BY <1>a, <2>5 DEF Evidence
    <3> QED
      BY <2>6, <3>1 DEF Sought
  <2>8. must'[p] /\ ~conf'.faults => Hopeful(p)'
    <3> SUFFICES ASSUME must'[p], ~conf.faults PROVE Hopeful(p)'
      BY <1>a
    <3>1. CASE Job(p).mode = "all"
      <4>1. \A j \in DOMAIN ps : j > i => Evidence(ps[j], m)
        BY <3>1
      <4>2. Evidence(ps[i + 1], m)
        BY <2>3, <4>1, SMT
      <4>3. \A j \in DOMAIN ps : j > i + 1 => Evidence(ps[j], man[p])'
        BY <1>b, <1>d, <4>1, SMT
      <4> QED
        BY <1>a, <2>2, <2>7, <3>1, <4>2, <4>3 DEF Hopeful
    <3>2. CASE Job(p).mode # "all"
      <4>1. Denied(p, m) \/ \E j \in DOMAIN ps : j > i /\ Evidence(ps[j], m)
        BY <3>2
      <4>2. CASE Denied(p, m)
        BY <1>a, <1>c, <3>2, <4>2 DEF Hopeful
      <4>3. ASSUME NEW j \in DOMAIN ps, j > i, Evidence(ps[j], m) PROVE Hopeful(p)'
        <5>1. CASE j = i + 1
          BY <1>a, <2>7, <3>2, <4>3, <5>1 DEF Hopeful
        <5>2. CASE j > i + 1
          BY <1>a, <1>b, <2>2, <3>2, <4>3, <5>2 DEF Hopeful
        <5> QED
          BY <1>d, <4>3, <5>1, <5>2, SMT
      <4> QED
        BY <4>1, <4>2, <4>3
    <3> QED
      BY <3>1, <3>2
  <2>9. Job(p).mode = "all" => \A j \in DOMAIN ps : j < at'[p] => Evidence(ps[j], man[p])'
    BY <1>b, <1>d, <2>2, SMT
  <2> QED
    BY <1>a, <2>2, <2>3, <2>8, <2>9 DEF EvalOK
<1>2. CASE ~(i < Len(ps))
  <2>1. Return(p, IF Job(p).mode = "all" THEN "nil" ELSE "err")
    BY <1>2 DEF GoOn
  <2>2. pc'[p] = "done" /\ ret'[p] = IF Job(p).mode = "all" THEN "nil" ELSE "err"
    BY <2>1 DEF Return, Goto, Locals
  <2>3. \A j \in DOMAIN ps : j <= i
    BY <1>2, <1>d, SMT
  <2>4. Job(p).mode = "all" => Satisfied(p, man[p])'
    BY <1>a, <1>b, <2>3 DEF Satisfied
  <2>5. must'[p] /\ ~conf.faults => Job(p).mode = "all" \/ Denied(p, m)
    BY <1>d, <2>3, SMT
  <2> QED
    BY <1>a, <1>c, <2>2, <2>4, <2>5 DEF EvalOK
<1> QED
  BY <1>1, <1>2

\* The verdict of a policy is as good as its evidence.
LEMMA VerdictKeeps ==
  ASSUME Locals, NEW p \in Callers, UNCHANGED <<repo, conf, man, must>>, EvalOK(p), pc[p] = "policy",
         NEW ok \in BOOLEAN, Verdict(p, ok),
         ok => Evidence(policy(p), man[p]),
         ~ok /\ must[p] /\ ~conf.faults => (Sought(p) => Denied(p, man[p]))
  PROVE  EvalOK(p)'
<1> DEFINE ps == Job(p).policies
<1>a. /\ Job(p)' = Job(p) /\ conf'.faults = conf.faults
      /\ blobs' = blobs /\ manifests' = manifests /\ man'[p] = man[p] /\ must'[p] = must[p]
  BY DEF Job, repo
<1>b. \A j \in DOMAIN ps : Evidence(ps[j], man[p])' <=> Evidence(ps[j], man[p])
  BY <1>a DEF Evidence
<1>c. Denied(p, man[p])' <=> Denied(p, man[p])
  BY <1>a DEF Denied
<1>d. DOMAIN ps = 1 .. Len(ps) /\ Len(ps) \in Nat /\ at[p] \in DOMAIN ps /\ man[p] # None
  BY JobType, SMT DEF EvalOK
<1>e. Job(p).mode = "all" => \A j \in DOMAIN ps : j < at[p] => Evidence(ps[j], man[p])
  BY DEF EvalOK
<1>f. must[p] /\ ~conf.faults => Hopeful(p)
  BY DEF EvalOK
<1>1. CASE ok /\ Job(p).mode = "any"
  <2>1. Return(p, "nil")
    BY <1>1 DEF Verdict
  <2>2. pc'[p] = "done" /\ ret'[p] = "nil"
    BY <2>1 DEF Return, Goto, Locals
  <2>3. Satisfied(p, man[p])'
    BY <1>1, <1>a, <1>b, <1>d DEF Satisfied, policy
  <2> QED
    BY <2>2, <2>3 DEF EvalOK
<1>2. CASE ~ok /\ Job(p).mode = "all"
  <2>1. Return(p, "err")
    BY <1>2 DEF Verdict
  <2>2. pc'[p] = "done" /\ ret'[p] = "err"
    BY <2>1 DEF Return, Goto, Locals
  <2>3. must[p] /\ ~conf.faults => Denied(p, man[p])
    BY <1>2, <1>f DEF Hopeful
  <2> QED
    BY <1>a, <1>c, <2>2, <2>3 DEF EvalOK
<1>3. CASE ok /\ Job(p).mode = "all"
  <2>1. GoOn(p, at[p])
    BY <1>3 DEF Verdict
  <2>2. \A j \in DOMAIN ps : j <= at[p] => Evidence(ps[j], man[p])
    BY <1>3, <1>d, <1>e, SMT DEF policy
  <2>3. must[p] /\ ~conf.faults => \A j \in DOMAIN ps : j > at[p] => Evidence(ps[j], man[p])
    BY <1>3, <1>f DEF Hopeful
  <2> QED
    BY <1>3, <1>a, <1>d, <2>1, <2>2, <2>3, GoOnKeeps DEF Locals
<1>4. CASE ~ok /\ Job(p).mode = "any"
  <2>1. GoOn(p, at[p])
    BY <1>4 DEF Verdict
  <2>2. must[p] /\ ~conf.faults =>
            Denied(p, man[p]) \/ \E j \in DOMAIN ps : j > at[p] /\ Evidence(ps[j], man[p])
    BY <1>4, <1>f DEF Hopeful
  <2> QED
    BY <1>4, <1>a, <1>d, <2>1, <2>2, GoOnKeeps DEF Locals
<1> QED
  BY <1>1, <1>2, <1>3, <1>4, JobType

\* A policy accepts evidence only, and fails to accept the evidence it found only
\* if a rule denies.
LEMMA AcceptsSound ==
  ASSUME Locals, ReferrersOK, NEW p \in Callers, EvalOK(p), pc[p] = "policy"
  PROVE  /\ Accepts(policy(p), found[p], man[p]) \in BOOLEAN
         /\ Accepts(policy(p), found[p], man[p]) => Evidence(policy(p), man[p])
         /\ ~Accepts(policy(p), found[p], man[p]) /\ Enough(p) => (Sought(p) => Denied(p, man[p]))
<1> DEFINE m == man[p]
           pol == policy(p)
<1>1. pol \in {"sigstore", "slsa", "opa"} /\ m # None
  BY JobType, SMT DEF policy, EvalOK
<1>2. ASSUME NEW b \in found[p]
      PROVE  /\ b.of = m /\ b.by \in {"trusted", "other"}
             /\ b.kind = Parses(pol) /\ b.by = "trusted" => Evidence(pol, m)
  <2>1. PICK r \in manifests : r.subject = m /\ b \in r.layers /\ b \in blobs
    BY DEF EvalOK, Attached
  <2>2. b.of = m /\ b.by \in {"trusted", "other"}
    BY <1>1, <2>1 DEF ReferrersOK
  <2> QED
    BY <2>1, <2>2 DEF Evidence
<1>3. Accepts(pol, found[p], m) \in BOOLEAN
  BY <1>1 DEF Accepts, evaluatePolicy
<1>4. Accepts(pol, found[p], m) => Evidence(pol, m)
  BY <1>1, <1>2 DEF Accepts, verifyBundle, validator, evaluatePolicy, Parses
<1>5. ASSUME ~Accepts(pol, found[p], m), Enough(p), Sought(p) PROVE Denied(p, m)
  <2>1. todo[p] = {} /\ kinds[p] = <<>>
    BY <1>5 DEF Enough
  <2>2. PICK b \in found[p] : b.kind = Parses(pol) /\ b.of = m /\ b.by = "trusted"
    BY <1>5, <2>1, SMT DEF Sought, Unlisted, Listed, Trusted
  <2>3. pol = "opa"
    BY <1>1, <1>5, <2>2 DEF Accepts, verifyBundle, validator, Parses
  <2>4. PICK c \in found[p] : c.kind = "intoto" /\ c.by # "trusted"
    BY <1>5, <2>2, <2>3 DEF Accepts, evaluatePolicy, Parses
  <2>5. c.by = "other" /\ Attached(c, m)
    BY <1>2, <2>4 DEF EvalOK
  <2>6. at[p] \in DOMAIN Job(p).policies
    BY DEF EvalOK
  <2> QED
    BY <2>3, <2>4, <2>5, <2>6 DEF Denied, Attached, policy
<1> QED
  BY <1>3, <1>4, <1>5

\* The search of a policy goes on: what it sought is among what it has listed or
\* found.
LEMMA SearchKeeps ==
  ASSUME Locals, NEW p \in Callers, UNCHANGED <<repo, conf, pc, man, at, must, ret>>,
         EvalOK(p), pc[p] = "policy",
         \A r \in todo'[p] : r \in todo[p] \/ (r \in manifests /\ r.subject = man[p]),
         \A b \in found'[p] : b \in found[p] \/ Attached(b, man[p]),
         ~conf.faults /\ Sought(p) => Sought(p)'
  PROVE  EvalOK(p)'
<1>a. /\ Job(p)' = Job(p) /\ conf'.faults = conf.faults
      /\ blobs' = blobs /\ manifests' = manifests
      /\ man'[p] = man[p] /\ must'[p] = must[p] /\ at'[p] = at[p] /\ pc'[p] = pc[p]
  BY DEF Job, repo
<1>b. \A j \in DOMAIN Job(p).policies :
          Evidence(Job(p).policies[j], man[p])' <=> Evidence(Job(p).policies[j], man[p])
  BY <1>a DEF Evidence
<1>c. Denied(p, man[p])' <=> Denied(p, man[p])
  BY <1>a DEF Denied
<1>1. /\ \A r \in todo'[p] : r \in manifests' /\ r.subject = man'[p]
      /\ \A b \in found'[p] : Attached(b, man[p])'
  BY <1>a DEF EvalOK, Attached
<1>2. must'[p] /\ ~conf'.faults => Hopeful(p)'
  BY <1>a, <1>b, <1>c DEF EvalOK, Hopeful
<1> QED
  BY <1>a, <1>b, <1>1, <1>2 DEF EvalOK

\* The steps of an evaluation: what it lists, fetches and decides.
LEMMA StepEvals ==
  ASSUME Locals, ReferrersOK, NEW p \in Callers, LabelOK(p), EvalOK(p), Step(p), UNCHANGED conf
  PROVE  EvalOK(p)'
<1> USE DEF At
<1>a. Job(p)' = Job(p)
  BY DEF Job
<1>1. CASE Job(p).do # "evaluate"
  <2>1. LabelOK(p)'
    BY StepLabels
  <2> QED
    BY <1>1, <1>a, <2>1 DEF LabelOK, EvalOK
<1>2. CASE Evaluate(p)
  <2>1. UNCHANGED repo /\ GoOn(p, 0)
    BY <1>2 DEF Evaluate
  <2>2. man'[p] = tags[Tag1(p)] /\ man'[p] # None /\ must'[p] = Satisfied(p, man'[p])
    BY <1>2 DEF Evaluate, Locals
  <2>3. \A j \in DOMAIN Job(p).policies : j > 0 /\ ~(j <= 0)
    BY JobType, SMT
  <2>4. 0 \in Nat
    OBVIOUS
  <2>5. must'[p] =>
             IF Job(p).mode = "all"
             THEN \A j \in DOMAIN Job(p).policies : j > 0 => Evidence(Job(p).policies[j], man'[p])
             ELSE \E j \in DOMAIN Job(p).policies : j > 0 /\ Evidence(Job(p).policies[j], man'[p])
    BY <2>2, <2>3 DEF Satisfied
  <2> QED
    BY <2>1, <2>2, <2>3, <2>4, <2>5, GoOnKeeps
<1>3. CASE List(p)
  <2>1. /\ pc[p] = "policy" /\ UNCHANGED <<repo, conf, pc, man, at, must, ret, found>>
        /\ todo[p] = {} /\ kinds[p] # <<>> /\ kinds[p] \in Seq({"bundle", "intoto"})
        /\ todo'[p] = Referrers(man[p], Head(kinds[p]))
        /\ kinds'[p] = Tail(kinds[p])
    BY <1>3 DEF List, Locals
  <2>2. policy(p)' = policy(p) /\ blobs' = blobs /\ man'[p] = man[p] /\ found'[p] = found[p]
    BY <1>a, <2>1 DEF policy, repo
  <2>3. Trusted(policy(p), man[p])' = Trusted(policy(p), man[p])
    BY <2>2 DEF Trusted
  <2>4. Evidence(policy(p), man[p])' <=> Evidence(policy(p), man[p])
    BY <2>1, <2>2 DEF Evidence, repo
  <2>5. Sought(p) => Sought(p)'
    <3>1. CASE Listed(p, Trusted(policy(p), man[p]))
      BY <2>1, <2>2, <2>3, <3>1 DEF Sought, Listed
    <3>2. CASE Unlisted(p, Parses(policy(p))) /\ Evidence(policy(p), man[p])
      <4>1. CASE Head(kinds[p]) = Parses(policy(p))
        <5>a. PICK r \in manifests : r.subject = man[p] /\ \E b \in r.layers \cap blobs :
                  b.kind = Parses(policy(p)) /\ b.of = man[p] /\ b.by = "trusted"
          BY <3>2 DEF Evidence
        <5>1. PICK b \in r.layers \cap blobs :
                  b.kind = Parses(policy(p)) /\ b.of = man[p] /\ b.by = "trusted"
          BY <5>a
        <5>2. r \in todo'[p]
          BY <2>1, <4>1, <5>a, <5>1 DEF Referrers
        <5>3. b \in Trusted(policy(p), man[p])
          BY <5>1 DEF Trusted
        <5> QED
          BY <2>2, <2>3, <5>1, <5>2, <5>3 DEF Sought, Listed
      <4>2. CASE Head(kinds[p]) # Parses(policy(p))
        <5>1. PICK i \in DOMAIN kinds[p] : kinds[p][i] = Parses(policy(p))
          BY <3>2 DEF Unlisted
        <5>2. i # 1 /\ i \in 1 .. Len(kinds[p])
          BY <2>1, <4>2, <5>1, SMT
        <5>3. i - 1 \in DOMAIN Tail(kinds[p]) /\ Tail(kinds[p])[i - 1] = kinds[p][i]
          BY <2>1, <5>2, SMT
        <5>4. Unlisted(p, Parses(policy(p)))'
          BY <2>1, <2>2, <5>1, <5>3 DEF Unlisted
        <5> QED
          BY <2>4, <3>2, <5>4 DEF Sought
      <4> QED
        BY <4>1, <4>2
    <3> QED
      BY <3>1, <3>2 DEF Sought
  <2>6. \A r \in todo'[p] : r \in manifests /\ r.subject = man[p]
    BY <2>1 DEF Referrers
  <2> QED
    BY <2>1, <2>2, <2>5, <2>6, SearchKeeps
<1>4. CASE ListFails(p)
  <2>1. pc[p] = "policy" /\ UNCHANGED <<repo, conf, man, must>> /\ conf.faults
    BY <1>4 DEF ListFails
  <2>2. CASE Verdict(p, FALSE)
    BY <2>1, <2>2, VerdictKeeps
  <2>3. CASE UNCHANGED <<pc, at, todo, found, ret>>
    BY <2>1, <2>3, SearchKeeps
  <2> QED
    BY <1>4, <2>2, <2>3 DEF ListFails
<1>5. CASE FetchDescriptor(p)
  <2>1. pc[p] = "policy" /\ UNCHANGED <<repo, conf, pc, man, at, must, ret, kinds>>
    BY <1>5 DEF FetchDescriptor
  <2>2. PICK r \in todo[p] :
          /\ todo'[p] = todo[p] \ {r}
          /\ found'[p] = found[p] \cup (r.layers \cap blobs) \/ (conf.faults /\ found'[p] = found[p])
    BY <1>5 DEF FetchDescriptor, Locals
  <2>3. policy(p)' = policy(p) /\ blobs' = blobs /\ man'[p] = man[p] /\ kinds'[p] = kinds[p]
    BY <1>a, <2>1 DEF policy, repo
  <2>4. Trusted(policy(p), man[p])' = Trusted(policy(p), man[p])
    BY <2>3 DEF Trusted
  <2>5. Evidence(policy(p), man[p])' <=> Evidence(policy(p), man[p])
    BY <2>1, <2>3 DEF Evidence, repo
  <2>6. ~conf.faults /\ Listed(p, Trusted(policy(p), man[p])) => Listed(p, Trusted(policy(p), man[p]))'
    BY <2>2, <2>3, <2>4 DEF Listed
  <2>7. ~conf.faults /\ Sought(p) => Sought(p)'
    BY <2>3, <2>5, <2>6 DEF Sought, Unlisted
  <2>8. \A b \in found'[p] : b \in found[p] \/ Attached(b, man[p])
    BY <2>1, <2>2 DEF EvalOK, Attached
  <2> QED
    BY <2>1, <2>2, <2>7, <2>8, SearchKeeps
<1>6. CASE Decide(p)
  <2>1. /\ pc[p] = "policy" /\ UNCHANGED <<repo, conf, man, must>> /\ Enough(p)
        /\ Verdict(p, Accepts(policy(p), found[p], man[p]))
    BY <1>6 DEF Decide
  <2> QED
    BY <2>1, VerdictKeeps, AcceptsSound
<1>7. CASE Again(p)
  <2>1. pc'[p] = "idle"
    BY <1>7 DEF Again, Goto, Locals
  <2> QED
    BY <2>1 DEF EvalOK
<1> QED
  BY <1>1, <1>2, <1>3, <1>4, <1>5, <1>6, <1>7
  DEF Step, LabelOK, PushLabels, SignLabels, Push, pushEmptyConfig, PushIndex, PushData, DataRefused,
      PushManifest, PushTag, Tag, TagResolved, Sign, resolveDigest, SignManifest, PushSignature,
      PushSigConfig, PushManifestByDigest

-----------------------------------------------------------------------------
\* What becomes of the clone of u in a step.
CloneStep(u) ==
    \/ clone'[u] = clone[u] \/ clone'[u] = NoClone \/ clone'[u].rsl = remote[u]
    \/ clone[u] # NoClone /\ clone'[u].whole /\ clone'[u].rsl >= clone[u].rsl

\* A clone that others replace, pull or remove is not older than q needs.
LEMMA GittufsKept ==
  ASSUME NEW q \in Callers, Same(q), Grows, Locals, GittufTypes, GittufTypes', GittufOK(q), trace'[q] = trace[q],
         \A u \in Urls : remote[u] <= remote'[u] /\ CloneStep(u)
  PROVE  GittufOK(q)'
<1> DEFINE u == Url(q)
<1>a. /\ Job(q)' = Job(q) /\ conf' = conf /\ Policy(q)' = Policy(q) /\ Url(q)' = Url(q)
      /\ u \in Urls
  BY GittufAssumption DEF Grows, Job, Policy, Url, Locals
<1>b. /\ remote[u] \in Nat /\ remote'[u] \in Nat /\ trace[q].began \in Nat
      /\ clone[u].rsl \in Nat /\ clone'[u].rsl \in Nat
  BY <1>a DEF GittufTypes
<1>c. NoClone.whole = FALSE
  BY DEF NoClone
<1>1. pc'[q] \in GittufLabels => trace'[q].began <= remote'[u]
  <2>1. remote[u] <= remote'[u]
    BY <1>a
  <2>2. pc[q] \in GittufLabels => trace[q].began <= remote[u]
    BY DEF GittufOK
  <2> QED
    BY <1>b, <2>1, <2>2, SMT DEF Same
<1>2. ASSUME pc'[q] = "extract", must'[q], ~conf.faults
      PROVE  (Unlisted(q, "intoto")' /\ Provenance(man[q])') \/ Listed(q, Intoto)'
  <2>1. (Unlisted(q, "intoto") /\ Provenance(man[q])) \/ Listed(q, Intoto)
    BY <1>2 DEF GittufOK, Same
  <2>2. Unlisted(q, "intoto") => Unlisted(q, "intoto")'
    BY DEF Unlisted, Same
  <2>3. Provenance(man[q]) => Provenance(man[q])'
    BY EvidenceGrows DEF Same
  <2> QED
    BY <2>1, <2>2, <2>3, SoughtGrows
<1>3. ASSUME Fresh(q), pc[q] \in GittufLabels PROVE Fresh(q)'
  <2>1. trace[q].began <= remote[u]
    BY <1>3 DEF GittufOK
  <2>2. CloneStep(u)
    BY <1>a
  <2>3. clone'[u] = NoClone \/ clone'[u].rsl >= trace[q].began
    BY <1>3, <1>b, <2>1, <2>2, SMT DEF Fresh, CloneStep
  <2> QED
    BY <1>a, <2>3 DEF Fresh
<1>4. pc'[q] = "pull" => clone'[u].whole \/ Fresh(q)'
  <2>1. CASE pc[q] = "pull" /\ Fresh(q)
    BY <1>3, <2>1 DEF GittufLabels
  <2>2. CASE pc[q] = "pull" /\ clone[u].whole
    <3>1. trace[q].began <= remote[u]
      BY <2>2 DEF GittufOK, GittufLabels
    <3>2. clone'[u].whole \/ clone'[u] = NoClone \/ clone'[u].rsl >= trace[q].began
      BY <1>a, <1>b, <2>2, <3>1 DEF CloneStep
    <3> QED
      BY <1>a, <3>2 DEF Fresh
  <2> QED
    BY <2>1, <2>2 DEF GittufOK, Same
<1>5. pc'[q] = "verify" /\ ~conf.faults => Fresh(q)'
  BY <1>3 DEF GittufOK, Same, GittufLabels
<1> QED
  BY <1>a, <1>1, <1>2, <1>4, <1>5 DEF GittufOK, Same

\* What every step of an evaluation of a gittuf policy leaves alone.
LEMMA GittufFrame ==
  ASSUME Locals, NEW p \in Callers, LabelOK(p), GittufStep(p), UNCHANGED conf
  PROVE  /\ Touches(p) /\ UNCHANGED <<repo, pushed, at, remote>>
         /\ Job(p).do = "gittuf" /\ pc'[p] \in GittufLabels \cup {"done"}
         /\ kinds'[p] \in Seq({"bundle", "intoto"}) /\ must'[p] \in BOOLEAN
<1> DEFINE Goal == /\ Touches(p) /\ UNCHANGED <<repo, pushed, at, remote>>
                   /\ Job(p).do = "gittuf" /\ pc'[p] \in GittufLabels \cup {"done"}
                   /\ kinds'[p] \in Seq({"bundle", "intoto"}) /\ must'[p] \in BOOLEAN
<1> SUFFICES Goal
  OBVIOUS
<1> USE DEF At
<1>a. pc[p] \in GittufLabels => Job(p).do = "gittuf"
  BY DEF LabelOK
<1>b. /\ UNCHANGED pc => pc' = [pc EXCEPT ![p] = pc'[p]]
      /\ UNCHANGED man => man' = [man EXCEPT ![p] = man'[p]]
      /\ UNCHANGED pushed => pushed' = [pushed EXCEPT ![p] = pushed'[p]]
      /\ UNCHANGED at => at' = [at EXCEPT ![p] = at'[p]]
      /\ UNCHANGED kinds => kinds' = [kinds EXCEPT ![p] = kinds'[p]]
      /\ UNCHANGED todo => todo' = [todo EXCEPT ![p] = todo'[p]]
      /\ UNCHANGED found => found' = [found EXCEPT ![p] = found'[p]]
      /\ UNCHANGED must => must' = [must EXCEPT ![p] = must'[p]]
      /\ UNCHANGED ret => ret' = [ret EXCEPT ![p] = ret'[p]]
  BY DEF Locals
<1>c. ASSUME Inside, UNCHANGED remote, pc[p] \in GittufLabels,
             NEW l \in GittufLabels \cup {"done"}, Goto(p, l), UNCHANGED ret \/ \E r : ret' = [ret EXCEPT ![p] = r]
      PROVE  Goal
  <2>1. pc' = [pc EXCEPT ![p] = pc'[p]] /\ pc'[p] = l
    BY <1>c DEF Goto, Locals
  <2>2. ret' = [ret EXCEPT ![p] = ret'[p]]
    BY <1>c DEF Locals
  <2>3. UNCHANGED <<repo, man, pushed, at, kinds, todo, found, must>>
    BY <1>c DEF Inside, eval
  <2>4. Touches(p)
    BY <1>b, <2>1, <2>2, <2>3 DEF Touches
  <2>5. kinds'[p] \in Seq({"bundle", "intoto"}) /\ must'[p] \in BOOLEAN
    BY <2>3 DEF Locals
  <2> QED
    BY <1>c, <1>a, <2>1, <2>3, <2>4, <2>5
<1> USE DEF GittufLabels, CloneLabels
<1>1. CASE GittufEvaluate(p)
  <2>1. /\ UNCHANGED <<repo, pushed, at, todo, found, ret, remote>> /\ Job(p).do = "gittuf"
        /\ pc' = [pc EXCEPT ![p] = "extract"] /\ man' = [man EXCEPT ![p] = tags[Tag1(p)]]
        /\ must' = [must EXCEPT ![p] = Provenance(tags[Tag1(p)])]
        /\ kinds' = [kinds EXCEPT ![p] = <<"intoto", "bundle">>]
    BY <1>1 DEF GittufEvaluate, Goto
  <2>2. /\ pc' = [pc EXCEPT ![p] = pc'[p]] /\ pc'[p] = "extract"
        /\ man' = [man EXCEPT ![p] = man'[p]] /\ kinds' = [kinds EXCEPT ![p] = kinds'[p]]
        /\ kinds'[p] = <<"intoto", "bundle">>
    BY <2>1 DEF Locals
  <2>3. must' = [must EXCEPT ![p] = must'[p]] /\ must'[p] = Provenance(tags[Tag1(p)])
    BY <2>1 DEF Locals
  <2>4. must'[p] \in BOOLEAN
    BY <2>3 DEF Provenance
  <2>5. <<"intoto", "bundle">> \in Seq({"bundle", "intoto"})
    BY SMT
  <2> QED
    BY <1>b, <2>1, <2>2, <2>3, <2>4, <2>5 DEF Touches
<1>2. CASE ListProvenance(p)
  <2>1. /\ UNCHANGED <<repo, pc, man, pushed, at, found, must, ret, remote>> /\ pc[p] = "extract"
        /\ kinds[p] # <<>>
        /\ todo' = [todo EXCEPT ![p] = Referrers(man[p], Head(kinds[p]))]
        /\ kinds' = [kinds EXCEPT ![p] = Tail(@)]
    BY <1>2 DEF ListProvenance, Searching, gittuf
  <2>2. /\ todo' = [todo EXCEPT ![p] = todo'[p]] /\ kinds' = [kinds EXCEPT ![p] = kinds'[p]]
        /\ kinds'[p] \in Seq({"bundle", "intoto"})
    BY <2>1, SMT DEF Locals
  <2>3. must'[p] \in BOOLEAN
    BY <2>1 DEF Locals
  <2> QED
    BY <1>a, <1>b, <2>1, <2>2, <2>3 DEF Touches
<1>3. CASE ListProvenanceFails(p)
  <2>1. /\ UNCHANGED <<repo, man, pushed, at, todo, found, must, remote>> /\ pc[p] = "extract"
        /\ kinds[p] # <<>>
    BY <1>3 DEF ListProvenanceFails, Searching, gittuf
  <2>2. must'[p] \in BOOLEAN
    BY <2>1 DEF Locals
  <2>3. CASE kinds' = [kinds EXCEPT ![p] = Tail(@)] /\ UNCHANGED <<pc, ret>>
    <3>1. kinds' = [kinds EXCEPT ![p] = kinds'[p]] /\ kinds'[p] \in Seq({"bundle", "intoto"})
      BY <2>1, <2>3, SMT DEF Locals
    <3> QED
      BY <1>a, <1>b, <2>1, <2>2, <2>3, <3>1 DEF Touches
  <2>4. CASE Return(p, "err") /\ UNCHANGED kinds
    <3>1. pc' = [pc EXCEPT ![p] = pc'[p]] /\ pc'[p] = "done" /\ ret' = [ret EXCEPT ![p] = ret'[p]]
      BY <2>4 DEF Return, Goto, Locals
    <3>2. kinds'[p] \in Seq({"bundle", "intoto"})
      BY <2>4 DEF Locals
    <3> QED
      BY <1>a, <1>b, <2>1, <2>2, <2>4, <3>1, <3>2 DEF Touches
  <2> QED
    BY <1>3, <2>3, <2>4 DEF ListProvenanceFails
<1>4. CASE tryExtractSourceInfo(p)
  <2>1. /\ UNCHANGED <<repo, pc, man, pushed, at, kinds, must, ret, remote>> /\ pc[p] = "extract"
        /\ \E x : todo' = [todo EXCEPT ![p] = x]
        /\ UNCHANGED found \/ \E x : found' = [found EXCEPT ![p] = x]
    BY <1>4 DEF tryExtractSourceInfo, Searching, gittuf
  <2>2. /\ todo' = [todo EXCEPT ![p] = todo'[p]] /\ found' = [found EXCEPT ![p] = found'[p]]
    BY <2>1 DEF Locals
  <2>3. must'[p] \in BOOLEAN /\ kinds'[p] \in Seq({"bundle", "intoto"})
    BY <2>1 DEF Locals
  <2> QED
    BY <1>a, <1>b, <2>1, <2>2, <2>3 DEF Touches
<1> HIDE DEF Goal
<1>5. CASE NoProvenance(p)
  BY <1>5, <1>c DEF NoProvenance, Searching, Exit, Return
<1>6. CASE Lock(p)
  BY <1>6, <1>c DEF Lock
<1>7. CASE LoadRepository(p)
  BY <1>7, <1>c DEF LoadRepository
<1>8. CASE Clone(p) \/ CloneDone(p)
  BY <1>8, <1>c DEF Clone, CloneDone
<1>9. CASE CloneFails(p)
  BY <1>9, <1>c DEF CloneFails, Exit, Return
<1>10. CASE updateMetadata(p)
  BY <1>10, <1>c DEF updateMetadata
<1>11. CASE evictOldEntries(p)
  BY <1>11, <1>c DEF evictOldEntries
<1>12. CASE HasPolicy(p)
  BY <1>12, <1>c DEF HasPolicy, Exit, Return
<1>13. CASE PullRSL(p)
  BY <1>13, <1>c DEF PullRSL
<1>14. CASE VerifyRef(p)
  BY <1>14, <1>c DEF VerifyRef, Exit, Return
<1> QED
  BY <1>1, <1>2, <1>3, <1>4, <1>5, <1>6, <1>7, <1>8, <1>9, <1>10, <1>11, <1>12, <1>13, <1>14
  DEF GittufStep

\* There is no position in an empty list of types.
LEMMA EmptySeq == DOMAIN <<>> = {}
BY SMT

\* Entries of the cache directory are removed.
LEMMA RemoveAllClones ==
  ASSUME GittufTypes, NEW us, RemoveAll(us)
  PROVE  /\ clone' \in [Urls -> [by : Callers \cup {None}, rsl : Nat, whole : BOOLEAN]]
         /\ \A u \in Urls : CloneStep(u)
<1>1. NoClone \in [by : Callers \cup {None}, rsl : Nat, whole : BOOLEAN]
  BY DEF NoClone
<1>2. clone' = [u \in Urls |-> IF u \in us THEN NoClone ELSE clone[u]]
  BY DEF RemoveAll
<1> QED
  BY <1>1, <1>2 DEF GittufTypes, CloneStep

\* One entry is replaced.
LEMMA CloneSet ==
  ASSUME GittufTypes, NEW u \in Urls, NEW c \in [by : Callers \cup {None}, rsl : Nat, whole : BOOLEAN],
         clone' = [clone EXCEPT ![u] = c],
         c.rsl = remote[u] \/ (clone[u] # NoClone /\ c.whole /\ c.rsl >= clone[u].rsl)
  PROVE  /\ clone' \in [Urls -> [by : Callers \cup {None}, rsl : Nat, whole : BOOLEAN]]
         /\ \A v \in Urls : CloneStep(v)
         /\ clone'[u] = c
<1>1. clone'[u] = c /\ \A v \in Urls : v # u => clone'[v] = clone[v]
  BY DEF GittufTypes
<1> QED
  BY <1>1 DEF GittufTypes, CloneStep

\* Evaluate returns.
LEMMA TraceSet ==
  ASSUME GittufTypes, NEW p \in Callers, NEW why \in Whys, NEW r, Locals, Exit(p, r, why)
  PROVE  /\ trace' \in [Callers -> [began : Nat, saw : Nat, why : Whys]]
         /\ trace'[p].why = why
         /\ \A q \in Callers : q # p => trace'[q] = trace[q]
         /\ pc'[p] = "done" /\ ret'[p] = r
<1>1. trace' = [trace EXCEPT ![p] = [trace[p] EXCEPT !.why = why]]
  BY DEF Exit
<1>2. pc'[p] = "done" /\ ret'[p] = r
  BY DEF Exit, Return, Goto, Locals
<1>3. /\ [trace[p] EXCEPT !.why = why] \in [began : Nat, saw : Nat, why : Whys]
      /\ [trace[p] EXCEPT !.why = why].why = why
  BY DEF GittufTypes
<1> QED
  BY <1>1, <1>2, <1>3 DEF GittufTypes

\* A caller of a gittuf policy keeps its part of the invariant, and the clones
\* change as others expect.
LEMMA GittufKeeps ==
  ASSUME Locals, GittufTypes, NEW p \in Callers, LabelOK(p), GittufOK(p), GittufStep(p), UNCHANGED conf
  PROVE  /\ GittufOK(p)' /\ GittufTypes'
         /\ \A u \in Urls : CloneStep(u)
         /\ \A q \in Callers : q # p => trace'[q] = trace[q]
<1> DEFINE u == Url(p)
           Clones == [by : Callers \cup {None}, rsl : Nat, whole : BOOLEAN]
           Goal == /\ GittufOK(p)' /\ GittufTypes'
                   /\ \A v \in Urls : CloneStep(v)
                   /\ \A q \in Callers : q # p => trace'[q] = trace[q]
<1> SUFFICES Goal
  OBVIOUS
<1> USE DEF At
<1>a. /\ Job(p)' = Job(p) /\ Policy(p)' = Policy(p) /\ Url(p)' = Url(p) /\ u \in Urls
      /\ Url(p) = Policy(p).url
  BY GittufAssumption DEF Job, Policy, Url, Locals
<1>b. Job(p).do = "gittuf" /\ UNCHANGED <<repo, remote>> /\ pc'[p] \in GittufLabels \cup {"done"}
  BY GittufFrame
<1>c. remote[u] \in Nat /\ clone[u] \in Clones /\ trace[p] \in [began : Nat, saw : Nat, why : Whys]
  BY <1>a DEF GittufTypes
<1>d. ASSUME NEW l, Goto(p, l) PROVE pc'[p] = l
  BY <1>d DEF Goto, Locals
<1>e. UNCHANGED clone => clone' \in [Urls -> Clones] /\ \A v \in Urls : CloneStep(v)
  BY DEF GittufTypes, CloneStep
<1>f. pc[p] \in GittufLabels => trace[p].began <= remote[u]
  BY DEF GittufOK
\* the evaluation goes on with the clone
<1>1. ASSUME UNCHANGED trace, clone' \in [Urls -> Clones], \A v \in Urls : CloneStep(v), pc[p] \in GittufLabels,
             pc'[p] \in CloneLabels \cup {"pull", "verify"},
             pc'[p] \in {"pull", "verify"} => u \in conf.enabled,
             pc'[p] = "pull" => clone'[u].whole,
             pc'[p] = "verify" /\ ~conf.faults => clone'[u] = NoClone \/ clone'[u].rsl >= trace[p].began
      PROVE  Goal
  <2>1. GittufTypes'
    BY <1>1, <1>b DEF GittufTypes
  <2>2. GittufOK(p)'
    BY <1>1, <1>a, <1>b, <1>f DEF GittufOK, Fresh, CloneLabels, GittufLabels
  <2> QED
    BY <1>1, <2>1, <2>2
\* it returns
<1>2. ASSUME clone' \in [Urls -> Clones], \A v \in Urls : CloneStep(v),
             NEW r, NEW why \in Whys, Exit(p, r, why),
             r = "nil" => \/ why \in {"no clone", "no gittuf"} /\ Policy(p).allowMissingGittuf
                          \/ why = "no provenance" /\ Policy(p).allowMissingProvenance /\ (conf.faults \/ ~must'[p])
      PROVE  Goal
  <2>1. /\ trace' \in [Callers -> [began : Nat, saw : Nat, why : Whys]]
        /\ trace'[p].why = why /\ pc'[p] = "done" /\ ret'[p] = r
        /\ \A q \in Callers : q # p => trace'[q] = trace[q]
    BY <1>2, TraceSet
  <2>2. GittufTypes'
    BY <1>2, <1>b, <2>1 DEF GittufTypes
  <2>3. GittufOK(p)'
    BY <1>2, <1>a, <2>1 DEF GittufOK, GittufLabels, CloneLabels
  <2> QED
    BY <1>2, <2>1, <2>2, <2>3
\* it looks for provenance
<1>3. ASSUME UNCHANGED clone, trace' \in [Callers -> [began : Nat, saw : Nat, why : Whys]],
             \A q \in Callers : q # p => trace'[q] = trace[q],
             pc'[p] = "extract", trace'[p].began <= remote[u],
             must'[p] /\ ~conf.faults => (Unlisted(p, "intoto") /\ Provenance(man[p]))' \/ Listed(p, Intoto)'
      PROVE  Goal
  <2>1. GittufTypes'
    BY <1>3, <1>b, <1>e DEF GittufTypes
  <2>2. GittufOK(p)'
    BY <1>3, <1>a, <1>b DEF GittufOK
  <2> QED
    BY <1>3, <1>e, <2>1, <2>2
<1> HIDE DEF Goal
<1>g. UNCHANGED trace => /\ trace' \in [Callers -> [began : Nat, saw : Nat, why : Whys]]
                         /\ \A q \in Callers : q # p => trace'[q] = trace[q]
  BY DEF GittufTypes
<1>h. UNCHANGED gittuf => UNCHANGED <<clone, trace>>
  BY DEF gittuf, disk
<1>i. blobs' = blobs /\ manifests' = manifests
  BY <1>b DEF repo
<1>4. CASE GittufEvaluate(p)
  <2> DEFINE new == [NoTrace EXCEPT !.began = remote[u]]
  <2>1. /\ UNCHANGED clone /\ trace' = [trace EXCEPT ![p] = new]
        /\ pc'[p] = "extract" /\ kinds'[p] = <<"intoto", "bundle">>
    BY <1>4, <1>d DEF GittufEvaluate, disk, Locals
  <2>2. man'[p] = tags[Tag1(p)] /\ must'[p] = Provenance(man'[p])
    BY <1>4 DEF GittufEvaluate, Locals
  <2>3. new \in [began : Nat, saw : Nat, why : Whys] /\ new.began = remote[u]
    BY <1>c DEF NoTrace, Whys
  <2> HIDE DEF new
  <2>4. /\ trace' \in [Callers -> [began : Nat, saw : Nat, why : Whys]]
        /\ \A q \in Callers : q # p => trace'[q] = trace[q]
        /\ trace'[p].began = remote[u]
    BY <2>1, <2>3 DEF GittufTypes
  <2>5. Unlisted(p, "intoto")'
    BY <2>1, SMT DEF Unlisted
  <2>6. must'[p] => Provenance(man[p])'
    BY <1>i, <2>2 DEF Provenance
  <2> QED
    BY <1>3, <1>c, <2>1, <2>4, <2>5, <2>6, SMT
<1>j. pc[p] = "extract" /\ UNCHANGED pc => pc'[p] = "extract" /\ trace[p].began <= remote[u]
  BY <1>f DEF GittufLabels
<1>k. pc[p] = "extract" /\ must[p] /\ ~conf.faults => (Unlisted(p, "intoto") /\ Provenance(man[p])) \/ Listed(p, Intoto)
  BY DEF GittufOK
<1>5. CASE ListProvenance(p)
  <2>1. /\ UNCHANGED <<clone, trace, pc>> /\ pc[p] = "extract"
        /\ todo[p] = {} /\ found[p] = {} /\ kinds[p] # <<>> /\ kinds[p] \in Seq({"bundle", "intoto"})
        /\ todo'[p] = Referrers(man[p], Head(kinds[p])) /\ kinds'[p] = Tail(kinds[p])
        /\ man'[p] = man[p] /\ must'[p] = must[p]
    BY <1>5, <1>h DEF ListProvenance, Searching, Locals
  <2>2. Provenance(man[p])' <=> Provenance(man[p])
    BY <1>i, <2>1 DEF Provenance
  <2>3. ASSUME must[p], ~conf.faults PROVE (Unlisted(p, "intoto") /\ Provenance(man[p]))' \/ Listed(p, Intoto)'
    <3>1. Unlisted(p, "intoto") /\ Provenance(man[p])
      BY <1>k, <2>1, <2>3 DEF Listed
    <3>2. CASE Head(kinds[p]) = "intoto"
      <4>a. PICK r \in manifests : r.subject = man[p] /\ \E b \in r.layers \cap blobs : b.kind = "intoto"
        BY <3>1 DEF Provenance
      <4>1. PICK b \in r.layers \cap blobs : b.kind = "intoto"
        BY <4>a
      <4>2. r \in todo'[p]
        BY <2>1, <3>2, <4>a, <4>1 DEF Referrers
      <4> QED
        BY <1>i, <4>1, <4>2 DEF Listed, Intoto
    <3>3. CASE Head(kinds[p]) # "intoto"
      <4>1. PICK i \in DOMAIN kinds[p] : kinds[p][i] = "intoto"
        BY <3>1 DEF Unlisted
      <4>2. i # 1 /\ i \in 1 .. Len(kinds[p])
        BY <2>1, <3>3, <4>1, SMT
      <4>3. i - 1 \in DOMAIN Tail(kinds[p]) /\ Tail(kinds[p])[i - 1] = kinds[p][i]
        BY <2>1, <4>2, SMT
      <4>4. Unlisted(p, "intoto")'
        BY <2>1, <4>1, <4>3 DEF Unlisted
      <4> QED
        BY <2>2, <3>1, <4>4
    <3> QED
      BY <3>2, <3>3
  <2> QED
    BY <1>3, <1>g, <1>j, <2>1, <2>3
<1>6. CASE ListProvenanceFails(p)
  <2>1. UNCHANGED <<clone, trace>> /\ pc[p] = "extract" /\ conf.faults
    BY <1>6, <1>h DEF ListProvenanceFails, Searching
  <2>2. CASE UNCHANGED pc
    BY <1>3, <1>g, <1>j, <2>1, <2>2
  <2>3. CASE Return(p, "err")
    <3>1. pc'[p] = "done" /\ ret'[p] = "err"
      BY <2>3 DEF Return, Goto, Locals
    <3>2. GittufTypes'
      BY <1>b, <1>e, <1>g, <2>1 DEF GittufTypes
    <3>3. GittufOK(p)'
      BY <3>1 DEF GittufOK, GittufLabels, CloneLabels
    <3> QED
      BY <1>e, <1>g, <2>1, <3>2, <3>3 DEF Goal
  <2> QED
    BY <1>6, <2>2, <2>3 DEF ListProvenanceFails
<1>7. CASE tryExtractSourceInfo(p)
  <2>1. /\ UNCHANGED <<clone, trace, pc>> /\ pc[p] = "extract" /\ found[p] = {}
        /\ man'[p] = man[p] /\ must'[p] = must[p] /\ kinds'[p] = kinds[p]
    BY <1>7, <1>h DEF tryExtractSourceInfo, Searching
  <2>2. PICK r \in todo[p] :
          /\ todo'[p] = todo[p] \ {r}
          /\ found'[p] = {b \in r.layers \cap blobs : b.kind = "intoto"} \/ conf.faults
    BY <1>7 DEF tryExtractSourceInfo, Locals
  <2>3. ~conf.faults /\ Listed(p, Intoto) => Listed(p, Intoto)'
    BY <1>i, <2>1, <2>2 DEF Listed, Intoto
  <2>4. Unlisted(p, "intoto") /\ Provenance(man[p]) => (Unlisted(p, "intoto") /\ Provenance(man[p]))'
    BY <1>i, <2>1 DEF Unlisted, Provenance
  <2> QED
    BY <1>3, <1>g, <1>j, <1>k, <2>1, <2>3, <2>4
<1>8. CASE NoProvenance(p)
  <2>1. /\ UNCHANGED clone /\ pc[p] = "extract"
        /\ todo[p] = {} /\ found[p] = {} /\ kinds[p] = <<>>
        /\ Exit(p, IF Policy(p).allowMissingProvenance THEN "nil" ELSE "err", "no provenance")
    BY <1>8 DEF NoProvenance, Searching, disk
  <2>a. must'[p] = must[p]
    BY <1>8 DEF NoProvenance, Inside, eval
  <2>2. conf.faults \/ ~must[p]
    <3>1. ~Listed(p, Intoto)
      BY <2>1 DEF Listed
    <3>a. kinds[p] = <<>>
      BY <2>1
    <3>2. ~Unlisted(p, "intoto")
      BY <3>a, EmptySeq DEF Unlisted
    <3> QED
      BY <1>k, <2>1, <3>1, <3>2
  <2>3. "no provenance" \in Whys
    BY DEF Whys
  <2> QED
    BY <1>2, <1>e, <2>1, <2>2, <2>3, <2>a
<1>9. CASE Lock(p)
  <2>1. UNCHANGED <<clone, trace>> /\ pc[p] = "extract" /\ pc'[p] = "check"
    BY <1>9, <1>d DEF Lock, disk
  <2> QED
    BY <1>1, <1>e, <2>1 DEF GittufLabels, CloneLabels
<1>10. CASE LoadRepository(p)
  <2>1. UNCHANGED trace /\ pc[p] = "check" /\ pc'[p] \in {"touch", "clone"} /\ (UNCHANGED clone \/ RemoveAll({u}))
    BY <1>10, <1>d DEF LoadRepository, disk
  <2>2. clone' \in [Urls -> Clones] /\ \A v \in Urls : CloneStep(v)
    BY <1>e, <2>1, RemoveAllClones
  <2> QED
    BY <1>1, <2>1, <2>2 DEF GittufLabels, CloneLabels
<1>11. CASE Clone(p)
  <2> DEFINE c == [by |-> p, rsl |-> remote[u], whole |-> FALSE]
  <2>1. UNCHANGED trace /\ pc[p] = "clone" /\ pc'[p] = "cloning" /\ clone' = [clone EXCEPT ![u] = c]
    BY <1>11, <1>d DEF Clone
  <2>2. c \in Clones /\ c.rsl = remote[u]
    BY <1>c
  <2> HIDE DEF c
  <2>3. clone' \in [Urls -> Clones] /\ \A v \in Urls : CloneStep(v)
    BY <1>a, <2>1, <2>2, CloneSet
  <2> QED
    BY <1>1, <2>1, <2>3 DEF GittufLabels, CloneLabels
<1>12. CASE CloneDone(p)
  <2>1. UNCHANGED trace /\ pc[p] = "cloning" /\ pc'[p] = "stamp" /\ clone[u].by = p
    BY <1>12, <1>d DEF CloneDone
  <2>2. PICK v \in clone[u].rsl .. remote[u] : clone' = [clone EXCEPT ![u].whole = TRUE, ![u].rsl = v]
    BY <1>12 DEF CloneDone
  <2> DEFINE c == [clone[u] EXCEPT !.whole = TRUE, !.rsl = v]
  <2>3. v \in Nat /\ v >= clone[u].rsl
    BY <1>c, <2>2, SMT
  <2>4. c \in Clones /\ c.whole = TRUE /\ c.rsl = v
    BY <1>c, <2>3
  <2>5. clone' = [clone EXCEPT ![u] = c]
    BY <1>a, <2>2 DEF GittufTypes
  <2>6. clone[u] # NoClone
    BY <2>1, GittufAssumption, SMT DEF NoClone
  <2> HIDE DEF c
  <2>7. clone' \in [Urls -> Clones] /\ \A w \in Urls : CloneStep(w)
    BY <1>a, <2>3, <2>4, <2>5, <2>6, CloneSet
  <2> QED
    BY <1>1, <2>1, <2>7 DEF GittufLabels, CloneLabels
<1>13. CASE CloneFails(p)
  <2>1. RemoveAll({u}) /\ Exit(p, IF Policy(p).allowMissingGittuf THEN "nil" ELSE "err", "no clone")
    BY <1>13 DEF CloneFails
  <2>2. clone' \in [Urls -> Clones] /\ \A v \in Urls : CloneStep(v)
    BY <2>1, RemoveAllClones
  <2>3. "no clone" \in Whys
    BY DEF Whys
  <2> QED
    BY <1>2, <2>1, <2>2, <2>3
<1>14. CASE updateMetadata(p)
  <2>1. UNCHANGED <<clone, trace>> /\ pc[p] \in {"touch", "stamp"} /\ pc'[p] \in {"has", "evict"}
    BY <1>14, <1>d DEF updateMetadata
  <2> QED
    BY <1>1, <1>e, <2>1 DEF GittufLabels, CloneLabels
<1>15. CASE evictOldEntries(p)
  <2>1. UNCHANGED trace /\ pc[p] = "evict" /\ pc'[p] = "has" /\ (UNCHANGED clone \/ \E us : RemoveAll(us))
    BY <1>15, <1>d DEF evictOldEntries, disk
  <2>2. clone' \in [Urls -> Clones] /\ \A v \in Urls : CloneStep(v)
    BY <1>e, <2>1, RemoveAllClones
  <2> QED
    BY <1>1, <2>1, <2>2 DEF GittufLabels, CloneLabels
<1>16. CASE HasPolicy(p)
  <2>1. UNCHANGED clone /\ pc[p] = "has"
    BY <1>16 DEF HasPolicy, disk
  <2>2. CASE clone[u].whole /\ u \in conf.enabled /\ Goto(p, "pull") /\ UNCHANGED <<ret, trace>>
    <3>1. pc'[p] = "pull"
      BY <1>d, <2>2
    <3> QED
      BY <1>1, <1>e, <2>1, <2>2, <3>1 DEF GittufLabels, CloneLabels
  <2>3. CASE Exit(p, IF Policy(p).allowMissingGittuf THEN "nil" ELSE "err", "no gittuf")
    BY <1>2, <1>e, <2>1, <2>3 DEF Whys
  <2>4. CASE Exit(p, "err", "no clone")
    BY <1>2, <1>e, <2>1, <2>4 DEF Whys
  <2> QED
    BY <1>16, <2>2, <2>3, <2>4 DEF HasPolicy
<1>17. CASE PullRSL(p)
  <2>1. UNCHANGED trace /\ pc[p] = "pull" /\ pc'[p] = "verify"
    BY <1>17, <1>d DEF PullRSL
  <2>2. u \in conf.enabled /\ trace[p].began <= remote[u] /\ (clone[u].whole \/ Fresh(p))
    BY <1>f, <2>1 DEF GittufOK, GittufLabels
  <2>3. CASE clone[u].whole /\ clone' = [clone EXCEPT ![u].rsl = remote[u]]
    <3> DEFINE c == [clone[u] EXCEPT !.rsl = remote[u]]
    <3>1. c \in Clones /\ c.rsl = remote[u]
      BY <1>c
    <3>2. clone' = [clone EXCEPT ![u] = c]
      BY <2>3
    <3> HIDE DEF c
    <3>3. clone' \in [Urls -> Clones] /\ (\A v \in Urls : CloneStep(v)) /\ clone'[u] = c
      BY <1>a, <3>1, <3>2, CloneSet
    <3>4. clone'[u].rsl >= trace[p].began
      BY <1>c, <2>2, <3>1, <3>3
    <3> QED
      BY <1>1, <2>1, <2>2, <3>3, <3>4 DEF GittufLabels
  <2>4. CASE (conf.faults \/ ~clone[u].whole) /\ UNCHANGED clone
    <3>1. ~conf.faults => clone'[u] = NoClone \/ clone'[u].rsl >= trace[p].began
      BY <2>2, <2>4 DEF Fresh
    <3> QED
      BY <1>1, <1>e, <2>1, <2>2, <2>4, <3>1 DEF GittufLabels
  <2> QED
    BY <1>17, <2>3, <2>4 DEF PullRSL
<1>18. CASE VerifyRef(p)
  <2>1. UNCHANGED clone /\ pc[p] = "verify"
    BY <1>18 DEF VerifyRef, disk
  <2>2. u \in conf.enabled /\ (~conf.faults => Fresh(p))
    BY <2>1 DEF GittufOK
  <2>3. CASE Exit(p, "err", "not verified")
    BY <1>2, <1>e, <2>1, <2>3 DEF Whys
  <2>4. CASE /\ clone[u].whole /\ clone[u].rsl \in conf.good /\ Return(p, "nil")
             /\ trace' = [trace EXCEPT ![p].why = "verified", ![p].saw = clone[u].rsl]
    <3> DEFINE t == [trace[p] EXCEPT !.why = "verified", !.saw = clone[u].rsl]
    <3>1. /\ t \in [began : Nat, saw : Nat, why : Whys]
          /\ t.why = "verified" /\ t.saw = clone[u].rsl /\ t.began = trace[p].began
      BY <1>c DEF Whys
    <3>2. trace' = [trace EXCEPT ![p] = t]
      BY <2>4 DEF GittufTypes
    <3> HIDE DEF t
    <3>3. /\ trace' \in [Callers -> [began : Nat, saw : Nat, why : Whys]] /\ trace'[p] = t
          /\ \A q \in Callers : q # p => trace'[q] = trace[q]
      BY <3>1, <3>2 DEF GittufTypes
    <3>4. pc'[p] = "done"
      BY <1>d, <2>4 DEF Return
    <3>5. conf.faults \/ t.saw >= t.began
      BY <2>2, <2>4, <3>1, SMT DEF Fresh, NoClone
    <3>6. GittufTypes'
      BY <1>b, <1>e, <2>1, <3>3 DEF GittufTypes
    <3>7. GittufOK(p)'
      BY <1>a, <2>2, <2>4, <3>1, <3>3, <3>4, <3>5 DEF GittufOK, GittufLabels, CloneLabels
    <3> QED
      BY <1>e, <2>1, <3>3, <3>6, <3>7 DEF Goal
  <2> QED
    BY <1>18, <2>3, <2>4 DEF VerifyRef
<1> QED
  BY <1>4, <1>5, <1>6, <1>7, <1>8, <1>9, <1>10, <1>11, <1>12, <1>13, <1>14, <1>15, <1>16, <1>17, <1>18
  DEF GittufStep

\* Nobody has begun and there is no clone.
LEMMA InitGInv == GittufInit => GInv
<1> SUFFICES ASSUME GittufInit PROVE GInv
  OBVIOUS
<1>1. IInv
  BY InitIInv DEF GittufInit
<1>2. Locals
  <2>1. <<>> \in Seq({"bundle", "intoto"})
    BY SMT
  <2> QED
    BY <2>1 DEF GittufInit, Init, Locals
<1>3. ReferrersOK
  BY DEF GittufInit, Init, ReferrersOK
<1>4. GittufTypes
  <2>1. /\ NoClone \in [by : Callers \cup {None}, rsl : Nat, whole : BOOLEAN]
        /\ NoTrace \in [began : Nat, saw : Nat, why : Whys]
    BY DEF NoClone, NoTrace, Whys
  <2> QED
    BY <2>1 DEF GittufInit, GittufTypes
<1>5. ASSUME NEW p \in Callers PROVE LabelOK(p) /\ TagOK(p) /\ EvalOK(p) /\ GittufOK(p)
  <2>1. pc[p] = "idle" /\ at[p] = 1 /\ pushed[p] = None
    BY DEF GittufInit, Init
  <2> QED
    BY <2>1 DEF LabelOK, TagOK, EvalOK, GittufOK, PushLabels, SignLabels, GittufLabels, CloneLabels
<1> QED
  BY <1>1, <1>2, <1>3, <1>4, <1>5 DEF GInv

\* Steps that leave p's part of Publishing alone.
LEMMA IInvKept ==
  ASSUME IInv, Locals', UNCHANGED <<repo, conf>>,
         \A q \in Callers : \/ pc'[q] = pc[q] /\ man'[q] = man[q]
                            \/ pc'[q] \in GittufLabels \cup {"done"}
  PROVE  IInv'
<1>1. blobs' = blobs /\ manifests' = manifests /\ tags' = tags
  BY DEF repo
<1>2. Shape'
  BY DEF Shape, Locals
<1>3. Complete'
  BY <1>1 DEF IInv, Complete, Config, Blob
<1>4. StageOK'
  BY <1>1 DEF IInv, StageOK, GittufLabels, CloneLabels, Job, Config, Index, Data, Signature, Blob
<1> QED
  BY <1>2, <1>3, <1>4 DEF IInv

\* A step of one caller of Publishing.
LEMMA StepGInv == ASSUME GInv, NEW p \in Callers, Step(p), UNCHANGED <<conf, gittuf>> PROVE GInv'
<1> USE DEF GInv
<1>1. IInv'
  BY StepKeeps
<1>2. Touches(p)
  BY StepTouches
<1>3. /\ at'[p] \in Nat /\ kinds'[p] \in Seq({"bundle", "intoto"}) /\ must'[p] \in BOOLEAN
      /\ LabelOK(p)' /\ (Job(p).do # "gittuf" \/ pc'[p] = "idle")
  BY StepLabels
<1>4. Locals'
  BY <1>1, <1>2, <1>3, TouchesKeeps DEF IInv, Shape
<1>5. /\ Grows /\ ReferrersOK'
      /\ \A t \in Tags : tags'[t] = tags[t] \/ Sets(p, t)
  BY StepRepo DEF Grows
<1>6. UNCHANGED <<remote, clone, trace>>
  BY DEF gittuf, disk
<1>7. GittufTypes' /\ \A u \in Urls : remote[u] <= remote'[u] /\ CloneStep(u)
  BY <1>6, SMT DEF GittufTypes, CloneStep
<1>8. TagOK(p)' /\ EvalOK(p)'
  BY StepTags, StepEvals
<1>9. GittufOK(p)'
  <2>1. Job(p)' = Job(p)
    BY DEF Job
  <2>2. pc'[p] \notin GittufLabels
    BY <1>3, <2>1 DEF LabelOK, GittufLabels, CloneLabels
  <2> QED
    BY <1>3, <2>1, <2>2 DEF GittufOK, GittufLabels
<1>10. ASSUME NEW q \in Callers, q # p PROVE LabelOK(q)' /\ TagOK(q)' /\ EvalOK(q)' /\ GittufOK(q)'
  <2>1. Same(q)
    BY <1>2, <1>10, TouchesSame
  <2>2. LabelOK(q)'
    BY <1>5, <2>1, LabelsKept
  <2>3. Sole(q) => \A i \in DOMAIN Job(q).tags : tags'[Job(q).tags[i]] = tags[Job(q).tags[i]]
    <3>1. \A i \in DOMAIN Job(q).tags : Job(q).tags[i] \in Tags
      BY JobType, SMT
    <3> QED
      BY <1>5, <1>10, <3>1 DEF Sole, Sets
  <2>4. TagOK(q)'
    BY <1>5, <2>1, <2>3, TagsKept
  <2>5. EvalOK(q)'
    BY <1>5, <2>1, EvalsKept
  <2>6. trace'[q] = trace[q]
    BY <1>6
  <2>7. GittufOK(q)'
    BY <1>5, <1>7, <2>1, <2>6, GittufsKept
  <2> QED
    BY <2>2, <2>4, <2>5, <2>7
<1> QED
  BY <1>1, <1>3, <1>4, <1>5, <1>7, <1>8, <1>9, <1>10

\* A step of an evaluation of a gittuf policy.
LEMMA GittufGInv == ASSUME GInv, NEW p \in Callers, GittufStep(p), UNCHANGED conf PROVE GInv'
<1> USE DEF GInv
<1>1. /\ Touches(p) /\ UNCHANGED <<repo, pushed, at, remote>>
      /\ Job(p).do = "gittuf" /\ pc'[p] \in GittufLabels \cup {"done"}
      /\ kinds'[p] \in Seq({"bundle", "intoto"}) /\ must'[p] \in BOOLEAN
  BY GittufFrame
<1>2. UNCHANGED tags /\ Grows
  BY <1>1 DEF repo, Grows
<1>3. Locals'
  <2>1. at'[p] \in Nat
    BY <1>1 DEF Locals
  <2>2. tags' = [t \in Tags |-> tags'[t]]
    BY <1>2 DEF Locals
  <2> QED
    BY <1>1, <2>1, <2>2, TouchesKeeps
<1>4. \A q \in Callers : q # p => Same(q)
  BY <1>1, TouchesSame
<1>5. IInv'
  BY <1>1, <1>3, <1>4, IInvKept DEF Same
<1>6. ReferrersOK'
  BY <1>1 DEF ReferrersOK, repo
<1>7. /\ GittufOK(p)' /\ GittufTypes' /\ (\A u \in Urls : CloneStep(u))
      /\ \A q \in Callers : q # p => trace'[q] = trace[q]
  BY GittufKeeps
<1>8. \A u \in Urls : remote[u] <= remote'[u] /\ CloneStep(u)
  BY <1>1, <1>7, SMT DEF GittufTypes
<1>9. LabelOK(p)' /\ TagOK(p)' /\ EvalOK(p)'
  <2>1. Job(p)' = Job(p)
    BY DEF Job
  <2>2. pushed'[p] = None
    BY <1>1 DEF TagOK
  <2>3. LabelOK(p)'
    BY <1>1, <2>1 DEF LabelOK, PushLabels, SignLabels, GittufLabels, CloneLabels
  <2>4. TagOK(p)'
    BY <1>1, <2>1, <2>2 DEF TagOK, SignLabels, GittufLabels, CloneLabels
  <2>5. EvalOK(p)'
    BY <1>1, <2>1 DEF EvalOK, GittufLabels, CloneLabels
  <2> QED
    BY <2>3, <2>4, <2>5
<1>10. ASSUME NEW q \in Callers, q # p PROVE LabelOK(q)' /\ TagOK(q)' /\ EvalOK(q)' /\ GittufOK(q)'
  BY <1>2, <1>4, <1>7, <1>8, <1>10, LabelsKept, TagsKept, EvalsKept, GittufsKept
<1> QED
  BY <1>3, <1>5, <1>6, <1>7, <1>9, <1>10

\* Every step keeps the inductive invariant.
LEMMA NextGInv == GInv /\ [GittufNext]_<<vars, gittuf>> => GInv'
<1> SUFFICES ASSUME GInv, [GittufNext]_<<vars, gittuf>> PROVE GInv'
  OBVIOUS
<1> USE DEF GInv
<1>a. conf' = conf
  BY DEF GittufNext, Next, vars
\* nobody takes a step of its own
<1>1. ASSUME UNCHANGED <<repo, pc, man, pushed, at, eval, ret, trace>>, GittufTypes',
             \A u \in Urls : remote[u] <= remote'[u] /\ CloneStep(u)
      PROVE  GInv'
  <2>1. UNCHANGED <<repo, pc, man, pushed, at, kinds, todo, found, must, ret, tags>> /\ Grows
    BY <1>1, <1>a DEF eval, repo, Grows
  <2>2. Locals'
    BY <1>a, <2>1 DEF Locals
  <2>3. \A q \in Callers : Same(q) /\ trace'[q] = trace[q]
    BY <1>1, <2>1 DEF Same
  <2>4. IInv'
    BY <1>a, <2>1, <2>2, IInvKept
  <2>5. ReferrersOK'
    BY <2>1 DEF ReferrersOK, repo
  <2>6. ASSUME NEW q \in Callers PROVE LabelOK(q)' /\ TagOK(q)' /\ EvalOK(q)' /\ GittufOK(q)'
    BY <1>1, <2>1, <2>3, <2>6, LabelsKept, TagsKept, EvalsKept, GittufsKept
  <2> QED
    BY <1>1, <2>2, <2>4, <2>5, <2>6
<1>b. UNCHANGED <<remote, clone, trace>> =>
          GittufTypes' /\ \A u \in Urls : remote[u] <= remote'[u] /\ CloneStep(u)
  BY SMT DEF GittufTypes, CloneStep
<1>c. UNCHANGED gittuf => UNCHANGED <<remote, clone, trace>>
  BY DEF gittuf, disk
<1>2. CASE Next /\ UNCHANGED gittuf
  <2>1. CASE \E p \in Callers : Step(p)
    BY <1>2, <1>a, <2>1, StepGInv
  <2>2. CASE Tick \/ \E t \in Tags : Expire(t)
    BY <1>1, <1>2, <1>b, <1>c, <2>2 DEF Tick, Expire
  <2> QED
    BY <1>2, <2>1, <2>2 DEF Next
<1>3. CASE \E p \in Callers : GittufStep(p)
  BY <1>3, <1>a, GittufGInv
<1>4. CASE \E u \in Urls : Commit(u)
  <2>1. PICK u \in Urls : Commit(u)
    BY <1>4
  <2>2. /\ UNCHANGED <<repo, pc, man, pushed, at, eval, ret, trace, clone>>
        /\ remote' = [remote EXCEPT ![u] = @ + 1]
    BY <2>1 DEF Commit, Inside, disk
  <2>3. GittufTypes'
    BY <2>2, SMT DEF GittufTypes
  <2>4. \A v \in Urls : remote[v] <= remote'[v] /\ CloneStep(v)
    BY <2>2, SMT DEF GittufTypes, CloneStep
  <2> QED
    BY <1>1, <2>2, <2>3, <2>4
<1>5. CASE \E c \in Caches, us \in {{u} : u \in Urls} \cup {Urls} : Invalidate(c, us)
  <2>1. PICK us : RemoveAll(us) /\ Inside /\ UNCHANGED <<pc, ret, remote, mu, trace>>
    BY <1>5 DEF Invalidate
  <2>2. /\ clone' \in [Urls -> [by : Callers \cup {None}, rsl : Nat, whole : BOOLEAN]]
        /\ \A u \in Urls : CloneStep(u)
    BY <2>1, RemoveAllClones
  <2>3. GittufTypes' /\ \A u \in Urls : remote[u] <= remote'[u] /\ CloneStep(u)
    BY <2>1, <2>2, SMT DEF GittufTypes
  <2>4. UNCHANGED <<repo, man, pushed, at, eval>>
    BY <2>1 DEF Inside
  <2> QED
    BY <1>1, <2>1, <2>3, <2>4
<1>6. CASE UNCHANGED <<vars, gittuf>>
  <2>1. UNCHANGED <<repo, pc, man, pushed, at, eval, ret, gittuf>>
    BY <1>6 DEF vars
  <2> QED
    BY <1>1, <1>b, <1>c, <2>1
<1> QED
  BY <1>2, <1>3, <1>4, <1>5, <1>6 DEF GittufNext

\* The inductive invariant holds of the composition.
LEMMA GittufInvariance == GittufSpec => []GInv
BY InitGInv, NextGInv, PTL DEF GittufSpec

\* For any number of callers, however their requests fail: a manifest is in the
\* repository only with everything it refers to, and a tag only on such a one
\* (the order of the requests in Push and Sign), with and without gittuf policies.
THEOREM CompleteHolds == (Spec => []Complete) /\ (GittufSpec => []Complete)
<1>1. Spec => []Complete
  <2>1. IInv => Complete
    BY DEF IInv
  <2> QED
    BY <2>1, InitIInv, NextIInv, PTL DEF Spec
<1>2. GittufSpec => []Complete
  <2>1. GInv => Complete
    BY DEF GInv, IInv
  <2> QED
    BY <2>1, GittufInvariance, PTL
<1> QED
  BY <1>1, <1>2

\* For any number of callers: when Push returns nil, all its tags stand for what
\* it pushed, unless another one sets them (the loop over the tags in Push).
THEOREM PushTaggedHolds == GittufSpec => []PushTagged
<1>1. GInv => PushTagged
  <2> SUFFICES ASSUME GInv PROVE PushTagged
    OBVIOUS
  <2>1. ASSUME NEW p \in Callers, pushed[p] # None, Sole(p), NEW i \in DOMAIN Job(p).tags
        PROVE  tags[Job(p).tags[i]] = pushed[p]
    <3>1. i \in 1 .. Len(Job(p).tags)
      BY <2>1, JobType, SMT DEF GInv
    <3> QED
      BY <2>1, <3>1 DEF GInv, TagOK, TaggedWith
  <2> QED
    BY <2>1 DEF PushTagged
<1> QED
  BY <1>1, GittufInvariance, PTL

\* For any number of callers: without a ref cache, Sign after Push of the same tag
\* signs what was pushed (resolveDigest asks the registry).  With a ref cache it
\* may not.
THEOREM PushedIsSignedHolds == GittufSpec => [](~conf.refCache => PushedIsSigned)
<1>1. GInv => (~conf.refCache => PushedIsSigned)
  BY DEF GInv, TagOK, PushedIsSigned, At
<1> QED
  BY <1>1, GittufInvariance, PTL

\* For any number of callers and any policies: an evaluation passes only what it
\* has evidence for, whatever is attached meanwhile and however requests fail.
THEOREM AcceptedWithEvidenceHolds == GittufSpec => []AcceptedWithEvidence
<1>1. GInv => AcceptedWithEvidence
  BY DEF GInv, EvalOK, AcceptedWithEvidence, At
<1> QED
  BY <1>1, GittufInvariance, PTL

\* For any number of callers and any policies: evidence that was there when the
\* evaluation began is found, and the policy passes unless a Rego rule denies.
THEOREM EvidenceAcceptedHolds == GittufSpec => []EvidenceAccepted
<1>1. GInv => EvidenceAccepted
  BY DEF GInv, EvalOK, EvidenceAccepted, At
<1> QED
  BY <1>1, GittufInvariance, PTL

\* For any number of callers, source repositories and cache objects: the gittuf
\* policy passes only what it verified, at a version that is not older than the
\* evaluation (the pull after the cached clone is loaded), or what it excuses.
THEOREM GittufVerifiedHolds == GittufSpec => []GittufVerified
<1>1. GInv => GittufVerified
  BY DEF GInv, GittufOK, GittufVerified, At
<1> QED
  BY <1>1, GittufInvariance, PTL
=============================================================================
