----------------------- MODULE RegistryClient_proofs -----------------------
(***************************************************************************)
(* What a caller of Fetch, Inspect and Pull may rely on, for any number of *)
(* concurrent calls, any archives, any TTL and any behaviour of the caches *)
(* and of the registry: bounded staleness, policies enforced on every      *)
(* call, and only verified content.                                        *)
(***************************************************************************)
EXTENDS RegistryClient, TLAPS

\* The variables keep their types.
LEMMA InitTypeOK == Init => TypeOK
  BY RegistryAssumption DEF Init, TypeOK, Never, Labels, Files, Pushed

\* Every step of the world and of a call keeps the types.
LEMMA StepTypeOK == TypeOK /\ [Next]_vars => TypeOK'
<1> SUFFICES ASSUME TypeOK, [Next]_vars PROVE TypeOK'
  OBVIOUS
<1>0. conf' = conf /\ conf.archives \subseteq Archives
      /\ conf.ops \subseteq {"fetch", "inspect", "pull", "pinned"}
  BY RegistryAssumption DEF Next, vars, TypeOK
<1> USE <1>0, RegistryAssumption DEF TypeOK, Labels, Files, At, Goto, AfterFetch, AfterIndex,
        IsDigest, Matches, Pushed, Ops, registry, caches, args, results
<1>1. CASE UNCHANGED vars
  BY <1>1 DEF vars
<1>2. CASE Tick
  BY <1>2 DEF Tick
<1>3. CASE DamageRef
  BY <1>3 DEF DamageRef
<1>4. ASSUME NEW a \in Archives, Retag(a) PROVE TypeOK'
  BY <1>4 DEF Retag
<1>5. ASSUME NEW a \in Archives, PolicyChanges(a) PROVE TypeOK'
  BY <1>5 DEF PolicyChanges
<1>6. ASSUME NEW a \in Archives, DamageManifest(a) PROVE TypeOK'
  BY <1>6 DEF DamageManifest
<1>7. ASSUME NEW a \in Archives, DamageIndex(a) PROVE TypeOK'
  BY <1>7 DEF DamageIndex
<1>8. ASSUME NEW c \in Clients, NEW o \in Ops, NEW s \in BOOLEAN, Start(c, o, s)
      PROVE TypeOK'
  BY <1>8, RegistryAssumption DEF Start
<1>9. ASSUME NEW c \in Clients, RefStat(c) PROVE TypeOK'
  BY <1>9 DEF RefStat
<1>10. ASSUME NEW c \in Clients, RefExpire(c) PROVE TypeOK'
  BY <1>10 DEF RefExpire
<1>11. ASSUME NEW c \in Clients, RefRead(c) PROVE TypeOK'
  BY <1>11 DEF RefRead
<1>12. ASSUME NEW c \in Clients, Resolve(c) PROVE TypeOK'
  BY <1>12 DEF Resolve
<1>13. ASSUME NEW c \in Clients, RefPut(c) PROVE TypeOK'
  BY <1>13 DEF RefPut
<1>14. ASSUME NEW c \in Clients, RefRename(c) PROVE TypeOK'
  BY <1>14 DEF RefRename
<1>15. ASSUME NEW c \in Clients, GetManifest(c) PROVE TypeOK'
  <2>1. CASE ~skip[c] /\ Matches(manifests[dig[c]])
    <3>1. /\ got' = [got EXCEPT ![c] = "good"]
          /\ fromCache' = [fromCache EXCEPT ![c] = TRUE]
          /\ pc' = [pc EXCEPT ![c] = "policy"]
          /\ UNCHANGED <<now, registry, caches, args, dig, wrote, seen>>
      BY <1>15, <2>1 DEF GetManifest
    <3> QED
      BY <3>1
  <2>2. CASE ~(~skip[c] /\ Matches(manifests[dig[c]]))
    BY <1>15, <2>2 DEF GetManifest
  <2> QED
    BY <2>1, <2>2
<1>16. ASSUME NEW c \in Clients, DropManifest(c) PROVE TypeOK'
  BY <1>16 DEF DropManifest
<1>17. ASSUME NEW c \in Clients, FetchManifest(c) PROVE TypeOK'
  BY <1>17 DEF FetchManifest
<1>18. ASSUME NEW c \in Clients, EvaluatePolicies(c) PROVE TypeOK'
  BY <1>18 DEF EvaluatePolicies
<1>19. ASSUME NEW c \in Clients, RejectManifest(c) PROVE TypeOK'
  BY <1>19 DEF RejectManifest
<1>20. ASSUME NEW c \in Clients, PutManifest(c) PROVE TypeOK'
  BY <1>20 DEF PutManifest
<1>21. ASSUME NEW c \in Clients, TryIndexCache(c) PROVE TypeOK'
  BY <1>21 DEF TryIndexCache
<1>22. ASSUME NEW c \in Clients, DropIndex(c) PROVE TypeOK'
  BY <1>22 DEF DropIndex
<1>23. ASSUME NEW c \in Clients, FetchIndex(c) PROVE TypeOK'
  BY <1>23 DEF FetchIndex
<1>24. ASSUME NEW c \in Clients, PutIndex(c) PROVE TypeOK'
  BY <1>24 DEF PutIndex
<1>25. ASSUME NEW c \in Clients, CreateDataSource(c) PROVE TypeOK'
  BY <1>25 DEF CreateDataSource
<1>26. ASSUME NEW c \in Clients, CacheDeclines(c) PROVE TypeOK'
  BY <1>26 DEF CacheDeclines
<1>27. ASSUME NEW c \in Clients, CallFails(c) PROVE TypeOK'
  BY <1>27 DEF CallFails
<1>28. ASSUME NEW c \in Clients, Returns(c) PROVE TypeOK'
  BY <1>28 DEF Returns
<1> HIDE DEF TypeOK, Labels, Files, At, Goto, Ops
<1> QED
  BY <1>1, <1>2, <1>3, <1>4, <1>5, <1>6, <1>7, <1>8, <1>9, <1>10, <1>11, <1>12, <1>13,
     <1>14, <1>15, <1>16, <1>17, <1>18, <1>19, <1>20, <1>21, <1>22, <1>23, <1>24, <1>25,
     <1>26, <1>27, <1>28
     DEF Next, World, Call

-----------------------------------------------------------------------------
(* Only verified content *)

\* The checks on what is read from a cache are the only source of content
\* besides the registry.
LEMMA StepOnlyVerified == TypeOK /\ OnlyVerified /\ [Next]_vars => OnlyVerified'
<1> SUFFICES ASSUME TypeOK, OnlyVerified, [Next]_vars PROVE OnlyVerified'
  OBVIOUS
<1>1. ASSUME NEW c \in Clients, GetManifest(c) \/ TryIndexCache(c) PROVE OnlyVerified'
  BY <1>1 DEF GetManifest, TryIndexCache, Matches, OnlyVerified, TypeOK
<1>2. ASSUME NEW c \in Clients, FetchManifest(c) \/ FetchIndex(c) \/ Returns(c)
      PROVE OnlyVerified'
  BY <1>2 DEF FetchManifest, FetchIndex, Returns, OnlyVerified, TypeOK
<1>3. CASE UNCHANGED got
  BY <1>3 DEF OnlyVerified
<1>4. ASSUME NEW c \in Clients, Call(c) PROVE OnlyVerified'
  BY <1>1, <1>2, <1>3, <1>4
     DEF Call, Start, RefStat, RefExpire, RefRead, Resolve, RefPut, RefRename, DropManifest,
         EvaluatePolicies, RejectManifest, PutManifest, DropIndex, PutIndex, CreateDataSource,
         CacheDeclines, CallFails, results
<1>5. CASE World
  BY <1>3, <1>5 DEF World, Tick, DamageRef, Retag, PolicyChanges, DamageManifest, DamageIndex, results
<1>6. CASE UNCHANGED vars
  BY <1>3, <1>6 DEF vars, results
<1> QED
  BY <1>4, <1>5, <1>6 DEF Next

\* A damaged manifest or index is never returned, however the calls, the
\* deletions and the damage interleave.
THEOREM OnlyVerifiedHolds == Spec => [](TypeOK /\ OnlyVerified)
<1>1. Init => OnlyVerified
  BY DEF Init, OnlyVerified
<1> QED
  BY InitTypeOK, StepTypeOK, StepOnlyVerified, <1>1, PTL DEF Spec

-----------------------------------------------------------------------------
(* Policies *)

Judged == {"put", "index", "dropindex", "fetchindex", "putindex", "source", "ok"}

\* What the policies accept is noted for every call under way, and a call that
\* is past the policies is at a digest that they accepted.
PolicyInv ==
    \A c \in Clients :
        /\ Active(c) => accepted \subseteq seen[c]
        /\ pc[c] \in Judged => dig[c] \in seen[c]

\* Past the policies the digest of a call stays as it is.
LEMMA StepPolicyInv == TypeOK /\ PolicyInv /\ [Next]_vars => PolicyInv'
<1> SUFFICES ASSUME TypeOK, PolicyInv, [Next]_vars PROVE PolicyInv'
  OBVIOUS
<1>0. conf' = conf /\ conf.archives \subseteq Archives
      /\ conf.ops \subseteq {"fetch", "inspect", "pull", "pinned"}
  BY RegistryAssumption DEF Next, vars, TypeOK
<1> USE <1>0 DEF PolicyInv, Pushed, Ops, Judged, Active, At, Goto, AfterFetch, AfterIndex, TypeOK, Labels,
        registry, caches, args, results
<1>1. CASE UNCHANGED vars
  BY <1>1 DEF vars
<1>2. CASE Tick \/ DamageRef
  BY <1>2 DEF Tick, DamageRef
<1>3. ASSUME NEW a \in Archives, Retag(a) \/ DamageManifest(a) \/ DamageIndex(a)
      PROVE PolicyInv'
  BY <1>3 DEF Retag, DamageManifest, DamageIndex
<1>4. ASSUME NEW a \in Archives, PolicyChanges(a) PROVE PolicyInv'
  BY <1>4 DEF PolicyChanges
<1>5. ASSUME NEW c \in Clients, NEW o \in Ops, NEW s \in BOOLEAN, Start(c, o, s)
      PROVE PolicyInv'
  BY <1>5 DEF Start
<1>6. ASSUME NEW c \in Clients, RefStat(c) \/ RefExpire(c) \/ RefRead(c) \/ Resolve(c)
      PROVE PolicyInv'
  BY <1>6 DEF RefStat, RefExpire, RefRead, Resolve
<1>7. ASSUME NEW c \in Clients, RefPut(c) \/ RefRename(c) PROVE PolicyInv'
  BY <1>7 DEF RefPut, RefRename
<1>8. ASSUME NEW c \in Clients, GetManifest(c) PROVE PolicyInv'
  BY <1>8 DEF GetManifest
<1>9. ASSUME NEW c \in Clients, DropManifest(c) \/ FetchManifest(c) \/ RejectManifest(c)
      PROVE PolicyInv'
  BY <1>9 DEF DropManifest, FetchManifest, RejectManifest
<1>10. ASSUME NEW c \in Clients, EvaluatePolicies(c) PROVE PolicyInv'
  BY <1>10 DEF EvaluatePolicies, PoliciesAccept
<1>11. ASSUME NEW c \in Clients, PutManifest(c) \/ CreateDataSource(c) PROVE PolicyInv'
  BY <1>11 DEF PutManifest, CreateDataSource
<1>12. ASSUME NEW c \in Clients, TryIndexCache(c) PROVE PolicyInv'
  BY <1>12 DEF TryIndexCache
<1>13. ASSUME NEW c \in Clients, DropIndex(c) \/ FetchIndex(c) \/ PutIndex(c) PROVE PolicyInv'
  BY <1>13 DEF DropIndex, FetchIndex, PutIndex
<1>14. ASSUME NEW c \in Clients, CacheDeclines(c) \/ CallFails(c) PROVE PolicyInv'
  BY <1>14 DEF CacheDeclines, CallFails
<1>15. ASSUME NEW c \in Clients, Returns(c) PROVE PolicyInv'
  BY <1>15 DEF Returns
<1> HIDE DEF PolicyInv, TypeOK, Ops
<1> QED
  BY <1>1, <1>2, <1>3, <1>4, <1>5, <1>6, <1>7, <1>8, <1>9, <1>10, <1>11, <1>12, <1>13, <1>14,
     <1>15 DEF Next, World, Call

\* No call returns an archive that the policies rejected during all of the call.
THEOREM PolicyEnforcedHolds == Spec => []PolicyEnforced
<1>1. Init => PolicyInv
  BY DEF Init, PolicyInv, Judged, Active, At
<1>2. PolicyInv => PolicyEnforced
  BY DEF PolicyInv, PolicyEnforced, Judged, At
<1> QED
  BY InitTypeOK, StepTypeOK, StepPolicyInv, <1>1, <1>2, PTL DEF Spec

-----------------------------------------------------------------------------
(* Bounded staleness *)

Resolved ==
    {"refput", "rename", "manifest", "drop", "fetch", "policy", "reject"} \cup Judged

\* How long before the call began the tag may have left the returned archive.
Allowance(c) == IF skip[c] THEN 0 ELSE TTL + CallTime

\* No call outlives CallTime, and times lie in the past.
ClockInv ==
    /\ \A a \in Archives : last[a] <= now
    /\ \A c \in Clients : wrote[c] <= now
    /\ \A c \in Clients : Active(c) => started[c] <= now /\ now <= started[c] + CallTime

\* The cached digest was the tag's at most CallTime before the time of the file.
RefInv == ref \in Archives => Held(ref) >= mtime - CallTime

\* What a call is about to read, is about to write and has resolved.
CallInv ==
    \A c \in Clients :
        /\ skip[c] => pc[c] \notin {"stat", "expire", "read"}
        /\ pc[c] = "read" /\ ref \in Archives /\ TTL > 0
              => Held(ref) >= started[c] - (TTL + CallTime)
        /\ pc[c] \in Resolved => dig[c] \in Archives
        /\ pc[c] \in {"refput", "rename"} => Held(dig[c]) >= started[c]
        /\ pc[c] \in Resolved /\ op[c] # "pinned" /\ (TTL > 0 \/ skip[c])
              => Held(dig[c]) >= started[c] - Allowance(c)

StaleInv == ClockInv /\ RefInv /\ CallInv

\* The clock and the moments at which the tag was seen only advance.
LEMMA HeldGrows ==
    ASSUME TypeOK, ClockInv, Tick \/ \E a \in Archives : Retag(a)
    PROVE  \A a \in Archives : Held(a) \in Int /\ Held(a)' \in Int /\ Held(a)' >= Held(a)
<1>1. CASE Tick
  BY <1>1 DEF TypeOK, ClockInv, Held, Tick, registry
<1>2. ASSUME NEW b \in Archives, Retag(b)
      PROVE  \A a \in Archives : Held(a) \in Int /\ Held(a)' \in Int /\ Held(a)' >= Held(a)
  BY <1>2 DEF TypeOK, ClockInv, Held, Retag
<1> QED
  BY <1>1, <1>2

\* The invariant of the staleness argument, action by action.
LEMMA StepStaleInv == TypeOK /\ StaleInv /\ [Next]_vars => StaleInv'
<1> SUFFICES ASSUME TypeOK, StaleInv, [Next]_vars PROVE StaleInv'
  OBVIOUS
<1>0. conf' = conf /\ conf.archives \subseteq Archives
      /\ conf.ops \subseteq {"fetch", "inspect", "pull", "pinned"}
  BY RegistryAssumption DEF Next, vars, TypeOK
<1> USE <1>0, RegistryAssumption DEF Pushed, Ops, Resolved, Judged, Allowance, ClockInv, RefInv, CallInv, StaleInv,
        Active, At, Goto, AfterFetch, AfterIndex, TypeOK, Labels,
        registry, caches, args, results
<1>1. CASE UNCHANGED vars
  BY <1>1 DEF vars, Held
<1>2. CASE Tick
  BY <1>2, HeldGrows DEF Tick
<1>3. ASSUME NEW a \in Archives, Retag(a) PROVE StaleInv'
  BY <1>3, HeldGrows DEF Retag
<1>4. CASE DamageRef \/ \E a \in Archives : PolicyChanges(a) \/ DamageManifest(a) \/ DamageIndex(a)
  BY <1>4 DEF DamageRef, PolicyChanges, DamageManifest, DamageIndex, Held
<1>5. ASSUME NEW c \in Clients, NEW o \in Ops, NEW s \in BOOLEAN, Start(c, o, s)
      PROVE StaleInv'
  BY <1>5 DEF Start, Held
<1>6. ASSUME NEW c \in Clients, RefStat(c) PROVE StaleInv'
  BY <1>6 DEF RefStat, Held, Expired
<1>7. ASSUME NEW c \in Clients, RefExpire(c) PROVE StaleInv'
  BY <1>7 DEF RefExpire, Held
<1>8. ASSUME NEW c \in Clients, RefRead(c) PROVE StaleInv'
  BY <1>8 DEF RefRead, Held, IsDigest
<1>9. ASSUME NEW c \in Clients, Resolve(c) PROVE StaleInv'
  BY <1>9 DEF Resolve, Held
<1>10. ASSUME NEW c \in Clients, RefPut(c) PROVE StaleInv'
  BY <1>10 DEF RefPut, Held
<1>11. ASSUME NEW c \in Clients, RefRename(c) PROVE StaleInv'
  BY <1>11 DEF RefRename, Held
<1>12. ASSUME NEW c \in Clients, GetManifest(c) \/ TryIndexCache(c) PROVE StaleInv'
  BY <1>12 DEF GetManifest, TryIndexCache, Held
<1>13. ASSUME NEW c \in Clients, DropManifest(c) \/ FetchManifest(c) \/ RejectManifest(c)
       PROVE StaleInv'
  BY <1>13 DEF DropManifest, FetchManifest, RejectManifest, Held
<1>14. ASSUME NEW c \in Clients, EvaluatePolicies(c) \/ PutManifest(c) PROVE StaleInv'
  BY <1>14 DEF EvaluatePolicies, PutManifest, Held
<1>15. ASSUME NEW c \in Clients, DropIndex(c) \/ FetchIndex(c) \/ PutIndex(c) PROVE StaleInv'
  BY <1>15 DEF DropIndex, FetchIndex, PutIndex, Held
<1>16. ASSUME NEW c \in Clients, CreateDataSource(c) \/ CacheDeclines(c) \/ CallFails(c)
       PROVE StaleInv'
  BY <1>16 DEF CreateDataSource, CacheDeclines, CallFails, Held
<1>17. ASSUME NEW c \in Clients, Returns(c) PROVE StaleInv'
  BY <1>17 DEF Returns, Held
<1> HIDE DEF StaleInv, TypeOK, Ops
<1> QED
  BY <1>1, <1>2, <1>3, <1>4, <1>5, <1>6, <1>7, <1>8, <1>9, <1>10, <1>11, <1>12, <1>13, <1>14,
     <1>15, <1>16, <1>17 DEF Next, World, Call

\* A call that succeeds returns an archive that the tag pointed to at most
\* TTL + CallTime before the call began, or during it with skip-cache.
THEOREM BoundedStalenessHolds == Spec => []BoundedStaleness
<1>1. Init => StaleInv
  BY RegistryAssumption
     DEF Init, StaleInv, ClockInv, RefInv, CallInv, Resolved, Judged, Active, At, Never
<1>2. StaleInv => BoundedStaleness
  BY DEF StaleInv, CallInv, BoundedStaleness, Resolved, Judged, At, Allowance
<1> QED
  BY InitTypeOK, StepTypeOK, StepStaleInv, <1>1, <1>2, PTL DEF Spec
=============================================================================
