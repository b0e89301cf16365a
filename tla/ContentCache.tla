---------------------------- MODULE ContentCache ----------------------------
(***************************************************************************)
(* What the interface cache.Cache promises to its callers, as an abstract  *)
(* specification: a map from hashes to contents on which Put and Delete    *)
(* act in one instant between their call and their return, or not at all.  *)
(* Content may be evicted at any time, and a Put may decline to store.     *)
(***************************************************************************)
CONSTANTS
    Keys,     \* content hashes
    Callers,  \* goroutines
    None      \* no content, no argument

VARIABLES
    content,  \* content[k]: the hash of the content that Get returns for k, or None
    call      \* call[p]: the call that goroutine p has made and that has not returned

vars == <<content, call>>

NoCall == [op |-> "none", key |-> None, stage |-> "none"]
Begun(o, k) == [op |-> o, key |-> k, stage |-> "begun"]
Done(o, k) == [op |-> o, key |-> k, stage |-> "done"]

Init ==
    /\ content = [k \in Keys |-> None]
    /\ call = [p \in Callers |-> NoCall]

Begin(p, o, k) ==
    /\ call[p] = NoCall
    /\ call' = [call EXCEPT ![p] = Begun(o, k)]
    /\ UNCHANGED content

\* The instant at which the Put of p takes effect: the content is there whole.
Store(p) ==
    \E k \in Keys :
        /\ call[p] = Begun("put", k)
        /\ call' = [call EXCEPT ![p] = Done("put", k)]
        /\ content' = [content EXCEPT ![k] = k]

\* The instant at which the Delete of p takes effect.
Drop(p) ==
    \E k \in Keys :
        /\ call[p] = Begun("delete", k)
        /\ call' = [call EXCEPT ![p] = Done("delete", k)]
        /\ content' = [content EXCEPT ![k] = None]

\* A Put may return without an effect; a Delete only where there is nothing to
\* delete: "Implementations should treat missing entries as a no-op."
Return(p) ==
    /\ \E k \in Keys :
         \/ call[p] \in {Begun("put", k), Done("put", k), Done("delete", k)}
         \/ call[p] = Begun("delete", k) /\ content[k] = None
    /\ call' = [call EXCEPT ![p] = NoCall]
    /\ UNCHANGED content

\* "Implementations should handle their own size limits and eviction policies."
Evict(k) ==
    /\ content' = [content EXCEPT ![k] = None]
    /\ UNCHANGED call

\* The calls of a process that dies never return.
Abandon(S) ==
    /\ call' = [p \in Callers |-> IF p \in S THEN NoCall ELSE call[p]]
    /\ UNCHANGED content

Next ==
    \/ \E p \in Callers :
         \/ \E k \in Keys : Begin(p, "put", k) \/ Begin(p, "delete", k)
         \/ Store(p) \/ Drop(p) \/ Return(p)
    \/ \E k \in Keys : Evict(k)
    \/ \E S \in SUBSET Callers : Abandon(S)

Spec == Init /\ [][Next]_vars
=============================================================================
