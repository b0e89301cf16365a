------------------------- MODULE DiskCacheInterface -------------------------
(***************************************************************************)
(* The directory caches as an implementation of the interface that their   *)
(* callers see, ContentCache: the refinement mapping.                      *)
(***************************************************************************)
EXTENDS DiskCache

\* What Get returns for k: the content of a hash, or something that is no content.
ContentAt(k) ==
    IF ~Exists(k) THEN None
    ELSE IF disk[k].whole /\ disk[k].size = SizeOf[disk[k].key] THEN disk[k].key
    ELSE "damaged"

\* A goroutine with a temporary name is inside Put, also while it prunes.
CallOf(p) ==
    IF tmp[p] # None
    THEN [op |-> "put", key |-> key[p], stage |-> IF At(p, "add") THEN "done" ELSE "begun"]
    ELSE IF At(p, "delete") THEN [op |-> "delete", key |-> key[p], stage |-> "begun"]
    ELSE IF At(p, "subtract") THEN [op |-> "delete", key |-> key[p], stage |-> "done"]
    ELSE [op |-> "none", key |-> None, stage |-> "none"]

Content == [k \in Keys |-> ContentAt(k)]
Pending == [p \in Procs |-> CallOf(p)]

Interface == INSTANCE ContentCache WITH
    Callers <- Procs, content <- Content, call <- Pending

\* The caches are "safe for concurrent use" (interface Cache): although Put and
\* Delete take many steps, each acts on what Get returns in one instant between
\* its call and its return or not at all, content appears only through a Put of
\* its key, and a Delete does not return while what it saw is still there.
ImplementsCache == Interface!Spec
=============================================================================
