---------------------------- MODULE MC_DiskCache ----------------------------
(* Small instances of the directory caches. *)
EXTENDS DiskCacheInterface, TLC

CONSTANTS a, b, d, p1, p2, p3, c1, c2

Sizes == a :> 1 @@ b :> 2 @@ d :> 4
CacheObject == p1 :> c1 @@ p2 :> c1 @@ p3 :> c2

\* Two goroutines of one process, a limit and failing I/O.
Pair ==
    [capacityFirst |-> FALSE, maxBytes |-> 2, callers |-> {p1, p2}, keys |-> {a, b},
     targets |-> {1}, maxPuts |-> 2, maxCrashes |-> 0, ioErrors |-> TRUE]

\* Two processes that share the directory.
Processes ==
    [Pair EXCEPT !.callers = {p1, p3}, !.targets = {}, !.maxCrashes = 1]

\* One goroutine: a limit and failing I/O, no limit, room made first.
Limited ==
    [Pair EXCEPT !.callers = {p1}, !.keys = {a, b, d}, !.targets = {0, 1}, !.maxPuts = 4,
                 !.maxCrashes = 1]
Unlimited ==
    [Limited EXCEPT !.maxBytes = 0, !.keys = {a, b}, !.maxPuts = 3, !.maxCrashes = 2, !.ioErrors = FALSE]
RoomFirst == [Limited EXCEPT !.capacityFirst = TRUE, !.ioErrors = FALSE]
Calls == {Pair, Processes, Limited, Unlimited, RoomFirst}

\* One goroutine and two Puts.
TwoPuts ==
    {[Limited EXCEPT !.targets = {}, !.maxPuts = 2, !.maxCrashes = 0, !.ioErrors = FALSE]}
=============================================================================
