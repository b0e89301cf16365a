---------------------------- MODULE MC_Publishing ----------------------------
(***************************************************************************)
(* Two or three callers on the tags v1 and latest.                         *)
(***************************************************************************)
EXTENDS GittufPolicy

CONSTANTS p1, p2, p3, a1, a2, v1, latest, u1, u2, c1, c2

Nothing ==
    [do |-> "nothing", archive |-> a1, tags |-> <<v1>>, kind |-> "bundle", by |-> "trusted",
     mode |-> "all", policies |-> <<>>]
Pusher == [Nothing EXCEPT !.do = "push", !.tags = <<v1, latest>>]
PushSigner == [Pusher EXCEPT !.do = "push and sign"]
Signer(k, b) == [Nothing EXCEPT !.do = "sign", !.kind = k, !.by = b]
Evaluator(mode, ps) == [Nothing EXCEPT !.do = "evaluate", !.mode = mode, !.policies = ps]

Strict == [url |-> u1, cache |-> c1, overrideRef |-> FALSE, allowMissingGittuf |-> FALSE,
           allowMissingProvenance |-> FALSE]

Of(j1, j2, j3) ==
    [job |-> [p \in Callers |-> IF p = p1 THEN j1 ELSE IF p = p2 THEN j2 ELSE j3],
     once |-> FALSE, faults |-> FALSE, refCache |-> FALSE, damaged |-> {},
     gittuf |-> [p \in Callers |-> Strict], ttl |-> 1, maxEntries |-> 1, enabled |-> Urls,
     good |-> {0, 1}, invalidates |-> FALSE]

Policies ==
    {<<"all", <<"sigstore">>>>, <<"any", <<"slsa", "sigstore">>>>, <<"all", <<"sigstore", "slsa">>>>,
     <<"all", <<"opa">>>>, <<"any", <<"opa", "slsa">>>>, <<"any", <<"opa", "sigstore">>>>}

\* Push and sign with a second signer and a policy; failing requests; two
\* publishers and a tag that is moved; damaged data; a signer with a ref cache.
Publish ==
    {Of(PushSigner, Signer(k, b), Evaluator(e[1], e[2])) :
        k \in {"bundle", "intoto"}, b \in {"trusted", "other"}, e \in Policies}
    \cup {Of(Pusher, Nothing, Evaluator(mode, <<>>)) : mode \in {"all", "any"}}
    \cup {[Of(PushSigner, Signer("intoto", "trusted"), Evaluator(e[1], e[2]))
             EXCEPT !.faults = TRUE, !.once = (e # <<"all", <<"opa">>>>)] : e \in Policies}
    \cup {[Of(Pusher, [Pusher EXCEPT !.archive = a2, !.tags = <<latest>>], [Nothing EXCEPT !.do = "tag"])
             EXCEPT !.faults = TRUE, !.damaged = d] : d \in {{}, {a2}}}
    \cup {[Of(Pusher, Signer("bundle", "trusted"), Evaluator("all", <<"sigstore">>))
             EXCEPT !.refCache = TRUE]}

\* Two evaluations of a gittuf policy while the archive is pushed and attested and
\* the source repository moves on.
Gittuf == [Nothing EXCEPT !.do = "gittuf"]
Attest(b, g) ==
    [Of([PushSigner EXCEPT !.kind = "intoto", !.by = b, !.tags = <<v1>>], Gittuf, Gittuf) EXCEPT
        !.once = TRUE, !.gittuf = [p \in Callers |-> IF p = p3 THEN g ELSE Strict]]

\* The two share a clone and a cache object, a clone and not the object, or the
\* object and not the clone, and entries may be invalidated.
Shared ==
    {[Attest("trusted", g) EXCEPT !.good = v, !.invalidates = (v = {0})] :
        g \in {Strict, [Strict EXCEPT !.cache = c2], [Strict EXCEPT !.url = u2]}, v \in {{0}, {0, 1}}}

\* One of them excuses what the other does not; requests fail.
Lenient ==
    [Strict EXCEPT !.overrideRef = TRUE, !.allowMissingGittuf = TRUE, !.allowMissingProvenance = TRUE]
Excused ==
    {[Attest(b, Lenient) EXCEPT !.enabled = e] : b \in {"trusted", "other"}, e \in {{}, Urls}}
    \cup {[Attest("trusted", Lenient) EXCEPT !.faults = TRUE]}

Everything == Publish \cup Shared \cup Excused

\* A publisher with a ref cache.
Cached == {[Of(PushSigner, Nothing, Nothing) EXCEPT !.refCache = TRUE]}
=============================================================================
