---------------------------- MODULE MC_BlobRead ----------------------------
(***************************************************************************)
(* Three goroutines, two of them on one Blob, and one file; and two Blobs  *)
(* in local files, which are saved or created while they are read.         *)
(***************************************************************************)
EXTENDS LocalArchive

CONSTANTS r1, r2, r3, f1, w1, w2

TwoOnOne == [r \in Readers |-> IF r = r3 THEN 2 ELSE 1]
Idle == [w \in Writers |-> "none"]

\* Good, damaged and truncated data; damage to the cache, Close that does not
\* verify; a cache that fails, and none.
Reading ==
    {c \in [blobOf : {TwoOnOne}, source : {[b \in Blobs |-> h] : h \in [Files -> {"good", "bad", "short"}]},
            caching : BOOLEAN, verify : BOOLEAN, putErrors : BOOLEAN, damage : BOOLEAN,
            steady : {TRUE}, chunks : {1}, active : {Readers}, local : {FALSE}, existing : {FALSE}, jobs : {Idle}, ioErrors : {FALSE},
            removeErrors : {FALSE}] :
        LET s == c.source[1][f1] IN
        \/ c.caching /\ c.verify /\ ~c.putErrors /\ (c.damage => s # "short")
        \/ c.caching /\ ~c.verify /\ ~c.putErrors /\ c.damage /\ s = "good"
        \/ c.caching /\ c.verify /\ c.putErrors /\ ~c.damage /\ s = "good"
        \/ ~c.caching /\ c.verify /\ ~c.putErrors /\ ~c.damage /\ s = "bad"}

\* One Save under two Blobs on one cache; two Saves at once; CreateBlob alone, and
\* with a Save: over an archive or none.
Saving ==
    {c \in [blobOf : {TwoOnOne}, source : {[b \in Blobs |-> None]},
            caching : BOOLEAN, verify : {TRUE}, putErrors : {FALSE}, damage : {FALSE},
            steady : BOOLEAN, chunks : {2}, active : {{r1}, {r1, r3}},
            local : {TRUE}, existing : BOOLEAN, jobs : [Writers -> {"none", "save", "create"}],
            ioErrors : BOOLEAN, removeErrors : BOOLEAN] :
        LET one == c.jobs[w1] two == c.jobs[w2] IN
        /\ c.steady <=> one # "create"
        /\ c.removeErrors => c.ioErrors
        /\ \/ /\ one = "save" /\ two = "none" /\ c.active = {r1, r3}
              /\ c.caching /\ c.ioErrors /\ c.existing /\ ~c.removeErrors
           \/ /\ one = "save" /\ two = "save" /\ c.active = {r1}
              /\ ~c.caching /\ ~c.ioErrors
           \/ /\ one = "create" /\ two = "none" /\ c.active = {r1}
              /\ c.ioErrors /\ (c.removeErrors => c.existing)
           \/ /\ one = "create" /\ two = "save" /\ c.active = {r1}
              /\ ~c.caching /\ c.existing /\ ~c.ioErrors}

Archives == Reading \cup Saving
=============================================================================
