--------------------------- MODULE MC_DataSource ---------------------------
(***************************************************************************)
(* A resource of five bytes in blocks of two, so that the last block is    *)
(* shorter, then of three bytes, then of three others; two hosts that      *)
(* share an address and compete for the one place in the header cache.     *)
(***************************************************************************)
EXTENDS DataSource, TLC

CONSTANTS r1, r2, c1, c2, h1, h2, a1, a2

SizeOfVersions == <<5, 3, 3>>
AddressesOfHosts == h1 :> <<a1, a2>> @@ h2 :> <<a2>>

One == [r \in Readers |-> c1]
Two == [r \in Readers |-> IF r = r1 THEN c1 ELSE c2]
OneHost == [r \in Readers |-> h1]
TwoHosts == [r \in Readers |-> IF r = r1 THEN h1 ELSE h2]

Client == [headers |-> FALSE, faults |-> TRUE, hostOf |-> OneHost, time |-> 0, issues |-> 0]

\* Every read by a single reader of an unchanging resource; readers of one cache
\* object, and of two that share the directory, while the resource changes.
Reading ==
    {c @@ Client : c \in
       {[readers |-> {r1}, cacheOf |-> One, etags |-> TRUE, conditional |-> FALSE, versions |-> 1,
         damage |-> TRUE, offsets |-> {0 - 1} \cup 0..5, lengths |-> 0..5]}
       \cup [readers : {{r1, r2}}, cacheOf : {One, Two}, etags : {TRUE}, conditional : {TRUE},
             versions : {2}, damage : {FALSE}, offsets : {{1}}, lengths : {{2}}]
       \cup [readers : {{r1}}, cacheOf : {One}, etags : BOOLEAN, conditional : BOOLEAN,
             versions : {3}, damage : {FALSE}, offsets : {{1}}, lengths : {{2, 4}}]}

Unchanging == [cacheOf |-> One, etags |-> TRUE, conditional |-> FALSE, versions |-> 1,
               damage |-> FALSE, offsets |-> {0}, headers |-> TRUE]

\* A reader that also reads, two readers of one host, and two of two hosts, whose
\* requests carry a cached header, while credentials change.
Authenticating ==
    {c @@ Unchanging : c \in
       {[readers |-> {r1}, hostOf |-> OneHost, faults |-> TRUE, lengths |-> {1}, time |-> 3, issues |-> 2],
        [readers |-> {r1, r2}, hostOf |-> OneHost, faults |-> FALSE, lengths |-> {0}, time |-> 0, issues |-> 2],
        [readers |-> {r1, r2}, hostOf |-> TwoHosts, faults |-> FALSE, lengths |-> {0}, time |-> 0, issues |-> 2]}}

AllConfigs == Reading \cup Authenticating
=============================================================================
