---------------------------- MODULE AuthHeaders ----------------------------
(***************************************************************************)
(* AuthHeaders and InvalidateAuthHeaders of the OCI client: the header     *)
(* cache, an LRU list with a TTL under a mutex, in front of a credential   *)
(* store that is asked for one address after another.  The store is asked  *)
(* without the mutex, so another call, an invalidation or a new credential *)
(* may come between a miss and the set that follows it.                    *)
(*                                                                         *)
(* A credential is the number of its issue, 0 standing for none; a header  *)
(* is the credential it carries.                                           *)
(***************************************************************************)
EXTENDS Integers, Sequences

CONSTANTS
    Clients,      \* goroutines
    Hosts,        \* registry hosts
    Addresses,    \* addresses of the credential store
    AddressesOf,  \* AddressesOf[h]: the addresses asked for host h, in order
    HeaderTTL,    \* authHeaderCache.ttl, 0 meaning no cache
    HeaderMax,    \* authHeaderCache.maxSize
    LookupTime,   \* bound: the time that a call of AuthHeaders takes
    MaxTime,      \* bound: the clock
    MaxIssued     \* bound: credentials issued

Issues == 1..MaxIssued

ASSUME AuthHeadersAssumption ==
    /\ AddressesOf \in [Hosts -> Seq(Addresses) \ {<<>>}]
    /\ HeaderTTL \in Nat
    /\ HeaderMax \in Nat \ {0}
    /\ LookupTime \in Nat
    /\ MaxTime \in Nat
    /\ MaxIssued \in Nat

VARIABLES
    creds,    \* creds[a]: the credential stored for address a
    issued,   \* credentials issued so far
    clock,
    entry,    \* entry[h]: the cached header of host h and when it expires
    order,    \* the hosts that have an entry, most recently used first
    hpc,      \* hpc[c]: what client c does next in AuthHeaders, or its result
    host,     \* host[c]: the host of its repository
    tried,    \* tried[c]: the addresses asked so far
    failed,   \* failed[c]: asking for the host itself failed
    header,   \* header[c]: the header found or returned
    began,    \* began[c]: when the call began
    until,    \* history: until[v]: when credential v was replaced
    revoked,  \* history: revoked[h]: credentials replaced before an invalidation
    known     \* history: known[c]: revoked when the call began

store == <<creds, issued, clock, until>>
headers == <<entry, order, revoked>>
lookups == <<hpc, host, tried, failed, header, began, known>>
headerVars == <<store, headers, lookups>>

NoEntry == [value |-> 0, expires |-> 0]

HeaderInit ==
    /\ creds = [a \in Addresses |-> 0]
    /\ issued = 0
    /\ clock = 0
    /\ entry = [h \in Hosts |-> NoEntry]
    /\ order = <<>>
    /\ hpc = [c \in Clients |-> "none"]
    /\ host \in [Clients -> Hosts]
    /\ tried = [c \in Clients |-> 0]
    /\ failed = [c \in Clients |-> FALSE]
    /\ header = [c \in Clients |-> 0]
    /\ began = [c \in Clients |-> 0]
    /\ until = [v \in Issues |-> 0]
    /\ revoked = [h \in Hosts |-> {}]
    /\ known = [c \in Clients |-> {}]

Doing(c, label) == hpc[c] = label
Proceed(c, label) == hpc' = [hpc EXCEPT ![c] = label]

\* AuthHeaders returns v.
Answer(c, v) ==
    /\ Proceed(c, "ok")
    /\ header' = [header EXCEPT ![c] = v]
    /\ UNCHANGED <<host, tried, failed, began, known>>

-----------------------------------------------------------------------------
(* authHeaderCache *)

Others(h) == SelectSeq(order, LAMBDA g : g # h)
Listed(s) == {s[i] : i \in DOMAIN s}

RemoveNothing(h) == UNCHANGED <<entry, order>>  \* mutant: the entry stays
removeLocked(h) ==
    /\ entry' = [entry EXCEPT ![h] = NoEntry]
    /\ order' = Others(h)

NeverExpired(h) == FALSE  \* mutant: the time is not compared
Expired(h) == clock > entry[h].expires

\* The least recently used hosts make room for a new one.
Kept == SubSeq(order, 1, IF Len(order) < HeaderMax THEN Len(order) ELSE HeaderMax - 1)
OrderWith(h) == <<h>> \o (IF entry[h] = NoEntry THEN Kept ELSE Others(h))

\* set
SetEntry(h, v) ==
    /\ order' = OrderWith(h)
    /\ entry' = [g \in Hosts |->
                   IF g = h THEN [value |-> v, expires |-> clock + HeaderTTL]
                   ELSE IF g \in Listed(OrderWith(h)) THEN entry[g] ELSE NoEntry]

-----------------------------------------------------------------------------
(* AuthHeaders *)

AuthHeadersOf(c, h) ==
    /\ hpc[c] \in {"none", "ok", "error"}
    /\ Proceed(c, IF HeaderTTL > 0 THEN "get" ELSE "lookup")
    /\ host' = [host EXCEPT ![c] = h]
    /\ tried' = [tried EXCEPT ![c] = 0]
    /\ failed' = [failed EXCEPT ![c] = FALSE]
    /\ header' = [header EXCEPT ![c] = 0]
    /\ began' = [began EXCEPT ![c] = clock]
    /\ known' = [known EXCEPT ![c] = revoked[h]]
    /\ UNCHANGED <<store, headers>>

\* get: a hit is moved to the front, an expired entry is removed.
CacheGet(c) ==
    /\ Doing(c, "get")
    /\ LET h == host[c] IN
       IF entry[h] = NoEntry
       THEN Proceed(c, "lookup") /\ UNCHANGED <<entry, order, host, tried, failed, header, began, known>>
       ELSE IF Expired(h)
       THEN /\ removeLocked(h)
            /\ Proceed(c, "lookup") /\ UNCHANGED <<host, tried, failed, header, began, known>>
       ELSE /\ order' = <<h>> \o Others(h)
            /\ Answer(c, entry[h].value) /\ UNCHANGED entry
    /\ UNCHANGED <<store, revoked>>

\* credStore.Get for one address.  What is found is cached.
Asked(c) == AddressesOf[host[c]]
Found(c) == creds[Asked(c)[tried[c] + 1]]

StoreFinds(c) ==
    /\ Doing(c, "lookup")
    /\ Found(c) # 0
    /\ header' = [header EXCEPT ![c] = Found(c)]
    /\ Proceed(c, IF HeaderTTL > 0 THEN "set" ELSE "ok")
    /\ UNCHANGED <<store, headers, host, tried, failed, began, known>>

\* The next address is asked.  In the end the error for the host itself counts;
\* without one there is no header, which is not cached.
AskNext(c, e) ==
    /\ tried' = [tried EXCEPT ![c] = @ + 1]
    /\ failed' = [failed EXCEPT ![c] = e]
    /\ Proceed(c, IF tried[c] + 1 < Len(Asked(c)) THEN "lookup" ELSE IF e THEN "error" ELSE "ok")
    /\ UNCHANGED <<store, headers, host, header, began, known>>

StoreEmpty(c) == Doing(c, "lookup") /\ Found(c) = 0 /\ AskNext(c, failed[c])
StoreFails(c) == Doing(c, "lookup") /\ AskNext(c, tried[c] = 0 \/ failed[c])

CacheSet(c) ==
    /\ Doing(c, "set")
    /\ SetEntry(host[c], header[c])
    /\ Answer(c, header[c])
    /\ UNCHANGED <<store, revoked>>

-----------------------------------------------------------------------------
(* InvalidateAuthHeaders *)

\* A header for h that was found in the store and is not in the cache yet.
InHand(h) == \E c \in Clients : Doing(c, "set") /\ host[c] = h
Stored == {creds[a] : a \in Addresses}

InvalidateNothing(h) == UNCHANGED headerVars  \* mutant: another host's entry
InvalidateAuthHeaders(h) ==
    /\ removeLocked(h)
    /\ revoked' = [revoked EXCEPT ![h] =
                     IF InHand(h) THEN @ ELSE {v \in Issues : v <= issued} \ Stored]
    /\ UNCHANGED <<store, lookups>>

-----------------------------------------------------------------------------
(* The credential store and the clock *)

NewCredential(a) ==
    /\ issued < MaxIssued
    /\ issued' = issued + 1
    /\ creds' = [creds EXCEPT ![a] = issued + 1]
    /\ until' = [v \in Issues |-> IF v = creds[a] THEN clock ELSE until[v]]
    /\ UNCHANGED <<clock, headers, lookups>>

Tick ==
    /\ clock < MaxTime
    /\ \A c \in Clients : hpc[c] \in {"get", "lookup", "set"} => clock < began[c] + LookupTime
    /\ clock' = clock + 1
    /\ UNCHANGED <<creds, issued, until, headers, lookups>>

\* The caller no longer uses the header.
Release(c) ==
    /\ Doing(c, "ok")
    /\ Proceed(c, "none")
    /\ UNCHANGED <<store, headers, host, tried, failed, header, began, known>>

HeaderStep(c) == CacheGet(c) \/ StoreFinds(c) \/ StoreEmpty(c) \/ CacheSet(c)

HeaderNext ==
    \/ \E c \in Clients, h \in Hosts : AuthHeadersOf(c, h)
    \/ \E c \in Clients : HeaderStep(c) \/ StoreFails(c) \/ Release(c)
    \/ \E h \in Hosts : InvalidateAuthHeaders(h)
    \/ \E a \in Addresses : NewCredential(a)
    \/ Tick

HeaderSpec == HeaderInit /\ [][HeaderNext]_headerVars

-----------------------------------------------------------------------------
(* Properties *)

\* When credential v was in the store last.
InStore(v) == IF v \in Stored THEN clock ELSE until[v]

\* A header that AuthHeaders returns was in the credential store at most the
\* TTL before the call, plus the time that the call that cached it took,
\* however calls, evictions and new credentials interleave.
HeaderFresh ==
    \A c \in Clients : Doing(c, "ok") /\ header[c] # 0 =>
        InStore(header[c]) >= began[c] - HeaderTTL - LookupTime

\* "Call this after receiving a 401 to force the next AuthHeaders call to
\* refresh" (InvalidateAuthHeaders): a credential that was replaced before the
\* invalidation is not returned by a call that begins after it, unless another
\* call had found it in the store and not cached it yet.
Refreshed == \A c \in Clients : Doing(c, "ok") => header[c] \notin known[c]
=============================================================================
