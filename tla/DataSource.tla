----------------------------- MODULE DataSource -----------------------------
(***************************************************************************)
(* createDataSource of Pull: a source on the data blob whose requests are  *)
(* either authenticated by the client's own HTTP client or carry the       *)
(* header that AuthHeaders returned once, when the source was opened.  A   *)
(* caller that receives a 401 calls InvalidateAuthHeaders and opens the    *)
(* source again, as the documentation of AuthHeaders asks.                 *)
(***************************************************************************)
EXTENDS BlockSource, AuthHeaders

ASSUME DataSourceAssumption == Clients = Readers

VARIABLES
    refused  \* refused[r]: reader r has seen a 401 and not invalidated yet

sourceVars == <<remote, blocks, reads>>
allVars == <<vars, headerVars, refused>>

WithHeaders == conf.headers  \* AuthHeaders is used

DataInit ==
    /\ Init
    /\ HeaderInit
    /\ host = conf.hostOf
    /\ refused = [r \in Readers |-> FALSE]

-----------------------------------------------------------------------------
(* Opening *)

createDataSource(r) ==
    /\ WithHeaders /\ r \in conf.readers
    /\ At(r, "closed") /\ ~Doing(r, "ok") /\ ~refused[r]
    /\ AuthHeadersOf(r, conf.hostOf[r])
    /\ UNCHANGED <<sourceVars, refused>>

Authenticate(r) == HeaderStep(r) /\ UNCHANGED <<sourceVars, refused>>

\* The registry accepts the credentials that are in the store for the host.
Accepted(r) ==
    WithHeaders => header[r] \in {creds[a] : a \in Listed(AddressesOf[host[r]])} \ {0}

\* The reader waits for the answer to a request.
Requests(r) == pc[r] \in {"probe", "fetch", "fetchagain", "direct", "directagain"}

\* A source that is closed or could not be opened is done with its header.
Discard ==
    /\ hpc' = [r \in Readers |-> IF pc[r] # "closed" /\ pc'[r] = "closed" THEN "none" ELSE hpc[r]]
    /\ UNCHANGED <<store, headers, host, tried, failed, header, began, known>>

SendHead(r) ==
    /\ r \in conf.readers
    /\ WithHeaders => Doing(r, "ok")
    /\ IF ~Accepted(r) THEN \E s \in NoHead : HeadAnswers(r, s)
       ELSE IF conf.faults THEN DoHead(r) ELSE HeadAnswers(r, Current)
    /\ UNCHANGED <<headerVars, refused>>

Read(r) ==
    /\ \E o \in conf.offsets, n \in conf.lengths : ReadAt(r, o, n) \/ ReadRange(r, o, n)
    /\ UNCHANGED <<headerVars, refused>>

Works(r) ==
    /\ Requests(r) => Accepted(r)
    /\ Step(r)
    /\ Discard
    /\ UNCHANGED refused

\* A request fails, or the credential store.
Fails(r) ==
    /\ conf.faults
    /\ \/ RequestFails(r) /\ Discard
       \/ StoreFails(r) /\ UNCHANGED sourceVars
    /\ UNCHANGED refused

\* 401, which all that wait for the request see.
Unauthorized(r) ==
    /\ ~Accepted(r)
    /\ RequestFails(r)
    /\ Discard
    /\ refused' = [q \in Readers |-> refused[q] \/ pc'[q] # pc[q]]

Invalidates(r) ==
    /\ refused[r]
    /\ InvalidateAuthHeaders(conf.hostOf[r])
    /\ refused' = [refused EXCEPT ![r] = FALSE]
    /\ UNCHANGED sourceVars

-----------------------------------------------------------------------------
(* The world around the readers *)

World ==
    /\ \/ (Replace \/ \E k \in Keys : Damage(k)) /\ UNCHANGED headerVars
       \/ clock < conf.time /\ Tick /\ UNCHANGED sourceVars
       \/ issued < conf.issues /\ (\E a \in Addresses : NewCredential(a)) /\ UNCHANGED sourceVars
    /\ UNCHANGED refused

\* What reader r does by itself once it opens a source or reads.
Proceeds(r) ==
    \/ createDataSource(r) \/ Authenticate(r) \/ SendHead(r)
    \/ Works(r) \/ Unauthorized(r) \/ Invalidates(r)

DataNext ==
    /\ \/ \E r \in Readers : Proceeds(r) \/ Read(r) \/ Fails(r)
       \/ World
    /\ UNCHANGED conf

DataSpec == DataInit /\ [][DataNext]_allVars

\* Goroutines are scheduled and requests are answered; a caller whose header is
\* refused invalidates it and opens the source again.
FairDataSpec == DataSpec /\ \A r \in Readers : WF_allVars(Proceeds(r) /\ UNCHANGED conf)

-----------------------------------------------------------------------------
(* Properties *)

\* Without other faults a caller that is refused, invalidates and opens again gets
\* through if the store has a credential for the host, even when other callers
\* put the old header back in between and although no cached header expires.
Recovers ==
    \A r \in Readers :
        refused[r] /\ At(r, "closed") /\ ~conf.faults ~>
            \/ At(r, "idle")
            \/ \A a \in Listed(AddressesOf[host[r]]) : creds[a] = 0
=============================================================================
