--------------------------- MODULE BatchPipeline ---------------------------
(***************************************************************************)
(* processGroupsPipelined of core/internal/batch: a feeder hands the       *)
(* groups to concurrent readers over an unbuffered channel, the readers    *)
(* take their bytes from a weighted semaphore, read, and send the data     *)
(* over a buffered channel to a consumer, which processes the groups in    *)
(* order and gives the bytes back.  The goroutines share an errgroup: the  *)
(* first error is kept and cancels the others.                             *)
(***************************************************************************)
EXTENDS Integers, Sequences, FiniteSets

CONSTANTS
    N,        \* number of groups; a group is its index 1..N
    Readers,  \* names of read workers
    Failures, \* whether reading or processing a group may fail
    Configs,  \* sizes, read workers and read-ahead budgets
    None      \* no error, no task

Groups == 1..N

ASSUME BatchAssumption ==
    /\ N \in Nat
    /\ Failures \in BOOLEAN
    /\ IsFiniteSet(Readers)
    /\ \A c \in Configs :
         /\ c.size \in [Groups -> Nat]
         /\ c.workers # {} /\ c.workers \subseteq Readers
         /\ c.budget \in Nat
    /\ None \notin Groups
    /\ None \notin {"read", "process", "canceled", "unexpected"}

VARIABLES
    fed,      \* groups handed out by the feeder
    feeding,  \* the feeder has not returned (readCh is open)
    pc,       \* pc[r]: what reader r does next
    task,     \* task[r]: the group of reader r
    used,     \* bytes taken from the semaphore
    waiters,  \* readers queued in the semaphore, first come first served
    readyCh,  \* results in the channel to the consumer
    cpc,      \* what the consumer does next
    pending,  \* results the consumer holds
    next,     \* the group to process next
    err,      \* the error kept by the errgroup
    conf      \* the configuration, which never changes

goroutines == <<fed, feeding, pc, task, used, waiters, readyCh, cpc, pending, next, err>>
vars == <<goroutines, conf>>
readers == <<pc, task>>
consumer == <<cpc, pending, next>>
sem == <<used, waiters>>

Size == conf.size        \* Size[i]: bytes of group i
Workers == conf.workers  \* the readers that are started
Budget == conf.budget    \* readAheadBytes, 0 meaning no semaphore

Init ==
    /\ conf \in Configs
    /\ fed = 0
    /\ feeding = TRUE
    /\ pc = [r \in Readers |-> IF r \in Workers THEN "recv" ELSE "done"]
    /\ task = [r \in Readers |-> None]
    /\ used = 0
    /\ waiters = <<>>
    /\ readyCh = {}
    /\ cpc = "recv"
    /\ pending = {}
    /\ next = 1
    /\ err = None

\* The context of the errgroup is cancelled by the first error it keeps.
Canceled == err # None
KeepLast(e) == err' = IF e = None THEN err ELSE e  \* mutant: the last error is kept
Keep(e) == err' = IF err = None THEN e ELSE err

At(r, label) == pc[r] = label
Goto(r, label) == pc' = [pc EXCEPT ![r] = label] /\ UNCHANGED task

\* Reader r returns error e (None for nil).
Quit(r, e) ==
    /\ pc' = [pc EXCEPT ![r] = "done"]
    /\ task' = [task EXCEPT ![r] = None]
    /\ Keep(e)

----------------------------------------------------------------------------
(* The weighted semaphore: a queued request blocks all later ones. *)

\* The sum of f[1], ..., f[n].
Total(f, n) == LET sum[i \in Nat] == IF i = 0 THEN 0 ELSE sum[i - 1] + f[i] IN sum[n]

\* The bytes that the first m requests of queue q ask for.
SizesOf(q, m) == Total([i \in 1..Len(q) |-> Size[task[q[i]]]], m)

\* The longest prefix of the queue that fits beside u bytes.
GrantAll(q, u) == Len(q)  \* mutant: all waiters are woken
Granted(q, u) ==
    CHOOSE m \in 0..Len(q) :
        /\ u + SizesOf(q, m) <= Budget
        /\ m < Len(q) => u + SizesOf(q, m + 1) > Budget

\* notifyWaiters, with queue q and u bytes taken.  The readers in "wait" that
\* leave the queue have their bytes.
Notify(q, u) ==
    LET m == Granted(q, u)
    IN  /\ used' = u + SizesOf(q, m)
        /\ waiters' = SubSeq(q, m + 1, Len(q))

Release(n) == IF Budget = 0 THEN UNCHANGED sem ELSE Notify(waiters, used - n)

InQueue(r) == \E i \in 1..Len(waiters) : waiters[i] = r

\* Queue q without its i-th request.
Without(q, i) == SubSeq(q, 1, i - 1) \o SubSeq(q, i + 1, Len(q))

----------------------------------------------------------------------------
(* The feeder *)

\* readCh <- task, received by reader r, which then looks at the context.
Feed(r) ==
    /\ feeding /\ fed < N
    /\ At(r, "recv")
    /\ fed' = fed + 1
    /\ pc' = [pc EXCEPT ![r] = "acquire"]
    /\ task' = [task EXCEPT ![r] = fed + 1]
    /\ UNCHANGED <<feeding, sem, readyCh, consumer, err>>

\* close(readCh), after the last group or because the context is cancelled.
FeederReturns ==
    /\ feeding
    /\ fed = N \/ Canceled
    /\ feeding' = FALSE
    /\ UNCHANGED <<fed, readers, sem, readyCh, consumer, err>>

----------------------------------------------------------------------------
(* The readers *)

\* The range over readCh ends.
ReaderEnds(r) ==
    /\ At(r, "recv") /\ ~feeding
    /\ Quit(r, None)
    /\ UNCHANGED <<fed, feeding, sem, readyCh, consumer>>

\* ctx.Err() before or inside budget.Acquire.
AcquireCanceled(r) ==
    /\ At(r, "acquire") /\ Canceled
    /\ Quit(r, "canceled")
    /\ UNCHANGED <<fed, feeding, sem, readyCh, consumer>>

\* budget.Acquire takes the bytes at once, or queues the request.  A request for
\* more than the whole budget waits for the context without being queued.
Acquire(r) ==
    /\ At(r, "acquire") /\ ~Canceled
    /\ IF Budget = 0 \/ (waiters = <<>> /\ used + Size[task[r]] <= Budget)
       THEN /\ used' = IF Budget = 0 THEN 0 ELSE used + Size[task[r]]
            /\ Goto(r, "read") /\ UNCHANGED waiters
       ELSE /\ Goto(r, IF Size[task[r]] > Budget THEN "stuck" ELSE "wait")
            /\ waiters' = IF Size[task[r]] > Budget THEN waiters ELSE Append(waiters, r)
            /\ UNCHANGED used
    /\ UNCHANGED <<fed, feeding, readyCh, consumer, err>>

\* A queued request was granted by a Release.
AcquireGranted(r) ==
    /\ At(r, "wait") /\ ~InQueue(r)
    /\ Goto(r, "read")
    /\ UNCHANGED <<fed, feeding, sem, readyCh, consumer, err>>

\* The context is cancelled while the request waits: it leaves the queue, or
\* gives back what it was granted in the meantime.
WaitCanceled(r) ==
    /\ Canceled
    /\ \/ At(r, "stuck") /\ UNCHANGED sem
       \/ /\ At(r, "wait")
          /\ \E i \in 1..Len(waiters) : waiters[i] = r /\ Notify(Without(waiters, i), used)
       \/ At(r, "wait") /\ ~InQueue(r) /\ Release(Size[task[r]])
    /\ Quit(r, "canceled")
    /\ UNCHANGED <<fed, feeding, readyCh, consumer>>

\* readGroupData
Read(r) ==
    /\ At(r, "read")
    /\ Goto(r, "send")
    /\ UNCHANGED <<fed, feeding, sem, readyCh, consumer, err>>

ReadRetries(r) ==  \* mutant: the read is tried again without a limit
    /\ Failures
    /\ At(r, "read")
    /\ Release(Size[task[r]])
    /\ Goto(r, "acquire")
    /\ UNCHANGED <<fed, feeding, readyCh, consumer, err>>

ReadFails(r) ==
    /\ Failures
    /\ At(r, "read")
    /\ Release(Size[task[r]])
    /\ Quit(r, "read")
    /\ UNCHANGED <<fed, feeding, readyCh, consumer>>

\* readyCh <- result: the channel buffers one result per reader.
Send(r) ==
    /\ At(r, "send")
    /\ Cardinality(readyCh) < Cardinality(Workers)
    /\ readyCh' = readyCh \cup {task[r]}
    /\ pc' = [pc EXCEPT ![r] = "recv"]
    /\ task' = [task EXCEPT ![r] = None]
    /\ UNCHANGED <<fed, feeding, sem, consumer, err>>

SendCanceled(r) ==
    /\ At(r, "send") /\ Canceled
    /\ Release(Size[task[r]])
    /\ Quit(r, "canceled")
    /\ UNCHANGED <<fed, feeding, readyCh, consumer>>

----------------------------------------------------------------------------
(* The consumer *)

\* readyCh is closed by its own goroutine once every reader has returned.
ReadyClosed == \A r \in Readers : At(r, "done")

NoneLeft == next > N

\* Receive a result; the inner loop runs while the next group is at hand.
Receive ==
    /\ cpc = "recv" /\ ~NoneLeft
    /\ \E i \in readyCh :
         /\ readyCh' = readyCh \ {i}
         /\ pending' = pending \cup {i}
         /\ cpc' = IF next \in pending' THEN "process" ELSE "recv"
    /\ UNCHANGED <<fed, feeding, readers, sem, next, err>>

\* processGroupWithData succeeds: release the bytes and look for the next one.
Process ==
    /\ cpc = "process"
    /\ Release(Size[next])
    /\ pending' = pending \ {next}
    /\ next' = next + 1
    /\ cpc' = IF next + 1 \in pending' THEN "process" ELSE "recv"
    /\ UNCHANGED <<fed, feeding, readers, readyCh, err>>

\* The consumer returns.
ConsumerReturns(e) ==
    /\ cpc' = "done"
    /\ Keep(e)
    /\ UNCHANGED <<fed, feeding, readers, readyCh, next>>

ProcessFails ==
    /\ Failures
    /\ cpc = "process"
    /\ Release(Size[next])
    /\ pending' = pending \ {next}
    /\ ConsumerReturns("process")

ConsumerEnds ==
    /\ cpc = "recv"
    /\ \/ NoneLeft /\ ConsumerReturns(None)
       \/ ~NoneLeft /\ Canceled /\ ConsumerReturns("canceled")
       \/ /\ ~NoneLeft /\ ~Canceled /\ ReadyClosed /\ readyCh = {}
          /\ ConsumerReturns("unexpected")
    /\ UNCHANGED <<sem, pending>>

\* eg.Wait returns: every goroutine of the group has.
Returned == ~feeding /\ ReadyClosed /\ cpc = "done"

ReaderStep(r) ==
    \/ ReaderEnds(r) \/ AcquireCanceled(r) \/ Acquire(r) \/ AcquireGranted(r)
    \/ WaitCanceled(r) \/ Read(r) \/ ReadFails(r) \/ Send(r) \/ SendCanceled(r)

ConsumerStep == Receive \/ Process \/ ProcessFails \/ ConsumerEnds

Next ==
    /\ \/ \E r \in Readers : Feed(r) \/ ReaderStep(r)
       \/ FeederReturns
       \/ ConsumerStep
       \/ Returned /\ UNCHANGED goroutines
    /\ UNCHANGED conf

Spec == Init /\ [][Next]_vars

\* Goroutines are scheduled and reads return.
FairSpec ==
    /\ Spec
    /\ WF_vars(FeederReturns /\ UNCHANGED conf)
    /\ WF_vars(ConsumerStep /\ UNCHANGED conf)
    /\ \A r \in Readers : WF_vars((Feed(r) \/ ReaderStep(r)) /\ UNCHANGED conf)

----------------------------------------------------------------------------
(* Properties *)

ReaderLabels == {"recv", "acquire", "wait", "stuck", "read", "send", "done"}

\* What Process returns is a failure of a read or of an entry.  It is never the
\* bare cancellation that follows from one, and the consumer's "read pipeline
\* ended unexpectedly" never happens: as long as no one failed, every group
\* handed out reaches the consumer.
GenuineError == err \in {None, "read", "process"}

\* If Process returns nil, every group was processed.
NilMeansAll == Returned /\ err = None => next = N + 1

\* The two together: the error tells what happened, and nil that all is done.
HonestResult == GenuineError /\ NilMeansAll

\* The groups whose bytes are taken: granted, being read, buffered or processed.
Held ==
    {task[r] : r \in {q \in Readers : At(q, "read") \/ At(q, "send")
                                     \/ (At(q, "wait") /\ ~InQueue(q))}}
    \cup readyCh \cup pending

BytesOf(S) == Total([i \in Groups |-> IF i \in S THEN Size[i] ELSE 0], N)

\* WithReadAheadBytes "caps the total size of buffered group data": the bytes
\* taken are those of the groups held, on error paths too, and within the cap.
BudgetConserved ==
    Budget > 0 => /\ used = BytesOf(Held)
                  /\ used <= Budget

\* Process returns, with or without an error.
Terminates == <>Returned

\* Without a budget, or with a single reader, which takes the bytes in the order
\* in which the consumer gives them back, Process returns.
TerminatesInOrder == Budget = 0 \/ Cardinality(Workers) = 1 => <>Returned
=============================================================================
