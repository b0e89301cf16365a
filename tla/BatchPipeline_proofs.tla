------------------------ MODULE BatchPipeline_proofs ------------------------
(***************************************************************************)
(* GenuineError, NilMeansAll and BudgetConserved for any number of groups  *)
(* and readers and any sizes and budget.                                   *)
(***************************************************************************)
EXTENDS BatchPipeline, SequenceTheorems, NaturalsInduction, WellFoundedInduction, TLAPS

Busy == {"acquire", "wait", "stuck", "read", "send"}

\* The types of the variables other than the semaphore's.
PlacesOK ==
    /\ fed \in 0..N
    /\ feeding \in BOOLEAN
    /\ pc \in [Readers -> ReaderLabels]
    /\ task \in [Readers -> Groups \cup {None}]
    /\ cpc \in {"recv", "process", "done"}
    /\ next \in 1..N + 1
    /\ readyCh \subseteq Groups /\ pending \subseteq Groups
    /\ cpc = "process" => next \in pending
    /\ \A r \in Readers : pc[r] \in Busy => task[r] # None
    /\ conf \in Configs

\* As long as no one failed, the feeder stops and a reader returns only at the
\* end, and a group that was handed out has been processed or is with a reader,
\* in the channel or with the consumer, who never overlooks it.
Flow ==
    err = None =>
        /\ ~feeding => fed = N
        /\ \A r \in Workers : pc[r] = "done" => ~feeding
        /\ \A i \in 1..fed : i < next \/ i \in readyCh \/ i \in pending
                                \/ \E r \in Readers : pc[r] \in Busy /\ task[r] = i
        /\ cpc = "recv" => next \notin pending
        /\ cpc = "done" => next = N + 1

IInv == PlacesOK /\ Flow /\ GenuineError

\* Nothing is handed out yet.
LEMMA InitIInv == Init => IInv
  BY BatchAssumption DEF Init, IInv, PlacesOK, Flow, GenuineError, ReaderLabels, Busy, Workers

\* Every step of every goroutine preserves the invariant.
LEMMA StepIInv == IInv /\ [Next]_vars => IInv'
<1> SUFFICES ASSUME IInv, [Next]_vars PROVE IInv'
  OBVIOUS
<1>0. conf' = conf
  BY DEF Next, vars
<1> USE <1>0, BatchAssumption DEF IInv, Workers, PlacesOK, Flow, GenuineError, ReaderLabels,
        Busy, Groups, At, Goto, Quit, Keep, Canceled, readers, consumer, NoneLeft
<1>1. CASE UNCHANGED vars
  BY <1>1, Zenon DEF vars, goroutines
<1>2. ASSUME NEW r \in Readers, Feed(r) PROVE IInv'
  <2>1. PlacesOK' /\ GenuineError'
    BY <1>2 DEF Feed
  <2>2. ASSUME err = None, NEW i \in 1..fed'
        PROVE  i < next \/ i \in readyCh \/ i \in pending
                 \/ \E q \in Readers : pc'[q] \in Busy /\ task'[q] = i
    <3>1. CASE i = fed + 1
      BY <1>2, <3>1 DEF Feed
    <3>2. CASE i \in 1..fed
      BY <1>2, <2>2, <3>2 DEF Feed
    <3> QED
      BY <1>2, <2>2, <3>1, <3>2 DEF Feed
  <2>3. Flow'
    BY <1>2, <2>2 DEF Feed
  <2> QED
    BY <2>1, <2>3
<1>3. CASE FeederReturns
  BY <1>3, Zenon DEF FeederReturns
<1>4. ASSUME NEW r \in Readers, ReaderEnds(r) PROVE IInv'
  BY <1>4 DEF ReaderEnds
<1>5. ASSUME NEW r \in Readers, AcquireCanceled(r) PROVE IInv'
  BY <1>5 DEF AcquireCanceled
<1>6. ASSUME NEW r \in Readers, Acquire(r) PROVE IInv'
  <2>1. \E l \in {"read", "stuck", "wait"} : pc' = [pc EXCEPT ![r] = l]
    BY <1>6 DEF Acquire
  <2>2. UNCHANGED <<fed, feeding, task, readyCh, cpc, pending, next, err>>
    BY <1>6 DEF Acquire
  <2> QED
    BY <1>6, <2>1, <2>2 DEF Acquire
<1>7. ASSUME NEW r \in Readers, AcquireGranted(r) PROVE IInv'
  BY <1>7 DEF AcquireGranted
<1>8. ASSUME NEW r \in Readers, WaitCanceled(r) PROVE IInv'
  BY <1>8 DEF WaitCanceled
<1>9. ASSUME NEW r \in Readers, Read(r) PROVE IInv'
  BY <1>9 DEF Read
<1>10. ASSUME NEW r \in Readers, ReadFails(r) PROVE IInv'
  BY <1>10 DEF ReadFails
<1>11. ASSUME NEW r \in Readers, Send(r) PROVE IInv'
  <2>1. task[r] \in Groups /\ readyCh' = readyCh \cup {task[r]}
    BY <1>11 DEF Send
  <2>2. PlacesOK' /\ GenuineError'
    BY <1>11, <2>1, Zenon DEF Send
  <2>3. Flow'
    BY <1>11, <2>1 DEF Send
  <2> QED
    BY <2>2, <2>3
<1>12. ASSUME NEW r \in Readers, SendCanceled(r) PROVE IInv'
  BY <1>12 DEF SendCanceled
<1>13. CASE Receive
  <2>1. PICK i \in readyCh : Receive!2!(i)
    BY <1>13, Zenon DEF Receive
  <2>2. UNCHANGED <<fed, feeding, pc, task, next, err>>
    BY <1>13 DEF Receive
  <2>3. PlacesOK' /\ GenuineError'
    BY <2>1, <2>2
  <2>4. Flow'
    BY <1>13, <2>1, <2>2 DEF Receive
  <2> QED
    BY <2>3, <2>4
<1>14. CASE Process
  BY <1>14 DEF Process
<1>15. CASE ProcessFails
  BY <1>15 DEF ProcessFails, ConsumerReturns
<1>16. CASE ConsumerEnds
  <2>1. CASE NoneLeft
    <3>1. UNCHANGED <<fed, feeding, pc, task, readyCh, next, err, pending>> /\ cpc' = "done"
      BY <1>16, <2>1 DEF ConsumerEnds, ConsumerReturns
    <3>2. next = N + 1
      BY <2>1
    <3>3. PlacesOK' /\ GenuineError'
      BY <3>1
    <3>4. Flow'
      BY <3>1, <3>2
    <3> QED
      BY <3>3, <3>4
  <2>2. CASE ~NoneLeft /\ Canceled
    BY <1>16, <2>2, Zenon DEF ConsumerEnds, ConsumerReturns
  <2>3. ~(~NoneLeft /\ ~Canceled /\ cpc = "recv" /\ ReadyClosed /\ readyCh = {})
    <3>1. conf.workers # {} /\ conf.workers \subseteq Readers
      OBVIOUS
    <3>2. PICK w \in Workers : TRUE
      BY <3>1
    <3>3. ReadyClosed => pc[w] = "done"
      BY <3>1 DEF ReadyClosed
    <3>4. ASSUME ~NoneLeft, ~Canceled, cpc = "recv", ReadyClosed, readyCh = {} PROVE FALSE
      <4>1. fed = N
        BY <3>3, <3>4
      <4>2. next \in 1..fed
        BY <4>1, <3>4
      <4>3. ASSUME NEW r \in Readers PROVE pc[r] \notin Busy
        BY <3>4 DEF ReadyClosed
      <4> QED
        BY <4>2, <4>3, <3>4
    <3> QED
      BY <3>4
  <2> QED
    BY <1>16, <2>1, <2>2, <2>3 DEF ConsumerEnds
<1> QED
  BY <1>1, <1>2, <1>3, <1>4, <1>5, <1>6, <1>7, <1>8, <1>9, <1>10, <1>11, <1>12, <1>13,
     <1>14, <1>15, <1>16, Zenon
  DEF Next, ReaderStep, ConsumerStep, goroutines, vars

\* Process returns a read or processing failure or nil; it never reports the
\* cancellation that follows from another error, nor an early end of the
\* pipeline.
LEMMA GenuineErrorHolds == Spec => []GenuineError
<1>1. IInv => GenuineError
  BY DEF IInv
<1> QED
  BY InitIInv, StepIInv, <1>1, PTL DEF Spec

\* A nil error means that the consumer went through all groups.
LEMMA NilMeansAllHolds == Spec => []NilMeansAll
<1>1. IInv => NilMeansAll
  BY DEF IInv, Flow, NilMeansAll, Returned
<1> QED
  BY InitIInv, StepIInv, <1>1, PTL DEF Spec

\* The result of Process is honest: Keep stores the first error, which no
\* cancellation precedes, and the consumer ends without one only after N groups.
THEOREM HonestResultHolds == Spec => []HonestResult
  BY GenuineErrorHolds, NilMeansAllHolds, PTL DEF HonestResult

\* Zenon proves the leaves below that say nothing else; those with arithmetic cite SMT.
USE Zenon


-----------------------------------------------------------------------------
(* Sums *)

\* A set of numbers that has 0, and with a number the next one, has them all.
LEMMA NatSet ==
  ASSUME NEW T \in SUBSET Nat, 0 \in T, \A n \in T : n + 1 \in T
  PROVE  T = Nat
<1>1. SUFFICES ASSUME Nat \ T # {} PROVE FALSE
  OBVIOUS
<1>2. IsWellFoundedOn(OpToRel(<, Nat), Nat)
  BY NatLessThanWellFounded
<1>3. \E x \in Nat \ T : \A y \in Nat \ T : ~(<<y, x>> \in OpToRel(<, Nat))
  BY <1>1, <1>2, WFMin
<1>4. PICK x \in Nat \ T : \A y \in Nat \ T : ~(y < x)
  BY <1>3 DEF OpToRel
<1>5. x # 0 /\ x - 1 \in Nat /\ x - 1 < x
  BY SMT
<1>6. x - 1 \in T
  BY <1>4, <1>5
<1>7. (x - 1) + 1 \in T
  BY <1>6
<1> QED
  BY <1>7, SMT

\* g has the sums of f up to n, as Total computes them.
SumStep(f, g, i) == IF i = 0 THEN 0 ELSE g[i - 1] + f[i]
SumsUpTo(f, n, g) == g = [i \in 0..n |-> SumStep(f, g, i)]
Sums(f, g) == g = [i \in Nat |-> SumStep(f, g, i)]

\* There are sums up to any number.
LEMMA SumsExist ==
  ASSUME NEW f
  PROVE  \A n \in Nat : \E g : SumsUpTo(f, n, g)
<1> DEFINE T == {n \in Nat : \E g : SumsUpTo(f, n, g)}
<1>1. 0 \in T
  <2> DEFINE g == [i \in 0..0 |-> 0]
  <2>1. SumsUpTo(f, 0, g)
    BY SMT DEF SumsUpTo, SumStep
  <2> QED
    BY <2>1
<1>2. ASSUME NEW n \in T PROVE n + 1 \in T
  <2>1. PICK g : SumsUpTo(f, n, g)
    BY <1>2
  <2> DEFINE h == [i \in 0..n + 1 |-> IF i = n + 1 THEN g[n] + f[n + 1] ELSE g[i]]
  <2>2. n \in Nat
    BY <1>2
  <2>3. ASSUME NEW i \in 0..n + 1 PROVE h[i] = SumStep(f, h, i)
    <3>1. CASE i = n + 1
      BY <2>2, <3>1, SMT DEF SumStep
    <3>2. CASE i \in 0..n
      <4>1. g[i] = SumStep(f, g, i)
        BY <2>1, <3>2 DEF SumsUpTo
      <4> QED
        BY <2>2, <3>2, <4>1, SMT DEF SumStep
    <3> QED
      BY <2>2, <3>1, <3>2, SMT
  <2>4. SumsUpTo(f, n + 1, h)
    BY <2>3 DEF SumsUpTo
  <2> QED
    BY <2>2, <2>4, SMT
<1>3. T = Nat
  <2> HIDE DEF T
  <2> QED
    BY <1>1, <1>2, NatSet DEF T
<1> QED
  BY <1>3

\* Sums of the same numbers agree as far as both go.
LEMMA SumsAgree ==
  ASSUME NEW f, NEW n \in Nat, NEW g, SumsUpTo(f, n, g), NEW m \in Nat, NEW h, SumsUpTo(f, m, h),
         n <= m
  PROVE  g[n] = h[n]
<1> DEFINE T == {i \in Nat : i <= n => g[i] = h[i]}
<1>1. 0 \in T
  BY SMT DEF SumsUpTo, SumStep
<1>2. ASSUME NEW i \in T PROVE i + 1 \in T
  <2>1. CASE i + 1 <= n
    <3>1. g[i] = h[i]
      BY <1>2, <2>1, SMT
    <3>2. i + 1 \in 0..n /\ i + 1 \in 0..m /\ (i + 1) - 1 = i /\ i + 1 # 0
      BY <2>1, SMT
    <3>3. g[i + 1] = SumStep(f, g, i + 1) /\ h[i + 1] = SumStep(f, h, i + 1)
      BY <3>2 DEF SumsUpTo
    <3>4. g[i + 1] = g[i] + f[i + 1] /\ h[i + 1] = h[i] + f[i + 1]
      BY <3>2, <3>3 DEF SumStep
    <3> QED
      BY <3>1, <3>4, SMT
  <2> QED
    BY <2>1, SMT
<1>3. T = Nat
  <2> HIDE DEF T
  <2> QED
    BY <1>1, <1>2, NatSet DEF T
<1> QED
  BY <1>3, SMT

\* Total computes the sums: none is 0, and one more adds the last.
LEMMA TotalFacts ==
  ASSUME NEW f
  PROVE  Total(f, 0) = 0 /\ \A n \in Nat : Total(f, n + 1) = Total(f, n) + f[n + 1]
<1> DEFINE Upto(n) == CHOOSE g : SumsUpTo(f, n, g)
           all == [n \in Nat |-> Upto(n)[n]]
<1>1. \A n \in Nat : SumsUpTo(f, n, Upto(n))
  BY SumsExist
<1>2. ASSUME NEW n \in Nat PROVE all[n] = SumStep(f, all, n)
  <2>1. Upto(n)[n] = SumStep(f, Upto(n), n)
    <3>1. n \in 0..n
      BY SMT
    <3> HIDE DEF Upto
    <3> QED
      BY <1>1, <3>1 DEF SumsUpTo
  <2>2. CASE n = 0
    BY <2>1, <2>2 DEF SumStep
  <2>3. CASE n # 0
    <3>1. n - 1 \in Nat /\ n - 1 <= n
      BY <2>3, SMT
    <3>2. Upto(n - 1)[n - 1] = Upto(n)[n - 1]
      <4>1. SumsUpTo(f, n - 1, Upto(n - 1)) /\ SumsUpTo(f, n, Upto(n))
        BY <1>1, <3>1
      <4> HIDE DEF Upto
      <4> QED
        BY <3>1, <4>1, SumsAgree, SMT
    <3>3. all[n - 1] = Upto(n - 1)[n - 1] /\ all[n] = Upto(n)[n]
      BY <3>1
    <3> HIDE DEF Upto, all
    <3> QED
      BY <2>1, <2>3, <3>2, <3>3 DEF SumStep
  <2> QED
    BY <2>2, <2>3
<1>3. Sums(f, all)
  <2>1. all = [n \in Nat |-> all[n]]
    BY SMT
  <2> HIDE DEF all
  <2>2. all = [n \in Nat |-> SumStep(f, all, n)]
    BY <1>2, <2>1
  <2> QED
    BY <2>2 DEF Sums
<1> DEFINE s == CHOOSE g : Sums(f, g)
<1>4. Sums(f, s)
  BY <1>3
<1>5. \A n : Total(f, n) = s[n]
  BY DEF Total, Sums, SumStep
<1> HIDE DEF s
<1>6. s[0] = 0
  BY <1>4, SMT DEF Sums, SumStep
<1>7. ASSUME NEW n \in Nat PROVE s[n + 1] = s[n] + f[n + 1]
  <2>1. n + 1 \in Nat /\ n + 1 # 0 /\ (n + 1) - 1 = n
    BY SMT
  <2>2. s[n + 1] = SumStep(f, s, n + 1)
    BY <1>4, <2>1 DEF Sums
  <2> QED
    BY <2>1, <2>2 DEF SumStep
<1> QED
  BY <1>5, <1>6, <1>7

\* A sum of natural numbers is one.
LEMMA TotalNat ==
  ASSUME NEW f, NEW n \in Nat, \A i \in 1..n : f[i] \in Nat
  PROVE  Total(f, n) \in Nat
<1> DEFINE T == {i \in Nat : i <= n => Total(f, i) \in Nat}
<1>1. 0 \in T
  BY TotalFacts, SMT
<1>2. ASSUME NEW i \in T PROVE i + 1 \in T
  <2>1. i \in Nat /\ Total(f, i + 1) = Total(f, i) + f[i + 1]
    BY TotalFacts
  <2> QED
    BY <2>1, SMT
<1>3. T = Nat
  <2> HIDE DEF T
  <2> QED
    BY <1>1, <1>2, NatSet DEF T
<1> QED
  BY <1>3, SMT

\* Where g has y in place of x, and otherwise what f has, their sums differ by
\* the difference of the two.
LEMMA TotalPut ==
  ASSUME NEW n \in Nat, NEW f, NEW g, \A i \in 1..n : f[i] \in Nat /\ g[i] \in Nat,
         NEW x \in Nat \ {0}, \A i \in 1..n : i # x => f[i] = g[i]
  PROVE  Total(g, n) = IF x <= n THEN (Total(f, n) - f[x]) + g[x] ELSE Total(f, n)
<1> DEFINE P(i) == Total(g, i) = IF x <= i THEN (Total(f, i) - f[x]) + g[x] ELSE Total(f, i)
           T == {i \in Nat : i <= n => P(i)}
<1>1. 0 \in T
  BY TotalFacts, SMT
<1>2. ASSUME NEW i \in T PROVE i + 1 \in T
  <2>0. i \in Nat
    OBVIOUS
  <2>1. CASE i + 1 <= n
    <3>1. P(i) /\ i + 1 \in 1..n /\ 1..i \subseteq 1..n
      BY <2>0, <2>1, SMT
    <3>2. /\ Total(f, i + 1) = Total(f, i) + f[i + 1]
          /\ Total(g, i + 1) = Total(g, i) + g[i + 1]
      BY <2>0, TotalFacts
    <3>3. Total(f, i) \in Nat /\ f[i + 1] \in Nat /\ g[i + 1] \in Nat
      BY <2>0, <3>1, TotalNat
    <3>4. CASE x = i + 1
      BY <2>0, <3>1, <3>2, <3>3, <3>4, SMT
    <3>5. CASE x # i + 1
      <4>1. f[i + 1] = g[i + 1]
        BY <3>1, <3>5
      <4>2. CASE x <= i
        <5>1. f[x] \in Nat /\ g[x] \in Nat
          BY <2>0, <2>1, <4>2, SMT
        <5> QED
          BY <2>0, <3>1, <3>2, <3>3, <4>1, <4>2, <5>1, SMT
      <4>3. CASE ~(x <= i)
        BY <2>0, <3>1, <3>2, <3>3, <3>5, <4>1, <4>3, SMT
      <4> QED
        BY <4>2, <4>3
    <3> QED
      BY <3>4, <3>5
  <2> QED
    BY <2>0, <2>1, SMT
<1>3. T = Nat
  <2> HIDE DEF T
  <2> QED
    BY <1>1, <1>2, NatSet DEF T
<1> QED
  BY <1>3, SMT

\* A sum of zeros is zero.
LEMMA TotalZero ==
  ASSUME NEW f, NEW n \in Nat, \A i \in 1..n : f[i] = 0
  PROVE  Total(f, n) = 0
<1> DEFINE T == {i \in Nat : i <= n => Total(f, i) = 0}
<1>1. 0 \in T
  BY TotalFacts, SMT
<1>2. ASSUME NEW i \in T PROVE i + 1 \in T
  <2>1. i \in Nat /\ Total(f, i + 1) = Total(f, i) + f[i + 1]
    BY TotalFacts
  <2> QED
    BY <2>1, SMT
<1>3. T = Nat
  <2> HIDE DEF T
  <2> QED
    BY <1>1, <1>2, NatSet DEF T
<1> QED
  BY <1>3, SMT

-----------------------------------------------------------------------------
(* The semaphore *)

\* The bytes of no group are 0, and a further group adds its own.
LEMMA BytesFacts ==
  ASSUME conf \in Configs
  PROVE  /\ BytesOf({}) = 0
         /\ \A S \in SUBSET Groups :
              /\ BytesOf(S) \in Nat
              /\ \A x \in Groups \ S : BytesOf(S \cup {x}) = BytesOf(S) + Size[x]
<1>0. N \in Nat /\ Groups = 1..N /\ \A i \in 1..N : Size[i] \in Nat
  BY BatchAssumption DEF Size, Groups
<1> DEFINE b(S) == [i \in Groups |-> IF i \in S THEN Size[i] ELSE 0]
<1>1. \A S : \A i \in 1..N : b(S)[i] = (IF i \in S THEN Size[i] ELSE 0) /\ b(S)[i] \in Nat
  BY <1>0, SMT
<1>2. \A S : BytesOf(S) = Total(b(S), N)
  BY DEF BytesOf
<1> HIDE DEF b
<1>3. BytesOf({}) = 0
  BY <1>0, <1>1, <1>2, TotalZero
<1>4. ASSUME NEW S \in SUBSET Groups PROVE BytesOf(S) \in Nat
  BY <1>0, <1>1, <1>2, TotalNat
<1>5. ASSUME NEW S \in SUBSET Groups, NEW x \in Groups \ S
      PROVE  BytesOf(S \cup {x}) = BytesOf(S) + Size[x]
  <2>1. x \in Nat \ {0} /\ x <= N
    BY <1>0, SMT
  <2>2. \A i \in 1..N : i # x => b(S)[i] = b(S \cup {x})[i]
    BY <1>1
  <2>3. b(S)[x] = 0 /\ b(S \cup {x})[x] = Size[x]
    BY <1>0, <1>1
  <2>4. Total(b(S \cup {x}), N) = (Total(b(S), N) - b(S)[x]) + b(S \cup {x})[x]
    <3>1. Total(b(S \cup {x}), N) =
            IF x <= N THEN (Total(b(S), N) - b(S)[x]) + b(S \cup {x})[x] ELSE Total(b(S), N)
      BY ONLY <1>0, <1>1, <2>1, <2>2, TotalPut
    <3> QED
      BY <2>1, <3>1
  <2> QED
    BY <1>0, <1>2, <1>4, <2>3, <2>4, SMT
<1> QED
  BY <1>3, <1>4, <1>5

\* q is a queue of readers that wait for different groups, none of them in H.
Queue(q, H) ==
    /\ q \in Seq(Readers)
    /\ \A i \in 1..Len(q) : task[q[i]] \in Groups \ H
    /\ \A i, j \in 1..Len(q) : task[q[i]] = task[q[j]] => i = j

FirstOf(q, m) == {task[q[i]] : i \in 1..m}

\* Granting the first m requests of a queue adds what they ask for.
LEMMA GrantFacts ==
  ASSUME conf \in Configs, NEW H \in SUBSET Groups, NEW q, Queue(q, H)
  PROVE  \A m \in 0..Len(q) : /\ SizesOf(q, m) \in Nat
                              /\ BytesOf(H \cup FirstOf(q, m)) = BytesOf(H) + SizesOf(q, m)
<1> DEFINE s == [i \in 1..Len(q) |-> Size[task[q[i]]]]
<1>0. Len(q) \in Nat
  BY LenProperties DEF Queue
<1>1. \A i \in 1..Len(q) : s[i] = Size[task[q[i]]] /\ s[i] \in Nat
  BY BatchAssumption, SMT DEF Queue, Size
<1>2. \A m : SizesOf(q, m) = Total(s, m)
  BY DEF SizesOf
<1> HIDE DEF s
<1> DEFINE P(m) == /\ SizesOf(q, m) \in Nat
                   /\ BytesOf(H \cup FirstOf(q, m)) = BytesOf(H) + SizesOf(q, m)
           T == {m \in Nat : m <= Len(q) => P(m)}
<1>3. 0 \in T
  <2>1. FirstOf(q, 0) = {}
    BY SMT DEF FirstOf
  <2>2. SizesOf(q, 0) = 0
    BY <1>2, TotalFacts
  <2>3. H \cup FirstOf(q, 0) = H
    BY <2>1
  <2>4. BytesOf(H) \in Nat
    BY BytesFacts
  <2>5. BytesOf(H) + 0 = BytesOf(H) /\ 0 \in Nat
    BY <2>4, SMT
  <2>6. P(0)
    BY <2>2, <2>3, <2>5
  <2> HIDE DEF P
  <2> QED
    BY <2>5, <2>6
<1>4. ASSUME NEW m \in T PROVE m + 1 \in T
  <2>0. m \in Nat
    OBVIOUS
  <2>1. CASE m + 1 <= Len(q)
    <3>1. P(m) /\ m + 1 \in 1..Len(q) /\ 1..m + 1 = 1..m \cup {m + 1} /\ 1..m \subseteq 1..Len(q)
          /\ m + 1 \notin 1..m
      BY <1>0, <2>0, <2>1, SMT
    <3> DEFINE x == task[q[m + 1]]
               S == H \cup FirstOf(q, m)
    <3>2. SizesOf(q, m + 1) = SizesOf(q, m) + Size[x] /\ Size[x] \in Nat
      <4>1. Total(s, m + 1) = Total(s, m) + s[m + 1]
        BY ONLY <2>0, TotalFacts
      <4> QED
        BY <1>1, <1>2, <3>1, <4>1
    <3>3. S \in SUBSET Groups /\ x \in Groups \ S
      <4>1. \A i \in 1..m : i \in 1..Len(q) /\ i # m + 1
        BY <3>1
      <4>2. \A i \in 1..m : task[q[i]] \in Groups /\ task[q[i]] # x
        BY <3>1, <4>1 DEF Queue
      <4>3. x \in Groups \ H
        BY <3>1 DEF Queue
      <4> QED
        BY <4>2, <4>3 DEF FirstOf
    <3>4. H \cup FirstOf(q, m + 1) = S \cup {x}
      BY <3>1 DEF FirstOf
    <3>5. BytesOf(S \cup {x}) = BytesOf(S) + Size[x] /\ BytesOf(H) \in Nat
      BY <3>3, BytesFacts
    <3> HIDE DEF x, S
    <3>6. BytesOf(S) = BytesOf(H) + SizesOf(q, m) /\ SizesOf(q, m) \in Nat
      BY <3>1 DEF S
    <3>7. P(m + 1)
      <4>1. SizesOf(q, m) + Size[x] \in Nat
            /\ (BytesOf(H) + SizesOf(q, m)) + Size[x] = BytesOf(H) + (SizesOf(q, m) + Size[x])
        BY <3>2, <3>5, <3>6, SMT
      <4> QED
        BY <3>2, <3>4, <3>5, <3>6, <4>1
    <3>8. m + 1 \in Nat
      BY <2>0, SMT
    <3> QED
      BY <3>7, <3>8
  <2> HIDE DEF P
  <2> QED
    BY <1>0, <2>0, <2>1, SMT
<1>5. T = Nat
  <2> HIDE DEF T
  <2> QED
    BY <1>3, <1>4, NatSet DEF T
<1> HIDE DEF P
<1>6. \A m \in 0..Len(q) : P(m)
  BY <1>0, <1>5, SMT
<1> QED
  BY <1>6 DEF P

\* notifyWaiters finds how many requests fit, and what it grants does fit.
LEMMA GrantedFits ==
  ASSUME conf \in Configs, NEW H \in SUBSET Groups, NEW q, Queue(q, H),
         NEW u \in Nat, u <= Budget
  PROVE  Granted(q, u) \in 0..Len(q) /\ u + SizesOf(q, Granted(q, u)) <= Budget
<1>0. Len(q) \in Nat /\ Budget \in Nat
  BY BatchAssumption, LenProperties DEF Queue, Budget
<1>1. \A m \in 0..Len(q) : SizesOf(q, m) \in Nat
  BY GrantFacts
<1> DEFINE Fits(m) == u + SizesOf(q, m) <= Budget
           Last(m) == Fits(m) /\ (m < Len(q) => u + SizesOf(q, m + 1) > Budget)
           T == {m \in Nat : m <= Len(q) => Fits(m) \/ \E k \in 0..Len(q) : Last(k)}
<1>2. 0 \in T
  <2>1. SizesOf(q, 0) = 0
    BY TotalFacts DEF SizesOf
  <2> QED
    BY <2>1, SMT
<1>3. ASSUME NEW m \in T PROVE m + 1 \in T
  <2>0. m \in Nat
    OBVIOUS
  <2>1. CASE m + 1 <= Len(q) /\ Fits(m) /\ ~Fits(m + 1)
    <3>1. m \in 0..Len(q) /\ SizesOf(q, m + 1) \in Nat
      BY <1>0, <1>1, <2>0, <2>1, SMT
    <3>2. Last(m)
      BY <1>0, <2>1, <3>1, SMT
    <3> QED
      BY <2>0, <3>1, <3>2, SMT
  <2>2. m + 1 <= Len(q) => m <= Len(q)
    BY <1>0, <2>0, SMT
  <2>3. m + 1 \in Nat
    BY <2>0, SMT
  <2> QED
    BY <2>1, <2>2, <2>3
<1>4. T = Nat
  <2> HIDE DEF T
  <2> QED
    BY <1>2, <1>3, NatSet DEF T
<1>5. \E k \in 0..Len(q) : Last(k)
  <2>1. Fits(Len(q)) => Last(Len(q)) /\ Len(q) \in 0..Len(q)
    BY <1>0, SMT
  <2>2. Len(q) <= Len(q)
    BY <1>0, SMT
  <2> QED
    BY <1>0, <1>4, <2>1, <2>2
<1>6. Granted(q, u) \in 0..Len(q) /\ Last(Granted(q, u))
  BY <1>5 DEF Granted
<1> QED
  BY <1>6


\* A group that was handed out is in one place: with one reader, in the channel
\* or with the consumer.
Once ==
    /\ readyCh \subseteq 1..fed /\ pending \subseteq 1..fed
    /\ readyCh \cap pending = {}
    /\ \A r \in Readers : pc[r] \in Busy =>
         /\ task[r] \in 1..fed
         /\ task[r] \notin readyCh \cup pending
         /\ \A q \in Readers : pc[q] \in Busy /\ task[q] = task[r] => q = r

Queued(q) == {q[i] : i \in 1..Len(q)}

\* The groups whose bytes are taken while the readers in q wait for theirs.
HeldBeside(p, t, X, q) ==
    {t[r] : r \in {x \in Readers : p[x] = "read" \/ p[x] = "send"
                                    \/ (p[x] = "wait" /\ x \notin Queued(q))}} \cup X

Distinct(q) == \A i, j \in 1..Len(q) : q[i] = q[j] => i = j

\* Readers wait in the queue once, and the bytes taken are those of the groups
\* held and within the budget.
SemOK ==
    /\ waiters \in Seq(Readers) /\ Distinct(waiters)
    /\ \A i \in 1..Len(waiters) : pc[waiters[i]] = "wait"
    /\ used = BytesOf(Held)
    /\ used <= Budget

BInv == IInv /\ Once /\ (Budget > 0 => SemOK)

\* The groups held, in terms of the queue of the semaphore.
LEMMA HeldIs == Held = HeldBeside(pc, task, readyCh \cup pending, waiters)
  BY DEF Held, HeldBeside, At, InQueue, Queued

\* The same after a step.
LEMMA HeldNext == Held' = HeldBeside(pc', task', readyCh' \cup pending', waiters')
  BY DEF Held, HeldBeside, At, InQueue, Queued

\* Every step keeps every group in one place.
LEMMA OnceStep ==
  ASSUME IInv, Once, Next
  PROVE  Once'
<1>0. fed \in Nat /\ fed' \in {fed, fed + 1} /\ 1..fed \subseteq 1..fed'
  <2>1. fed \in Nat
    BY SMT DEF IInv, PlacesOK
  <2>2. fed' \in {fed, fed + 1}
    BY DEF Next, Feed, FeederReturns, ReaderStep, ConsumerStep, ReaderEnds,
      AcquireCanceled, Acquire, AcquireGranted, WaitCanceled, Read, ReadFails, Send, SendCanceled,
      Receive, Process, ProcessFails, ConsumerEnds, ConsumerReturns, goroutines
  <2> QED
    BY <2>1, <2>2, SMT
<1>1. ASSUME NEW r \in Readers, Feed(r) PROVE Once'
  <2>1. fed' = fed + 1 /\ fed + 1 \notin 1..fed /\ fed + 1 \in 1..fed'
    BY <1>0, <1>1, SMT DEF Feed
  <2>2. pc' = [pc EXCEPT ![r] = "acquire"] /\ task' = [task EXCEPT ![r] = fed + 1]
        /\ readyCh' = readyCh /\ pending' = pending
    BY <1>1 DEF Feed, consumer
  <2>3. pc'[r] = "acquire" /\ task'[r] = fed + 1
        /\ \A q \in Readers : q # r => pc'[q] = pc[q] /\ task'[q] = task[q]
    BY <2>2 DEF IInv, PlacesOK
  <2> QED
    BY <1>0, <2>1, <2>2, <2>3, SMT DEF Once
\* Reader r goes from one busy place to another, or returns.
<1>2. ASSUME NEW r \in Readers, pc[r] \in Busy \/ pc'[r] \notin Busy,
             \A q \in Readers : q # r => pc'[q] = pc[q] /\ task'[q] = task[q],
             pc'[r] \in Busy => task'[r] = task[r],
             UNCHANGED <<readyCh, pending>>
      PROVE  Once'
  BY <1>0, <1>2 DEF Once
<1>3. ASSUME NEW r \in Readers, Quit(r, None) \/ Quit(r, "canceled") \/ Quit(r, "read"),
             UNCHANGED <<readyCh, pending>>
      PROVE  Once'
  <2>1. pc'[r] = "done" /\ \A q \in Readers : q # r => pc'[q] = pc[q] /\ task'[q] = task[q]
    BY <1>3 DEF Quit, IInv, PlacesOK
  <2> QED
    BY <1>2, <1>3, <2>1 DEF Busy
<1>4. ASSUME NEW r \in Readers, pc[r] \in Busy,
             NEW l \in {"read", "stuck", "wait", "send"}, Goto(r, l),
             UNCHANGED <<readyCh, pending>>
      PROVE  Once'
  <2>1. \A q \in Readers : q # r => pc'[q] = pc[q]
    BY <1>4 DEF Goto, IInv, PlacesOK
  <2> QED
    BY <1>2, <1>4, <2>1 DEF Goto
<1>5. ASSUME NEW r \in Readers, Send(r) PROVE Once'
  <2>1. pc' = [pc EXCEPT ![r] = "recv"] /\ task' = [task EXCEPT ![r] = None]
        /\ readyCh' = readyCh \cup {task[r]} /\ pending' = pending /\ pc[r] \in Busy
    BY <1>5 DEF Send, consumer, At, Busy
  <2>2. pc'[r] \notin Busy /\ \A q \in Readers : q # r => pc'[q] = pc[q] /\ task'[q] = task[q]
    BY <2>1 DEF IInv, PlacesOK, Busy
  <2>3. task[r] \in 1..fed /\ task[r] \notin pending
    BY <2>1 DEF Once
  <2>4. readyCh' \subseteq 1..fed' /\ pending' \subseteq 1..fed' /\ readyCh' \cap pending' = {}
    BY <1>0, <2>1, <2>3 DEF Once
  <2>5. ASSUME NEW p \in Readers, pc'[p] \in Busy
        PROVE  /\ task'[p] \in 1..fed'
               /\ task'[p] \notin readyCh' \cup pending'
               /\ \A q \in Readers : pc'[q] \in Busy /\ task'[q] = task'[p] => q = p
    <3>1. p # r /\ pc[p] \in Busy /\ task'[p] = task[p]
      BY <2>2, <2>5
    <3>2. task[p] # task[r]
      BY <2>1, <3>1 DEF Once
    <3>3. task[p] \in 1..fed /\ task[p] \notin readyCh \cup pending
          /\ \A q \in Readers : pc[q] \in Busy /\ task[q] = task[p] => q = p
      BY <3>1 DEF Once
    <3>4. \A q \in Readers : pc'[q] \in Busy => pc[q] \in Busy /\ task'[q] = task[q]
      BY <2>2
    <3>5. task'[p] \in 1..fed' /\ task'[p] \notin readyCh' \cup pending'
      BY <1>0, <2>1, <3>1, <3>2, <3>3, SMT
    <3>6. \A q \in Readers : pc'[q] \in Busy /\ task'[q] = task'[p] => q = p
      BY <3>1, <3>3, <3>4
    <3> QED
      BY <3>5, <3>6
  <2> QED
    BY <2>4, <2>5 DEF Once
<1>6. ASSUME NEW r \in Readers, ReaderStep(r) PROVE Once'
  <2>1. CASE ReaderEnds(r)
    BY <1>3, <2>1 DEF ReaderEnds, consumer
  <2>2. CASE AcquireCanceled(r)
    BY <1>3, <2>2 DEF AcquireCanceled, consumer
  <2>3. CASE Acquire(r)
    <3>1. pc[r] \in Busy /\ UNCHANGED <<readyCh, pending>>
      BY <2>3 DEF Acquire, consumer, At, Busy
    <3>2. Goto(r, "read") \/ Goto(r, "stuck") \/ Goto(r, "wait")
      BY <2>3 DEF Acquire
    <3> QED
      BY <1>4, <3>1, <3>2
  <2>4. CASE AcquireGranted(r)
    BY <1>4, <2>4 DEF AcquireGranted, consumer, At, Busy
  <2>5. CASE WaitCanceled(r)
    BY <1>3, <2>5 DEF WaitCanceled, consumer
  <2>6. CASE Read(r)
    BY <1>4, <2>6 DEF Read, consumer, At, Busy
  <2>7. CASE ReadFails(r)
    BY <1>3, <2>7 DEF ReadFails, consumer
  <2>8. CASE Send(r)
    BY <1>5, <2>8
  <2>9. CASE SendCanceled(r)
    BY <1>3, <2>9 DEF SendCanceled, consumer
  <2> QED
    BY <1>6, <2>1, <2>2, <2>3, <2>4, <2>5, <2>6, <2>7, <2>8, <2>9 DEF ReaderStep
\* The consumer takes groups from the channel, and drops those it is done with.
<1>7. ASSUME readyCh' \subseteq readyCh, pending' \subseteq pending \cup (readyCh \ readyCh'),
             UNCHANGED <<pc, task>>
      PROVE  Once'
  BY <1>0, <1>7 DEF Once
<1>8. CASE ConsumerStep
  BY <1>7, <1>8 DEF ConsumerStep, Receive, Process, ProcessFails, ConsumerEnds, ConsumerReturns,
    readers
<1>9. CASE FeederReturns \/ UNCHANGED goroutines
  BY <1>7, <1>9 DEF FeederReturns, goroutines, readers, consumer
<1> QED
  BY <1>1, <1>6, <1>8, <1>9 DEF Next

\* After notifyWaiters on a queue of waiting readers, the bytes taken are those of
\* the groups held.
LEMMA Notified ==
  ASSUME conf \in Configs, conf' = conf, NEW q, NEW H \in SUBSET Groups, Queue(q, H), Distinct(q),
         BytesOf(H) <= Budget, Notify(q, BytesOf(H)),
         \A i \in 1..Len(q) : pc'[q[i]] = "wait" /\ task'[q[i]] = task[q[i]],
         H = HeldBeside(pc', task', readyCh' \cup pending', q)
  PROVE  SemOK'
<1> DEFINE m == Granted(q, BytesOf(H))
<1>1. BytesOf(H) \in Nat
  BY BytesFacts
<1>2. m \in 0..Len(q) /\ BytesOf(H) + SizesOf(q, m) <= Budget
  BY <1>1, GrantedFits
<1>3. used' = BytesOf(H \cup FirstOf(q, m)) /\ used' <= Budget
  <2>1. used' = BytesOf(H) + SizesOf(q, m)
    BY DEF Notify
  <2> HIDE DEF m
  <2> QED
    BY <1>2, <2>1, GrantFacts
<1>4. waiters' = SubSeq(q, m + 1, Len(q))
  BY DEF Notify
<1> HIDE DEF m
<1>5. q \in Seq(Readers) /\ Len(q) \in Nat /\ m \in Nat
  BY <1>2, LenProperties, SMT DEF Queue
<1>6. /\ waiters' \in Seq(Readers)
      /\ Len(waiters') = Len(q) - m
      /\ \A i \in 1..Len(waiters') : waiters'[i] = q[i + m]
  BY <1>2, <1>4, <1>5, SMT
<1>7. \A i \in 1..Len(waiters') : i + m \in 1..Len(q) /\ i + m \notin 1..m
  BY <1>2, <1>5, <1>6, SMT
<1>8. ASSUME NEW i \in 1..Len(q), i \notin 1..m PROVE q[i] \in Queued(waiters')
  <2>1. i - m \in 1..Len(waiters') /\ (i - m) + m = i
    BY <1>2, <1>5, <1>6, <1>8, SMT
  <2> QED
    BY <1>6, <2>1 DEF Queued
<1>9. Distinct(waiters')
  <2>1. ASSUME NEW i \in 1..Len(waiters'), NEW j \in 1..Len(waiters'), waiters'[i] = waiters'[j]
        PROVE  i = j
    <3>1. q[i + m] = q[j + m] /\ i + m \in 1..Len(q) /\ j + m \in 1..Len(q)
      BY <1>6, <1>7, <2>1
    <3>2. i + m = j + m
      BY <3>1 DEF Distinct
    <3> QED
      BY <1>5, <3>2, SMT
  <2> QED
    BY <2>1 DEF Distinct
<1>10. \A i \in 1..Len(waiters') : pc'[waiters'[i]] = "wait"
  BY <1>6, <1>7
<1>11. Held' = H \cup FirstOf(q, m)
  <2>1. 1..m \subseteq 1..Len(q)
    BY <1>2, <1>5, SMT
  <2>2. Queued(waiters') = {q[i] : i \in (1..Len(q)) \ (1..m)}
    <3>1. ASSUME NEW x \in Queued(waiters') PROVE x \in {q[i] : i \in (1..Len(q)) \ (1..m)}
      <4>1. PICK j \in 1..Len(waiters') : x = waiters'[j]
        BY <3>1 DEF Queued
      <4>2. x = q[j + m] /\ j + m \in (1..Len(q)) \ (1..m)
        BY <1>6, <1>7, <4>1
      <4> QED
        BY <4>2
    <3> QED
      BY <1>8, <3>1
  <2>3. \A i \in 1..m : q[i] \in Readers /\ q[i] \in Queued(q) /\ q[i] \notin Queued(waiters')
    <3>1. \A i \in 1..Len(q) : q[i] \in Readers
      BY <1>5, ElementOfSeq
    <3>2. ASSUME NEW i \in 1..m PROVE q[i] \notin Queued(waiters')
      <4>1. \A j \in (1..Len(q)) \ (1..m) : q[j] # q[i]
        BY <2>1 DEF Distinct
      <4> QED
        BY <2>2, <4>1
    <3> QED
      BY <2>1, <3>1, <3>2 DEF Queued
  <2>4. \A x : x \in Queued(q) /\ x \notin Queued(waiters') => \E i \in 1..m : x = q[i]
    BY <2>2 DEF Queued
  <2>5. Queued(waiters') \subseteq Queued(q)
    BY <2>2 DEF Queued
  <2>6. Held' = HeldBeside(pc', task', readyCh' \cup pending', waiters')
    BY HeldNext
  <2>7. ASSUME NEW g \in Held' PROVE g \in H \cup FirstOf(q, m)
    <3>1. CASE g \in readyCh' \cup pending'
      BY <3>1 DEF HeldBeside
    <3>2. CASE g \notin readyCh' \cup pending'
      <4>1. PICK x \in Readers : /\ g = task'[x]
                                 /\ pc'[x] = "read" \/ pc'[x] = "send"
                                      \/ (pc'[x] = "wait" /\ x \notin Queued(waiters'))
        BY <2>6, <2>7, <3>2 DEF HeldBeside
      <4>2. CASE x \in Queued(q) /\ x \notin Queued(waiters')
        <5>1. PICK i \in 1..m : x = q[i]
          BY <2>4, <4>2
        <5>2. g = task[q[i]]
          BY <2>1, <4>1, <5>1
        <5> QED
          BY <5>2 DEF FirstOf
      <4>3. CASE x \notin Queued(q)
        BY <4>1, <4>3 DEF HeldBeside
      <4>4. CASE x \in Queued(waiters')
        BY <4>1, <4>4 DEF HeldBeside
      <4> QED
        BY <4>2, <4>3, <4>4
    <3> QED
      BY <3>1, <3>2
  <2>8. ASSUME NEW g \in H PROVE g \in Held'
    BY <2>5, <2>6, <2>8 DEF HeldBeside
  <2>9. ASSUME NEW g \in FirstOf(q, m) PROVE g \in Held'
    <3>1. PICK i \in 1..m : g = task[q[i]]
      BY <2>9 DEF FirstOf
    <3>2. pc'[q[i]] = "wait" /\ task'[q[i]] = g
      BY <2>1, <3>1
    <3> QED
      BY <2>3, <2>6, <3>2 DEF HeldBeside
  <2> QED
    BY <2>7, <2>8, <2>9
<1>12. used' = BytesOf(Held') /\ Size' = Size /\ Budget' = Budget
  BY <1>3, <1>11 DEF Size, Budget
<1> QED
  BY <1>3, <1>6, <1>9, <1>10, <1>12 DEF SemOK, BytesOf, Distinct

\* The queue of the semaphore asks for groups that are not held.
LEMMA WaitersQueue ==
  ASSUME IInv, Once, SemOK
  PROVE  Held \in SUBSET Groups /\ Queue(waiters, Held)
<1>1. 1..fed \subseteq Groups
  BY BatchAssumption, SMT DEF IInv, PlacesOK, Groups
<1>2. \A r \in Readers : pc[r] \in {"read", "send", "wait"} => task[r] \in Groups /\ pc[r] \in Busy
  BY <1>1 DEF Once, Busy
<1>3. Held = HeldBeside(pc, task, readyCh \cup pending, waiters)
  BY HeldIs
<1>4. Held \subseteq Groups
  BY <1>2, <1>3 DEF HeldBeside, IInv, PlacesOK
<1>5. \A i \in 1..Len(waiters) : waiters[i] \in Readers /\ pc[waiters[i]] = "wait"
  BY ElementOfSeq DEF SemOK
<1>6. \A i, j \in 1..Len(waiters) : task[waiters[i]] = task[waiters[j]] => i = j
  <2>1. \A i, j \in 1..Len(waiters) : task[waiters[i]] = task[waiters[j]] => waiters[i] = waiters[j]
    BY <1>2, <1>5 DEF Once
  <2> QED
    BY <2>1 DEF SemOK, Distinct
<1>7. ASSUME NEW i \in 1..Len(waiters) PROVE task[waiters[i]] \in Groups \ Held
  <2>1. pc[waiters[i]] \in Busy /\ task[waiters[i]] \in Groups /\ waiters[i] \in Readers
        /\ waiters[i] \in Queued(waiters)
    BY <1>2, <1>5 DEF Queued
  <2>2. task[waiters[i]] \notin readyCh \cup pending
    BY <2>1 DEF Once
  <2>3. ASSUME NEW x \in Readers, pc[x] \in {"read", "send", "wait"}, task[x] = task[waiters[i]]
        PROVE  x = waiters[i]
    BY <1>2, <2>1, <2>3 DEF Once
  <2>4. pc[waiters[i]] = "wait"
    BY <1>5
  <2> QED
    BY <1>3, <2>1, <2>2, <2>3, <2>4 DEF HeldBeside
<1> QED
  BY <1>4, <1>6, <1>7 DEF Queue, SemOK

\* A reader that has its bytes gives them back and returns.
LEMMA ReaderReleases ==
  ASSUME IInv, Once, SemOK, Budget > 0, conf' = conf, NEW r \in Readers,
         pc[r] = "read" \/ pc[r] = "send" \/ (pc[r] = "wait" /\ ~InQueue(r)),
         Release(Size[task[r]]),
         pc' = [pc EXCEPT ![r] = "done"], task' = [task EXCEPT ![r] = None],
         UNCHANGED <<readyCh, pending>>
  PROVE  SemOK'
<1> DEFINE H == Held \ {task[r]}
<1>1. Held \in SUBSET Groups /\ Queue(waiters, Held)
  BY WaitersQueue
<1>2. Held = HeldBeside(pc, task, readyCh \cup pending, waiters)
  BY HeldIs
<1>3. r \notin Queued(waiters) \/ pc[r] # "wait"
  BY DEF InQueue, Queued
<1>4. task[r] \in Held /\ pc[r] \in Busy
  BY <1>2, <1>3 DEF HeldBeside, Busy
<1>5. conf \in Configs /\ Budget \in Nat /\ Budget # 0
  BY BatchAssumption, SMT DEF IInv, PlacesOK, Budget
<1>6. used - Size[task[r]] = BytesOf(H) /\ BytesOf(H) <= Budget
  <2>1. H \in SUBSET Groups /\ task[r] \in Groups \ H /\ H \cup {task[r]} = Held
    BY <1>1, <1>4
  <2>2. BytesOf(Held) = BytesOf(H) + Size[task[r]] /\ BytesOf(H) \in Nat
    <3> HIDE DEF H
    <3> QED
      BY <1>5, <2>1, BytesFacts
  <2>3. Size[task[r]] \in Nat
    BY <1>1, <1>4, <1>5, BatchAssumption DEF Size
  <2> HIDE DEF H
  <2> QED
    BY <1>5, <2>2, <2>3, SMT DEF SemOK
<1>7. Notify(waiters, BytesOf(H))
  BY <1>5, <1>6 DEF Release
<1>8. pc'[r] = "done" /\ \A x \in Readers : x # r => pc'[x] = pc[x] /\ task'[x] = task[x]
  BY DEF IInv, PlacesOK
<1>9. \A i \in 1..Len(waiters) : waiters[i] \in Readers /\ pc[waiters[i]] = "wait" /\ waiters[i] # r
  BY <1>3, ElementOfSeq DEF SemOK, Queued
<1>10. H = HeldBeside(pc', task', readyCh' \cup pending', waiters)
  <2>1. ASSUME NEW x \in Readers, x # r, pc[x] \in Busy PROVE task[x] # task[r]
    BY <1>4, <2>1 DEF Once
  <2>2. task[r] \notin readyCh \cup pending
    BY <1>4 DEF Once
  <2>3. ASSUME NEW g \in H PROVE g \in HeldBeside(pc', task', readyCh' \cup pending', waiters)
    <3>1. CASE g \in readyCh \cup pending
      BY <3>1 DEF HeldBeside
    <3>2. CASE g \notin readyCh \cup pending
      <4>1. PICK x \in Readers : /\ g = task[x]
                                 /\ pc[x] = "read" \/ pc[x] = "send"
                                      \/ (pc[x] = "wait" /\ x \notin Queued(waiters))
        BY <1>2, <2>3, <3>2 DEF HeldBeside
      <4>2. x # r
        BY <2>3, <4>1
      <4> QED
        BY <1>8, <4>1, <4>2 DEF HeldBeside
    <3> QED
      BY <3>1, <3>2
  <2>4. ASSUME NEW g \in HeldBeside(pc', task', readyCh' \cup pending', waiters) PROVE g \in H
    <3>1. CASE g \in readyCh \cup pending
      BY <1>2, <2>2, <3>1 DEF HeldBeside
    <3>2. CASE g \notin readyCh \cup pending
      <4>1. PICK x \in Readers : /\ g = task'[x]
                                 /\ pc'[x] = "read" \/ pc'[x] = "send"
                                      \/ (pc'[x] = "wait" /\ x \notin Queued(waiters))
        BY <2>4, <3>2 DEF HeldBeside
      <4>2. x # r /\ g = task[x] /\ pc'[x] = pc[x] /\ pc[x] \in Busy
        BY <1>8, <4>1 DEF Busy
      <4> QED
        BY <1>2, <2>1, <4>1, <4>2 DEF HeldBeside
    <3> QED
      BY <3>1, <3>2
  <2> QED
    BY <2>3, <2>4
<1>11. Queue(waiters, H) /\ H \in SUBSET Groups
  BY <1>1 DEF Queue
<1>12. \A i \in 1..Len(waiters) : pc'[waiters[i]] = "wait" /\ task'[waiters[i]] = task[waiters[i]]
  BY <1>8, <1>9
<1>13. Distinct(waiters)
  BY DEF SemOK
<1> HIDE DEF H
<1> QED
  BY <1>5, <1>6, <1>7, <1>10, <1>11, <1>12, <1>13, Notified

\* The consumer gives back the bytes of the group it is done with.
LEMMA ConsumerReleases ==
  ASSUME IInv, Once, SemOK, Budget > 0, conf' = conf, next \in pending,
         Release(Size[next]), pending' = pending \ {next}, UNCHANGED <<pc, task, readyCh>>
  PROVE  SemOK'
<1> DEFINE H == Held \ {next}
<1>1. Held \in SUBSET Groups /\ Queue(waiters, Held)
  BY WaitersQueue
<1>2. Held = HeldBeside(pc, task, readyCh \cup pending, waiters)
  BY HeldIs
<1>3. next \in Held
  BY <1>2 DEF HeldBeside
<1>4. conf \in Configs /\ Budget \in Nat /\ Budget # 0
  BY BatchAssumption, SMTT(30) DEF IInv, PlacesOK, Budget
<1>5. used - Size[next] = BytesOf(H) /\ BytesOf(H) <= Budget
  <2>1. H \in SUBSET Groups /\ next \in Groups \ H /\ H \cup {next} = Held
    BY <1>1, <1>3
  <2>2. BytesOf(Held) = BytesOf(H) + Size[next] /\ BytesOf(H) \in Nat
    <3> HIDE DEF H
    <3> QED
      BY <1>4, <2>1, BytesFacts
  <2>3. Size[next] \in Nat
    BY <1>1, <1>3, <1>4, BatchAssumption DEF Size
  <2> HIDE DEF H
  <2> QED
    BY <1>4, <2>2, <2>3, SMT DEF SemOK
<1>6. Notify(waiters, BytesOf(H))
  BY <1>4, <1>5 DEF Release
<1>7. H = HeldBeside(pc', task', readyCh' \cup pending', waiters)
  <2>1. \A x \in Readers : pc[x] \in {"read", "send", "wait"} => task[x] # next
    BY DEF Once, Busy
  <2>2. next \notin readyCh
    BY DEF Once
  <2> QED
    BY <1>2, <2>1, <2>2 DEF HeldBeside
<1>8. Queue(waiters, H) /\ H \in SUBSET Groups
  BY <1>1 DEF Queue
<1>9. \A i \in 1..Len(waiters) : pc'[waiters[i]] = "wait" /\ task'[waiters[i]] = task[waiters[i]]
  BY DEF SemOK
<1>10. Distinct(waiters)
  BY DEF SemOK
<1> HIDE DEF H
<1> QED
  BY <1>4, <1>5, <1>6, <1>7, <1>8, <1>9, <1>10, Notified

\* A queue without one of its requests has the others, in their order.
LEMMA WithoutFacts ==
  ASSUME NEW q \in Seq(Readers), NEW k \in 1..Len(q)
  PROVE  /\ Without(q, k) \in Seq(Readers)
         /\ Len(Without(q, k)) = Len(q) - 1
         /\ \A i \in 1..Len(Without(q, k)) : Without(q, k)[i] = q[IF i < k THEN i ELSE i + 1]
<1> DEFINE a == SubSeq(q, 1, k - 1)
           b == SubSeq(q, k + 1, Len(q))
<1>0. Len(q) \in Nat /\ k \in Nat /\ 1 <= k /\ k <= Len(q)
  BY LenProperties, SMT
<1>1. a \in Seq(Readers) /\ Len(a) = k - 1 /\ \A i \in 1..k - 1 : a[i] = q[i]
  BY <1>0, SMT
<1>2. b \in Seq(Readers) /\ Len(b) = Len(q) - k /\ \A i \in 1..Len(q) - k : b[i] = q[i + k]
  BY <1>0, SMT
<1>3. Without(q, k) = a \o b
  BY DEF Without
<1> HIDE DEF a, b
<1>4. a \o b \in Seq(Readers) /\ Len(a \o b) = Len(q) - 1
  <2>1. a \o b \in Seq(Readers) /\ Len(a \o b) = Len(a) + Len(b)
    BY <1>1, <1>2, ConcatProperties
  <2> QED
    BY <1>0, <1>1, <1>2, <2>1, SMT
<1>5. ASSUME NEW i \in 1..Len(q) - 1 PROVE (a \o b)[i] = q[IF i < k THEN i ELSE i + 1]
  <2>1. CASE i < k
    BY <1>0, <1>1, <1>2, <2>1, SMT
  <2>2. CASE ~(i < k)
    <3>1. (a \o b)[i] = b[i - (k - 1)]
      BY <1>0, <1>1, <1>2, <2>2, SMT
    <3>2. i - (k - 1) \in 1..Len(q) - k /\ (i - (k - 1)) + k = i + 1
      BY <1>0, <2>2, SMT
    <3> QED
      BY <1>2, <2>2, <3>1, <3>2
  <2> QED
    BY <2>1, <2>2
<1> QED
  BY <1>3, <1>4, <1>5

\* A reader that waits in the queue leaves it and returns.
LEMMA RequestWithdrawn ==
  ASSUME IInv, Once, SemOK, conf' = conf, NEW k \in 1..Len(waiters),
         Notify(Without(waiters, k), used),
         pc' = [pc EXCEPT ![waiters[k]] = "done"], task' = [task EXCEPT ![waiters[k]] = None],
         UNCHANGED <<readyCh, pending>>
  PROVE  SemOK'
<1> DEFINE r == waiters[k]
           q == Without(waiters, k)
           at(i) == IF i < k THEN i ELSE i + 1
<1>1. Held \in SUBSET Groups /\ Queue(waiters, Held)
  BY WaitersQueue
<1>2. Held = HeldBeside(pc, task, readyCh \cup pending, waiters)
  BY HeldIs
<1>3. conf \in Configs /\ used = BytesOf(Held) /\ used <= Budget /\ waiters \in Seq(Readers)
  BY DEF IInv, PlacesOK, SemOK
<1>4. q \in Seq(Readers) /\ Len(q) = Len(waiters) - 1 /\ \A i \in 1..Len(q) : q[i] = waiters[at(i)]
  BY <1>3, WithoutFacts
<1>5. \A i \in 1..Len(q) : at(i) \in 1..Len(waiters) /\ at(i) # k
  BY <1>3, <1>4, LenProperties, SMT
<1>6. \A i, j \in 1..Len(q) : at(i) = at(j) => i = j
  BY <1>3, <1>4, LenProperties, SMT
<1>7. \A j \in 1..Len(waiters) : j # k => \E i \in 1..Len(q) : at(i) = j
  <2>1. ASSUME NEW j \in 1..Len(waiters), j # k PROVE \E i \in 1..Len(q) : at(i) = j
    <3>1. CASE j < k
      <4>1. j \in 1..Len(q) /\ at(j) = j
        BY <1>3, <1>4, <3>1, LenProperties, SMT
      <4> QED
        BY <4>1
    <3>2. CASE ~(j < k)
      <4>1. j - 1 \in 1..Len(q) /\ at(j - 1) = j
        BY <1>3, <1>4, <2>1, <3>2, LenProperties, SMT
      <4> HIDE DEF at
      <4> QED
        BY <4>1
    <3> QED
      BY <3>1, <3>2
  <2> QED
    BY <2>1
<1> HIDE DEF q, at
<1>8. \A i \in 1..Len(waiters) : waiters[i] \in Readers /\ pc[waiters[i]] = "wait"
  BY <1>3, ElementOfSeq DEF SemOK
<1>9. \A i \in 1..Len(q) : q[i] \in Readers /\ pc[q[i]] = "wait" /\ q[i] # r
  <2>1. ASSUME NEW i \in 1..Len(q) PROVE q[i] # r
    <3>1. at(i) \in 1..Len(waiters) /\ at(i) # k /\ q[i] = waiters[at(i)]
      BY <1>4, <1>5
    <3> QED
      BY <3>1 DEF SemOK, Distinct
  <2> QED
    BY <1>4, <1>5, <1>8, <2>1
<1>10. r \in Readers /\ pc[r] = "wait" /\ pc'[r] = "done"
       /\ \A x \in Readers : x # r => pc'[x] = pc[x] /\ task'[x] = task[x]
  <2>1. r \in Readers /\ pc[r] = "wait"
    BY <1>8
  <2> HIDE DEF r
  <2> QED
    BY <2>1 DEF IInv, PlacesOK, r
<1> HIDE DEF r
<1>11. \A x \in Readers : x # r => (x \in Queued(q) <=> x \in Queued(waiters))
  <2>1. ASSUME NEW x \in Readers, x # r, x \in Queued(q) PROVE x \in Queued(waiters)
    BY <1>4, <1>5, <2>1 DEF Queued
  <2>2. ASSUME NEW x \in Readers, x # r, x \in Queued(waiters) PROVE x \in Queued(q)
    <3>1. PICK j \in 1..Len(waiters) : x = waiters[j]
      BY <2>2 DEF Queued
    <3>2. PICK i \in 1..Len(q) : at(i) = j
      BY <1>7, <2>2, <3>1 DEF r
    <3> QED
      BY <1>4, <3>1, <3>2 DEF Queued
  <2> QED
    BY <2>1, <2>2
<1>12. r \in Queued(waiters)
  BY DEF Queued, r
<1>13. Held = HeldBeside(pc', task', readyCh' \cup pending', q)
  <2>1. ASSUME NEW g \in Held PROVE g \in HeldBeside(pc', task', readyCh' \cup pending', q)
    <3>1. CASE g \in readyCh \cup pending
      BY <3>1 DEF HeldBeside
    <3>2. CASE g \notin readyCh \cup pending
      <4>1. PICK x \in Readers : /\ g = task[x]
                                 /\ pc[x] = "read" \/ pc[x] = "send"
                                      \/ (pc[x] = "wait" /\ x \notin Queued(waiters))
        BY <1>2, <2>1, <3>2 DEF HeldBeside
      <4>2. x # r
        BY <1>10, <1>12, <4>1
      <4> QED
        BY <1>10, <1>11, <4>1, <4>2 DEF HeldBeside
    <3> QED
      BY <3>1, <3>2
  <2>2. ASSUME NEW g \in HeldBeside(pc', task', readyCh' \cup pending', q) PROVE g \in Held
    <3>1. CASE g \in readyCh \cup pending
      BY <1>2, <3>1 DEF HeldBeside
    <3>2. CASE g \notin readyCh \cup pending
      <4>1. PICK x \in Readers : /\ g = task'[x]
                                 /\ pc'[x] = "read" \/ pc'[x] = "send"
                                      \/ (pc'[x] = "wait" /\ x \notin Queued(q))
        BY <2>2, <3>2 DEF HeldBeside
      <4>2. x # r
        BY <1>10, <4>1
      <4>3. pc'[x] = pc[x] /\ task'[x] = task[x] /\ (x \in Queued(q) <=> x \in Queued(waiters))
        BY <1>10, <1>11, <4>2
      <4>4. g = task[x] /\ (pc[x] = "read" \/ pc[x] = "send"
                               \/ (pc[x] = "wait" /\ x \notin Queued(waiters)))
        BY <4>1, <4>3
      <4> QED
        BY <1>2, <4>4 DEF HeldBeside
    <3> QED
      BY <3>1, <3>2
  <2> QED
    BY <2>1, <2>2
<1>14. Queue(q, Held)
  <2>1. \A i \in 1..Len(q) : task[q[i]] \in Groups \ Held
    BY <1>1, <1>4, <1>5 DEF Queue
  <2>2. \A i, j \in 1..Len(q) : task[q[i]] = task[q[j]] => at(i) = at(j)
    <3>1. ASSUME NEW i \in 1..Len(q), NEW j \in 1..Len(q), task[q[i]] = task[q[j]]
          PROVE  at(i) = at(j)
      <4>1. at(i) \in 1..Len(waiters) /\ at(j) \in 1..Len(waiters)
            /\ task[waiters[at(i)]] = task[waiters[at(j)]]
        BY <1>4, <1>5, <3>1
      <4> QED
        BY <1>1, <4>1 DEF Queue
    <3> QED
      BY <3>1
  <2> QED
    BY <1>4, <1>6, <2>1, <2>2 DEF Queue
<1>15. Distinct(q)
  BY <1>14 DEF Queue, Distinct
<1>16. \A i \in 1..Len(q) : pc'[q[i]] = "wait" /\ task'[q[i]] = task[q[i]]
  BY <1>9, <1>10
<1>17. Notify(q, BytesOf(Held)) /\ BytesOf(Held) <= Budget
  BY <1>3 DEF q
<1> QED
  BY <1>1, <1>3, <1>13, <1>14, <1>15, <1>16, <1>17, Notified

\* Every step keeps the semaphore's account right.
LEMMA SemStep ==
  ASSUME IInv, Once, SemOK, Budget > 0, Next
  PROVE  SemOK'
<1>0. conf' = conf /\ Size' = Size /\ Budget' = Budget
  BY DEF Next, Size, Budget
<1>1. Held = HeldBeside(pc, task, readyCh \cup pending, waiters)
  BY HeldIs
<1>2. Held' = HeldBeside(pc', task', readyCh' \cup pending', waiters')
  BY HeldNext
<1>3. \A i \in 1..Len(waiters) : waiters[i] \in Readers /\ pc[waiters[i]] = "wait"
  BY ElementOfSeq DEF SemOK
<1>4. conf \in Configs /\ Budget \in Nat /\ Budget # 0
  BY BatchAssumption, SMT DEF IInv, PlacesOK, Budget
\* The semaphore is not touched, and neither are the groups held.
<1>5. ASSUME UNCHANGED sem, Held' = Held, \A i \in 1..Len(waiters) : pc'[waiters[i]] = "wait"
      PROVE  SemOK'
  BY <1>0, <1>5 DEF sem, SemOK, BytesOf, Distinct
\* Reader r does something else, and has its bytes if it had them.
<1>6. ASSUME NEW r \in Readers, UNCHANGED <<sem, readyCh, pending>>,
             \A x \in Readers : x # r => pc'[x] = pc[x] /\ task'[x] = task[x],
             pc[r] # "wait" \/ r \notin Queued(waiters),
             pc[r] \in {"read", "send", "wait"} <=> pc'[r] \in {"read", "send", "wait"},
             pc'[r] \in {"read", "send", "wait"} => task'[r] = task[r],
             pc'[r] # "wait"
      PROVE  SemOK'
  <2>1. waiters' = waiters
    BY <1>6 DEF sem
  <2> DEFINE Has(p, x) == p[x] = "read" \/ p[x] = "send" \/ (p[x] = "wait" /\ x \notin Queued(waiters))
  <2>2. ASSUME NEW x \in Readers
        PROVE  (Has(pc, x) <=> Has(pc', x)) /\ (Has(pc', x) => task'[x] = task[x])
    <3>1. CASE x = r
      BY <1>6, <3>1
    <3>2. CASE x # r
      BY <1>6, <3>2
    <3> QED
      BY <3>1, <3>2
  <2>3. HeldBeside(pc, task, readyCh \cup pending, waiters)
          = {task[x] : x \in {y \in Readers : Has(pc, y)}} \cup (readyCh \cup pending)
        /\ HeldBeside(pc', task', readyCh \cup pending, waiters)
          = {task'[x] : x \in {y \in Readers : Has(pc', y)}} \cup (readyCh \cup pending)
    BY DEF HeldBeside
  <2> HIDE DEF Has
  <2>4. Held' = Held
    BY <1>1, <1>2, <1>6, <2>1, <2>2, <2>3
  <2>5. \A i \in 1..Len(waiters) : pc'[waiters[i]] = "wait"
    BY <1>3, <1>6 DEF Queued
  <2> QED
    BY <1>5, <1>6, <2>4, <2>5
<1>7. ASSUME NEW r \in Readers, Feed(r) PROVE SemOK'
  <2>1. pc[r] = "recv" /\ pc'[r] = "acquire"
        /\ \A x \in Readers : x # r => pc'[x] = pc[x] /\ task'[x] = task[x]
    BY <1>7 DEF Feed, At, IInv, PlacesOK
  <2> QED
    BY <1>6, <1>7, <2>1 DEF Feed, consumer
<1>8. ASSUME NEW r \in Readers, pc[r] \in {"recv", "acquire", "stuck"},
             Quit(r, None) \/ Quit(r, "canceled"), UNCHANGED <<sem, readyCh, pending>>
      PROVE  SemOK'
  <2>1. pc'[r] = "done" /\ \A x \in Readers : x # r => pc'[x] = pc[x] /\ task'[x] = task[x]
    BY <1>8 DEF Quit, IInv, PlacesOK
  <2> QED
    BY <1>6, <1>8, <2>1
<1>9. ASSUME NEW r \in Readers, NEW l \in {"read", "send"}, Goto(r, l),
             pc[r] = "read" \/ (pc[r] = "wait" /\ ~InQueue(r)),
             UNCHANGED <<sem, readyCh, pending>>
      PROVE  SemOK'
  <2>1. pc'[r] = l /\ task' = task /\ \A x \in Readers : x # r => pc'[x] = pc[x]
    BY <1>9 DEF Goto, IInv, PlacesOK
  <2>2. pc[r] # "wait" \/ r \notin Queued(waiters)
    BY <1>9 DEF InQueue, Queued
  <2> QED
    BY <1>6, <1>9, <2>1, <2>2
<1>10. ASSUME NEW r \in Readers, Acquire(r) PROVE SemOK'
  <2>0. pc[r] = "acquire" /\ UNCHANGED <<readyCh, pending>>
    BY <1>10 DEF Acquire, At, consumer
  <2>1. r \notin Queued(waiters)
    BY <1>3, <2>0 DEF Queued
  <2>2. ASSUME NEW l, Goto(r, l)
        PROVE  pc'[r] = l /\ task' = task /\ \A x \in Readers : x # r => pc'[x] = pc[x]
    BY <2>2 DEF Goto, IInv, PlacesOK
  <2>3. CASE /\ waiters = <<>> /\ used + Size[task[r]] <= Budget
             /\ used' = used + Size[task[r]] /\ Goto(r, "read") /\ waiters' = waiters
    <3>1. pc'[r] = "read" /\ task' = task /\ \A x \in Readers : x # r => pc'[x] = pc[x]
      BY <2>2, <2>3
    <3>2. Held \in SUBSET Groups
      BY WaitersQueue
    <3>3. task[r] \in Groups \ Held
      <4>1. pc[r] \in Busy /\ task[r] # None
        BY <2>0 DEF Busy, IInv, PlacesOK
      <4>2. task[r] \in Groups
        BY <4>1 DEF IInv, PlacesOK
      <4>3. \A x \in Readers : pc[x] \in {"read", "send", "wait"} => task[x] # task[r]
        BY <2>0, <4>1 DEF Once, Busy
      <4>4. task[r] \notin readyCh \cup pending
        BY <4>1 DEF Once
      <4> QED
        BY <1>1, <4>2, <4>3, <4>4 DEF HeldBeside
    <3>4. Held' = Held \cup {task[r]}
      <4>1. ASSUME NEW g \in Held' PROVE g \in Held \cup {task[r]}
        BY <1>1, <1>2, <2>0, <2>3, <3>1, <4>1 DEF HeldBeside
      <4>2. ASSUME NEW g \in Held PROVE g \in Held'
        BY <1>1, <1>2, <2>0, <2>3, <3>1, <4>2 DEF HeldBeside
      <4>3. task[r] \in Held'
        BY <1>2, <3>1 DEF HeldBeside
      <4> QED
        BY <4>1, <4>2, <4>3
    <3>5. BytesOf(Held') = BytesOf(Held) + Size[task[r]]
      BY <1>4, <3>2, <3>3, <3>4, BytesFacts
    <3>6. used' = BytesOf(Held') /\ used' <= Budget
      BY <2>3, <3>5 DEF SemOK
    <3>7. \A i \in 1..Len(waiters) : pc'[waiters[i]] = "wait"
      BY <1>3, <2>1, <3>1 DEF Queued
    <3>8. waiters' \in Seq(Readers) /\ Distinct(waiters')
      <4>1. waiters \in Seq(Readers) /\ Distinct(waiters)
        BY DEF SemOK
      <4> QED
        BY <2>3, <4>1
    <3>9. BytesOf(Held)' = BytesOf(Held')
      BY <1>0 DEF BytesOf
    <3> QED
      BY <1>0, <2>3, <3>6, <3>7, <3>8, <3>9 DEF SemOK
  <2>4. CASE Goto(r, "stuck") /\ UNCHANGED sem
    <3>1. pc'[r] = "stuck" /\ task' = task /\ \A x \in Readers : x # r => pc'[x] = pc[x]
      BY <2>2, <2>4
    <3>2. ~(pc[r] \in {"read", "send", "wait"}) /\ ~(pc'[r] \in {"read", "send", "wait"})
      BY <2>0, <3>1
    <3> QED
      BY <1>6, <2>0, <2>1, <2>4, <3>1, <3>2
  <2>5. CASE Goto(r, "wait") /\ waiters' = Append(waiters, r) /\ used' = used
    <3>1. pc'[r] = "wait" /\ task' = task /\ \A x \in Readers : x # r => pc'[x] = pc[x]
      BY <2>2, <2>5
    <3>2. waiters \in Seq(Readers)
      BY DEF SemOK
    <3>3. /\ waiters' \in Seq(Readers) /\ Len(waiters) \in Nat /\ Len(waiters') = Len(waiters) + 1
          /\ waiters'[Len(waiters) + 1] = r /\ \A i \in 1..Len(waiters) : waiters'[i] = waiters[i]
      BY <2>5, <3>2, SMT
    <3>4. 1..Len(waiters') = 1..Len(waiters) \cup {Len(waiters) + 1}
      BY <3>3, SMT
    <3>5. Queued(waiters') = Queued(waiters) \cup {r}
      <4>1. ASSUME NEW x \in Queued(waiters') PROVE x \in Queued(waiters) \cup {r}
        BY <3>3, <3>4, <4>1 DEF Queued
      <4>2. Queued(waiters) \subseteq Queued(waiters')
        BY <3>3, <3>4 DEF Queued
      <4>3. r \in Queued(waiters')
        BY <3>3, <3>4 DEF Queued
      <4> QED
        BY <4>1, <4>2, <4>3
    <3>6. Distinct(waiters')
      <4>1. \A i \in 1..Len(waiters) : waiters'[i] # r
        BY <2>1, <3>3 DEF Queued
      <4>2. \A i, j \in 1..Len(waiters) : waiters'[i] = waiters'[j] => i = j
        BY <3>3 DEF SemOK, Distinct
      <4> QED
        BY <3>3, <3>4, <4>1, <4>2 DEF Distinct
    <3>7. \A i \in 1..Len(waiters') : pc'[waiters'[i]] = "wait"
      BY <1>3, <2>1, <3>1, <3>3, <3>4 DEF Queued
    <3>8. Held' = Held
      <4>1. ASSUME NEW g \in Held' PROVE g \in Held
        BY <1>1, <1>2, <2>0, <3>1, <3>5, <4>1 DEF HeldBeside
      <4>2. ASSUME NEW g \in Held PROVE g \in Held'
        BY <1>1, <1>2, <2>0, <3>1, <3>5, <4>2 DEF HeldBeside
      <4> QED
        BY <4>1, <4>2
    <3> QED
      BY <1>0, <2>5, <3>3, <3>6, <3>7, <3>8 DEF SemOK, BytesOf, Distinct
  <2> QED
    BY <1>4, <1>10, <2>3, <2>4, <2>5 DEF Acquire, sem
<1>11. ASSUME NEW r \in Readers, Send(r) PROVE SemOK'
  <2>1. pc[r] = "send" /\ readyCh' = readyCh \cup {task[r]} /\ UNCHANGED <<sem, waiters, pending>>
    BY <1>11 DEF Send, At, consumer, sem
  <2>2. pc'[r] = "recv" /\ \A x \in Readers : x # r => pc'[x] = pc[x] /\ task'[x] = task[x]
    BY <1>11 DEF Send, IInv, PlacesOK
  <2>3. task[r] \in Held
    BY <1>1, <2>1 DEF HeldBeside
  <2>4. ASSUME NEW g \in Held' PROVE g \in Held
    <3>1. CASE g \in readyCh' \cup pending'
      BY <1>1, <2>1, <2>3, <3>1 DEF HeldBeside
    <3>2. CASE g \notin readyCh' \cup pending'
      BY <1>1, <1>2, <2>1, <2>2, <2>4, <3>2 DEF HeldBeside
    <3> QED
      BY <3>1, <3>2
  <2>5. ASSUME NEW g \in Held PROVE g \in Held'
    <3>1. CASE g \in readyCh \cup pending \/ g = task[r]
      BY <1>2, <2>1, <3>1 DEF HeldBeside
    <3>2. CASE g \notin readyCh \cup pending /\ g # task[r]
      BY <1>1, <1>2, <2>1, <2>2, <2>5, <3>2 DEF HeldBeside
    <3> QED
      BY <3>1, <3>2
  <2>6. \A i \in 1..Len(waiters) : pc'[waiters[i]] = "wait"
    BY <1>3, <2>1, <2>2
  <2> QED
    BY <1>5, <2>1, <2>4, <2>5, <2>6
<1>12. ASSUME NEW r \in Readers, ReaderStep(r) PROVE SemOK'
  <2>1. CASE ReaderEnds(r)
    BY <1>8, <2>1 DEF ReaderEnds, consumer, At
  <2>2. CASE AcquireCanceled(r)
    BY <1>8, <2>2 DEF AcquireCanceled, consumer, At
  <2>3. CASE Acquire(r)
    BY <1>10, <2>3
  <2>4. CASE AcquireGranted(r)
    BY <1>9, <2>4 DEF AcquireGranted, consumer, At
  <2>5. CASE WaitCanceled(r)
    <3>1. Quit(r, "canceled") /\ UNCHANGED <<readyCh, pending>>
      BY <2>5 DEF WaitCanceled, consumer
    <3>2. pc' = [pc EXCEPT ![r] = "done"] /\ task' = [task EXCEPT ![r] = None]
      BY <3>1 DEF Quit
    <3>3. CASE At(r, "stuck") /\ UNCHANGED sem
      BY <1>8, <3>1, <3>3 DEF At
    <3>4. CASE At(r, "wait") /\ \E i \in 1..Len(waiters) :
                                  waiters[i] = r /\ Notify(Without(waiters, i), used)
      BY <1>0, <3>1, <3>2, <3>4, RequestWithdrawn
    <3>5. CASE At(r, "wait") /\ ~InQueue(r) /\ Release(Size[task[r]])
      BY <1>0, <3>1, <3>2, <3>5, ReaderReleases DEF At
    <3> QED
      BY <2>5, <3>3, <3>4, <3>5 DEF WaitCanceled
  <2>6. CASE Read(r)
    BY <1>9, <2>6 DEF Read, consumer, At
  <2>7. CASE ReadFails(r)
    BY <1>0, <2>7, ReaderReleases DEF ReadFails, consumer, At, Quit
  <2>8. CASE Send(r)
    BY <1>11, <2>8
  <2>9. CASE SendCanceled(r)
    BY <1>0, <2>9, ReaderReleases DEF SendCanceled, consumer, At, Quit
  <2> QED
    BY <1>12, <2>1, <2>2, <2>3, <2>4, <2>5, <2>6, <2>7, <2>8, <2>9 DEF ReaderStep
<1>13. CASE Receive
  <2>1. PICK i \in readyCh : readyCh' = readyCh \ {i} /\ pending' = pending \cup {i}
    BY <1>13 DEF Receive
  <2>2. UNCHANGED <<pc, task, sem, waiters>>
    BY <1>13 DEF Receive, readers, sem
  <2>3. readyCh' \cup pending' = readyCh \cup pending
    BY <2>1
  <2>4. Held' = Held
    BY <1>1, <1>2, <2>2, <2>3
  <2> QED
    BY <1>3, <1>5, <2>2, <2>4
<1>14. CASE Process \/ ProcessFails
  <2>1. next \in pending
    BY <1>14 DEF Process, ProcessFails, IInv, PlacesOK
  <2> QED
    BY <1>0, <1>14, <2>1, ConsumerReleases DEF Process, ProcessFails, ConsumerReturns, readers
<1>15. CASE ConsumerEnds \/ FeederReturns \/ UNCHANGED goroutines
  <2>1. UNCHANGED <<pc, task, sem, waiters, readyCh, pending>>
    BY <1>15 DEF ConsumerEnds, ConsumerReturns, FeederReturns, goroutines, readers, sem, consumer
  <2>2. Held' = Held
    BY <1>1, <1>2, <2>1
  <2> QED
    BY <1>3, <1>5, <2>1, <2>2
<1> QED
  BY <1>7, <1>12, <1>13, <1>14, <1>15 DEF Next, ConsumerStep

\* At the start nothing is taken.
LEMMA InitBInv == Init => BInv
<1> SUFFICES ASSUME Init PROVE BInv
  OBVIOUS
<1>1. IInv
  BY InitIInv
<1>2. Once
  BY DEF Init, Once, Busy
<1>3. waiters = <<>> /\ used = 0 /\ Held = {} /\ conf \in Configs
  BY DEF Init, Held, At
<1>4. BytesOf(Held) = 0
  BY <1>3, BytesFacts
<1>5. waiters \in Seq(Readers) /\ 1..Len(waiters) = {}
  BY <1>3, SMT
<1>6. Budget > 0 => used <= Budget
  BY <1>3, BatchAssumption, SMT DEF Budget
<1> QED
  BY <1>1, <1>2, <1>3, <1>4, <1>5, <1>6 DEF BInv, SemOK, Distinct

\* Every step keeps the places of the groups and the account of their bytes.
LEMMA StepBInv == BInv /\ [Next]_vars => BInv'
<1> SUFFICES ASSUME BInv, [Next]_vars PROVE BInv'
  OBVIOUS
<1>1. IInv'
  BY StepIInv DEF BInv
<1>2. CASE UNCHANGED vars
  <2>1. Held' = Held
    BY <1>2 DEF vars, goroutines, Held, At, InQueue
  <2> QED
    BY <1>1, <1>2, <2>1 DEF vars, goroutines, BInv, Once, SemOK, Distinct, Budget, BytesOf, Size
<1>3. CASE Next
  <2>1. conf' = conf
    BY <1>3 DEF Next
  <2> QED
    BY <1>1, <1>3, <2>1, OnceStep, SemStep DEF BInv, Budget
<1> QED
  BY <1>2, <1>3

\* The bytes taken from the semaphore are those of the groups that are granted,
\* read, buffered or processed, and never more than the read-ahead budget: on
\* every path, a reader or the consumer gives back what its group took.
THEOREM BudgetConservedHolds == Spec => []BudgetConserved
<1>1. BInv => BudgetConserved
  BY DEF BInv, SemOK, BudgetConserved
<1> QED
  BY InitBInv, StepBInv, <1>1, PTL DEF Spec
=============================================================================
