-------------------------- MODULE ParallelSearch_proofs --------------------------
(***************************************************************************)
(* Proofs about ParallelSearch, for any number of lists of arguments and   *)
(* of goroutines: the results are complete and in place, nothing is sent   *)
(* on the closed channel, and which pools are closed at the end.           *)
(***************************************************************************)
EXTENDS ParallelSearch, FiniteSetTheorems, TLAPS

Active == {"new", "query", "refused", "closed"}
Running == {w \in Workers : worker[w] \in Active}
Started(w) == worker[w] # None
Searching == main \in {"spawn", "collect", "returned"}

\* The types that do not depend on the counting of goroutines.
TypeInv ==
    /\ n \in Nat \ {0} /\ threads \in Nat \ {0} /\ n <= MaxArgs
    /\ threads <= MaxThreads /\ threads <= n
    /\ main \in {"connect", "spawn", "collect", "returned", "failed"}
    /\ k \in Nat /\ k <= threads /\ closed \in BOOLEAN
    /\ pool \in [1..MaxThreads -> {None, "open", "closed"}]
    /\ worker \in [1..MaxThreads -> {None, "new", "query", "refused", "closed", "done"}]
    /\ next \in [1..MaxThreads -> 0..n]
    /\ answer \in [0..n - 1 -> Answers] /\ results \in [0..n - 1 -> Answers]
    /\ chan \in Seq((0..n - 1) \X Answers) /\ Len(chan) <= n

\* The WaitGroup counts the goroutines that have not called Done.
CountInv == IsFiniteSet(Running) /\ wg = Cardinality(Running)

\* The goroutines are started in order, until one would begin beyond the end.
StartInv ==
    /\ \A w \in Workers : Started(w) <=> Searching /\ w <= k
    /\ main \in {"collect", "returned"} => k = threads \/ StartOf(k + 1) > n

\* The channel is closed when no goroutine runs any more.
ClosedInv ==
    /\ closed => main \in {"collect", "returned"} /\ Running = {}
    /\ main = "returned" => closed /\ chan = <<>>

\* Each goroutine stays within its chunk, and goes through to the end of it.
ChunkInv ==
    \A w \in Workers :
        /\ ~Started(w) => next[w] = 0
        /\ Started(w) => StartOf(w) <= next[w] /\ next[w] <= EndOf(w)
        /\ worker[w] = "new" => next[w] = StartOf(w)
        /\ worker[w] \in {"closed", "done"} => next[w] = EndOf(w)

Reached(i) == \E w \in Workers : Started(w) /\ StartOf(w) <= i /\ i < next[w]
AnswerInv == \A i \in 0..n - 1 : answer[i] # None <=> Reached(i)

\* An answer is on its way or has arrived.
ResultInv ==
    /\ \A j \in 1..Len(chan) : chan[j][2] = answer[chan[j][1]] /\ chan[j][2] # None
    /\ \A i \in 0..n - 1 :
           answer[i] # None => \/ results[i] = answer[i]
                               \/ \E j \in 1..Len(chan) : chan[j] = <<i, answer[i]>>

\* A pool is closed by its goroutine, as the last thing but one.
PoolInv ==
    /\ main = "failed" => k < threads /\ \A w \in Workers : pool[w] = "open" <=> w = k + 1
    /\ main = "connect" => \A w \in Workers : w <= k => pool[w] = "open"
    /\ Searching => \A w \in Workers :
                        pool[w] = IF worker[w] \in {"closed", "done"} THEN "closed" ELSE "open"

IInv ==
    /\ TypeInv /\ CountInv /\ StartInv /\ ClosedInv /\ ChunkInv /\ AnswerInv /\ ResultInv
    /\ PoolInv

--------------------------------------------------------------------------------
(* The chunks *)

LEMMA ChunksCover ==
    ASSUME TypeInv
    PROVE  ChunkSize \in Nat \ {0} /\ threads * ChunkSize >= n
<1> DEFINE a == n + threads - 1
           q == a \div threads
<1>1. a \in Nat /\ threads \in Nat \ {0} /\ a >= threads
  BY DEF TypeInv
<1>2. q \in Int /\ threads * q <= a /\ a < threads * q + threads
  BY <1>1, SMT
<1>3. q >= 1
  <2>1. SUFFICES ASSUME q <= 0 PROVE FALSE
    BY <1>2
  <2>2. threads * q <= 0
    BY <2>1, <1>1, <1>2, SMT
  <2> QED
    BY <2>2, <1>1, <1>2
<1>4. threads * q \in Int
  BY <1>1, <1>2
<1>5. threads * q >= n
  BY <1>1, <1>2, <1>4 DEF TypeInv
<1>6. ChunkSize = q
  BY DEF ChunkSize
<1> HIDE DEF q
<1> QED
  BY <1>2, <1>3, <1>5, <1>6

LEMMA ChunksApart ==
    ASSUME TypeInv
    PROVE  /\ \A w \in Workers : StartOf(w) \in Nat /\ EndOf(w) \in Nat /\ EndOf(w) <= n
                                 /\ EndOf(w) <= StartOf(w) + ChunkSize
           /\ \A w, v \in 1..threads + 1 : w < v => StartOf(w) + ChunkSize <= StartOf(v)
<1> DEFINE c == ChunkSize
<1>1. c \in Nat \ {0}
  BY ChunksCover
<1>2. threads \in Nat /\ n \in Nat
  BY DEF TypeInv
<1> HIDE DEF c
<1>3. \A w \in 1..threads + 1 : (w - 1) * c \in Nat
  BY <1>1, <1>2
<1>4. \A w, v \in 1..threads + 1 : w < v => (w - 1) * c + c <= (v - 1) * c
  <2> SUFFICES ASSUME NEW w \in 1..threads + 1, NEW v \in 1..threads + 1, w < v
               PROVE  (w - 1) * c + c <= (v - 1) * c
    OBVIOUS
  <2>1. (w - 1) * c + c = w * c
    BY <1>1, <1>2
  <2>2. w <= v - 1 /\ w \in Nat /\ v - 1 \in Nat
    BY <1>2
  <2>3. w * c <= (v - 1) * c
    BY <1>1, <2>2
  <2> QED
    BY <2>1, <2>3
<1>5. \A w \in 1..threads + 1 : StartOf(w) = (w - 1) * c
  BY DEF StartOf, c
<1>6. \A w \in Workers : EndOf(w) = IF StartOf(w) + c > n THEN n ELSE StartOf(w) + c
  BY DEF EndOf, c
<1>7. \A w \in Workers : StartOf(w) \in Nat
  BY <1>2, <1>3, <1>5 DEF Workers
<1>8. \A w \in Workers : EndOf(w) \in Nat /\ EndOf(w) <= n /\ EndOf(w) <= StartOf(w) + c
  BY <1>1, <1>2, <1>6, <1>7
<1> QED
  BY <1>4, <1>5, <1>7, <1>8 DEF c

LEMMA ChunksOwn ==
    ASSUME TypeInv, NEW i \in 0..n - 1
    PROVE  \E w \in Workers : StartOf(w) <= i /\ i < EndOf(w)
<1> DEFINE c == ChunkSize
           q == i \div c
<1>1. c \in Nat \ {0} /\ threads * c >= n
  BY ChunksCover
<1>2. threads \in Nat \ {0} /\ n \in Nat /\ i \in Nat /\ i < n
  BY DEF TypeInv
<1>3. q \in Nat /\ c * q <= i /\ i < c * q + c
  BY <1>1, <1>2, SMT
<1> HIDE DEF c, q
<1>4. q < threads
  <2> SUFFICES ASSUME q >= threads PROVE FALSE
    BY <1>2, <1>3
  <2>1. c * q >= c * threads /\ c * threads = threads * c
    BY <1>1, <1>2, <1>3
  <2> QED
    BY <2>1, <1>1, <1>2, <1>3
<1>5. q + 1 \in Workers
  BY <1>2, <1>3, <1>4 DEF Workers
<1>6. StartOf(q + 1) = c * q
  BY <1>1, <1>3 DEF StartOf, c
<1>7. i < EndOf(q + 1)
  BY <1>1, <1>2, <1>3, <1>6 DEF EndOf, c
<1> QED
  BY <1>3, <1>5, <1>6, <1>7

LEMMA SameChunks ==
    ASSUME UNCHANGED <<n, threads>>
    PROVE  /\ Workers' = Workers /\ ChunkSize' = ChunkSize
           /\ \A w : StartOf(w)' = StartOf(w) /\ EndOf(w)' = EndOf(w)
BY DEF Workers, ChunkSize, StartOf, EndOf

--------------------------------------------------------------------------------
(* The steps *)

LEMMA WorkersAre ==
    ASSUME TypeInv
    PROVE  /\ Workers = 1..threads /\ \A w \in Workers : w \in 1..MaxThreads /\ w \in Nat
           /\ threads \in Nat \ {0} /\ MaxThreads \in Nat
BY MaxThreadsAssumption DEF TypeInv, Workers

\* A step that moves no goroutine and no position.
LEMMA Frame ==
    ASSUME IInv, UNCHANGED <<n, threads, worker, next, answer>>
    PROVE  /\ Workers' = Workers /\ Running' = Running
           /\ \A w : StartOf(w)' = StartOf(w) /\ EndOf(w)' = EndOf(w)
           /\ \A w : Started(w)' = Started(w)
           /\ ChunkInv' /\ AnswerInv'
<1>1. /\ Workers' = Workers
      /\ \A w : StartOf(w)' = StartOf(w) /\ EndOf(w)' = EndOf(w)
  BY SameChunks
<1>2. Running' = Running
  BY <1>1 DEF Running
<1>3. \A w : Started(w)' = Started(w)
  BY DEF Started
<1>4. ChunkInv'
  BY <1>1, <1>3 DEF IInv, ChunkInv
<1>5. \A i : Reached(i)' = Reached(i)
  BY <1>1, <1>3 DEF Reached
<1>6. AnswerInv'
  BY <1>5 DEF IInv, AnswerInv
<1> QED
  BY <1>1, <1>2, <1>3, <1>4, <1>6

LEMMA ConnectStep ==
    ASSUME IInv, Connect \/ Connected
    PROVE  IInv'
<1> USE DEF IInv
<1>1. UNCHANGED <<n, threads, worker, next, wg, chan, closed, answer, results>>
  BY DEF Connect, Connected
<1>2. main = "connect" /\ main' \in {"connect", "failed", "spawn"}
  BY DEF Connect, Connected
<1>3. \A w \in Workers : ~Started(w)
  BY <1>2 DEF StartInv, Searching
<1>4. Workers' = Workers /\ Running' = Running /\ ChunkInv' /\ AnswerInv'
      /\ \A w : Started(w)' = Started(w)
  BY <1>1, Frame
<1>5. TypeInv' /\ (main' = "spawn" => k' = 0)
  <2>1. CASE Connected
    BY <1>1, <2>1 DEF Connected, TypeInv
  <2>2. CASE Connect
    <3>1. pool' \in [1..MaxThreads -> {None, "open", "closed"}]
      BY <2>2 DEF Connect, TypeInv
    <3>2. k' \in Nat /\ k' <= threads /\ main' \in {"connect", "failed"}
      BY <2>2 DEF Connect, TypeInv
    <3> QED
      BY <1>1, <3>1, <3>2 DEF TypeInv
  <2> QED
    BY <2>1, <2>2
<1>6. CountInv' /\ ClosedInv' /\ ResultInv'
  BY <1>1, <1>2, <1>4 DEF CountInv, ClosedInv, ResultInv
<1>7. StartInv'
  BY <1>2, <1>3, <1>4, <1>5, WorkersAre DEF StartInv, Searching
<1>8. PoolInv'
  <2>1. CASE Connected
    BY <1>1, <1>2, <1>3, <1>4, <2>1, WorkersAre DEF Connected, PoolInv, Searching, Started, TypeInv, None
  <2>2. CASE /\ k < threads /\ pool' = [pool EXCEPT ![k + 1] = "open"] /\ k' = k + 1
             /\ UNCHANGED main
    <3>1. \A w \in Workers : w <= k' => pool'[w] = "open"
      BY <1>2, <2>2, WorkersAre DEF PoolInv, TypeInv
    <3> QED
      BY <1>2, <1>4, <2>2, <3>1 DEF PoolInv, Searching
  <2>3. CASE /\ k < threads /\ main' = "failed" /\ UNCHANGED k
             /\ pool' = [w \in 1..MaxThreads |-> IF w <= k THEN "closed"
                                              ELSE IF w = k + 1 THEN "open" ELSE None]
    <3>1. \A w \in Workers : pool'[w] = "open" <=> w = k + 1
      BY <2>3, WorkersAre DEF TypeInv, None
    <3> QED
      BY <1>1, <1>4, <2>3, <3>1 DEF PoolInv, Searching
  <2> QED
    BY <2>1, <2>2, <2>3 DEF Connect
<1> QED
  BY <1>4, <1>5, <1>6, <1>7, <1>8

LEMMA NoneStarts ==
    ASSUME IInv, Spawn, k = threads \/ StartOf(k + 1) > EndOf(k + 1)
    PROVE  IInv'
<1> USE DEF IInv
<1>1. main = "spawn" /\ main' = "collect"
      /\ UNCHANGED <<n, threads, k, worker, next, wg, pool, chan, closed, answer, results>>
  BY DEF Spawn
<1>2. Workers' = Workers /\ Running' = Running /\ ChunkInv' /\ AnswerInv'
      /\ \A w : Started(w)' = Started(w) /\ StartOf(w)' = StartOf(w)
  BY <1>1, Frame
<1>3. k = threads \/ StartOf(k + 1) > n
  <2>1. SUFFICES ASSUME k # threads PROVE StartOf(k + 1) > n
    OBVIOUS
  <2>2. k + 1 \in Workers
    BY <2>1 DEF Workers, TypeInv
  <2>3. StartOf(k + 1) \in Nat /\ ChunkSize \in Nat \ {0} /\ n \in Nat
    BY <2>2, ChunksApart, ChunksCover DEF TypeInv
  <2> QED
    BY <2>1, <2>3 DEF EndOf
<1>4. TypeInv'
  BY <1>1 DEF TypeInv
<1>5. CountInv' /\ ClosedInv' /\ ResultInv'
  BY <1>1, <1>2 DEF CountInv, ClosedInv, ResultInv
<1>6. StartInv'
  BY <1>1, <1>2, <1>3 DEF StartInv, Searching
<1>7. PoolInv'
  BY <1>1, <1>2 DEF PoolInv, Searching
<1> QED
  BY <1>2, <1>4, <1>5, <1>6, <1>7

LEMMA OneStarts ==
    ASSUME IInv, Spawn, k # threads, StartOf(k + 1) <= EndOf(k + 1)
    PROVE  IInv'
<1> USE DEF IInv
<1> DEFINE v == k + 1
<1>1. /\ main = "spawn" /\ main' = "spawn" /\ k' = v /\ wg' = wg + 1
      /\ worker' = [worker EXCEPT ![v] = "new"] /\ next' = [next EXCEPT ![v] = StartOf(v)]
      /\ UNCHANGED <<n, threads, pool, chan, closed, answer, results>>
  <2>1. ~(StartOf(v) > EndOf(v))
    <3>1. v \in Workers
      BY DEF Workers, TypeInv
    <3> QED
      BY <3>1, ChunksApart
  <2> QED
    BY <2>1 DEF Spawn
<1>2. v \in Workers /\ v \in 1..MaxThreads /\ v \in Nat /\ StartOf(v) \in Nat /\ ~Started(v)
  <2>1. v \in Workers
    BY DEF Workers, TypeInv
  <2> QED
    BY <1>1, <2>1, WorkersAre, ChunksApart, SMTT(20) DEF StartInv, Searching, TypeInv
<1>3. Workers' = Workers /\ \A w : StartOf(w)' = StartOf(w) /\ EndOf(w)' = EndOf(w)
  BY <1>1, SameChunks
<1>4. TypeInv'
  <2>1. worker' \in [1..MaxThreads -> {None, "new", "query", "refused", "closed", "done"}]
    BY <1>1 DEF TypeInv
  <2>2. next' \in [1..MaxThreads -> 0..n]
    <3>1. StartOf(v) \in 0..n
      BY <1>2, ChunksApart DEF TypeInv
    <3> QED
      BY <1>1, <1>2, <3>1 DEF TypeInv
  <2>3. k' \in Nat /\ k' <= threads
    BY <1>1, <1>2 DEF TypeInv
  <2> QED
    BY <1>1, <2>1, <2>2, <2>3 DEF TypeInv
<1>5. worker'[v] = "new" /\ next'[v] = StartOf(v)
      /\ \A w \in Workers : w # v => worker'[w] = worker[w] /\ next'[w] = next[w]
  BY <1>1, <1>2, WorkersAre DEF TypeInv
<1>6. CountInv'
  <2>1. v \notin Running /\ Running' = Running \cup {v}
    BY <1>2, <1>3, <1>5 DEF Running, Started, Active, None
  <2> QED
    BY <1>1, <2>1, FS_AddElement DEF CountInv
<1>7. \A w \in Workers : Started(w)' <=> Started(w) \/ w = v
  BY <1>5 DEF Started, None
<1>8. StartInv'
  BY <1>1, <1>2, <1>3, <1>7, WorkersAre DEF StartInv, Searching, TypeInv
<1>9. ClosedInv'
  BY <1>1 DEF ClosedInv
<1>10. ChunkInv'
  <2> SUFFICES ASSUME NEW w \in Workers
               PROVE  /\ ~Started(w)' => next'[w] = 0
                      /\ Started(w)' => StartOf(w) <= next'[w] /\ next'[w] <= EndOf(w)
                      /\ worker'[w] = "new" => next'[w] = StartOf(w)
                      /\ worker'[w] \in {"closed", "done"} => next'[w] = EndOf(w)
    BY <1>3 DEF ChunkInv
  <2>1. CASE w = v
    BY <1>2, <1>5, <1>7, <2>1
  <2>2. CASE w # v
    BY <1>5, <1>7, <2>2 DEF ChunkInv
  <2> QED
    BY <2>1, <2>2
<1>11. AnswerInv'
  <2>1. \A i \in 0..n - 1 : Reached(i)' <=> Reached(i)
    <3> SUFFICES ASSUME NEW i \in 0..n - 1 PROVE Reached(i)' <=> Reached(i)
      OBVIOUS
    <3>1. i \in Int
      BY DEF TypeInv
    <3>2. ~(StartOf(v) <= i /\ i < next'[v])
      BY <1>2, <1>5, <3>1
    <3>3. Reached(i)' <=> \E w \in Workers : Started(w)' /\ StartOf(w) <= i /\ i < next'[w]
      BY <1>3 DEF Reached
    <3> QED
      BY <1>2, <1>5, <1>7, <3>2, <3>3 DEF Reached
  <2> QED
    BY <1>1, <2>1 DEF AnswerInv
<1>12. ResultInv'
  BY <1>1 DEF ResultInv
<1>13. PoolInv'
  BY <1>1, <1>2, <1>3, <1>5 DEF PoolInv, Searching, Started, None
<1> QED
  BY <1>4, <1>6, <1>8, <1>9, <1>10, <1>11, <1>12, <1>13

\* A goroutine that runs: the caller has started it and waits, the channel is open.
LEMMA RunningMeans ==
    ASSUME IInv, NEW w \in Workers, worker[w] \in Active
    PROVE  /\ Started(w) /\ main \in {"spawn", "collect"} /\ Searching /\ ~closed
           /\ w \in Running /\ wg \in Nat \ {0} /\ w \in 1..MaxThreads
<1>1. Started(w) /\ w \in Running
  BY DEF Active, Started, Running, None
<1>2. Searching /\ ~closed
  BY <1>1 DEF IInv, StartInv, ClosedInv
<1>3. main \in {"spawn", "collect"}
  BY <1>2 DEF IInv, ClosedInv, Searching
<1>4. wg \in Nat /\ wg # 0
  BY <1>1, FS_CardinalityType, FS_EmptySet DEF IInv, CountInv
<1> QED
  BY <1>1, <1>2, <1>3, <1>4, WorkersAre DEF IInv

\* A goroutine goes from one place to another, neither of them the beginning.
LEMMA Moves ==
    ASSUME IInv, NEW w \in Workers, worker[w] \in Active,
           NEW a \in {"query", "refused", "closed", "done"},
           worker' = [worker EXCEPT ![w] = a],
           a \in {"closed", "done"} => next[w] = EndOf(w),
           UNCHANGED <<n, threads, main, k, next, answer>>
    PROVE  /\ Workers' = Workers /\ \A v : StartOf(v)' = StartOf(v) /\ EndOf(v)' = EndOf(v)
           /\ worker' \in [1..MaxThreads -> {None, "new", "query", "refused", "closed", "done"}]
           /\ worker'[w] = a /\ \A v \in Workers : v # w => worker'[v] = worker[v]
           /\ Running' = IF a = "done" THEN Running \ {w} ELSE Running
           /\ StartInv' /\ ChunkInv' /\ AnswerInv'
<1> USE DEF IInv
<1>1. Started(w) /\ Searching /\ w \in Running /\ w \in 1..MaxThreads
  BY RunningMeans
<1>2. Workers' = Workers /\ \A v : StartOf(v)' = StartOf(v) /\ EndOf(v)' = EndOf(v)
  BY SameChunks
<1>3. worker'[w] = a /\ \A v \in Workers : v # w => worker'[v] = worker[v]
  BY <1>1, WorkersAre DEF TypeInv
<1>4. worker' \in [1..MaxThreads -> {None, "new", "query", "refused", "closed", "done"}]
  BY DEF TypeInv
<1>5. Running' = IF a = "done" THEN Running \ {w} ELSE Running
  BY <1>1, <1>2, <1>3 DEF Running, Active
<1>6. \A v \in Workers : Started(v)' <=> Started(v)
  BY <1>1, <1>3 DEF Started, None
<1>7. StartInv'
  BY <1>2, <1>6 DEF StartInv, Searching
<1>8. ChunkInv'
  <2> SUFFICES ASSUME NEW v \in Workers
               PROVE  /\ ~Started(v)' => next[v] = 0
                      /\ Started(v)' => StartOf(v) <= next[v] /\ next[v] <= EndOf(v)
                      /\ worker'[v] = "new" => next[v] = StartOf(v)
                      /\ worker'[v] \in {"closed", "done"} => next[v] = EndOf(v)
    BY <1>2 DEF ChunkInv
  <2>1. CASE v = w
    BY <1>1, <1>3, <1>6, <2>1 DEF ChunkInv
  <2>2. CASE v # w
    BY <1>3, <1>6, <2>2 DEF ChunkInv
  <2> QED
    BY <2>1, <2>2
<1>9. AnswerInv'
  <2>1. \A i : Reached(i)' <=> Reached(i)
    BY <1>2, <1>6 DEF Reached
  <2> QED
    BY <2>1 DEF AnswerInv
<1> QED
  BY <1>2, <1>3, <1>4, <1>5, <1>7, <1>8, <1>9

LEMMA SettingsStep ==
    ASSUME IInv, NEW w \in Workers, Settings(w)
    PROVE  IInv'
<1> USE DEF IInv
<1>1. worker[w] = "new" /\ worker[w] \in Active
      /\ UNCHANGED <<n, threads, main, k, pool, next, wg, chan, closed, answer, results>>
  BY DEF Settings, Active
<1>2. PICK a \in {"query", "refused"} : worker' = [worker EXCEPT ![w] = a]
  BY DEF Settings
<1>3. /\ Workers' = Workers /\ Running' = Running
      /\ worker' \in [1..MaxThreads -> {None, "new", "query", "refused", "closed", "done"}]
      /\ worker'[w] = a /\ \A v \in Workers : v # w => worker'[v] = worker[v]
      /\ StartInv' /\ ChunkInv' /\ AnswerInv'
  BY <1>1, <1>2, Moves
<1>4. TypeInv'
  BY <1>1, <1>3 DEF TypeInv
<1>5. CountInv' /\ ClosedInv' /\ ResultInv'
  BY <1>1, <1>3 DEF CountInv, ClosedInv, ResultInv
<1>6. PoolInv'
  BY <1>1, <1>2, <1>3, RunningMeans DEF PoolInv, Searching
<1> QED
  BY <1>3, <1>4, <1>5, <1>6

LEMMA CloseStep ==
    ASSUME IInv, NEW w \in Workers, Close(w)
    PROVE  IInv'
<1> USE DEF IInv
<1>1. /\ worker[w] \in {"query", "refused"} /\ worker[w] \in Active /\ next[w] >= EndOf(w)
      /\ pool' = [pool EXCEPT ![w] = "closed"] /\ worker' = [worker EXCEPT ![w] = "closed"]
      /\ UNCHANGED <<n, threads, main, k, next, wg, chan, closed, answer, results>>
  BY DEF Close, ClosedPool, Active
<1>2. Started(w) /\ Searching /\ main \in {"spawn", "collect"} /\ w \in 1..MaxThreads
  BY <1>1, RunningMeans
<1>3. next[w] = EndOf(w)
  <2>1. next[w] \in Nat /\ next[w] <= EndOf(w)
    BY <1>2 DEF ChunkInv, TypeInv
  <2>2. EndOf(w) \in Nat
    BY ChunksApart
  <2> QED
    BY <1>1, <2>1, <2>2
<1>4. /\ Workers' = Workers /\ Running' = Running
      /\ worker' \in [1..MaxThreads -> {None, "new", "query", "refused", "closed", "done"}]
      /\ worker'[w] = "closed" /\ \A v \in Workers : v # w => worker'[v] = worker[v]
      /\ StartInv' /\ ChunkInv' /\ AnswerInv'
  BY <1>1, <1>3, Moves
<1>5. pool' \in [1..MaxThreads -> {None, "open", "closed"}]
      /\ pool'[w] = "closed" /\ \A v \in Workers : v # w => pool'[v] = pool[v]
  BY <1>1, <1>2, WorkersAre DEF TypeInv
<1>6. TypeInv'
  BY <1>1, <1>4, <1>5 DEF TypeInv
<1>7. CountInv' /\ ClosedInv' /\ ResultInv'
  BY <1>1, <1>4 DEF CountInv, ClosedInv, ResultInv
<1>8. PoolInv'
  BY <1>1, <1>2, <1>4, <1>5 DEF PoolInv, Searching
<1> QED
  BY <1>4, <1>6, <1>7, <1>8

LEMMA DoneStep ==
    ASSUME IInv, NEW w \in Workers, Done(w)
    PROVE  IInv'
<1> USE DEF IInv
<1>1. /\ worker[w] = "closed" /\ worker[w] \in Active
      /\ worker' = [worker EXCEPT ![w] = "done"] /\ wg' = wg - 1
      /\ UNCHANGED <<n, threads, main, k, pool, next, chan, closed, answer, results>>
  BY DEF Done, AfterDone, Active
<1>2. Searching /\ main \in {"spawn", "collect"} /\ ~closed /\ w \in Running
  BY <1>1, RunningMeans
<1>3. /\ Workers' = Workers /\ Running' = Running \ {w}
      /\ worker' \in [1..MaxThreads -> {None, "new", "query", "refused", "closed", "done"}]
      /\ worker'[w] = "done" /\ \A v \in Workers : v # w => worker'[v] = worker[v]
      /\ StartInv' /\ ChunkInv' /\ AnswerInv'
  BY <1>1, Moves DEF ChunkInv
<1>4. TypeInv'
  BY <1>1, <1>3 DEF TypeInv
<1>5. CountInv'
  BY <1>1, <1>2, <1>3, FS_RemoveElement DEF CountInv
<1>6. ClosedInv' /\ ResultInv'
  BY <1>1, <1>2 DEF ClosedInv, ResultInv
<1>7. PoolInv'
  BY <1>1, <1>2, <1>3 DEF PoolInv, Searching
<1> QED
  BY <1>3, <1>4, <1>5, <1>6, <1>7

\* The answer that a goroutine gets is the first one to its list of arguments, since
\* no other goroutine has that list.
LEMMA QueryStep ==
    ASSUME IInv, NEW w \in Workers, Query(w)
    PROVE  IInv'
<1> USE DEF IInv
<1> DEFINE p == next[w]
<1>1. worker[w] \in Active /\ p < EndOf(w)
  BY DEF Query, Active
<1>2. Started(w) /\ ~closed /\ w \in 1..MaxThreads
  BY <1>1, RunningMeans
<1>3. PICK a \in {"rows", "error"} : answer' = [answer EXCEPT ![p] = a]
          /\ Len(chan) < n /\ chan' = Append(chan, <<p, a>>)
          /\ next' = [next EXCEPT ![w] = p + 1]
  BY <1>2 DEF Query
<1>4. UNCHANGED <<n, threads, main, k, pool, worker, wg, closed, results>>
  BY <1>2 DEF Query
<1>5. p \in 0..n - 1 /\ StartOf(w) <= p
  <2>1. StartOf(w) \in Nat /\ EndOf(w) \in Nat /\ EndOf(w) <= n /\ n \in Nat
    BY ChunksApart DEF TypeInv
  <2>2. p \in Nat /\ StartOf(w) <= p
    BY <1>2, SMTT(20) DEF TypeInv, ChunkInv
  <2> QED
    BY <1>1, <2>1, <2>2
<1>6. answer[p] = None
  <2> SUFFICES ASSUME NEW v \in Workers, Started(v), StartOf(v) <= p, p < next[v] PROVE FALSE
    BY <1>5 DEF AnswerInv, Reached
  <2>1. next[v] <= EndOf(v) /\ next[v] \in Nat
    BY WorkersAre DEF ChunkInv, TypeInv
  <2>2. v # w
    BY <1>5, <2>1
  <2>3. /\ StartOf(v) \in Nat /\ StartOf(w) \in Nat /\ EndOf(v) \in Nat /\ EndOf(w) \in Nat
        /\ EndOf(v) <= StartOf(v) + ChunkSize /\ EndOf(w) <= StartOf(w) + ChunkSize
        /\ ChunkSize \in Nat
    BY ChunksApart, ChunksCover
  <2>4. CASE v < w
    <3>1. StartOf(v) + ChunkSize <= StartOf(w)
      <4>1. v \in 1..threads + 1 /\ w \in 1..threads + 1
        BY WorkersAre
      <4> QED
        BY <2>4, <4>1, ChunksApart
    <3> QED
      BY <1>5, <2>1, <2>3, <3>1
  <2>5. CASE w < v
    <3>1. StartOf(w) + ChunkSize <= StartOf(v)
      <4>1. v \in 1..threads + 1 /\ w \in 1..threads + 1
        BY WorkersAre
      <4> QED
        BY <2>5, <4>1, ChunksApart
    <3> QED
      BY <1>1, <1>5, <2>3, <3>1
  <2> QED
    BY <2>2, <2>4, <2>5, WorkersAre
<1>7. Workers' = Workers /\ Running' = Running
      /\ \A v : StartOf(v)' = StartOf(v) /\ EndOf(v)' = EndOf(v) /\ Started(v)' = Started(v)
  BY <1>4, SameChunks DEF Running, Started
<1>8. next'[w] = p + 1 /\ \A v \in Workers : v # w => next'[v] = next[v]
  BY <1>2, <1>3, WorkersAre DEF TypeInv
<1>9. answer'[p] = a /\ \A i \in 0..n - 1 : i # p => answer'[i] = answer[i]
  BY <1>3, <1>5 DEF TypeInv
<1>10. TypeInv'
  <2>1. next' \in [1..MaxThreads -> 0..n]
    <3>1. p + 1 \in 0..n
      BY <1>5 DEF TypeInv
    <3> HIDE DEF p
    <3> QED
      BY <1>3, <3>1 DEF TypeInv
  <2>2. answer' \in [0..n - 1 -> Answers]
    BY <1>3 DEF TypeInv, Answers
  <2>3. chan' \in Seq((0..n - 1) \X Answers) /\ Len(chan') <= n
    <3>1. <<p, a>> \in (0..n - 1) \X Answers
      BY <1>5 DEF Answers
    <3>2. Len(chan') = Len(chan) + 1 /\ chan' \in Seq((0..n - 1) \X Answers)
      BY <1>3, <3>1 DEF TypeInv
    <3> QED
      BY <1>3, <3>2 DEF TypeInv
  <2> QED
    BY <1>4, <2>1, <2>2, <2>3 DEF TypeInv
<1>11. CountInv' /\ StartInv' /\ PoolInv'
  BY <1>4, <1>7 DEF CountInv, StartInv, PoolInv, Searching
<1>12. ClosedInv'
  <2>1. main # "returned"
    BY <1>1, RunningMeans
  <2> QED
    BY <1>2, <1>4, <2>1 DEF ClosedInv
<1>13. ChunkInv'
  <2> SUFFICES ASSUME NEW v \in Workers
               PROVE  /\ ~Started(v) => next'[v] = 0
                      /\ Started(v) => StartOf(v) <= next'[v] /\ next'[v] <= EndOf(v)
                      /\ worker[v] = "new" => next'[v] = StartOf(v)
                      /\ worker[v] \in {"closed", "done"} => next'[v] = EndOf(v)
    BY <1>4, <1>7 DEF ChunkInv
  <2>1. CASE v = w
    <3>1. worker[w] \in {"query", "refused"}
      BY DEF Query
    <3>2. StartOf(w) \in Nat /\ EndOf(w) \in Nat
      BY ChunksApart
    <3> QED
      BY <1>1, <1>2, <1>5, <1>8, <2>1, <3>1, <3>2
  <2>2. CASE v # w
    BY <1>8, <2>2 DEF ChunkInv
  <2> QED
    BY <2>1, <2>2
<1>14. AnswerInv'
  <2> SUFFICES ASSUME NEW i \in 0..n - 1 PROVE answer'[i] # None <=> Reached(i)'
    BY <1>4 DEF AnswerInv
  <2>1. Reached(i)' <=> \E v \in Workers : Started(v) /\ StartOf(v) <= i /\ i < next'[v]
    BY <1>7 DEF Reached
  <2>2. CASE i = p
    BY <1>2, <1>5, <1>8, <1>9, <2>1, <2>2 DEF None
  <2>3. CASE i # p
    <3>1. Reached(i)' <=> Reached(i)
      BY <1>5, <1>8, <2>1, <2>3 DEF Reached
    <3> QED
      BY <1>9, <2>3, <3>1 DEF AnswerInv
  <2> QED
    BY <2>2, <2>3
<1>15. ResultInv'
  <2>1. Len(chan') = Len(chan) + 1 /\ chan'[Len(chan) + 1] = <<p, a>> /\ Len(chan) \in Nat
        /\ \A j \in 1..Len(chan) : chan'[j] = chan[j] /\ chan[j][1] \in 0..n - 1
    BY <1>3 DEF TypeInv
  <2>2. ASSUME NEW j \in 1..Len(chan') PROVE chan'[j][2] = answer'[chan'[j][1]] /\ chan'[j][2] # None
    <3>1. CASE j = Len(chan) + 1
      BY <1>9, <2>1, <3>1 DEF None
    <3>2. CASE j \in 1..Len(chan)
      BY <1>6, <1>9, <2>1, <3>2, SMTT(20) DEF ResultInv
    <3> QED
      BY <2>1, <3>1, <3>2
  <2>3. ASSUME NEW i \in 0..n - 1, answer'[i] # None
        PROVE  \/ results[i] = answer'[i]
               \/ \E j \in 1..Len(chan') : chan'[j] = <<i, answer'[i]>>
    <3>1. CASE i = p
      BY <1>9, <2>1, <3>1
    <3>2. CASE i # p
      <4>1. results[i] = answer[i] \/ \E j \in 1..Len(chan) : chan[j] = <<i, answer[i]>>
        BY <1>9, <2>3, <3>2 DEF ResultInv
      <4> QED
        BY <1>9, <2>1, <3>2, <4>1
    <3> QED
      BY <3>1, <3>2
  <2> QED
    BY <1>4, <2>2, <2>3 DEF ResultInv
<1> QED
  BY <1>10, <1>11, <1>12, <1>13, <1>14, <1>15

LEMMA CloseChannelStep ==
    ASSUME IInv, CloseChannel
    PROVE  IInv'
<1> USE DEF IInv
<1>1. main = "collect" /\ wg = 0 /\ closed' = TRUE
      /\ UNCHANGED <<n, threads, main, k, pool, worker, next, wg, chan, answer, results>>
  BY DEF CloseChannel
<1>2. Running = {}
  BY <1>1, FS_EmptySet DEF CountInv
<1>3. Workers' = Workers /\ Running' = Running /\ ChunkInv' /\ AnswerInv'
      /\ \A w : Started(w)' = Started(w) /\ StartOf(w)' = StartOf(w)
  BY <1>1, Frame
<1>4. TypeInv' /\ CountInv' /\ ResultInv'
  BY <1>1, <1>3 DEF TypeInv, CountInv, ResultInv
<1>5. StartInv' /\ ClosedInv' /\ PoolInv'
  BY <1>1, <1>2, <1>3 DEF StartInv, ClosedInv, PoolInv, Searching
<1> QED
  BY <1>3, <1>4, <1>5

LEMMA CollectStep ==
    ASSUME IInv, Collect
    PROVE  IInv'
<1> USE DEF IInv
<1> DEFINE h == Head(chan)
<1>1. main = "collect" /\ chan # <<>> /\ chan' = Tail(chan)
      /\ results' = [results EXCEPT ![h[1]] = h[2]]
      /\ UNCHANGED <<n, threads, main, k, pool, worker, next, wg, closed, answer>>
  BY DEF Collect
<1>2. h \in (0..n - 1) \X Answers /\ h = chan[1] /\ Len(chan) \in Nat \ {0}
      /\ chan' \in Seq((0..n - 1) \X Answers) /\ Len(chan') = Len(chan) - 1
      /\ \A j \in 1..Len(chan') : chan'[j] = chan[j + 1]
  BY <1>1 DEF TypeInv
<1>3. h[2] = answer[h[1]] /\ h[1] \in 0..n - 1 /\ h[2] \in Answers
  BY <1>2 DEF ResultInv
<1>4. Workers' = Workers /\ Running' = Running /\ ChunkInv' /\ AnswerInv'
      /\ \A w : Started(w)' = Started(w) /\ StartOf(w)' = StartOf(w)
  BY <1>1, Frame
<1>5. TypeInv'
  <2>1. results' \in [0..n - 1 -> Answers]
    BY <1>1, <1>3 DEF TypeInv
  <2>2. Len(chan') <= n
    BY <1>2 DEF TypeInv
  <2> QED
    BY <1>1, <1>2, <2>1, <2>2 DEF TypeInv
<1>6. CountInv' /\ StartInv' /\ ClosedInv' /\ PoolInv'
  BY <1>1, <1>4 DEF CountInv, StartInv, ClosedInv, PoolInv, Searching
<1>7. ResultInv'
  <2>1. results'[h[1]] = answer[h[1]]
        /\ \A i \in 0..n - 1 : i # h[1] => results'[i] = results[i]
    BY <1>1, <1>3 DEF TypeInv
  <2>2. ASSUME NEW j \in 1..Len(chan') PROVE chan'[j][2] = answer[chan'[j][1]] /\ chan'[j][2] # None
    <3>1. j + 1 \in 1..Len(chan) /\ chan'[j] = chan[j + 1]
      BY <1>2
    <3> QED
      BY <3>1 DEF ResultInv
  <2>3. ASSUME NEW i \in 0..n - 1, answer[i] # None
        PROVE  results'[i] = answer[i] \/ \E j \in 1..Len(chan') : chan'[j] = <<i, answer[i]>>
    <3>1. CASE results[i] = answer[i]
      BY <2>1, <3>1
    <3>2. ASSUME NEW j \in 1..Len(chan), chan[j] = <<i, answer[i]>>
          PROVE  results'[i] = answer[i] \/ \E l \in 1..Len(chan') : chan'[l] = <<i, answer[i]>>
      <4>1. CASE j = 1
        BY <1>2, <2>1, <3>2, <4>1
      <4>2. CASE j # 1
        <5>1. j - 1 \in 1..Len(chan') /\ chan'[j - 1] = chan[j]
          BY <1>2, <4>2
        <5> QED
          BY <3>2, <5>1
      <4> QED
        BY <4>1, <4>2
    <3> QED
      BY <2>3, <3>1, <3>2 DEF ResultInv
  <2> QED
    BY <1>1, <2>2, <2>3 DEF ResultInv
<1> QED
  BY <1>4, <1>5, <1>6, <1>7

LEMMA ReturnStep ==
    ASSUME IInv, Return
    PROVE  IInv'
<1> USE DEF IInv
<1>1. main = "collect" /\ closed /\ chan = <<>> /\ main' = "returned"
      /\ UNCHANGED <<n, threads, k, pool, worker, next, wg, chan, closed, answer, results>>
  BY DEF Return
<1>2. Workers' = Workers /\ Running' = Running /\ ChunkInv' /\ AnswerInv'
      /\ \A w : Started(w)' = Started(w) /\ StartOf(w)' = StartOf(w)
  BY <1>1, Frame
<1>3. TypeInv' /\ CountInv' /\ ResultInv'
  BY <1>1, <1>2 DEF TypeInv, CountInv, ResultInv
<1>4. StartInv' /\ ClosedInv' /\ PoolInv'
  BY <1>1, <1>2 DEF StartInv, ClosedInv, PoolInv, Searching
<1> QED
  BY <1>2, <1>3, <1>4

LEMMA InvInit == Init => IInv
<1> SUFFICES ASSUME Init PROVE IInv
  OBVIOUS
<1>1. n \in Nat \ {0} /\ n <= MaxArgs /\ threads \in Nat \ {0} /\ threads <= n
      /\ threads <= MaxThreads
  BY MaxArgsAssumption, MaxThreadsAssumption DEF Init
<1>2. TypeInv
  <2>1. main = "connect" /\ k = 0 /\ chan = <<>> /\ closed = FALSE
    BY DEF Init
  <2>2. /\ pool \in [1..MaxThreads -> {None, "open", "closed"}]
        /\ worker \in [1..MaxThreads -> {None, "new", "query", "refused", "closed", "done"}]
        /\ next \in [1..MaxThreads -> 0..n]
        /\ answer \in [0..n - 1 -> Answers] /\ results \in [0..n - 1 -> Answers]
    BY <1>1 DEF Init, Answers
  <2>3. chan \in Seq((0..n - 1) \X Answers) /\ Len(chan) = 0
    BY <2>1
  <2>4. Len(chan) <= n /\ k \in Nat /\ k <= threads
    BY <1>1, <2>1, <2>3
  <2> QED
    BY <1>1, <2>1, <2>2, <2>3, <2>4 DEF TypeInv
<1>3. \A w \in Workers : worker[w] = None /\ ~Started(w) /\ next[w] = 0
  BY <1>2, WorkersAre DEF Init, Started
<1>4. CountInv
  <2>1. Running = {}
    BY <1>3 DEF Running, Active, None
  <2> QED
    BY <2>1, FS_EmptySet DEF Init, CountInv
<1>5. StartInv /\ ClosedInv /\ PoolInv
  BY <1>1, <1>3 DEF Init, StartInv, ClosedInv, PoolInv, Searching, Workers
<1>6. ChunkInv
  BY <1>3 DEF ChunkInv, None
<1>7. AnswerInv /\ ResultInv
  BY <1>3 DEF Init, AnswerInv, ResultInv, Reached
<1> QED
  BY <1>2, <1>4, <1>5, <1>6, <1>7 DEF IInv

LEMMA InvStep ==
    ASSUME IInv, [Next]_vars
    PROVE  IInv'
<1>1. CASE Caller
  <2>1. CASE Spawn
    <3>1. k = threads \/ (k # threads /\ StartOf(k + 1) <= EndOf(k + 1))
                      \/ (k # threads /\ StartOf(k + 1) > EndOf(k + 1))
      <4> SUFFICES ASSUME k # threads
                   PROVE  StartOf(k + 1) <= EndOf(k + 1) \/ StartOf(k + 1) > EndOf(k + 1)
        OBVIOUS
      <4>1. k + 1 \in Workers
        BY DEF IInv, TypeInv, Workers
      <4> QED
        BY <4>1, ChunksApart DEF IInv
    <3> QED
      BY <2>1, <3>1, NoneStarts, OneStarts
  <2> QED
    BY <1>1, <2>1, ConnectStep, CollectStep, ReturnStep DEF Caller
<1>2. CASE CloseChannel
  BY <1>2, CloseChannelStep
<1>3. ASSUME NEW w \in Workers, Step(w)
      PROVE  IInv'
  BY <1>3, SettingsStep, QueryStep, CloseStep, DoneStep DEF Step
<1>4. CASE UNCHANGED vars
  <2>1. UNCHANGED <<n, threads, main, k, pool, worker, next, wg, chan, closed, answer, results>>
    BY <1>4 DEF vars
  <2>2. Workers' = Workers /\ Running' = Running /\ ChunkInv' /\ AnswerInv'
        /\ \A w : Started(w)' = Started(w) /\ StartOf(w)' = StartOf(w)
    BY <2>1, Frame
  <2> QED
    BY <2>1, <2>2 DEF IInv, TypeInv, CountInv, StartInv, ClosedInv, ResultInv, PoolInv, Searching
<1> QED
  BY <1>1, <1>2, <1>3, <1>4 DEF Next

--------------------------------------------------------------------------------
(* Theorems *)

\* The inductive invariant of ExecuteMultiSearch (parallel.go).
THEOREM Invariance == Spec => []IInv
BY InvInit, InvStep, PTL DEF Spec

\* Every variable has its type: no goroutine goes beyond its arguments, and the channel
\* never holds more results than it has room for (parallel.go:116).
THEOREM TypeCorrect == Spec => []TypeOK
<1>1. IInv => TypeOK
  <2> SUFFICES ASSUME IInv PROVE TypeOK
    OBVIOUS
  <2> USE DEF IInv
  <2>1. wg \in 0..threads
    <3>1. IsFiniteSet(1..threads) /\ Cardinality(1..threads) = threads
      BY FS_Interval DEF TypeInv
    <3>2. Running \in SUBSET (1..threads)
      BY DEF Running, Workers
    <3>3. Cardinality(Running) <= threads
      BY <3>1, <3>2, FS_Subset
    <3> QED
      BY <3>3, FS_CardinalityType DEF CountInv, TypeInv
  <2>2. n \in 1..MaxArgs /\ threads \in 1..MaxThreads /\ k \in 0..threads
    BY MaxArgsAssumption, MaxThreadsAssumption DEF TypeInv
  <2> QED
    BY <2>1, <2>2 DEF TypeInv, TypeOK
<1> QED
  BY <1>1, Invariance, PTL

\* What ExecuteMultiSearch returns has the answer to each list of arguments in its place,
\* and nothing is sent on the closed channel: the WaitGroup is back at zero only when
\* every goroutine is through with its chunk, the chunks of the goroutines that were
\* started cover the arguments, and no argument is in two of them.
THEOREM ResultsInPlace == Spec => []InPlace
<1>1. IInv => InPlace
  <2> SUFFICES ASSUME IInv PROVE InPlace
    OBVIOUS
  <2> USE DEF IInv
  <2>1. main # "panicked"
    BY DEF TypeInv
  <2>2. ASSUME main = "returned", NEW i \in 0..n - 1
        PROVE  results[i] = answer[i] /\ answer[i] # None
    <3>1. chan = <<>> /\ Running = {} /\ Searching
      BY <2>2 DEF ClosedInv, Searching
    <3>2. PICK w \in Workers : StartOf(w) <= i /\ i < EndOf(w)
      BY ChunksOwn
    <3>3. w <= k
      <4> SUFFICES ASSUME k < w PROVE FALSE
        BY WorkersAre DEF TypeInv
      <4>1. k # threads /\ k + 1 \in 1..threads + 1 /\ k + 1 \in Workers /\ w \in 1..threads + 1
        BY WorkersAre DEF TypeInv
      <4>2. StartOf(k + 1) > n
        BY <2>2, <4>1 DEF StartInv
      <4>3. k + 1 = w \/ StartOf(k + 1) + ChunkSize <= StartOf(w)
        BY <4>1, ChunksApart, WorkersAre DEF TypeInv
      <4>4. /\ StartOf(k + 1) \in Nat /\ StartOf(w) \in Nat /\ ChunkSize \in Nat /\ n \in Nat
        BY <4>1, ChunksApart, ChunksCover DEF TypeInv
      <4> QED
        BY <3>2, <4>2, <4>3, <4>4
    <3>4. Started(w)
      BY <3>1, <3>3 DEF StartInv
    <3>5. worker[w] = "done"
      BY <3>1, <3>4, WorkersAre DEF Running, Active, Started, TypeInv
    <3>6. next[w] = EndOf(w)
      BY <3>5 DEF ChunkInv
    <3>7. answer[i] # None
      BY <3>2, <3>4, <3>6 DEF AnswerInv, Reached
    <3>8. Len(chan) = 0
      BY <3>1
    <3> QED
      BY <3>7, <3>8 DEF ResultInv
  <2> QED
    BY <2>1, <2>2 DEF InPlace
<1> QED
  BY <1>1, Invariance, PTL

\* Which pools are closed when ExecuteMultiSearch returns: those of the goroutines that
\* were started, and after a failed Ping (parallel.go:123) all but the one it failed on.
THEOREM PoolsAreClosed == Spec => []PoolsClosed
<1>1. IInv => PoolsClosed
  <2> SUFFICES ASSUME IInv PROVE PoolsClosed
    OBVIOUS
  <2> USE DEF IInv
  <2>1. ASSUME main = "returned", NEW w \in Workers
        PROVE  pool[w] = IF StartOf(w) > n THEN "open" ELSE "closed"
    <3>1. Running = {} /\ Searching
      BY <2>1 DEF ClosedInv, Searching
    <3>2. CASE w <= k
      <4>1. Started(w)
        BY <3>1, <3>2 DEF StartInv
      <4>2. worker[w] = "done"
        BY <3>1, <4>1, WorkersAre DEF Running, Active, Started, TypeInv
      <4>3. StartOf(w) <= next[w] /\ next[w] <= n /\ next[w] \in Nat /\ StartOf(w) \in Nat
            /\ n \in Nat
        BY <4>1, ChunksApart, WorkersAre DEF ChunkInv, TypeInv
      <4> QED
        BY <3>1, <4>2, <4>3 DEF PoolInv
    <3>3. CASE k < w
      <4>1. k # threads /\ k + 1 \in 1..threads + 1 /\ k + 1 \in Workers /\ w \in 1..threads + 1
        BY <3>3, WorkersAre DEF TypeInv
      <4>2. StartOf(k + 1) > n
        BY <2>1, <4>1 DEF StartInv
      <4>3. k + 1 = w \/ StartOf(k + 1) + ChunkSize <= StartOf(w)
        BY <3>3, <4>1, ChunksApart, WorkersAre DEF TypeInv
      <4>4. /\ StartOf(k + 1) \in Nat /\ StartOf(w) \in Nat /\ ChunkSize \in Nat /\ n \in Nat
        BY <4>1, ChunksApart, ChunksCover DEF TypeInv
      <4>5. StartOf(w) > n
        BY <4>2, <4>3, <4>4
      <4>6. ~(w <= k) /\ ~Started(w)
        BY <3>3, WorkersAre DEF StartInv, TypeInv
      <4>7. worker[w] \notin {"closed", "done"}
        BY <4>6 DEF Started, None
      <4> QED
        BY <3>1, <4>5, <4>7 DEF PoolInv
    <3> QED
      BY <3>2, <3>3, WorkersAre DEF TypeInv
  <2> QED
    BY <2>1 DEF PoolsClosed, PoolInv
<1> QED
  BY <1>1, Invariance, PTL

================================================================================
