----------------------------- MODULE ParallelSearch -----------------------------
(***************************************************************************)
(* ExecuteMultiSearch (parallel.go): one query with many lists of          *)
(* arguments, shared out in chunks among goroutines that have a pool of    *)
(* connections each.  They send what each query gave over a channel, which *)
(* another goroutine closes after the last of them, and the caller's       *)
(* collects the results in the order of the arguments.                     *)
(***************************************************************************)
EXTENDS Integers, Sequences, FiniteSets

CONSTANTS
    MaxArgs,        \* bound: lists of arguments
    MaxThreads,     \* bound: threadCount
    MaxErrors       \* bound: queries that fail, besides those without settings

ASSUME MaxArgsAssumption == MaxArgs \in Nat \ {0}
ASSUME MaxThreadsAssumption == MaxThreads \in Nat \ {0}
ASSUME MaxErrorsAssumption == MaxErrors \in Nat

None == "none"

VARIABLES
    n, threads,     \* the lists of arguments and the goroutines
    main,           \* the caller's goroutine: "connect", "spawn", "collect",
                    \* "returned", "failed" (the result is one error) or "panicked"
    k,              \* the pools made, or the goroutines started, so far
    pool,           \* of each goroutine: "none", "open" or "closed"
    worker,         \* each goroutine: "none", "new", "query", "refused" (a setting
                    \* was), "closed" (its pool is) or "done"
    next,           \* its next list of arguments
    wg,             \* the WaitGroup
    chan, closed,   \* resultChan
    answer,         \* what each query gave: "none" yet, "rows" or "error"
    results

vars == <<n, threads, main, k, pool, worker, next, wg, chan, closed, answer, results>>

Workers == 1..threads

(* Mistakes the code could have made, as mutated forms for the properties.   *)
RoundedDown == n \div threads           \* the chunks do not cover the arguments
NeverDone == wg                         \* a goroutine returns without Done
LeftOpen(w) == pool                     \* the pool is not closed

--------------------------------------------------------------------------------

ChunkSize == (n + threads - 1) \div threads
StartOf(w) == (w - 1) * ChunkSize
EndOf(w) == IF StartOf(w) + ChunkSize > n THEN n ELSE StartOf(w) + ChunkSize

\* A pool is made and its connection tried; if that fails, the others are closed.
Connect ==
    /\ main = "connect" /\ k < threads
    /\ \/ /\ pool' = [pool EXCEPT ![k + 1] = "open"] /\ k' = k + 1 /\ UNCHANGED main
       \/ /\ pool' = [w \in 1..MaxThreads |-> IF w <= k THEN "closed"
                                              ELSE IF w = k + 1 THEN "open" ELSE None]
          /\ main' = "failed" /\ UNCHANGED k
    /\ UNCHANGED <<n, threads, worker, next, wg, chan, closed, answer, results>>

Connected ==
    /\ main = "connect" /\ k = threads
    /\ main' = "spawn" /\ k' = 0
    /\ UNCHANGED <<n, threads, pool, worker, next, wg, chan, closed, answer, results>>

Spawn ==
    /\ main = "spawn"
    /\ IF k = threads \/ StartOf(k + 1) > EndOf(k + 1)
       THEN main' = "collect" /\ UNCHANGED <<k, worker, next, wg>>
       ELSE /\ k' = k + 1 /\ wg' = wg + 1 /\ UNCHANGED main
            /\ worker' = [worker EXCEPT ![k + 1] = "new"]
            /\ next' = [next EXCEPT ![k + 1] = StartOf(k + 1)]
    /\ UNCHANGED <<n, threads, pool, chan, closed, answer, results>>

Settings(w) ==
    /\ worker[w] = "new"
    /\ \E made \in {"query", "refused"} : worker' = [worker EXCEPT ![w] = made]
    /\ UNCHANGED <<n, threads, main, k, pool, next, wg, chan, closed, answer, results>>

Errors == Cardinality({i \in 0..n - 1 : answer[i] = "error"})

\* Query, or the error of the settings: the result of one list of arguments is sent.
Query(w) ==
    /\ worker[w] \in {"query", "refused"} /\ next[w] < EndOf(w)
    /\ \E a \in {"rows", "error"} :
           /\ worker[w] = "refused" => a = "error"
           /\ worker[w] = "query" /\ a = "error" => Errors < MaxErrors
           /\ answer' = [answer EXCEPT ![next[w]] = a]
           /\ IF closed THEN main' = "panicked" /\ UNCHANGED <<chan, next>>
              ELSE /\ Len(chan) < n /\ chan' = Append(chan, <<next[w], a>>)
                   /\ next' = [next EXCEPT ![w] = @ + 1] /\ UNCHANGED main
    /\ UNCHANGED <<n, threads, k, pool, worker, wg, closed, results>>

\* The deferred calls: Close of the pool, then Done.
ClosedPool(w) == [pool EXCEPT ![w] = "closed"]

Close(w) ==
    /\ worker[w] \in {"query", "refused"} /\ next[w] >= EndOf(w)
    /\ pool' = ClosedPool(w)
    /\ worker' = [worker EXCEPT ![w] = "closed"]
    /\ UNCHANGED <<n, threads, main, k, next, wg, chan, closed, answer, results>>

AfterDone == wg - 1

Done(w) ==
    /\ worker[w] = "closed"
    /\ worker' = [worker EXCEPT ![w] = "done"] /\ wg' = AfterDone
    /\ UNCHANGED <<n, threads, main, k, pool, next, chan, closed, answer, results>>

CloseChannel ==
    /\ main = "collect" /\ wg = 0 /\ ~closed
    /\ closed' = TRUE
    /\ UNCHANGED <<n, threads, main, k, pool, worker, next, wg, chan, answer, results>>

Collect ==
    /\ main = "collect" /\ chan # <<>>
    /\ results' = [results EXCEPT ![Head(chan)[1]] = Head(chan)[2]]
    /\ chan' = Tail(chan)
    /\ UNCHANGED <<n, threads, main, k, pool, worker, next, wg, closed, answer>>

Return ==
    /\ main = "collect" /\ closed /\ chan = <<>>
    /\ main' = "returned"
    /\ UNCHANGED <<n, threads, k, pool, worker, next, wg, chan, closed, answer, results>>

Step(w) == Settings(w) \/ Query(w) \/ Close(w) \/ Done(w)
Caller == Connect \/ Connected \/ Spawn \/ Collect \/ Return

Init ==
    /\ n \in 1..MaxArgs
    /\ \E asked \in 1..MaxThreads : threads = IF n < asked THEN n ELSE asked
    /\ main = "connect" /\ k = 0 /\ wg = 0 /\ chan = <<>> /\ closed = FALSE
    /\ pool = [w \in 1..MaxThreads |-> None]
    /\ worker = [w \in 1..MaxThreads |-> None]
    /\ next = [w \in 1..MaxThreads |-> 0]
    /\ answer = [i \in 0..n - 1 |-> None] /\ results = [i \in 0..n - 1 |-> None]

Next == Caller \/ CloseChannel \/ \E w \in Workers : main # "panicked" /\ Step(w)

\* Every goroutine runs on, and the server answers.
Spec ==
    /\ Init /\ [][Next]_vars
    /\ WF_vars(Caller) /\ WF_vars(CloseChannel)
    /\ \A w \in 1..MaxThreads : WF_vars(main # "panicked" /\ w \in Workers /\ Step(w))

--------------------------------------------------------------------------------
(* Properties *)

Answers == {None, "rows", "error"}

\* The types of the variables.
TypeOK ==
    /\ n \in 1..MaxArgs /\ threads \in 1..MaxThreads /\ threads <= n
    /\ main \in {"connect", "spawn", "collect", "returned", "failed", "panicked"}
    /\ k \in 0..threads /\ wg \in 0..threads /\ closed \in BOOLEAN
    /\ pool \in [1..MaxThreads -> {None, "open", "closed"}]
    /\ worker \in [1..MaxThreads -> {None, "new", "query", "refused", "closed", "done"}]
    /\ next \in [1..MaxThreads -> 0..n]
    /\ answer \in [0..n - 1 -> Answers] /\ results \in [0..n - 1 -> Answers]
    /\ chan \in Seq((0..n - 1) \X Answers) /\ Len(chan) <= n

\* Nothing is sent after the channel is closed, which would end the program, and what
\* is returned has the answer to each list of arguments in its place: the chunks cover
\* all of them and overlap nowhere, and none is lost on the way.
InPlace ==
    /\ main # "panicked"
    /\ main = "returned" => \A i \in 0..n - 1 : results[i] = answer[i] /\ answer[i] # None

\* When the search returns, the pools of the goroutines are closed.  Those that no
\* goroutine was started for, as the chunks before have taken all, stay open, and so
\* does the pool whose connection cannot be made.
PoolsClosed ==
    /\ main = "failed" => \A w \in Workers : pool[w] = "open" <=> w = k + 1
    /\ main = "returned" =>
           \A w \in Workers : pool[w] = IF StartOf(w) > n THEN "open" ELSE "closed"

\* The search returns, whichever queries fail.
Returns == <>(main \in {"returned", "failed"})
================================================================================
