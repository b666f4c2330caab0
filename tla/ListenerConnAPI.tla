---------------------------- MODULE ListenerConnAPI ----------------------------
(***************************************************************************)
(* What a ListenerConn promises to the goroutines that call it, and        *)
(* nothing of how: queries run one at a time, the first reason for         *)
(* abandoning the connection is the one that stays, and from then on no    *)
(* query is admitted.  ListenerConn implements this specification.         *)
(***************************************************************************)
CONSTANTS
    Callers,        \* goroutines that run queries on the connection
    Reasons,        \* errors a query or the connection can end with
    Nil             \* no error, none of the Reasons

VARIABLES
    err,            \* why the connection was abandoned, Nil while it is usable
    call,           \* call[s]: "idle", "queued" or "running"
    ret             \* ret[s]: outcome of the last query of s

apiVars == <<err, call, ret>>

Init ==
    /\ err = Nil
    /\ call = [s \in Callers |-> "idle"]
    /\ ret = [s \in Callers |-> [out |-> "none", err |-> Nil]]

NobodyRuns == \A s \in Callers : call[s] # "running"

\* A goroutine asks for a query.
Begin(s) ==
    /\ call[s] = "idle"
    /\ call' = [call EXCEPT ![s] = "queued"]
    /\ UNCHANGED <<err, ret>>

\* The connection is usable and no other query is running on it.
Admit(s) ==
    /\ call[s] = "queued"
    /\ err = Nil
    /\ NobodyRuns
    /\ call' = [call EXCEPT ![s] = "running"]
    /\ UNCHANGED <<err, ret>>

Return(s, r) ==
    /\ call' = [call EXCEPT ![s] = "idle"]
    /\ ret' = [ret EXCEPT ![s] = r]
    /\ UNCHANGED err

\* executed = true: the server ran the query to completion; e is the error it
\* answered with, if it did.
Executed(s, e) ==
    /\ call[s] = "running"
    /\ Return(s, [out |-> "executed", err |-> e])

\* executed = false, of a query that was running or of one that finds the
\* connection abandoned: always with an error, and only after err is set.
Failed(s, e) ==
    /\ call[s] # "idle"
    /\ \A t \in Callers \ {s} : call[t] # "running"
    /\ err # Nil
    /\ Return(s, [out |-> "failed", err |-> e])

\* The connection is lost, closed, or no longer understood.
Abandon(e) ==
    /\ err = Nil
    /\ err' = e
    /\ UNCHANGED <<call, ret>>

Next ==
    \/ \E s \in Callers : Begin(s) \/ Admit(s)
    \/ \E s \in Callers, e \in Reasons \cup {Nil} : Executed(s, e)
    \/ \E s \in Callers, e \in Reasons : Failed(s, e)
    \/ \E e \in Reasons : Abandon(e)

Spec == Init /\ [][Next]_apiVars
================================================================================
