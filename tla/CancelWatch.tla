------------------------------- MODULE CancelWatch -------------------------------
(***************************************************************************)
(* Context cancellation (conn_go18.go): every call with a context that can *)
(* end starts a watching goroutine.  The call's goroutine and the watcher  *)
(* settle through the channel finished which of them comes first: the end  *)
(* of the call, or the end of the context, upon which the watcher asks the *)
(* server, over a connection of its own, to cancel what the call's         *)
(* connection is executing.  The server cancels whatever it is executing   *)
(* by the time it gets the request.                                        *)
(*                                                                         *)
(* One connection is modelled, until database/sql discards it; it is used  *)
(* by one call at a time.  conn.watchCancel serves the methods of conn and *)
(* transactions, stmt.watchCancel those of prepared statements.            *)
(***************************************************************************)
EXTENDS Naturals

CONSTANTS
    Calls,          \* bound: the calls made
    None,           \* no call
    TLSModes        \* whether the connection may be one with TLS: sslmode=prefer
                    \*   leaves it to the server

ASSUME CallsAssumption == None \notin Calls
ASSUME TLSAssumption == TLSModes \subseteq BOOLEAN

VARIABLES
    useTLS,         \* fallbackConfig, with which the connection was made, has TLS
    kind,           \* of call k: "none" yet, "conn", "ping", "stmt" or "tx"
    owner,          \* the transaction in which k is made
    app,            \* where k is: "idle", "tx" (a transaction that goes on),
                    \*   "call", "run", "finish" or "over"
    ctxDone,        \* the context of k has ended
    token,          \* finished holds a token (conn.watchCancel makes it for one)
    watcher,        \* where the watcher of k is
    cur,            \* the call that uses the connection
    tx,             \* the transaction that owns it
    bad,            \* conn.err is set
    main,           \* the connection: "ok", "closed", or "garbled" by somebody
                    \*   else's reading and writing
    executing,      \* the call whose request the server is executing
    requests,       \* calls whose cancel request is on its way
    lost,           \* calls that did not see their cancel request arrive
    hits            \* pairs <<k, j>>: the request of k cancelled j

callVars == <<kind, owner, app, cur, tx>>
watchVars == <<ctxDone, token, watcher>>
serverVars == <<executing, requests, lost, hits>>
vars == <<callVars, watchVars, bad, main, serverVars, useTLS>>

(* Mistakes the code could have made, as mutated forms for the properties.   *)

\* finish finds the watcher's token and does nothing about it.
NotMarked(k) == UNCHANGED <<bad, main>>

\* finish leaves no token for the watcher.
Forgets(k) == UNCHANGED token

\* finish of a statement does not wait for a cancel under way.
DoesNotWait(k) ==
    watcher[k] # "none" /\ watcher' = [watcher EXCEPT ![k] = IF @ = "select" THEN "done" ELSE @]

\* stmt.watchCancel does not report that cancel has returned.
NoReport(k) == watcher' = [watcher EXCEPT ![k] = "done"]

Init ==
    /\ useTLS \in TLSModes
    /\ kind = [k \in Calls |-> "none"]
    /\ owner = [k \in Calls |-> None]
    /\ app = [k \in Calls |-> "idle"]
    /\ ctxDone = [k \in Calls |-> FALSE]
    /\ token = [k \in Calls |-> FALSE]
    /\ watcher = [k \in Calls |-> "none"]
    /\ cur = None /\ tx = None
    /\ bad = FALSE /\ main = "ok"
    /\ executing = None /\ requests = {} /\ lost = {} /\ hits = {}

--------------------------------------------------------------------------------
(* The goroutine that makes the calls *)

AppGoes(k, to) == app' = [app EXCEPT ![k] = to]
WatcherGoes(k, to) == watcher' = [watcher EXCEPT ![k] = to]

\* watchCancel: a context without Done needs no watcher, and no finish.
Watch(k) == WatcherGoes(k, "select") \/ UNCHANGED watcher

\* A method of conn or stmt begins by calling watchCancel.
Start(k, how) ==
    /\ kind[k] = "none"
    /\ cur = None
    /\ kind' = [kind EXCEPT ![k] = how]
    /\ owner' = [owner EXCEPT ![k] = tx]
    /\ cur' = k
    /\ AppGoes(k, "call")
    /\ Watch(k)
    /\ UNCHANGED <<tx, ctxDone, token, bad, main, serverVars>>

\* BeginTx watches the context once the transaction has begun.
BeginTx(k) ==
    /\ kind[k] = "none"
    /\ cur = None /\ tx = None
    /\ ~bad /\ main = "ok"
    /\ kind' = [kind EXCEPT ![k] = "tx"]
    /\ tx' = k
    /\ AppGoes(k, "tx")
    /\ Watch(k)
    /\ UNCHANGED <<owner, cur, ctxDone, token, bad, main, serverVars>>

\* Commit or Rollback, which end with closeTxn.
EndTx(k) ==
    /\ tx = k /\ cur = None
    /\ cur' = k
    /\ AppGoes(k, "call")
    /\ UNCHANGED <<kind, owner, tx, watchVars, bad, main, serverVars>>

\* The methods begin by asking conn.err; Ping does not.
Usable(k) == kind[k] = "ping" \/ ~bad

\* A connection that was closed gives an error and becomes bad.
Refused(k) ==
    /\ app[k] = "call"
    /\ ~Usable(k) \/ main # "ok"
    /\ bad' = TRUE
    /\ AppGoes(k, "finish")
    /\ UNCHANGED <<kind, owner, cur, tx, watchVars, main, serverVars>>

Send(k) ==
    /\ app[k] = "call"
    /\ Usable(k) /\ main = "ok"
    /\ executing' = k
    /\ AppGoes(k, "run")
    /\ UNCHANGED <<kind, owner, cur, tx, watchVars, bad, main, requests, lost, hits>>

\* The answer has been read, or there is no more to be had: rows are given up
\* when conn.err is set, and reading fails on a closed connection.
Ends(k) ==
    /\ app[k] = "run"
    /\ \/ executing # k /\ main = "ok" /\ UNCHANGED bad
       \/ bad /\ UNCHANGED bad
       \/ main # "ok" /\ bad' = TRUE
    /\ AppGoes(k, "finish")
    /\ UNCHANGED <<kind, owner, cur, tx, watchVars, main, serverVars>>

Over(k) ==
    /\ AppGoes(k, "over")
    /\ cur' = None
    /\ tx' = IF tx = k THEN None ELSE tx
    /\ UNCHANGED <<kind, owner, ctxDone, serverVars>>

\* The watcher was first: the connection is marked bad and closed.
MarkBad(k) == bad' = TRUE /\ main' = "closed"

LeavesToken(k) == token' = [token EXCEPT ![k] = TRUE]

\* The finish function of conn.watchCancel: take the watcher's token, or leave
\* one for it.
ConnFinish(k) ==
    /\ app[k] = "finish"
    /\ kind[k] # "stmt"
    /\ \/ watcher[k] = "none" /\ UNCHANGED <<token, bad, main>>
       \/ /\ watcher[k] # "none" /\ token[k]
          /\ token' = [token EXCEPT ![k] = FALSE]
          /\ MarkBad(k)
       \/ /\ watcher[k] # "none" /\ ~token[k]
          /\ LeavesToken(k)
          /\ UNCHANGED <<bad, main>>
    /\ UNCHANGED watcher
    /\ Over(k)

\* The finish function of stmt.watchCancel: finished has no buffer, so it meets
\* the watcher where that waits, and waits for a cancel under way.
MeetsWatcher(k) == watcher[k] \in {"select", "report"} /\ WatcherGoes(k, "done")

StmtFinish(k) ==
    /\ app[k] = "finish"
    /\ kind[k] = "stmt"
    /\ MeetsWatcher(k) \/ (watcher[k] = "none" /\ UNCHANGED watcher)
    /\ UNCHANGED <<token, bad, main>>
    /\ Over(k)

--------------------------------------------------------------------------------
(* The watchers *)

\* The context has ended: conn.watchCancel puts a token, unless finish did.
Fires(k) ==
    /\ watcher[k] = "select"
    /\ ctxDone[k]
    /\ \/ kind[k] = "stmt" /\ WatcherGoes(k, "dial") /\ UNCHANGED token
       \/ kind[k] # "stmt" /\ token[k] /\ WatcherGoes(k, "done") /\ UNCHANGED token
       \/ /\ kind[k] # "stmt" /\ ~token[k]
          /\ token' = [token EXCEPT ![k] = TRUE]
          /\ WatcherGoes(k, "mark")
    /\ UNCHANGED <<callVars, ctxDone, bad, main, serverVars>>

TakesToken(k) ==
    /\ watcher[k] = "select"
    /\ token[k]
    /\ token' = [token EXCEPT ![k] = FALSE]
    /\ WatcherGoes(k, "done")
    /\ UNCHANGED <<callVars, ctxDone, bad, main, serverVars>>

Marks(k) ==
    /\ watcher[k] = "mark"
    /\ bad' = TRUE
    /\ WatcherGoes(k, "dial")
    /\ UNCHANGED <<callVars, ctxDone, token, main, serverVars>>

\* cancel returns: stmt.watchCancel reports to finish, the other ends.
CancelReturns(k) == WatcherGoes(k, IF kind[k] = "stmt" THEN "report" ELSE "done")

Dialled(k) ==
    watcher[k] = "dial" /\ UNCHANGED <<callVars, ctxDone, token, bad, executing, lost, hits>>

DialFails(k) == Dialled(k) /\ CancelReturns(k) /\ UNCHANGED <<main, requests>>

SendsCancel(k) == requests' = requests \cup {k} /\ WatcherGoes(k, "await")

DialSucceeds(k) == Dialled(k) /\ ~useTLS /\ SendsCancel(k) /\ UNCHANGED main

\* With TLS, cancel asks for it on the connection to be cancelled, and takes
\* the next byte from it for the answer: if that is not 'S', it closes it.
StartsTLS(k) ==
    /\ Dialled(k)
    /\ useTLS
    /\ \/ main' = "closed" /\ CancelReturns(k) /\ UNCHANGED requests
       \/ main = "ok" /\ main' = "garbled" /\ SendsCancel(k)

\* The server closes the connection once it has seen to the request.
SeesEOF(k) ==
    /\ watcher[k] = "await"
    /\ k \notin requests
    /\ CancelReturns(k)
    /\ UNCHANGED <<callVars, ctxDone, token, bad, main, serverVars>>

\* The connection breaks first: the request may still arrive, or never.
LosesCancel(k) ==
    /\ watcher[k] = "await"
    /\ k \in requests
    /\ lost' = lost \cup {k}
    /\ requests' \in {requests, requests \ {k}}
    /\ CancelReturns(k)
    /\ UNCHANGED <<callVars, ctxDone, token, bad, main, executing, hits>>

--------------------------------------------------------------------------------
(* Contexts and the server *)

ContextEnds(k) ==
    /\ watcher[k] # "none"
    /\ ~ctxDone[k]
    /\ ctxDone' = [ctxDone EXCEPT ![k] = TRUE]
    /\ UNCHANGED <<callVars, token, watcher, bad, main, serverVars>>

ServerDone ==
    /\ executing # None
    /\ executing' = None
    /\ UNCHANGED <<callVars, watchVars, bad, main, requests, lost, hits>>

\* A request cancels what is being executed, whoever asked for that; it hits the
\* call that waits for the answer, if one still does.
ServerCancels(k) ==
    /\ k \in requests
    /\ requests' = requests \ {k}
    /\ hits' = hits \cup {<<k, j>> : j \in {j \in {executing} \ {None} : app[j] = "run"}}
    /\ executing' = None
    /\ UNCHANGED <<callVars, watchVars, bad, main, lost>>

AppStep(k) == Refused(k) \/ Send(k) \/ Ends(k) \/ ConnFinish(k) \/ StmtFinish(k)

WatcherStep(k) ==
    \/ Fires(k) \/ TakesToken(k) \/ Marks(k)
    \/ DialFails(k) \/ DialSucceeds(k) \/ StartsTLS(k)
    \/ SeesEOF(k) \/ LosesCancel(k)

Step ==
    \/ \E k \in Calls :
          \/ (\E how \in {"conn", "ping", "stmt"} : Start(k, how)) \/ BeginTx(k) \/ EndTx(k)
          \/ AppStep(k) \/ WatcherStep(k) \/ ContextEnds(k) \/ ServerCancels(k)
    \/ ServerDone

Next == Step /\ UNCHANGED useTLS

Spec == Init /\ [][Next]_vars

\* Goroutines that can run do, and the server answers requests of both kinds.
Fairness ==
    /\ \A k \in Calls :
          /\ WF_vars(AppStep(k) /\ UNCHANGED useTLS)
          /\ WF_vars(WatcherStep(k) /\ UNCHANGED useTLS)
          /\ WF_vars(ServerCancels(k) /\ UNCHANGED useTLS)
    /\ WF_vars(ServerDone /\ UNCHANGED useTLS)

FairSpec == Spec /\ Fairness

--------------------------------------------------------------------------------
(* Properties *)

\* Every variable has its type.
TypeOK ==
    /\ useTLS \in BOOLEAN
    /\ kind \in [Calls -> {"none", "conn", "ping", "stmt", "tx"}]
    /\ owner \in [Calls -> Calls \cup {None}]
    /\ app \in [Calls -> {"idle", "tx", "call", "run", "finish", "over"}]
    /\ ctxDone \in [Calls -> BOOLEAN]
    /\ token \in [Calls -> BOOLEAN]
    /\ watcher \in [Calls -> {"none", "select", "mark", "dial", "await", "report", "done"}]
    /\ cur \in Calls \cup {None}
    /\ tx \in Calls \cup {None}
    /\ bad \in BOOLEAN
    /\ main \in {"ok", "closed", "garbled"}
    /\ executing \in Calls \cup {None}
    /\ requests \subseteq Calls
    /\ lost \subseteq Calls
    /\ hits \subseteq Calls \X Calls

\* The connection may still be cancelled on behalf of k.
Cancelling(k) == watcher[k] \in {"mark", "dial", "await"}

\* A call that has returned leaves no cancel behind it on a connection that is
\* used again: either its watcher is past cancelling, or the connection is bad
\* and closed, whoever of the two was first.
FinishSettles ==
    \A k \in Calls :
        app[k] = "over" /\ Cancelling(k) => kind[k] # "stmt" /\ bad /\ main = "closed"

\* A cancel request cancels the call it was made for, or a call in the
\* transaction it was made for; only one whose connection broke before the
\* server had seen to it may hit a later call, and only for a statement, whose
\* connection remains in use.
CancelHitsOwn ==
    \A k, j \in Calls :
        <<k, j>> \in hits =>
            k = j \/ (kind[k] = "tx" /\ owner[j] = k) \/ (kind[k] = "stmt" /\ k \in lost)

\* finish marks the connection with the error of the context only if the
\* context has ended: syncErr.set panics on nil.
NilNeverSet ==
    \A k \in Calls : app[k] = "finish" /\ token[k] => ctxDone[k]

\* The connection is used by one call at a time, within the transaction it was
\* made in.
UseInv ==
    \A k \in Calls :
        /\ app[k] \in {"call", "run", "finish"} <=> cur = k
        /\ kind[k] = "tx" /\ app[k] # "over" <=> tx = k
        /\ kind[k] = "none" <=> app[k] = "idle"
        /\ app[k] = "tx" => kind[k] = "tx"
        /\ kind[k] = "none" => watcher[k] = "none" /\ owner[k] = None
        /\ cur = k /\ kind[k] # "tx" => owner[k] = tx

\* Who has put a token in finished: before the call is over the watcher, and
\* only once it has fired; afterwards finish, unless it found the watcher's.
TokenInv ==
    \A k \in Calls :
        IF kind[k] = "stmt"
        THEN ~token[k] /\ watcher[k] # "mark"
               /\ (app[k] = "over" => watcher[k] \in {"none", "done"})
        ELSE /\ watcher[k] # "report"
             /\ app[k] # "over" => (token[k] <=> watcher[k] \notin {"none", "select"})
             /\ app[k] # "over" /\ token[k] => ctxDone[k]
             /\ app[k] = "over" /\ watcher[k] = "select" => token[k]

\* A request on its way belongs to a watcher that has sent it; if its call is
\* over, the connection is closed and carries no call, unless for a statement
\* whose cancel was lost from sight.
RequestInv ==
    \A k \in Calls :
        /\ k \in requests => watcher[k] \in {"await", "report", "done"}
        /\ k \in requests /\ k \notin lost => watcher[k] = "await"
        /\ kind[k] # "stmt" /\ app[k] = "over" /\ (Cancelling(k) \/ k \in requests) =>
              main = "closed" /\ bad /\ \A j \in Calls : app[j] # "run"

\* The inductive invariant.
IInv == TypeOK /\ UseInv /\ TokenInv /\ RequestInv /\ CancelHitsOwn

\* Every call returns, though finish waits for a cancel under way.
FinishReturns == \A k \in Calls : app[k] = "finish" ~> app[k] = "over"

\* No watcher stays behind once its call has returned.
WatchersEnd == \A k \in Calls : app[k] = "over" ~> watcher[k] \in {"none", "done"}

\* "watchCancel is implemented on stmt in order to not mark the parent conn as
\* bad": a connection used by statements only stays in use.
StmtKeepsConn ==
    (\A k \in Calls : kind[k] \in {"none", "stmt"}) => ~bad /\ main = "ok"
================================================================================
