------------------------------ MODULE ListenerConn ------------------------------
(***************************************************************************)
(* ListenerConn (notify.go): one connection to the server, shared by       *)
(*   - any number of goroutines that call ExecSimpleQuery (through Listen, *)
(*     Unlisten, UnlistenAll or Ping) and Close, and                       *)
(*   - the goroutine listenerConnMain, the only reader of the socket.      *)
(* They share an atomic protocol state, an error guarded by                *)
(* connectionLock, the socket and two Go channels.  The server, the        *)
(* network and the reader of notificationChan are the environment.         *)
(***************************************************************************)
EXTENDS Naturals, Sequences

CONSTANTS
    Senders,        \* goroutines calling ExecSimpleQuery, Ping and Close
    NoSender,       \* nobody holds senderLock
    ExecReplies,    \* what a server may answer a query with, before 'Z':
    PingReplies,    \*   sequences over the message types below
    NotifyCap,      \* capacity of notificationChan, made by the caller
    MaxCalls,       \* bound: queries per sender
    MaxAsync        \* bound: messages the server sends unasked

ASSUME NoSenderAssumption == NoSender \notin Senders
ASSUME NotifyCapAssumption == NotifyCap \in Nat \ {0}
ASSUME BoundsAssumption == MaxCalls \in Nat /\ MaxAsync \in Nat

\* Message types, by what listenerConnLoop does with them: 'A' notification,
\* 'T'/'D' row data, 'S'/'N' parameter status and notice, 'E' error,
\* 'C'/'I' command complete and empty query, 'Z' ready for query; "X" stands
\* for every type it does not know, 'G' of COPY for one.
Types == {"A", "D", "S", "E", "C", "Z", "X"}

ASSUME RepliesAssumption ==
    ExecReplies \subseteq Seq(Types) /\ PingReplies \subseteq Seq(Types)

\* What the protocol promises: 'Z' ends the answer to a query and is in no
\* other place of it; an empty query does not fail.  The reader relies on
\* neither; whose reply a sender gets depends on the first, Ping on the second.
ASSUME OneReadyAssumption ==
    ExecReplies \cup PingReplies \subseteq Seq(Types \ {"Z"})
ASSUME PingRepliesAssumption == PingReplies \subseteq Seq(Types \ {"E"})

\* A query is named by its sender and its place among the sender's queries.
NoQuery == <<>>
Queries == Senders \X Nat
Msg == [typ : Types, q : Queries \cup {NoQuery}]

\* errors: of the server, of ListenerConn.Close, of the network, and of
\* having lost track of the protocol.
Nil == "nil"
Reasons == {"server", "closed", "net", "sync"}

VARIABLES
    \* struct ListenerConn
    connState,      \* protocol state, moved by compare-and-swap only
    err,            \* why the connection was abandoned
    senderLock,     \* its holder
    replyChan,      \* replies for the query that is running
    notifs,         \* number of notifications in notificationChan
    \* the socket and the server
    sock,           \* "open", or "closed" by this side
    serverUp,       \* FALSE once the server or the network is gone
    todo,           \* messages the server has yet to send
    wire,           \* messages sent and not yet received
    nasync,         \* unasked messages sent so far
    \* listenerConnMain
    rpc,            \* where it is
    rmsg,           \* the reply it is about to put on replyChan
    rerr,           \* the error its loop returned
    \* senders
    pc,             \* where sender s is
    op,             \* "exec" or "ping"
    qerr,           \* the local err of ExecSimpleQuery
    calls,          \* queries started
    ret             \* outcome of the last one

lockVars == <<connState, senderLock>>
netVars == <<serverUp, todo, nasync>>
readerVars == <<rpc, rmsg, rerr>>
senderVars == <<pc, op, qerr, calls, ret>>
vars == <<connState, err, senderLock, replyChan, notifs, sock, serverUp, todo,
          wire, nasync, rpc, rmsg, rerr, pc, op, qerr, calls, ret>>

(* Mistakes the code could have made.  Nothing below refers to them: they are *)
(* the mutated forms that show that the properties notice such mistakes.      *)
CapOne == 1                                 \* an 'E' fits, but not its 'Z'
NoMutex == TRUE                             \* senderLock is not waited for
NotChecked == TRUE                          \* err is not looked at
AlsoError(m) == m.typ \in {"Z", "E"}        \* return without waiting for 'Z'
SetErrAlways(e) == err' = e                 \* the last error wins
SetErrNever(e) == err' = err                \* close without saying why
SetEarly == rpc \in {"exit", "closing", "closeReply", "closeNotify", "done"}
NeverClosed == FALSE                        \* replyChan is left open
SockLeftOpen == sock' = sock

ReplyChanCap == 2

NoMsg == [typ |-> "S", q |-> NoQuery]

Init ==
    /\ connState = "Idle"
    /\ err = Nil
    /\ senderLock = NoSender
    /\ replyChan = <<>>
    /\ notifs = 0
    /\ sock = "open"
    /\ serverUp = TRUE
    /\ todo = <<>>
    /\ wire = <<>>
    /\ nasync = 0
    /\ rpc = "recv"
    /\ rmsg = NoMsg
    /\ rerr = Nil
    /\ pc = [s \in Senders |-> "idle"]
    /\ op = [s \in Senders |-> "exec"]
    /\ qerr = [s \in Senders |-> Nil]
    /\ calls = [s \in Senders |-> 0]
    /\ ret = [s \in Senders |-> [out |-> "none", err |-> Nil]]

--------------------------------------------------------------------------------
(* setState, and the locks.  connectionLock is held over several steps only *)
(* by listenerConnMain while it closes the connection; every other section  *)
(* under it is one step.                                                    *)

ExpectedState(new) ==
    CASE new = "Idle" -> "ExpectReadyForQuery"
      [] new = "ExpectResponse" -> "Idle"
      [] new = "ExpectReadyForQuery" -> "ExpectResponse"

CanSet(new) == connState = ExpectedState(new)

ConnectionLockFree == rpc # "closing"

SenderLockFree == senderLock = NoSender

Usable == err = Nil

\* There is room on a Go channel.
HasRoom(n, cap) == n < cap

\* l.cn.c.Close()
CloseNetConn == sock' = "closed"

\* The reply that ends a query.
EndsQuery(m) == m.typ = "Z"

ReplyChanClosed == rpc \in {"closeNotify", "done"}

Goto(s, to) == pc' = [pc EXCEPT ![s] = to]

\* if l.err == nil { l.err = e }
SetErrOnce(e) == err' = IF err = Nil THEN e ELSE err

\* ExecSimpleQuery returns: releaseSenderLock is deferred.
Return(s, out, e) ==
    /\ ret' = [ret EXCEPT ![s] = [out |-> out, err |-> e]]
    /\ senderLock' = NoSender
    /\ Goto(s, "idle")

--------------------------------------------------------------------------------
(* Senders *)

Start(s, o) ==
    /\ pc[s] = "idle"
    /\ calls[s] < MaxCalls
    /\ calls' = [calls EXCEPT ![s] = @ + 1]
    /\ op' = [op EXCEPT ![s] = o]
    /\ qerr' = [qerr EXCEPT ![s] = Nil]
    /\ Goto(s, "lock")
    /\ UNCHANGED <<lockVars, err, replyChan, notifs, sock, wire, netVars,
                   readerVars, ret>>

ExecSimpleQuery(s) == Start(s, "exec")
Ping(s) == Start(s, "ping")

AcquireSenderLock(s) ==
    /\ pc[s] = "lock"
    /\ SenderLockFree
    /\ senderLock' = s
    /\ Goto(s, "check")
    /\ UNCHANGED <<connState, err, replyChan, notifs, sock, wire, netVars,
                   readerVars, op, qerr, calls, ret>>

\* acquireSenderLock, once it has senderLock: is the connection usable?
CheckErr(s) ==
    /\ pc[s] = "check"
    /\ ConnectionLockFree
    /\ \/ Usable /\ Goto(s, "send") /\ UNCHANGED <<senderLock, ret>>
       \/ ~Usable /\ Return(s, "failed", err)
    /\ UNCHANGED <<connState, err, replyChan, notifs, sock, wire, netVars,
                   readerVars, op, qerr, calls>>

\* sendSimpleQuery sets the state before it writes; if it cannot, it panics
\* with "two queries running at the same time", which it recovers from.
SetExpectResponse(s) ==
    /\ pc[s] = "send"
    /\ \/ /\ CanSet("ExpectResponse")
          /\ connState' = "ExpectResponse"
          /\ Goto(s, "write")
          /\ UNCHANGED qerr
       \/ /\ ~CanSet("ExpectResponse")
          /\ qerr' = [qerr EXCEPT ![s] = "sync"]
          /\ Goto(s, "fail")
          /\ UNCHANGED connState
    /\ UNCHANGED <<senderLock, err, replyChan, notifs, sock, wire, netVars,
                   readerVars, op, calls, ret>>

Replies(s) == IF op[s] = "ping" THEN PingReplies ELSE ExecReplies

Answer(q, types) == [i \in 1..Len(types) |-> [typ |-> types[i], q |-> q]]

\* The query is written.  A server that is there will answer it and then say
\* 'Z'; a write to a server that is gone may still succeed.
WriteQuery(s) ==
    /\ pc[s] = "write"
    /\ sock = "open"
    /\ \/ /\ serverUp
          /\ \E r \in Replies(s) :
                todo' = todo \o Answer(<<s, calls[s]>>, Append(r, "Z"))
       \/ ~serverUp /\ UNCHANGED todo
    /\ Goto(s, "wait")
    /\ UNCHANGED <<lockVars, err, replyChan, notifs, sock, wire, serverUp,
                   nasync, readerVars, op, qerr, calls, ret>>

WriteFails(s) ==
    /\ pc[s] = "write"
    /\ sock = "closed" \/ ~serverUp
    /\ qerr' = [qerr EXCEPT ![s] = "net"]
    /\ Goto(s, "fail")
    /\ UNCHANGED <<lockVars, err, replyChan, notifs, sock, wire, netVars,
                   readerVars, op, calls, ret>>

\* sendSimpleQuery failed: abandon the connection, then close the socket.
FailSetErr(s) ==
    /\ pc[s] = "fail"
    /\ ConnectionLockFree
    /\ SetErrOnce(qerr[s])
    /\ Goto(s, "failClose")
    /\ UNCHANGED <<lockVars, replyChan, notifs, sock, wire, netVars,
                   readerVars, op, qerr, calls, ret>>

FailClose(s) ==
    /\ pc[s] = "failClose"
    /\ CloseNetConn
    /\ Return(s, "failed", qerr[s])
    /\ UNCHANGED <<connState, err, replyChan, notifs, wire, netVars,
                   readerVars, op, qerr, calls>>

\* A reply: 'E' is remembered, 'Z' ends the query.
RecvReply(s) ==
    /\ pc[s] = "wait"
    /\ replyChan # <<>>
    /\ replyChan' = Tail(replyChan)
    /\ \/ /\ EndsQuery(Head(replyChan))
          /\ Return(s, "executed", qerr[s])
          /\ UNCHANGED qerr
       \/ /\ ~EndsQuery(Head(replyChan))
          /\ qerr' = [qerr EXCEPT ![s] = "server"]
          /\ UNCHANGED <<pc, ret, senderLock>>
    /\ UNCHANGED <<connState, err, notifs, sock, wire, netVars, readerVars,
                   op, calls>>

\* replyChan is closed and drained: the connection was lost.
RecvReplyClosed(s) ==
    /\ pc[s] = "wait"
    /\ replyChan = <<>>
    /\ ReplyChanClosed
    /\ Goto(s, "lost")
    /\ UNCHANGED <<lockVars, err, replyChan, notifs, sock, wire, netVars,
                   readerVars, op, qerr, calls, ret>>

ReadErr(s) ==
    /\ pc[s] = "lost"
    /\ ConnectionLockFree
    /\ Return(s, "failed", err)
    /\ UNCHANGED <<connState, err, replyChan, notifs, sock, wire, netVars,
                   readerVars, op, qerr, calls>>

\* Close returns at once when the connection has been abandoned already;
\* that changes nothing and is no step here.
Close(s) ==
    /\ pc[s] = "idle"
    /\ ConnectionLockFree
    /\ err = Nil
    /\ err' = "closed"
    /\ Goto(s, "closeSock")
    /\ UNCHANGED <<lockVars, replyChan, notifs, sock, wire, netVars,
                   readerVars, op, qerr, calls, ret>>

CloseSock(s) ==
    /\ pc[s] = "closeSock"
    /\ CloseNetConn
    /\ Goto(s, "idle")
    /\ UNCHANGED <<lockVars, err, replyChan, notifs, wire, netVars,
                   readerVars, op, qerr, calls, ret>>

SenderStep(s) ==
    \/ CheckErr(s) \/ SetExpectResponse(s)
    \/ WriteQuery(s) \/ WriteFails(s) \/ FailSetErr(s) \/ FailClose(s)
    \/ RecvReply(s) \/ RecvReplyClosed(s) \/ ReadErr(s) \/ CloseSock(s)

--------------------------------------------------------------------------------
(* listenerConnMain *)

\* recvMessage returns a message with a type in ts.  What has been buffered
\* can be received even after the socket was closed.
Recv(ts) ==
    /\ rpc = "recv"
    /\ wire # <<>>
    /\ Head(wire).typ \in ts
    /\ wire' = Tail(wire)

Quit(e) == rpc' = "exit" /\ rerr' = e

RecvNotification ==
    /\ Recv({"A"})
    /\ rpc' = "notify"
    /\ UNCHANGED <<lockVars, err, replyChan, notifs, sock, netVars, rmsg, rerr,
                   senderVars>>

RecvIgnored ==
    /\ Recv({"D", "S"})
    /\ UNCHANGED <<lockVars, err, replyChan, notifs, sock, netVars, readerVars,
                   senderVars>>

\* An error response: the answer to the running query, or, when none is
\* running, the reason why the server is about to close the connection.
RecvError ==
    /\ Recv({"E"})
    /\ \/ /\ CanSet("ExpectReadyForQuery")
          /\ connState' = "ExpectReadyForQuery"
          /\ rpc' = "reply"
          /\ rmsg' = Head(wire)
          /\ UNCHANGED rerr
       \/ /\ ~CanSet("ExpectReadyForQuery")
          /\ Quit("server")
          /\ UNCHANGED <<connState, rmsg>>
    /\ UNCHANGED <<senderLock, err, replyChan, notifs, sock, netVars, senderVars>>

RecvComplete ==
    /\ Recv({"C"})
    /\ \/ /\ CanSet("ExpectReadyForQuery")
          /\ connState' = "ExpectReadyForQuery"
          /\ UNCHANGED <<rpc, rerr>>
       \/ /\ ~CanSet("ExpectReadyForQuery")
          /\ Quit("sync")
          /\ UNCHANGED connState
    /\ UNCHANGED <<senderLock, err, replyChan, notifs, sock, netVars, rmsg,
                   senderVars>>

RecvReady ==
    /\ Recv({"Z"})
    /\ \/ /\ CanSet("Idle")
          /\ connState' = "Idle"
          /\ rpc' = "reply"
          /\ rmsg' = Head(wire)
          /\ UNCHANGED rerr
       \/ /\ ~CanSet("Idle")
          /\ Quit("sync")
          /\ UNCHANGED <<connState, rmsg>>
    /\ UNCHANGED <<senderLock, err, replyChan, notifs, sock, netVars, senderVars>>

RecvUnexpected ==
    /\ Recv({"X"})
    /\ Quit("sync")
    /\ UNCHANGED <<lockVars, err, replyChan, notifs, sock, netVars, rmsg,
                   senderVars>>

\* The socket was closed under the reader, or the other side is gone.
RecvFails ==
    /\ rpc = "recv"
    /\ sock = "closed" \/ ~serverUp
    /\ Quit("net")
    /\ UNCHANGED <<lockVars, err, replyChan, notifs, sock, wire, netVars, rmsg,
                   senderVars>>

PushNotification ==
    /\ rpc = "notify"
    /\ HasRoom(notifs, NotifyCap)
    /\ notifs' = notifs + 1
    /\ rpc' = "recv"
    /\ UNCHANGED <<lockVars, err, replyChan, sock, wire, netVars, rmsg, rerr,
                   senderVars>>

PushReply ==
    /\ rpc = "reply"
    /\ HasRoom(Len(replyChan), ReplyChanCap)
    /\ replyChan' = Append(replyChan, rmsg)
    /\ rpc' = "recv"
    /\ UNCHANGED <<lockVars, err, notifs, sock, wire, netVars, rmsg, rerr,
                   senderVars>>

\* The loop returned: set err if nobody has, holding connectionLock...
MainSetErr ==
    /\ rpc = "exit"
    /\ SetErrOnce(rerr)
    /\ rpc' = "closing"
    /\ UNCHANGED <<lockVars, replyChan, notifs, sock, wire, netVars, rmsg, rerr,
                   senderVars>>

\* ... close the connection and let go of the lock...
MainClose ==
    /\ rpc = "closing"
    /\ CloseNetConn
    /\ rpc' = "closeReply"
    /\ UNCHANGED <<lockVars, err, replyChan, notifs, wire, netVars, rmsg, rerr,
                   senderVars>>

\* ... release whoever waits for a reply, and then the Listener.
CloseReplyChan ==
    /\ rpc = "closeReply"
    /\ rpc' = "closeNotify"
    /\ UNCHANGED <<lockVars, err, replyChan, notifs, sock, wire, netVars, rmsg,
                   rerr, senderVars>>

CloseNotificationChan ==
    /\ rpc = "closeNotify"
    /\ rpc' = "done"
    /\ UNCHANGED <<lockVars, err, replyChan, notifs, sock, wire, netVars, rmsg,
                   rerr, senderVars>>

ReaderStep ==
    \/ RecvNotification \/ RecvIgnored \/ RecvError \/ RecvComplete
    \/ RecvReady \/ RecvUnexpected \/ RecvFails
    \/ PushNotification \/ PushReply
    \/ MainSetErr \/ MainClose \/ CloseReplyChan \/ CloseNotificationChan

--------------------------------------------------------------------------------
(* The environment *)

\* The server sends the next message it owes.
ServerReplies ==
    /\ serverUp
    /\ sock = "open"
    /\ todo # <<>>
    /\ wire' = Append(wire, Head(todo))
    /\ todo' = Tail(todo)
    /\ UNCHANGED <<lockVars, err, replyChan, notifs, sock, serverUp, nasync,
                   readerVars, senderVars>>

\* A notification, at any time.  (Notices and parameter statuses, which the
\* reader drops wherever they come, appear in the replies only.)
ServerSendsUnasked ==
    /\ serverUp
    /\ sock = "open"
    /\ nasync < MaxAsync
    /\ nasync' = nasync + 1
    /\ wire' = Append(wire, [typ |-> "A", q |-> NoQuery])
    /\ UNCHANGED <<lockVars, err, replyChan, notifs, sock, serverUp, todo,
                   readerVars, senderVars>>

\* A fatal error (an administrator's shutdown, say), and the end.
ServerFatal ==
    /\ serverUp
    /\ sock = "open"
    /\ wire' = Append(wire, [typ |-> "E", q |-> NoQuery])
    /\ serverUp' = FALSE
    /\ todo' = <<>>
    /\ UNCHANGED <<lockVars, err, replyChan, notifs, sock, nasync, readerVars,
                   senderVars>>

\* The server crashes or the network drops the connection.
ServerGone ==
    /\ serverUp
    /\ serverUp' = FALSE
    /\ todo' = <<>>
    /\ UNCHANGED <<lockVars, err, replyChan, notifs, sock, wire, nasync,
                   readerVars, senderVars>>

\* The user of the ListenerConn takes a notification off the channel.
Consume ==
    /\ notifs > 0
    /\ notifs' = notifs - 1
    /\ UNCHANGED <<lockVars, err, replyChan, sock, wire, netVars, readerVars,
                   senderVars>>

EnvironmentStep ==
    \/ ServerReplies \/ ServerSendsUnasked \/ ServerFatal \/ ServerGone
    \/ Consume

Next ==
    \/ \E s \in Senders :
          ExecSimpleQuery(s) \/ Ping(s) \/ Close(s)
          \/ AcquireSenderLock(s) \/ SenderStep(s)
    \/ ReaderStep
    \/ EnvironmentStep

Spec == Init /\ [][Next]_vars

(* Goroutines that can run do run; a mutex waited for is had in the end (Go's *)
(* mutexes hand over to a waiter that starves); the user drains the channel.  *)
(* Nobody has to start a query, and the server owes nothing.                  *)
Fairness ==
    /\ \A s \in Senders : WF_vars(SenderStep(s)) /\ SF_vars(AcquireSenderLock(s))
    /\ WF_vars(ReaderStep)
    /\ WF_vars(Consume)

FairSpec == Spec /\ Fairness

--------------------------------------------------------------------------------
(* Properties *)

RunningPcs == {"send", "write", "fail", "failClose", "wait", "lost"}

\* Every variable has its type, and no Go channel holds more than its capacity.
TypeOK ==
    /\ connState \in {"Idle", "ExpectResponse", "ExpectReadyForQuery"}
    /\ err \in Reasons \cup {Nil}
    /\ senderLock \in Senders \cup {NoSender}
    /\ replyChan \in Seq(Msg) /\ Len(replyChan) <= ReplyChanCap
    /\ notifs \in 0..NotifyCap
    /\ sock \in {"open", "closed"}
    /\ serverUp \in BOOLEAN
    /\ todo \in Seq(Msg)
    /\ wire \in Seq(Msg)
    /\ nasync \in 0..MaxAsync
    /\ rpc \in {"recv", "notify", "reply", "exit", "closing", "closeReply",
                "closeNotify", "done"}
    /\ rmsg \in Msg
    /\ rerr \in Reasons \cup {Nil}
    /\ pc \in [Senders -> RunningPcs \cup {"idle", "lock", "check", "closeSock"}]
    /\ op \in [Senders -> {"exec", "ping"}]
    /\ qerr \in [Senders -> Reasons \cup {Nil}]
    /\ calls \in [Senders -> 0..MaxCalls]
    /\ ret \in [Senders -> [out : {"none", "executed", "failed"},
                            err : Reasons \cup {Nil}]]

\* The reader never blocks on replyChan, not even when the sender it has a
\* reply for is gone: two places are enough (make(chan message, 2)).  A reader
\* that blocked there would never notice that the connection is closed.
ReplyNeverBlocks == rpc = "reply" => Len(replyChan) < ReplyChanCap

\* The panic "two queries running at the same time" is unreachable: a sender
\* that got past acquireSenderLock finds the protocol idle, whatever the
\* previous query ended with.
NoTwoQueries == \A s \in Senders : pc[s] = "send" => connState = "Idle"

\* The replies a sender waits for are answers to its own query (or an error
\* the server sent unasked), never what an earlier query left behind.
ReplyIsOwn ==
    \A s \in Senders : pc[s] = "wait" =>
        \A i \in 1..Len(replyChan) : replyChan[i].q \in {<<s, calls[s]>>, NoQuery}

\* executed = false always comes with an error (the second case of
\* ExecSimpleQuery's doc), and a sender released by the closing of replyChan
\* finds err set ("err should have been set already").
NotExecutedHasErr ==
    /\ \A s \in Senders : ret[s].out = "failed" => ret[s].err # Nil
    /\ \A s \in Senders : pc[s] = "lost" => err # Nil

\* After a call returned executed = false "all subsequently executed queries
\* will return an error": no query is running by then, and none is admitted.
AbandonedForGood ==
    (\E s \in Senders : ret[s].out = "failed")
        => err # Nil /\ \A s \in Senders : pc[s] \notin RunningPcs

\* Ping panics when its query was executed and failed.  It never does as long
\* as the server answers an empty query as it should, even if a fatal error
\* arrives meanwhile and is taken for the answer.
PingNeverPanics ==
    \A s \in Senders :
        pc[s] = "idle" /\ op[s] = "ping" /\ ret[s].out = "executed"
            => ret[s].err = Nil

\* Whoever closes the socket has made sure that err holds the reason first, so
\* the error exposed is not that of reading from a socket closed here.
ErrBeforeClose == sock = "closed" => err # Nil

\* The first error stays: "It is important that we do not overwrite its value".
ErrStable == [][err # Nil => err' = err]_err

\* Once the connection is abandoned every call on it returns.
CallsReturn ==
    \A s \in Senders : (err # Nil /\ pc[s] # "idle") ~> pc[s] = "idle"

\* Once the connection is abandoned the socket is closed, the reader ends, and
\* notificationChan is closed, so the Listener can reconnect.
AbandonedIsCleanedUp == err # Nil ~> (rpc = "done" /\ sock = "closed")

--------------------------------------------------------------------------------
(* Why the safety properties hold: an inductive invariant.                  *)

\* The replies the reader has accepted and no sender has taken yet.
Pending == IF rpc = "reply" THEN Append(replyChan, rmsg) ELSE replyChan

\* No query is running as far as the protocol is concerned.
Quiet == connState = "Idle" /\ Pending = <<>>

\* Who is in a section that needs senderLock holds it, and nobody else does.
LockInv ==
    \A s \in Senders : pc[s] \in RunningPcs \cup {"check"} <=> senderLock = s

\* How many replies there can be in each protocol state, and where 'Z' is.
PendingInv ==
    /\ connState = "ExpectResponse" => Pending = <<>>
    /\ connState = "ExpectReadyForQuery" => Len(Pending) <= 1
    /\ Len(Pending) <= 2
    /\ \A i \in 1..Len(Pending) :
          Pending[i].typ = "Z" => connState = "Idle" /\ i = Len(Pending)

\* As long as the connection is usable, it is quiet between two queries.
QuietInv ==
    /\ senderLock = NoSender /\ err = Nil => Quiet
    /\ \A s \in Senders :
          /\ pc[s] = "check" /\ err = Nil => Quiet
          /\ pc[s] = "send" => Quiet

\* Where err, or the error about to become err, is known to be set.
ErrInv ==
    /\ rpc = "exit" => rerr # Nil
    /\ rpc \in {"closing", "closeReply", "closeNotify", "done"} => err # Nil
    /\ \A s \in Senders :
          /\ pc[s] \in {"fail", "failClose"} => qerr[s] # Nil
          /\ pc[s] \in {"failClose", "lost", "closeSock"} => err # Nil
          /\ ret[s].out = "failed" => ret[s].err # Nil

IInv ==
    /\ TypeOK
    /\ LockInv
    /\ PendingInv
    /\ QuietInv
    /\ ErrInv
    /\ ErrBeforeClose
    /\ AbandonedForGood

\* A message that answers the query some sender is waiting for.
Mine(m) == \E s \in Senders : pc[s] = "wait" /\ m.q = <<s, calls[s]>>

Unasked(m) == m.q = NoQuery

\* Nothing that is still to be read answers a query.
NoneOwed == todo = <<>> /\ \A i \in 1..Len(wire) : Unasked(wire[i])

\* Every reply accepted is for the query that is waited for.
PendingOwn == \A i \in 1..Len(Pending) : Unasked(Pending[i]) \/ Mine(Pending[i])

\* When the protocol is idle, nothing is left of the last query.
IdleInv ==
    /\ connState = "Idle" => NoneOwed
    /\ \A s \in Senders : pc[s] = "write" => connState # "Idle"

\* As long as the reader can accept a reply, all that is on its way is for the
\* query that is waited for, and ends with its 'Z'.
WireInv ==
    /\ \A i \in 1..Len(wire) : Unasked(wire[i]) => wire[i].typ \in {"A", "E"}
    /\ \A i \in 1..Len(todo) : ~Unasked(todo[i])
    /\ ~ReplyChanClosed =>
          /\ \A i \in 1..Len(wire) : Unasked(wire[i]) \/ Mine(wire[i])
          /\ \A i \in 1..Len(todo) : Mine(todo[i])
          /\ \A i \in 1..Len(wire) : wire[i].typ = "Z" =>
                /\ todo = <<>>
                /\ \A j \in 1..Len(wire) : j > i => Unasked(wire[j])
          /\ \A i \in 1..Len(todo) : todo[i].typ = "Z" => i = Len(todo)

\* Nothing comes after the error a server sends unasked: taken for the answer
\* to a Ping, it is the only reply that Ping gets.
FatalError(m) == m.typ = "E" /\ Unasked(m)

NothingComes == ~serverUp /\ wire = <<>>

FatalInv ==
    /\ ~serverUp => todo = <<>>
    /\ \A i \in 1..Len(wire) : FatalError(wire[i]) => i = Len(wire) /\ ~serverUp
    /\ \A i \in 1..Len(Pending) :
          /\ Pending[i].typ \in {"E", "Z"}
          /\ FatalError(Pending[i]) => i = Len(Pending) /\ NothingComes

\* A Ping that was answered with an error is never executed.
NoErrorFor(s, msgs) ==
    \A i \in 1..Len(msgs) : msgs[i].q = <<s, calls[s]>> => msgs[i].typ # "E"

PingInv ==
    \A s \in Senders :
        /\ pc[s] \in {"lock", "check", "send", "write"} => qerr[s] = Nil
        /\ pc[s] = "wait" /\ op[s] = "ping" =>
              /\ qerr[s] # Nil => Pending = <<>> /\ NothingComes
              /\ NoErrorFor(s, Pending)
              /\ ~ReplyChanClosed => NoErrorFor(s, wire) /\ NoErrorFor(s, todo)
        /\ pc[s] \in {"idle", "closeSock"} /\ op[s] = "ping" /\ ret[s].out = "executed"
              => ret[s].err = Nil

\* What makes the answers right, if the server keeps the protocol.
AnswerInv == IInv /\ PendingOwn /\ IdleInv /\ WireInv /\ FatalInv /\ PingInv

--------------------------------------------------------------------------------
(* ListenerConn implements ListenerConnAPI: a call is queued until            *)
(* acquireSenderLock has found err unset, and runs until it returns.          *)

CallOf(p) ==
    IF p \in {"idle", "closeSock"} THEN "idle"
    ELSE IF p \in {"lock", "check"} THEN "queued" ELSE "running"

callState == [s \in Senders |-> CallOf(pc[s])]

API == INSTANCE ListenerConnAPI WITH Callers <- Senders, call <- callState

ImplementsAPI == API!Spec
================================================================================
