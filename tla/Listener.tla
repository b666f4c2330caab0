-------------------------------- MODULE Listener --------------------------------
(***************************************************************************)
(* Listener (notify.go): a LISTEN session that survives the loss of its    *)
(* connection.  The goroutine listenerMain connects, re-issues LISTEN for  *)
(* every channel, forwards notifications and reconnects; any number of     *)
(* goroutines call Listen, Unlisten, UnlistenAll, Ping and Close.  They    *)
(* share l.lock, the condition variable on it, and the current connection, *)
(* a ListenerConn.  Of that only what ListenerConnAPI promises is used:    *)
(* it is usable ("up"), abandoned ("lost"), or abandoned with its          *)
(* notification channel closed ("ended").                                  *)
(*                                                                         *)
(* How long listenerMain sleeps is left out, only that it does; so are the *)
(* texts of errors and the payload of notifications.                       *)
(***************************************************************************)
EXTENDS Naturals

CONSTANTS
    Clients,        \* goroutines calling the Listener's methods
    Channels,       \* names to listen on
    Methods,        \* bound: the methods they call
    Main,           \* the goroutine listenerMain, as a holder of l.lock
    NoOne,          \* nobody holds l.lock
    NotifyCap,      \* capacity of Listener.Notify (32 in the code)
    ConnChanCap     \* capacity of notificationChan (32 in the code)

ASSUME HoldersAssumption ==
    Main \notin Clients /\ NoOne \notin Clients /\ Main # NoOne
ASSUME CapsAssumption == NotifyCap \in Nat \ {0} /\ ConnChanCap \in Nat \ {0}

ASSUME MethodsAssumption ==
    Methods \subseteq {"Listen", "Unlisten", "UnlistenAll", "Ping", "Close"}

Ops == [name : Methods \cap {"Listen", "Unlisten"}, ch : Channels]
         \cup [name : Methods \ {"Listen", "Unlisten"}, ch : {"-"}]

NoCall == [name |-> "none", ch |-> "-"]

VARIABLES
    \* struct Listener
    lock,           \* holder of l.lock
    isClosed,
    cn,             \* l.cn # nil
    channels,
    notify,         \* number of items in Notify
    \* the current ListenerConn and the server's side of it
    link,           \* "none", "up", "lost" or "ended"
    connChan,       \* number of notifications in notificationChan, and the one that
                    \*   its reader, blocked on the full channel, waits to put there
    session,        \* channels the server is listening on for us
    answer,         \* answer to the query in progress: "none", "ok", "error"
    \* listenerMain
    main,           \* where it is
    todo,           \* channels resync has yet to LISTEN on
    current,        \* those it is doing so on now, one at most
    everUp,         \* nextReconnect has been set
    event,          \* the last event emitted
    sent,           \* history of Notify: "nothing" since the last nil (if any),
                    \*   "some" notification of this connection, or, with no
                    \*   nil in between, of an earlier one: "gap"
    \* clients
    pc,             \* where client c is
    op,             \* the call it is in
    ret             \* what its last call returned: "ok" for nil, or "error"

connVars == <<link, connChan, session, answer>>
mainVars == <<main, todo, current, everUp, event>>
clientVars == <<pc, op, ret>>
sharedVars == <<lock, isClosed, cn, channels>>
vars == <<sharedVars, notify, connVars, mainVars, sent, clientVars>>

(* Mistakes the code could have made, as mutated forms for the properties.   *)
NobodyWoken == pc                           \* Broadcast is forgotten
NeverClosed == FALSE                        \* closed() is not asked
NothingToResync == {}                       \* resync does not LISTEN again
NoMarkNeeded == FALSE                       \* the nil notification is forgotten
NotDraining == main = "resyncWait"          \* resync waits for LISTEN first

Init ==
    /\ lock = NoOne
    /\ isClosed = FALSE
    /\ cn = FALSE
    /\ channels = {}
    /\ notify = 0
    /\ link = "none"
    /\ connChan = 0
    /\ session = {}
    /\ answer = "none"
    /\ main = "dial"
    /\ todo = {}
    /\ current = {}
    /\ everUp = FALSE
    /\ event = "none"
    /\ sent = "nothing"
    /\ pc = [c \in Clients |-> "idle"]
    /\ op = [c \in Clients |-> NoCall]
    /\ ret = [c \in Clients |-> "none"]

--------------------------------------------------------------------------------
LockFree == lock = NoOne

\* Steps of clients and of listenerMain, by what they leave alone.
ClientOnly == UNCHANGED <<notify, connVars, mainVars, sent>>
MainOnly == UNCHANGED <<sharedVars, notify, connVars, sent, clientVars>>
EnvOnly == UNCHANGED <<sharedVars, mainVars, sent, clientVars>>

Goto(c, to) == pc' = [pc EXCEPT ![c] = to]

Result(c, r) ==
    /\ ret' = [ret EXCEPT ![c] = r]
    /\ op' = [op EXCEPT ![c] = NoCall]

Return(c, r) == Goto(c, "idle") /\ Result(c, r)

\* reconnectCond.Broadcast: every waiter goes for the lock.
Woken == [c \in Clients |-> IF pc[c] = "waiting" THEN "relock" ELSE pc[c]]

\* ListenerConn.Close: the connection is abandoned, its reader will end.
CloseConn == link' = IF link = "up" THEN "lost" ELSE link

HasRoom(n, cap) == n < cap

SendNotify(history) ==
    /\ HasRoom(notify, NotifyCap)
    /\ notify' = notify + 1
    /\ sent' = history

--------------------------------------------------------------------------------
(* A query on the connection, by whoever holds l.lock: admitted if the        *)
(* connection is usable; then executed, or not executed because the           *)
(* connection was lost, whether or not the server had executed it.            *)

Admitted == link = "up"

Executed(outcome) == answer = outcome /\ answer' = "none"

NotExecuted == link # "up" /\ answer' = "none"

--------------------------------------------------------------------------------
(* Methods of Listener.  Every one takes l.lock first.                        *)

Call(c, o) ==
    /\ pc[c] = "idle"
    /\ op' = [op EXCEPT ![c] = o]
    /\ ret' = [ret EXCEPT ![c] = "none"]
    /\ Goto(c, "lock")
    /\ ClientOnly
    /\ UNCHANGED sharedVars

\* The call at c, named n, takes the lock and comes to a decision.
Enter(c, n) == pc[c] = "lock" /\ LockFree /\ op[c].name = n

\* It returns at once, changing nothing.
ReturnAtOnce(c, r) == Return(c, r) /\ ClientOnly /\ UNCHANGED sharedVars

\* It has the connection run its query, and keeps the lock.
StartQuery(c) ==
    /\ cn
    /\ lock' = c
    /\ Goto(c, "query")
    /\ ClientOnly
    /\ UNCHANGED <<isClosed, cn, channels, op, ret>>

RefusedWhenClosed(c) ==
    /\ pc[c] = "lock"
    /\ LockFree
    /\ isClosed
    /\ ReturnAtOnce(c, "error")

AddChannel(c) == channels \cup {op[c].ch}

Listen(c) ==
    /\ Enter(c, "Listen")
    /\ ~isClosed
    /\ \/ op[c].ch \in channels /\ ReturnAtOnce(c, "error")
       \/ op[c].ch \notin channels /\ StartQuery(c)
       \/ /\ op[c].ch \notin channels
          /\ ~cn
          /\ channels' = AddChannel(c)
          /\ Goto(c, "waiting")
          /\ ClientOnly
          /\ UNCHANGED <<lock, isClosed, cn, op, ret>>

\* What Unlisten and UnlistenAll leave of channels.
Remaining(c) ==
    IF op[c].name = "UnlistenAll" THEN {} ELSE channels \ {op[c].ch}

Unlisten(c) ==
    /\ Enter(c, "Unlisten") \/ Enter(c, "UnlistenAll")
    /\ ~isClosed
    /\ \/ /\ op[c].name = "Unlisten" /\ op[c].ch \notin channels
          /\ ReturnAtOnce(c, "error")
       \/ /\ op[c].name = "UnlistenAll" \/ op[c].ch \in channels
          /\ StartQuery(c)
       \/ /\ op[c].name = "UnlistenAll" \/ op[c].ch \in channels
          /\ ~cn
          /\ channels' = Remaining(c)
          /\ Return(c, "ok")
          /\ ClientOnly
          /\ UNCHANGED <<lock, isClosed, cn>>

Ping(c) ==
    /\ Enter(c, "Ping")
    /\ ~isClosed
    /\ \/ StartQuery(c)
       \/ ~cn /\ ReturnAtOnce(c, "error")

Close(c) ==
    /\ Enter(c, "Close")
    /\ ~isClosed
    /\ IF cn THEN CloseConn ELSE UNCHANGED link
    /\ isClosed' = TRUE
    /\ pc' = [Woken EXCEPT ![c] = "idle"]
    /\ Result(c, "ok")
    /\ UNCHANGED <<lock, cn, channels, notify, connChan, session, answer,
                   mainVars, sent>>

QueryAdmitted(c) ==
    /\ pc[c] = "query"
    /\ Admitted
    /\ Goto(c, "running")
    /\ ClientOnly
    /\ UNCHANGED <<sharedVars, op, ret>>

\* The query came to an end and the method returns, letting go of the lock.
Unlock ==
    /\ lock' = NoOne
    /\ UNCHANGED <<isClosed, cn, notify, link, connChan, session, mainVars, sent>>

FinishUnchanged(c, r) == Return(c, r) /\ UNCHANGED channels

FinishRecorded(c) ==
    /\ channels' = IF op[c].name = "Listen" THEN AddChannel(c) ELSE Remaining(c)
    /\ Return(c, "ok")

\* executed = true: an error of the server is passed on.
FinishExecuted(c) ==
    \/ Executed("error") /\ FinishUnchanged(c, "error")
    \/ /\ Executed("ok")
       /\ IF op[c].name = "Ping" THEN FinishUnchanged(c, "ok") ELSE FinishRecorded(c)

\* executed = false: Listen and Unlisten record the change and leave the rest
\* to resync.  Listen does not wait for it, since l.cn is still set.
FinishNotExecuted(c) ==
    IF op[c].name = "Ping" THEN FinishUnchanged(c, "error") ELSE FinishRecorded(c)

QueryRefused(c) ==
    /\ pc[c] = "query"
    /\ ~Admitted
    /\ FinishNotExecuted(c)
    /\ Unlock
    /\ UNCHANGED answer

QueryReturns(c) ==
    /\ pc[c] = "running"
    /\ FinishExecuted(c) \/ (NotExecuted /\ FinishNotExecuted(c))
    /\ Unlock

\* Cond.Wait returns with the lock: closed, still no connection, or done.
Relock(c) ==
    /\ pc[c] = "relock"
    /\ LockFree
    /\ \/ isClosed /\ Return(c, "error")
       \/ ~isClosed /\ ~cn /\ Goto(c, "waiting") /\ UNCHANGED <<op, ret>>
       \/ ~isClosed /\ cn /\ Return(c, "ok")
    /\ ClientOnly
    /\ UNCHANGED sharedVars

ClientLockStep(c) ==
    RefusedWhenClosed(c) \/ Listen(c) \/ Unlisten(c) \/ Ping(c) \/ Close(c) \/ Relock(c)

ClientStep(c) == QueryAdmitted(c) \/ QueryRefused(c) \/ QueryReturns(c)

--------------------------------------------------------------------------------
(* listenerMain: connect *)

MainGoes(from, to) ==
    /\ main = from
    /\ main' = to
    /\ MainOnly
    /\ UNCHANGED <<todo, current, everUp, event>>

DialFails == MainGoes("dial", "failed")

DialSucceeds ==
    /\ main = "dial"
    /\ main' = "connLock"
    /\ link' = "up"
    /\ sent' = IF sent = "some" THEN "gap" ELSE sent
    /\ connChan' = 0
    /\ session' = {}
    /\ answer' = "none"
    /\ UNCHANGED <<sharedVars, notify, todo, current, everUp, event, clientVars>>

\* The channels resync is to LISTEN on again.
ToResync == channels

LockForResync ==
    /\ main = "connLock"
    /\ LockFree
    /\ lock' = Main
    /\ todo' = ToResync
    /\ main' = "resync"
    /\ UNCHANGED <<isClosed, cn, channels, notify, connVars, current, everUp,
                   event, sent, clientVars>>

ResyncListen(ch) ==
    /\ main = "resync"
    /\ ch \in todo
    /\ \/ Admitted /\ main' = "resyncRunning" /\ current' = {ch} /\ todo' = todo \ {ch}
       \/ ~Admitted /\ main' = "resyncWait" /\ UNCHANGED <<current, todo>>
    /\ MainOnly
    /\ UNCHANGED <<everUp, event>>

ResyncReturns ==
    /\ main = "resyncRunning"
    /\ \/ Executed("ok") /\ main' = "resync"
       \/ Executed("error") /\ main' = "resyncFail"
       \/ NotExecuted /\ main' = "resyncWait"
    /\ current' = {}
    /\ UNCHANGED <<sharedVars, notify, link, connChan, session, todo,
                   everUp, event, sent, clientVars>>

\* Notifications that arrive meanwhile are thrown away, so that the reader of the
\* connection, and with it the answer resync waits for, does not stay blocked on them.
Draining == main \in {"resync", "resyncRunning", "resyncWait"}

ResyncIgnores ==
    /\ Draining
    /\ connChan > 0
    /\ connChan' = connChan - 1
    /\ EnvOnly
    /\ UNCHANGED <<notify, link, session, answer>>

\* The connection was lost: wait until its channel is closed.
ChanClosed == link = "ended" /\ connChan = 0

ResyncLost == ChanClosed /\ MainGoes("resyncWait", "resyncFail")

\* connect closes the connection, forgets it, and returns the error.
ResyncFails ==
    /\ main = "resyncFail"
    /\ lock' = NoOne
    /\ link' = "none"
    /\ connChan' = 0
    /\ session' = {}
    /\ todo' = {}
    /\ main' = "failed"
    /\ UNCHANGED <<isClosed, cn, channels, notify, answer, current,
                   everUp, event, sent, clientVars>>

\* Every channel is listened on: the connection is the Listener's from now on.
\* (connect does not look at isClosed.)
ResyncDone ==
    /\ main = "resync"
    /\ todo = {}
    /\ cn' = TRUE
    /\ pc' = Woken
    /\ lock' = NoOne
    /\ main' = "emitUp"
    /\ UNCHANGED <<isClosed, channels, notify, connVars, todo, current, everUp,
                   event, sent, op, ret>>

(* listenerMain: listenerConnLoop *)

Closed == isClosed

CheckClosed(from, to) ==
    LockFree /\ MainGoes(from, IF Closed THEN "exit" ELSE to)

EmitAndSleep(from, e) ==
    /\ main = from
    /\ event' = e
    /\ main' = "sleep"
    /\ MainOnly
    /\ UNCHANGED <<todo, current, everUp>>

CheckClosedAfterFailure == CheckClosed("failed", "emitFailed")
EmitAttemptFailed == EmitAndSleep("emitFailed", "ConnectionAttemptFailed")
CheckClosedAfterLoss == CheckClosed("lossCheck", "emitDown")
EmitDisconnected == EmitAndSleep("emitDown", "Disconnected")

WakeUp == MainGoes("sleep", "dial")

\* A nil notification is due: the connection was re-established.
MarkNeeded == everUp

EmitUp ==
    /\ main = "emitUp"
    /\ event' = IF everUp THEN "Reconnected" ELSE "Connected"
    /\ main' = IF MarkNeeded THEN "sendNil" ELSE "pump"
    /\ everUp' = TRUE
    /\ MainOnly
    /\ UNCHANGED <<todo, current>>

SendNil ==
    /\ main = "sendNil"
    /\ SendNotify("nothing")
    /\ main' = "pump"
    /\ UNCHANGED <<sharedVars, connVars, todo, current, everUp, event, clientVars>>

ReceiveNotification ==
    /\ main = "pump"
    /\ connChan > 0
    /\ connChan' = connChan - 1
    /\ main' = "forward"
    /\ UNCHANGED <<sharedVars, notify, link, session, answer, todo,
                   current, everUp, event, sent, clientVars>>

ForwardNotification ==
    /\ main = "forward"
    /\ SendNotify("some")
    /\ main' = "pump"
    /\ UNCHANGED <<sharedVars, connVars, todo, current, everUp, event, clientVars>>

\* Mutated form: a closed channel yields nil for ever.
OkIgnored == ChanClosed /\ MainGoes("pump", "forward")

ConnectionLost == ChanClosed /\ MainGoes("pump", "cleanup")

DisconnectCleanup ==
    /\ main = "cleanup"
    /\ LockFree
    /\ cn' = FALSE
    /\ link' = "none"
    /\ session' = {}
    /\ main' = "lossCheck"
    /\ UNCHANGED <<lock, isClosed, channels, notify, connChan, answer,
                   todo, current, everUp, event, sent, clientVars>>

\* listenerMain closes Notify and ends.
CloseNotify == MainGoes("exit", "done")

MainLockStep ==
    LockForResync \/ CheckClosedAfterFailure \/ CheckClosedAfterLoss \/ DisconnectCleanup

MainStep ==
    \/ DialFails \/ DialSucceeds
    \/ (\E ch \in Channels : ResyncListen(ch)) \/ ResyncReturns \/ ResyncLost
    \/ ResyncFails \/ ResyncDone
    \/ EmitAttemptFailed \/ EmitDisconnected \/ WakeUp \/ EmitUp \/ SendNil
    \/ ReceiveNotification \/ ForwardNotification \/ ConnectionLost \/ CloseNotify

--------------------------------------------------------------------------------
(* The connection, the server and the application *)

\* The reader of the connection waits to put a notification into the full channel.
ReaderBlocked == connChan > ConnChanCap

\* The server executes the query in progress, and its answer arrives, at a reader that
\* is not blocked, unless the connection is lost first.  A LISTEN or UNLISTEN may be
\* refused.
ServerAnswers ==
    /\ link = "up"
    /\ ~ReaderBlocked
    /\ answer = "none"
    /\ \/ /\ main = "resyncRunning"
          /\ \/ answer' = "ok" /\ session' = session \cup current
             \/ answer' = "error" /\ UNCHANGED session
       \/ \E c \in Clients :
            /\ pc[c] = "running"
            /\ \/ /\ answer' = "ok"
                  /\ session' =
                        CASE op[c].name = "Listen" -> session \cup {op[c].ch}
                          [] op[c].name = "Unlisten" -> session \ {op[c].ch}
                          [] op[c].name = "UnlistenAll" -> {}
                          [] op[c].name = "Ping" -> session
               \/ op[c].name # "Ping" /\ answer' = "error" /\ UNCHANGED session
    /\ EnvOnly
    /\ UNCHANGED <<notify, link, connChan>>

\* Notifications may come ahead of the answer to the LISTEN they are owed to.
Listening ==
    \/ session # {} \/ main = "resyncRunning"
    \/ \E c \in Clients : pc[c] = "running" /\ op[c].name = "Listen"

ServerNotifies ==
    /\ link = "up"
    /\ Listening
    /\ ~ReaderBlocked
    /\ connChan' = connChan + 1
    /\ EnvOnly
    /\ UNCHANGED <<notify, link, session, answer>>

LinkGoes(from, to) ==
    /\ link = from
    /\ link' = to
    /\ EnvOnly
    /\ UNCHANGED <<notify, connChan, session, answer>>

ConnBreaks == LinkGoes("up", "lost")

\* ListenerConn's reader closes its channel and ends.
ConnEnds == ~ReaderBlocked /\ LinkGoes("lost", "ended")

AppReceives ==
    /\ notify > 0
    /\ notify' = notify - 1
    /\ EnvOnly
    /\ UNCHANGED connVars

EnvironmentStep ==
    ServerAnswers \/ ServerNotifies \/ ConnBreaks \/ ConnEnds \/ AppReceives

Next ==
    \/ \E c \in Clients :
          (\E o \in Ops : Call(c, o)) \/ ClientLockStep(c) \/ ClientStep(c)
    \/ MainLockStep \/ MainStep \/ ResyncIgnores
    \/ EnvironmentStep

Spec == Init /\ [][Next]_vars

(* Goroutines that can run do; whoever waits for l.lock gets it in the end;   *)
(* the server answers a query or the connection breaks, whatever it notifies  *)
(* of before; the reader of an abandoned connection ends once it is not       *)
(* blocked; the application drains Notify.  Nobody has to call a method, and  *)
(* no dial has to succeed.                                                    *)
Fairness ==
    /\ \A c \in Clients : WF_vars(ClientStep(c)) /\ SF_vars(ClientLockStep(c))
    /\ WF_vars(MainStep) /\ SF_vars(MainLockStep) /\ WF_vars(ResyncIgnores)
    /\ SF_vars(ServerAnswers)
    /\ WF_vars(ConnEnds)
    /\ WF_vars(AppReceives)

FairSpec == Spec /\ Fairness

--------------------------------------------------------------------------------
(* Properties *)

\* Every variable has its type, and no Go channel holds more than its capacity: of the
\* connection's notifications there may be one more, with its reader.
TypeOK ==
    /\ lock \in Clients \cup {Main, NoOne}
    /\ isClosed \in BOOLEAN
    /\ cn \in BOOLEAN
    /\ channels \subseteq Channels
    /\ notify \in 0..NotifyCap
    /\ link \in {"none", "up", "lost", "ended"}
    /\ connChan \in 0..(ConnChanCap + 1)
    /\ session \subseteq Channels
    /\ answer \in {"none", "ok", "error"}
    /\ main \in {"dial", "connLock", "resync", "resyncRunning", "resyncWait",
                 "resyncFail", "failed", "emitFailed", "emitUp", "sendNil",
                 "pump", "forward", "cleanup", "lossCheck", "emitDown", "sleep",
                 "exit", "done"}
    /\ todo \subseteq Channels
    /\ current \subseteq Channels
    /\ everUp \in BOOLEAN
    /\ event \in {"none", "Connected", "Disconnected", "Reconnected",
                  "ConnectionAttemptFailed"}
    /\ sent \in {"nothing", "some", "gap"}
    /\ pc \in [Clients -> {"idle", "lock", "query", "running", "waiting", "relock"}]
    /\ op \in [Clients -> Ops \cup {NoCall}]
    /\ ret \in [Clients -> {"none", "ok", "error"}]

\* While the connection is usable and nobody is at work on it, the server
\* listens on exactly the channels the Listener believes it does: through
\* queries that fail, queries whose answer is lost, and reconnections.
SessionInSync == cn /\ link = "up" /\ LockFree => session = channels

\* No wake-up is lost: a Listen that waits for a connection waits while there
\* is none and the Listener is open.
NoLostWakeup ==
    \A c \in Clients : pc[c] = "waiting" => ~cn /\ ~isClosed

\* A notification is never forwarded after one of an earlier connection without
\* a nil in between (doc.go and the comment on Reconnected: a nil is sent "as
\* we can't possibly know which notifications were lost").
GapMarked ==
    [][sent = "gap" => sent' # "some"]_sent

\* A method that has begun returns, at the latest once the Listener is closed.
CallsReturnOnceClosed ==
    \A c \in Clients : (isClosed /\ pc[c] # "idle") ~> pc[c] = "idle"

\* A connection that was lost is cleaned up and the Listener tries another,
\* whoever holds l.lock or waits for a query on the lost connection; and once
\* Close was called, losing the connection or failing to make one ends
\* listenerMain, and so closes Notify.
LossIsHandled ==
    /\ (cn /\ link # "up") ~> ~cn
    /\ (isClosed /\ (main = "failed" \/ (cn /\ link # "up"))) ~> main = "done"

(* What the documentation says, and the code does not do. *)

\* "Close disconnects the Listener from the database and shuts it down."
CloseShutsDown == isClosed ~> main = "done"

--------------------------------------------------------------------------------
(* Why the safety properties hold: an inductive invariant.                    *)

QueryPcs == {"query", "running"}
ResyncMains == {"resync", "resyncRunning", "resyncWait", "resyncFail"}
ConnectedMains == {"emitUp", "sendNil", "pump", "forward", "cleanup"}

\* Who holds l.lock from one step to the next, and that l.cn stays as it is
\* while a client does.
LockInv ==
    /\ lock = Main <=> main \in ResyncMains
    /\ cn <=> main \in ConnectedMains
    /\ \A c \in Clients :
          /\ lock = c <=> pc[c] \in QueryPcs
          /\ pc[c] \in QueryPcs =>
                cn /\ op[c].name \in {"Listen", "Unlisten", "UnlistenAll", "Ping"}

\* What channels will be when the query of c has been executed.
Effect(c) ==
    CASE op[c].name = "Listen" -> AddChannel(c)
      [] op[c].name \in {"Unlisten", "UnlistenAll"} -> Remaining(c)
      [] op[c].name = "Ping" -> channels

\* While the connection is usable: what resync has done and has yet to do adds
\* up to channels, and from then on session is channels, or what the query in
\* progress will make of it.
SyncInv ==
    link = "up" =>
        /\ main = "connLock" => session = {} /\ answer = "none"
        /\ main = "resync" => session \cup todo = channels /\ answer = "none"
        /\ main = "resyncRunning" =>
              /\ session \cup todo \cup current = channels
              /\ answer = "ok" => current \subseteq session
        /\ cn /\ lock = NoOne => session = channels /\ answer = "none"
        /\ \A c \in Clients :
              /\ pc[c] = "query" => session = channels /\ answer = "none"
              /\ pc[c] = "running" =>
                    session = IF answer = "ok" THEN Effect(c) ELSE channels

\* A gap is still to be marked only where EmitUp will see to it.
GapInv ==
    /\ sent # "nothing" \/ main \in {"sendNil", "pump", "forward"} => everUp
    /\ main \in {"pump", "forward"} => sent # "gap"

IInv ==
    /\ TypeOK
    /\ LockInv
    /\ SyncInv
    /\ NoLostWakeup
    /\ GapInv
================================================================================
