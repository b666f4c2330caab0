---------------------------- MODULE Listener_proofs ----------------------------
(***************************************************************************)
(* Proofs about Listener: IInv is an inductive invariant for any number of *)
(* clients and channels, and the safety properties follow from it.         *)
(***************************************************************************)
EXTENDS Listener, TLAPS

\* Frames and one-line conditions are abbreviations, visible everywhere.
USE DEF ClientOnly, MainOnly, EnvOnly, sharedVars, connVars, mainVars,
        clientVars, LockFree, HasRoom, Admitted, ChanClosed, Goto, Result, Return

\* What a call of a client, or of listenerMain, or the rest can do.
ClientAction(c) ==
    (\E o \in Ops : Call(c, o)) \/ ClientLockStep(c) \/ ClientStep(c)
MainAction == MainLockStep \/ MainStep \/ ResyncIgnores

LEMMA OpsType ==
    ASSUME TypeOK, NEW c \in Clients
    PROVE  /\ op[c].name = "Listen" => op[c].ch \in Channels
           /\ op[c].name = "Listen" => AddChannel(c) \subseteq Channels
           /\ Remaining(c) \subseteq Channels
BY DEF TypeOK, Ops, NoCall, AddChannel, Remaining

LEMMA WokenType ==
    ASSUME TypeOK
    PROVE  /\ Woken \in [Clients -> {"idle", "lock", "query", "running", "waiting",
                                     "relock"}]
           /\ \A c \in Clients :
                 /\ Woken[c] # "waiting"
                 /\ Woken[c] \in QueryPcs <=> pc[c] \in QueryPcs
                 /\ pc[c] \in QueryPcs => Woken[c] = pc[c]
BY DEF TypeOK, Woken, QueryPcs

\* What a client's step does, said once for every part of the invariant.
LEMMA ClientCases ==
    ASSUME TypeOK, NEW c \in Clients, ClientAction(c)
    PROVE  \/ \E o \in Ops : Call(c, o)
           \/ ReturnAtOnce(c, "error") /\ LockFree /\ pc[c] = "lock"
           \/ /\ StartQuery(c) /\ LockFree /\ ~isClosed /\ pc[c] = "lock"
              /\ op[c].name \in {"Listen", "Unlisten", "UnlistenAll", "Ping"}
           \/ /\ Enter(c, "Listen") /\ ~isClosed /\ ~cn
              /\ channels' = AddChannel(c)
              /\ Goto(c, "waiting")
              /\ ClientOnly /\ UNCHANGED <<lock, isClosed, cn, op, ret>>
           \/ /\ LockFree /\ pc[c] = "lock" /\ ~isClosed /\ ~cn
              /\ channels' = Remaining(c)
              /\ Return(c, "ok")
              /\ ClientOnly /\ UNCHANGED <<lock, isClosed, cn>>
           \/ Close(c) \/ QueryAdmitted(c) \/ QueryRefused(c) \/ QueryReturns(c)
           \/ Relock(c)
BY DEF ClientAction, ClientLockStep, ClientStep, RefusedWhenClosed, Listen,
       Unlisten, Ping, Enter

--------------------------------------------------------------------------------
(* Types *)

LEMMA InitType == Init => TypeOK
<1> SUFFICES ASSUME Init PROVE TypeOK
  OBVIOUS
<1>1. notify \in 0..NotifyCap /\ connChan \in 0..(ConnChanCap + 1)
  BY CapsAssumption DEF Init
<1>2. op \in [Clients -> Ops \cup {NoCall}]
  BY DEF Init
<1>3. /\ pc \in [Clients -> {"idle", "lock", "query", "running", "waiting", "relock"}]
      /\ ret \in [Clients -> {"none", "ok", "error"}]
  BY DEF Init
<1> QED
  BY <1>1, <1>2, <1>3 DEF Init, TypeOK

LEMMA FinishType ==
    ASSUME TypeOK, LockInv, NEW c \in Clients, pc[c] \in QueryPcs,
           FinishExecuted(c) \/ FinishNotExecuted(c)
    PROVE  /\ channels' \subseteq Channels
           /\ pc' \in [Clients -> {"idle", "lock", "query", "running", "waiting",
                                   "relock"}]
           /\ op' \in [Clients -> Ops \cup {NoCall}]
           /\ ret' \in [Clients -> {"none", "ok", "error"}]
<1>1. ASSUME NEW r \in {"ok", "error"}, Return(c, r)
      PROVE  /\ pc' \in [Clients -> {"idle", "lock", "query", "running",
                                     "waiting", "relock"}]
             /\ op' \in [Clients -> Ops \cup {NoCall}]
             /\ ret' \in [Clients -> {"none", "ok", "error"}]
  BY <1>1 DEF TypeOK
<1>2. channels \subseteq Channels
  BY DEF TypeOK
<1>3. CASE FinishRecorded(c)
  BY <1>1, <1>3, OpsType DEF FinishRecorded
<1>4. CASE FinishUnchanged(c, "ok") \/ FinishUnchanged(c, "error")
  BY <1>1, <1>2, <1>4 DEF FinishUnchanged
<1> QED
  BY <1>3, <1>4 DEF FinishExecuted, FinishNotExecuted

LEMMA ClientType ==
    ASSUME TypeOK, LockInv, NEW c \in Clients, ClientAction(c)
    PROVE  TypeOK'
<1>1. ASSUME NEW o \in Ops, Call(c, o) PROVE TypeOK'
  BY <1>1 DEF TypeOK, Call
<1>2. CASE ReturnAtOnce(c, "error")
  BY <1>2 DEF TypeOK, ReturnAtOnce
<1>3. CASE StartQuery(c)
  BY <1>3 DEF TypeOK, StartQuery
<1>4. CASE /\ Enter(c, "Listen") /\ channels' = AddChannel(c)
           /\ Goto(c, "waiting")
           /\ ClientOnly /\ UNCHANGED <<lock, isClosed, cn, op, ret>>
  BY <1>4, OpsType DEF TypeOK, Enter
<1>5. CASE /\ channels' = Remaining(c) /\ Return(c, "ok")
           /\ ClientOnly /\ UNCHANGED <<lock, isClosed, cn>>
  BY <1>5, OpsType DEF TypeOK
<1>6. CASE Close(c)
  BY <1>6, WokenType DEF TypeOK, Close, CloseConn
<1>7. CASE QueryAdmitted(c)
  BY <1>7 DEF TypeOK, QueryAdmitted
<1>8. CASE QueryRefused(c) \/ QueryReturns(c)
  <2>1. /\ FinishExecuted(c) \/ FinishNotExecuted(c)
        /\ answer' \in {"none", "ok", "error"}
        /\ Unlock
        /\ pc[c] \in QueryPcs
    BY <1>8 DEF QueryRefused, QueryReturns, QueryPcs, FinishExecuted, Executed,
                NotExecuted, TypeOK
  <2>2. /\ channels' \subseteq Channels
        /\ pc' \in [Clients -> {"idle", "lock", "query", "running", "waiting",
                                "relock"}]
        /\ op' \in [Clients -> Ops \cup {NoCall}]
        /\ ret' \in [Clients -> {"none", "ok", "error"}]
    BY <2>1, FinishType
  <2> QED
    BY <2>1, <2>2 DEF TypeOK, Unlock
<1>9. CASE Relock(c)
  BY <1>9 DEF TypeOK, Relock
<1> QED
  BY <1>1, <1>2, <1>3, <1>4, <1>5, <1>6, <1>7, <1>8, <1>9, ClientCases

LEMMA MainType ==
    ASSUME TypeOK, MainAction
    PROVE  TypeOK'
<1> USE CapsAssumption DEF TypeOK
<1>1. ASSUME NEW from, NEW to, MainGoes(from, to),
             to \in {"failed", "dial", "resyncFail", "cleanup", "exit", "done",
                     "emitFailed", "emitDown"}
      PROVE  TypeOK'
  BY <1>1 DEF MainGoes
<1>2. CASE LockForResync
  BY <1>2 DEF LockForResync, ToResync
<1>3. CASE CheckClosedAfterFailure \/ CheckClosedAfterLoss
  BY <1>1, <1>3 DEF CheckClosedAfterFailure, CheckClosedAfterLoss, CheckClosed
<1>4. CASE DisconnectCleanup
  BY <1>4 DEF DisconnectCleanup
<1>5. CASE DialFails \/ ResyncLost \/ WakeUp \/ ConnectionLost \/ CloseNotify
  BY <1>1, <1>5 DEF DialFails, ResyncLost, WakeUp, ConnectionLost, CloseNotify
<1>6. CASE DialSucceeds
  BY <1>6 DEF DialSucceeds
<1>7. ASSUME NEW ch \in Channels, ResyncListen(ch) PROVE TypeOK'
  BY <1>7 DEF ResyncListen
<1>8. CASE ResyncReturns
  BY <1>8 DEF ResyncReturns, Executed, NotExecuted
<1>9. CASE ResyncFails
  BY <1>9 DEF ResyncFails
<1>10. CASE ResyncDone
  BY <1>10, WokenType DEF ResyncDone
<1>11. CASE EmitAttemptFailed \/ EmitDisconnected
  BY <1>11 DEF EmitAttemptFailed, EmitDisconnected, EmitAndSleep
<1>12. CASE EmitUp
  BY <1>12 DEF EmitUp
<1>13. CASE SendNil \/ ForwardNotification
  BY <1>13 DEF SendNil, ForwardNotification, SendNotify
<1>14. CASE ReceiveNotification \/ ResyncIgnores
  BY <1>14 DEF ReceiveNotification, ResyncIgnores
<1> QED
  BY <1>2, <1>3, <1>4, <1>5, <1>6, <1>7, <1>8, <1>9, <1>10, <1>11, <1>12, <1>13,
     <1>14 DEF MainAction, MainLockStep, MainStep

LEMMA EnvironmentType ==
    ASSUME TypeOK, LockInv, EnvironmentStep
    PROVE  TypeOK'
<1> USE CapsAssumption DEF TypeOK
<1>1. CASE ServerAnswers
  <2>1. answer' \in {"none", "ok", "error"} /\ session' \subseteq Channels
    <3>1. CASE main = "resyncRunning"
               /\ (session' = session \cup current \/ UNCHANGED session)
               /\ answer' \in {"ok", "error"}
      BY <3>1
    <3>2. ASSUME NEW c \in Clients, pc[c] = "running", answer' = "ok",
                 session' =
                    CASE op[c].name = "Listen" -> session \cup {op[c].ch}
                      [] op[c].name = "Unlisten" -> session \ {op[c].ch}
                      [] op[c].name = "UnlistenAll" -> {}
                      [] op[c].name = "Ping" -> session
          PROVE  session' \subseteq Channels
      <4>1. op[c].name \in {"Listen", "Unlisten", "UnlistenAll", "Ping"}
        BY <3>2 DEF LockInv, QueryPcs
      <4>2. op[c].name = "Listen" => op[c].ch \in Channels
        BY OpsType
      <4> QED
        BY <3>2, <4>1, <4>2
    <3> QED
      BY <1>1, <3>1, <3>2 DEF ServerAnswers
  <2> QED
    BY <1>1, <2>1 DEF ServerAnswers
<1>2. CASE ServerNotifies \/ AppReceives
  BY <1>2 DEF ServerNotifies, AppReceives, ReaderBlocked
<1>3. CASE ConnBreaks \/ ConnEnds
  BY <1>3 DEF ConnBreaks, ConnEnds, LinkGoes
<1> QED
  BY <1>1, <1>2, <1>3 DEF EnvironmentStep

--------------------------------------------------------------------------------
(* The lock, and who waits *)

LEMMA ClientLock ==
    ASSUME TypeOK, LockInv, NoLostWakeup, NEW c \in Clients, ClientAction(c)
    PROVE  LockInv' /\ NoLostWakeup'
<1> USE HoldersAssumption DEF TypeOK, LockInv, NoLostWakeup, QueryPcs
<1>1. ASSUME NEW o \in Ops, Call(c, o) PROVE LockInv' /\ NoLostWakeup'
  BY <1>1 DEF Call
<1>2. CASE ReturnAtOnce(c, "error") /\ pc[c] = "lock"
  BY <1>2 DEF ReturnAtOnce
<1>3. CASE /\ StartQuery(c) /\ LockFree /\ pc[c] = "lock"
           /\ op[c].name \in {"Listen", "Unlisten", "UnlistenAll", "Ping"}
  BY <1>3 DEF StartQuery
<1>4. CASE /\ Enter(c, "Listen") /\ ~isClosed /\ ~cn
           /\ Goto(c, "waiting")
           /\ ClientOnly /\ UNCHANGED <<lock, isClosed, cn, op, ret>>
  BY <1>4 DEF Enter
<1>5. CASE /\ LockFree /\ pc[c] = "lock" /\ Return(c, "ok")
           /\ ClientOnly /\ UNCHANGED <<lock, isClosed, cn>>
  BY <1>5
<1>6. CASE Close(c)
  <2>1. LockFree /\ pc[c] = "lock"
    BY <1>6 DEF Close, Enter
  <2> QED
    BY <1>6, <2>1, WokenType DEF Close
<1>7. CASE QueryAdmitted(c)
  BY <1>7 DEF QueryAdmitted
<1>8. CASE QueryRefused(c) \/ QueryReturns(c)
  <2>1. /\ Unlock /\ pc[c] \in QueryPcs
        /\ Return(c, "ok") \/ Return(c, "error")
    BY <1>8 DEF QueryRefused, QueryReturns, FinishExecuted, FinishNotExecuted,
                FinishUnchanged, FinishRecorded
  <2> QED
    BY <2>1 DEF Unlock
<1>9. CASE Relock(c)
  BY <1>9 DEF Relock
<1> QED
  BY <1>1, <1>2, <1>3, <1>4, <1>5, <1>6, <1>7, <1>8, <1>9, ClientCases

LEMMA MainLock ==
    ASSUME TypeOK, LockInv, NoLostWakeup, MainAction
    PROVE  LockInv' /\ NoLostWakeup'
<1> USE HoldersAssumption
    DEF TypeOK, LockInv, NoLostWakeup, QueryPcs, ResyncMains, ConnectedMains
<1>1. ASSUME NEW from, NEW to, MainGoes(from, to),
             from \in ResyncMains <=> to \in ResyncMains,
             from \in ConnectedMains <=> to \in ConnectedMains
      PROVE  LockInv' /\ NoLostWakeup'
  BY <1>1 DEF MainGoes
<1>2. CASE LockForResync
  BY <1>2 DEF LockForResync
<1>3. CASE CheckClosedAfterFailure \/ CheckClosedAfterLoss
  BY <1>1, <1>3 DEF CheckClosedAfterFailure, CheckClosedAfterLoss, CheckClosed
<1>4. CASE DisconnectCleanup
  BY <1>4 DEF DisconnectCleanup
<1>5. CASE DialFails \/ ResyncLost \/ WakeUp \/ ConnectionLost \/ CloseNotify
  BY <1>1, <1>5 DEF DialFails, ResyncLost, WakeUp, ConnectionLost, CloseNotify
<1>6. CASE DialSucceeds
  BY <1>6 DEF DialSucceeds
<1>7. ASSUME NEW ch \in Channels, ResyncListen(ch)
      PROVE  LockInv' /\ NoLostWakeup'
  BY <1>7 DEF ResyncListen
<1>8. CASE ResyncReturns
  BY <1>8 DEF ResyncReturns
<1>9. CASE ResyncFails
  BY <1>9 DEF ResyncFails
<1>10. CASE ResyncDone
  BY <1>10, WokenType DEF ResyncDone
<1>11. CASE EmitAttemptFailed \/ EmitDisconnected
  BY <1>11 DEF EmitAttemptFailed, EmitDisconnected, EmitAndSleep
<1>12. CASE EmitUp
  BY <1>12 DEF EmitUp
<1>13. CASE SendNil \/ ForwardNotification
  BY <1>13 DEF SendNil, ForwardNotification, SendNotify
<1>14. CASE ReceiveNotification \/ ResyncIgnores
  BY <1>14 DEF ReceiveNotification, ResyncIgnores
<1> QED
  BY <1>2, <1>3, <1>4, <1>5, <1>6, <1>7, <1>8, <1>9, <1>10, <1>11, <1>12, <1>13,
     <1>14 DEF MainAction, MainLockStep, MainStep

\* The environment touches neither the lock nor the goroutines.
LEMMA EnvironmentFrame ==
    ASSUME EnvironmentStep
    PROVE  UNCHANGED <<lock, isClosed, cn, channels, main, todo, current, everUp,
                       sent, pc, op, ret>>
BY DEF EnvironmentStep, ServerAnswers, ServerNotifies, ConnBreaks, ConnEnds,
       LinkGoes, AppReceives

LEMMA EnvironmentLock ==
    ASSUME LockInv, NoLostWakeup, EnvironmentStep
    PROVE  LockInv' /\ NoLostWakeup'
BY EnvironmentFrame DEF LockInv, NoLostWakeup

--------------------------------------------------------------------------------
(* The gap in the notifications *)

LEMMA GapKept ==
    ASSUME GapInv, [Next]_vars
    PROVE  GapInv' /\ (sent = "gap" => sent' = sent \/ sent' # "some")
<1> USE DEF GapInv
<1>1. ASSUME UNCHANGED <<main, everUp, sent>>
      PROVE  GapInv' /\ (sent = "gap" => sent' = sent \/ sent' # "some")
  BY <1>1
<1>2. ASSUME NEW c \in Clients, ClientAction(c)
      PROVE  UNCHANGED <<main, everUp, sent>>
  BY <1>2 DEF ClientAction, ClientLockStep, ClientStep, Call, RefusedWhenClosed,
       Listen, Unlisten, Ping, Close, Relock, QueryAdmitted, QueryRefused,
       QueryReturns, ReturnAtOnce, StartQuery, Unlock
<1>3. CASE MainAction
  <2>1. ASSUME NEW from, NEW to, MainGoes(from, to),
               to \notin {"sendNil", "pump", "forward"}
        PROVE  GapInv' /\ (sent = "gap" => sent' = sent \/ sent' # "some")
    BY <2>1 DEF MainGoes
  <2>2. CASE CheckClosedAfterFailure \/ CheckClosedAfterLoss
    BY <2>1, <2>2 DEF CheckClosedAfterFailure, CheckClosedAfterLoss, CheckClosed
  <2>3. CASE DialFails \/ ResyncLost \/ WakeUp \/ ConnectionLost \/ CloseNotify
    BY <2>1, <2>3 DEF DialFails, ResyncLost, WakeUp, ConnectionLost, CloseNotify
  <2>4. CASE LockForResync \/ DisconnectCleanup \/ ResyncReturns \/ ResyncFails
    BY <2>4 DEF LockForResync, DisconnectCleanup, ResyncReturns, ResyncFails
  <2>5. ASSUME NEW ch \in Channels, ResyncListen(ch)
        PROVE  GapInv' /\ (sent = "gap" => sent' = sent \/ sent' # "some")
    BY <2>5 DEF ResyncListen
  <2>6. CASE ResyncDone \/ ResyncIgnores \/ ReceiveNotification \/ DialSucceeds
    BY <2>6 DEF ResyncDone, ResyncIgnores, ReceiveNotification, DialSucceeds
  <2>7. CASE EmitAttemptFailed \/ EmitDisconnected
    BY <2>7 DEF EmitAttemptFailed, EmitDisconnected, EmitAndSleep
  <2>8. CASE EmitUp
    BY <2>8 DEF EmitUp, MarkNeeded
  <2>9. CASE SendNil \/ ForwardNotification
    BY <2>9 DEF SendNil, ForwardNotification, SendNotify
  <2> QED
    BY <1>3, <2>2, <2>3, <2>4, <2>5, <2>6, <2>7, <2>8, <2>9
       DEF MainAction, MainLockStep, MainStep
<1>4. CASE EnvironmentStep
  BY <1>1, <1>4, EnvironmentFrame
<1>5. CASE UNCHANGED vars
  BY <1>1, <1>5 DEF vars
<1> QED
  BY <1>1, <1>2, <1>3, <1>4, <1>5 DEF Next, ClientAction, MainAction

--------------------------------------------------------------------------------
(* The server's session *)

\* A step that leaves all of this alone keeps SyncInv.
LEMMA SyncFrame ==
    ASSUME SyncInv,
           UNCHANGED <<link, main, session, todo, current, channels, answer, cn,
                       lock>>,
           \A c \in Clients :
              pc'[c] \in QueryPcs => pc'[c] = pc[c] /\ op'[c] = op[c]
    PROVE  SyncInv'
BY DEF SyncInv, Effect, AddChannel, Remaining, QueryPcs

\* The query of c is over and session is what channels will be.
LEMMA FinishSync ==
    ASSUME TypeOK, LockInv, SyncInv, NEW c \in Clients,
           QueryRefused(c) \/ QueryReturns(c)
    PROVE  link = "up" => session = channels' /\ answer' = "none"
<1> SUFFICES ASSUME link = "up"
             PROVE  session = channels' /\ answer' = "none"
  OBVIOUS
<1>1. FinishExecuted(c) /\ pc[c] = "running"
  BY DEF QueryRefused, QueryReturns, NotExecuted
<1>2. op[c].name \in {"Listen", "Unlisten", "UnlistenAll", "Ping"}
  BY <1>1 DEF LockInv, QueryPcs
<1>3. session = IF answer = "ok" THEN Effect(c) ELSE channels
  BY <1>1 DEF SyncInv
<1>4. CASE answer = "ok"
  BY <1>1, <1>2, <1>3, <1>4
     DEF FinishExecuted, FinishUnchanged, FinishRecorded, Executed, Effect
<1>5. CASE answer = "error"
  BY <1>1, <1>3, <1>5 DEF FinishExecuted, FinishUnchanged, Executed
<1> QED
  BY <1>1, <1>4, <1>5 DEF FinishExecuted, Executed

LEMMA ClientSync ==
    ASSUME TypeOK, LockInv, SyncInv, NEW c \in Clients, ClientAction(c)
    PROVE  SyncInv'
<1>1. ASSUME NEW o \in Ops, Call(c, o) PROVE SyncInv'
  BY <1>1, SyncFrame DEF Call, TypeOK, QueryPcs
<1>2. CASE ReturnAtOnce(c, "error")
  BY <1>2, SyncFrame DEF ReturnAtOnce, TypeOK, QueryPcs
<1>3. CASE StartQuery(c) /\ LockFree
  BY <1>3, HoldersAssumption DEF StartQuery, TypeOK, QueryPcs, LockInv, SyncInv
<1>4. CASE /\ LockFree /\ ~cn /\ ClientOnly /\ UNCHANGED <<lock, cn>>
           /\ \E to \in {"waiting", "idle"} : Goto(c, to)
  <2>1. \A d \in Clients : pc[d] \notin QueryPcs /\ pc'[d] \notin QueryPcs
    BY <1>4 DEF LockInv, QueryPcs, TypeOK
  <2>2. main \notin ResyncMains
    BY <1>4, HoldersAssumption DEF LockInv
  <2> QED
    BY <1>4, <2>1, <2>2 DEF SyncInv, QueryPcs, ResyncMains
<1>5. CASE Close(c)
  <2>1. link' = "up" => ~cn /\ link = "up"
    BY <1>5 DEF Close, CloseConn
  <2>2. \A d \in Clients : pc[d] \notin QueryPcs /\ pc'[d] \notin QueryPcs
    BY <1>5, WokenType, HoldersAssumption DEF Close, Enter, LockInv, TypeOK, QueryPcs
  <2> QED
    BY <1>5, <2>1, <2>2 DEF Close, SyncInv, QueryPcs
<1>6. CASE QueryAdmitted(c)
  BY <1>6 DEF QueryAdmitted, TypeOK, LockInv, SyncInv, QueryPcs, Effect,
              AddChannel, Remaining
<1>7. CASE QueryRefused(c) \/ QueryReturns(c)
  <2>1. /\ Unlock /\ pc[c] \in QueryPcs
        /\ Goto(c, "idle")
    BY <1>7 DEF QueryRefused, QueryReturns, FinishExecuted, FinishNotExecuted,
                FinishUnchanged, FinishRecorded, QueryPcs
  <2>2. \A d \in Clients : pc'[d] \notin QueryPcs
    BY <2>1 DEF LockInv, TypeOK, QueryPcs
  <2>3. main \notin ResyncMains /\ cn
    BY <2>1, HoldersAssumption DEF LockInv
  <2>4. main # "connLock"
    BY <2>3 DEF LockInv, ConnectedMains
  <2> QED
    BY <2>1, <2>2, <2>3, <2>4, <1>7, FinishSync
       DEF Unlock, SyncInv, QueryPcs, ResyncMains
<1>8. CASE Relock(c)
  BY <1>8, SyncFrame DEF Relock, TypeOK, QueryPcs
<1> QED
  BY <1>1, <1>2, <1>3, <1>4, <1>5, <1>6, <1>7, <1>8, ClientCases DEF Enter

LEMMA MainSync ==
    ASSUME TypeOK, LockInv, SyncInv, MainAction
    PROVE  SyncInv'
<1>1. ASSUME NEW from, NEW to, MainGoes(from, to),
             to \notin {"connLock", "resync", "resyncRunning"}
      PROVE  SyncInv'
  BY <1>1 DEF MainGoes, SyncInv, Effect, AddChannel, Remaining
<1>2. CASE LockForResync
  <2>1. \A c \in Clients : pc[c] \notin QueryPcs
    BY <1>2, HoldersAssumption DEF LockForResync, LockInv
  <2>2. ~cn
    BY <1>2 DEF LockForResync, LockInv, ConnectedMains
  <2> QED
    BY <1>2, <2>1, <2>2 DEF LockForResync, ToResync, SyncInv, QueryPcs
<1>3. CASE CheckClosedAfterFailure \/ CheckClosedAfterLoss
  BY <1>1, <1>3 DEF CheckClosedAfterFailure, CheckClosedAfterLoss, CheckClosed
<1>4. CASE DialFails \/ ResyncLost \/ WakeUp \/ ConnectionLost \/ CloseNotify
  BY <1>1, <1>4 DEF DialFails, ResyncLost, WakeUp, ConnectionLost, CloseNotify
<1>5. CASE DisconnectCleanup \/ ResyncFails
  BY <1>5 DEF DisconnectCleanup, ResyncFails, SyncInv
<1>6. CASE DialSucceeds
  <2>1. ~cn /\ \A c \in Clients : pc[c] \notin QueryPcs
    BY <1>6 DEF DialSucceeds, LockInv, ConnectedMains
  <2> QED
    BY <1>6, <2>1 DEF DialSucceeds, SyncInv, QueryPcs
<1>7. CASE ResyncReturns \/ (\E ch \in Channels : ResyncListen(ch)) \/ ResyncDone
  <2>1. /\ \A c \in Clients : pc[c] \notin QueryPcs
        /\ ~cn /\ main \in ResyncMains
    BY <1>7, HoldersAssumption
       DEF ResyncReturns, ResyncListen, ResyncDone, LockInv, ResyncMains,
           ConnectedMains
  <2>2. CASE ResyncReturns
    BY <2>1, <2>2 DEF ResyncReturns, Executed, NotExecuted, SyncInv, QueryPcs
  <2>3. ASSUME NEW ch \in Channels, ResyncListen(ch) PROVE SyncInv'
    BY <2>1, <2>3 DEF ResyncListen, SyncInv, QueryPcs
  <2>4. CASE ResyncDone
    BY <2>1, <2>4, WokenType DEF ResyncDone, SyncInv, QueryPcs
  <2> QED
    BY <1>7, <2>2, <2>3, <2>4
<1>8. CASE EmitAttemptFailed \/ EmitDisconnected
  BY <1>8 DEF EmitAttemptFailed, EmitDisconnected, EmitAndSleep, SyncInv, Effect,
              AddChannel, Remaining
<1>9. CASE EmitUp
  BY <1>9 DEF EmitUp, SyncInv, Effect, AddChannel, Remaining
<1>10. CASE SendNil \/ ForwardNotification \/ ReceiveNotification
  BY <1>10 DEF SendNil, ForwardNotification, ReceiveNotification, SendNotify,
               SyncInv, Effect, AddChannel, Remaining
<1>11. CASE ResyncIgnores
  BY <1>11, SyncFrame DEF ResyncIgnores
<1> QED
  BY <1>2, <1>3, <1>4, <1>5, <1>6, <1>7, <1>8, <1>9, <1>10, <1>11
     DEF MainAction, MainLockStep, MainStep

LEMMA EnvironmentSync ==
    ASSUME TypeOK, LockInv, SyncInv, EnvironmentStep
    PROVE  SyncInv'
<1>1. CASE ServerAnswers /\ main = "resyncRunning"
  <2>1. ~cn /\ \A c \in Clients : pc[c] \notin QueryPcs
    BY <1>1, HoldersAssumption DEF LockInv, ResyncMains, ConnectedMains
  <2> QED
    BY <1>1, <2>1, EnvironmentFrame DEF ServerAnswers, SyncInv, QueryPcs
<1>2. ASSUME NEW c \in Clients, pc[c] = "running", ServerAnswers PROVE SyncInv'
  <2>1. /\ lock = c /\ cn /\ main \notin ResyncMains /\ main # "connLock"
        /\ \A d \in Clients : pc[d] \in QueryPcs => d = c
        /\ op[c].name \in {"Listen", "Unlisten", "UnlistenAll", "Ping"}
    BY <1>2, HoldersAssumption DEF LockInv, QueryPcs, ResyncMains, ConnectedMains
  <2>2. link = "up" /\ answer = "none" /\ session = channels
    BY <1>2 DEF ServerAnswers, SyncInv
  <2>3. \/ answer' = "ok" /\ session' = Effect(c)
        \/ answer' = "error" /\ session' = session
    BY <1>2, <2>1, <2>2 DEF ServerAnswers, Effect, AddChannel, Remaining,
                           QueryPcs, ResyncMains
  <2>4. Effect(c)' = Effect(c)
    BY <1>2, EnvironmentFrame DEF Effect, AddChannel, Remaining
  <2> QED
    BY <1>2, <2>1, <2>2, <2>3, <2>4, EnvironmentFrame, HoldersAssumption
       DEF SyncInv, QueryPcs, ResyncMains
<1>3. CASE ServerNotifies \/ AppReceives
  BY <1>3, SyncFrame DEF ServerNotifies, AppReceives
<1>4. CASE ConnBreaks \/ ConnEnds
  BY <1>4 DEF ConnBreaks, ConnEnds, LinkGoes, SyncInv
<1> QED
  BY <1>1, <1>2, <1>3, <1>4 DEF EnvironmentStep, ServerAnswers

--------------------------------------------------------------------------------
(* Theorems *)

LEMMA InitIInv == Init => IInv
<1> SUFFICES ASSUME Init PROVE IInv
  OBVIOUS
<1>1. LockInv
  BY HoldersAssumption DEF Init, LockInv, ResyncMains, ConnectedMains, QueryPcs
<1>2. SyncInv /\ NoLostWakeup /\ GapInv
  BY DEF Init, SyncInv, NoLostWakeup, GapInv
<1> QED
  BY <1>1, <1>2, InitType DEF IInv

LEMMA NextIInv == IInv /\ [Next]_vars => IInv'
<1> SUFFICES ASSUME IInv, [Next]_vars PROVE IInv'
  OBVIOUS
<1>1. GapInv'
  BY GapKept DEF IInv
<1>2. ASSUME NEW c \in Clients, ClientAction(c)
      PROVE  TypeOK' /\ LockInv' /\ NoLostWakeup' /\ SyncInv'
  BY <1>2, ClientType, ClientLock, ClientSync DEF IInv
<1>3. CASE MainAction
  BY <1>1, <1>3, MainType, MainLock, MainSync DEF IInv
<1>4. CASE EnvironmentStep
  BY <1>1, <1>4, EnvironmentType, EnvironmentLock, EnvironmentSync DEF IInv
<1>5. CASE UNCHANGED vars
  <2>1. TypeOK'
    BY <1>5 DEF vars, IInv, TypeOK
  <2>2. LockInv' /\ NoLostWakeup'
    BY <1>5 DEF vars, IInv, LockInv, NoLostWakeup
  <2>3. SyncInv'
    BY <1>5, SyncFrame DEF vars, IInv
  <2> QED
    BY <1>1, <2>1, <2>2, <2>3 DEF IInv
<1>6. CASE \E c \in Clients : ClientAction(c)
  BY <1>1, <1>2, <1>6 DEF IInv
<1> QED
  BY <1>3, <1>4, <1>5, <1>6 DEF Next, ClientAction, MainAction

\* IInv is an invariant of Listener: what makes the theorems below hold.
THEOREM Invariance == Spec => []IInv
BY InitIInv, NextIInv, PTL DEF Spec

\* Every variable keeps to its type and no channel to more than its capacity.
THEOREM TypeCorrect == Spec => []TypeOK
<1>1. IInv => TypeOK
  BY DEF IInv
<1> QED
  BY <1>1, Invariance, PTL

\* Between two operations on a usable connection the server listens on exactly
\* the Listener's channels, however many clients have been at work on it.
THEOREM SessionAgrees == Spec => []SessionInSync
<1>1. IInv => SessionInSync
  BY DEF IInv, SyncInv, SessionInSync
<1> QED
  BY <1>1, Invariance, PTL

\* A Listen waits on reconnectCond only while there is something to wait for.
THEOREM WaitersAreWoken == Spec => []NoLostWakeup
<1>1. IInv => NoLostWakeup
  BY DEF IInv
<1> QED
  BY <1>1, Invariance, PTL

\* No notification follows one of an earlier connection without a nil between.
THEOREM GapsAreMarked == Spec => GapMarked
<1>1. IInv /\ [Next]_vars => [sent = "gap" => sent' # "some"]_sent
  BY GapKept DEF IInv
<1> QED
  BY <1>1, Invariance, PTL DEF Spec, GapMarked
================================================================================
