-------------------------- MODULE ListenerConn_proofs --------------------------
(***************************************************************************)
(* Proofs about ListenerConn.  IInv is an inductive invariant whatever the *)
(* server sends; from it follow most of the safety properties, and that    *)
(* ListenerConn implements ListenerConnAPI.  AnswerInv adds whose messages *)
(* are on their way, if the server ends its answers with 'Z' and does not  *)
(* fail an empty query.                                                    *)
(***************************************************************************)
EXTENDS ListenerConn, SequenceTheorems, TLAPS

\* The one-line conditions are abbreviations, visible everywhere.
USE DEF SenderLockFree, Usable, HasRoom, CloseNetConn, EndsQuery

\* The messages that answer a query are messages.
LEMMA AnswerType ==
    ASSUME NEW q \in Queries, NEW types \in Seq(Types)
    PROVE  Answer(q, types) \in Seq(Msg)
<1>1. types \in [1..Len(types) -> Types] /\ Len(types) \in Nat
  BY LenProperties
<1>2. Answer(q, types) \in [1..Len(types) -> Msg]
  BY <1>1 DEF Answer, Msg
<1> QED
  BY <1>1, <1>2, SeqDef

LEMMA InitType == Init => TypeOK
BY NotifyCapAssumption, BoundsAssumption
   DEF Init, TypeOK, NoMsg, Msg, Types, ReplyChanCap, Reasons, Nil

LEMMA SenderType ==
    ASSUME TypeOK, NEW s \in Senders,
           ExecSimpleQuery(s) \/ Ping(s) \/ Close(s)
             \/ AcquireSenderLock(s) \/ SenderStep(s)
    PROVE  TypeOK'
<1> USE NoSenderAssumption, BoundsAssumption DEF TypeOK, RunningPcs, Goto
<1>1. ASSUME NEW o \in {"exec", "ping"}, Start(s, o) PROVE TypeOK'
  <2>1. calls' \in [Senders -> 0..MaxCalls]
    BY <1>1 DEF Start
  <2> QED
    BY <1>1, <2>1 DEF Start, netVars, lockVars, readerVars
<1>2. CASE Close(s)
  BY <1>2 DEF Close, netVars, lockVars, readerVars, Reasons
<1>3. CASE AcquireSenderLock(s)
  BY <1>3 DEF AcquireSenderLock, netVars, readerVars
<1>4. CASE CheckErr(s)
  <2>1. CASE Goto(s, "send") /\ UNCHANGED <<senderLock, ret>>
    BY <1>4, <2>1 DEF CheckErr, netVars, readerVars
  <2>2. CASE Return(s, "failed", err)
    BY <1>4, <2>2 DEF CheckErr, Return, netVars, readerVars
  <2> QED
    BY <1>4, <2>1, <2>2 DEF CheckErr
<1>5. CASE SetExpectResponse(s)
  <2>1. /\ connState' \in {"Idle", "ExpectResponse", "ExpectReadyForQuery"}
        /\ qerr' \in [Senders -> Reasons \cup {Nil}]
        /\ pc' \in [Senders -> RunningPcs \cup {"idle", "lock", "check", "closeSock"}]
    BY <1>5 DEF SetExpectResponse, Reasons
  <2> QED
    BY <1>5, <2>1 DEF SetExpectResponse, netVars, readerVars
<1>6. CASE WriteQuery(s)
  <2>1. ASSUME NEW r \in Replies(s)
        PROVE  Answer(<<s, calls[s]>>, Append(r, "Z")) \in Seq(Msg)
    <3>1. r \in Seq(Types)
      BY <2>1, RepliesAssumption DEF Replies
    <3>2. Append(r, "Z") \in Seq(Types)
      BY <3>1, AppendProperties DEF Types
    <3>3. <<s, calls[s]>> \in Queries
      BY DEF Queries
    <3> QED
      BY <3>2, <3>3, AnswerType
  <2>2. todo' \in Seq(Msg)
    <3>1. CASE ~serverUp
      BY <1>6, <3>1 DEF WriteQuery
    <3>2. CASE serverUp
      <4>1. PICK r \in Replies(s) :
                todo' = todo \o Answer(<<s, calls[s]>>, Append(r, "Z"))
        BY <1>6, <3>2 DEF WriteQuery
      <4>2. Answer(<<s, calls[s]>>, Append(r, "Z")) \in Seq(Msg)
        BY <2>1
      <4>3. todo \in Seq(Msg)
        OBVIOUS
      <4> HIDE DEF TypeOK
      <4> QED
        BY <4>1, <4>2, <4>3, ConcatProperties
    <3> QED
      BY <3>1, <3>2
  <2> QED
    BY <1>6, <2>2 DEF WriteQuery, netVars, readerVars, lockVars
<1>7. CASE WriteFails(s)
  BY <1>7 DEF WriteFails, netVars, readerVars, lockVars, Reasons
<1>8. CASE FailSetErr(s)
  BY <1>8 DEF FailSetErr, SetErrOnce, netVars, readerVars, lockVars
<1>9. CASE FailClose(s)
  BY <1>9 DEF FailClose, Return, netVars, readerVars
<1>10. CASE RecvReply(s)
  <2>1. replyChan' \in Seq(Msg) /\ Len(replyChan') <= ReplyChanCap
    BY <1>10, HeadTailProperties, LenProperties DEF RecvReply, ReplyChanCap
  <2>2. CASE Head(replyChan).typ = "Z"
    <3>1. Return(s, "executed", qerr[s]) /\ UNCHANGED qerr
      BY <1>10, <2>2 DEF RecvReply
    <3> QED
      BY <1>10, <2>1, <3>1 DEF RecvReply, Return, netVars, readerVars
  <2>3. CASE Head(replyChan).typ # "Z"
    <3>1. /\ qerr' \in [Senders -> Reasons \cup {Nil}]
          /\ UNCHANGED <<pc, ret, senderLock>>
      BY <1>10, <2>3 DEF RecvReply, Reasons
    <3> QED
      BY <1>10, <2>1, <3>1 DEF RecvReply, netVars, readerVars
  <2> QED
    BY <2>2, <2>3
<1>11. CASE RecvReplyClosed(s)
  BY <1>11 DEF RecvReplyClosed, netVars, readerVars, lockVars
<1>12. CASE ReadErr(s)
  BY <1>12 DEF ReadErr, Return, netVars, readerVars
<1>13. CASE CloseSock(s)
  BY <1>13 DEF CloseSock, netVars, readerVars, lockVars
<1> QED
  BY <1>1, <1>2, <1>3, <1>4, <1>5, <1>6, <1>7, <1>8, <1>9, <1>10, <1>11,
     <1>12, <1>13 DEF SenderStep, ExecSimpleQuery, Ping

LEMMA ReaderType ==
    ASSUME TypeOK, ReaderStep
    PROVE  TypeOK'
<1> USE NotifyCapAssumption DEF TypeOK, netVars, lockVars, senderVars
<1>1. ASSUME NEW ts, Recv(ts)
      PROVE  Head(wire) \in Msg /\ wire' \in Seq(Msg)
  <2>1. wire \in Seq(Msg) /\ wire # <<>> /\ wire' = Tail(wire)
    BY <1>1 DEF Recv
  <2> HIDE DEF TypeOK
  <2> QED
    BY <2>1, HeadTailProperties
<1>2. CASE RecvNotification
  BY <1>1, <1>2 DEF RecvNotification
<1>3. CASE RecvIgnored
  BY <1>1, <1>3 DEF RecvIgnored, readerVars
<1>4. CASE RecvError
  BY <1>1, <1>4 DEF RecvError, Quit, Reasons
<1>5. CASE RecvComplete
  BY <1>1, <1>5 DEF RecvComplete, Quit, Reasons
<1>6. CASE RecvReady
  BY <1>1, <1>6 DEF RecvReady, Quit, Reasons
<1>7. CASE RecvUnexpected
  BY <1>1, <1>7 DEF RecvUnexpected, Quit, Reasons
<1>8. CASE RecvFails
  BY <1>8 DEF RecvFails, Quit, Reasons
<1>9. CASE PushNotification
  BY <1>9 DEF PushNotification
<1>10. CASE PushReply
  <2>1. replyChan' \in Seq(Msg) /\ Len(replyChan') <= ReplyChanCap
    BY <1>10, AppendProperties, LenProperties DEF PushReply, ReplyChanCap
  <2> QED
    BY <1>10, <2>1 DEF PushReply
<1>11. CASE MainSetErr
  BY <1>11 DEF MainSetErr, SetErrOnce
<1>12. CASE MainClose \/ CloseReplyChan \/ CloseNotificationChan
  BY <1>12 DEF MainClose, CloseReplyChan, CloseNotificationChan
<1> QED
  BY <1>2, <1>3, <1>4, <1>5, <1>6, <1>7, <1>8, <1>9, <1>10, <1>11, <1>12
     DEF ReaderStep

LEMMA EnvironmentType ==
    ASSUME TypeOK, EnvironmentStep
    PROVE  TypeOK'
<1> USE NotifyCapAssumption, BoundsAssumption
    DEF TypeOK, netVars, lockVars, senderVars, readerVars
<1>1. ASSUME NEW m \in Msg PROVE Append(wire, m) \in Seq(Msg)
  BY AppendProperties
<1>2. ASSUME NEW t \in {"A", "E"} PROVE [typ |-> t, q |-> NoQuery] \in Msg
  BY DEF Msg, Types
<1>3. <<>> \in Seq(Msg)
  BY EmptySeq
<1>4. CASE ServerReplies
  <2>1. Head(todo) \in Msg /\ Tail(todo) \in Seq(Msg)
    BY <1>4, HeadTailProperties DEF ServerReplies
  <2> QED
    BY <1>1, <1>4, <2>1 DEF ServerReplies
<1>5. CASE ServerSendsUnasked
  BY <1>1, <1>2, <1>5 DEF ServerSendsUnasked
<1>6. CASE ServerFatal
  BY <1>1, <1>2, <1>3, <1>6 DEF ServerFatal
<1>7. CASE ServerGone
  BY <1>3, <1>7 DEF ServerGone
<1>8. CASE Consume
  BY <1>8 DEF Consume
<1> QED
  BY <1>4, <1>5, <1>6, <1>7, <1>8 DEF EnvironmentStep

LEMMA StutterType == ASSUME TypeOK, UNCHANGED vars PROVE TypeOK'
BY DEF TypeOK, vars

\* The variables keep their types, and no Go channel overflows.
THEOREM TypeCorrect == Spec => []TypeOK
<1>1. TypeOK /\ [Next]_vars => TypeOK'
  BY SenderType, ReaderType, EnvironmentType, StutterType DEF Next
<1> QED
  BY <1>1, InitType, PTL DEF Spec
--------------------------------------------------------------------------------
(* What a step leaves alone.                                                *)

\* A step of the reader or of the environment moves no sender and never
\* touches senderLock; one that is not a reader's changes neither the replies
\* pending nor the protocol state, and no such step takes err back.
LEMMA ReaderFrame ==
    ASSUME ReaderStep
    PROVE  UNCHANGED <<senderLock, pc, op, qerr, calls, ret>>
BY DEF ReaderStep, RecvNotification, RecvIgnored, RecvError, RecvComplete,
       RecvReady, RecvUnexpected, RecvFails, PushNotification, PushReply,
       MainSetErr, MainClose, CloseReplyChan, CloseNotificationChan,
       lockVars, senderVars

LEMMA EnvironmentFrame ==
    ASSUME EnvironmentStep
    PROVE  UNCHANGED <<connState, err, senderLock, replyChan, sock, rpc, rmsg,
                       rerr, pc, op, qerr, calls, ret>>
BY DEF EnvironmentStep, ServerReplies, ServerSendsUnasked, ServerFatal,
       ServerGone, Consume, lockVars, senderVars, readerVars

\* Only RecvReply, among the steps of a sender, changes what is pending.
LEMMA SenderFrame ==
    ASSUME NEW s \in Senders,
           ExecSimpleQuery(s) \/ Ping(s) \/ Close(s)
             \/ AcquireSenderLock(s) \/ SenderStep(s)
    PROVE  /\ UNCHANGED readerVars
           /\ RecvReply(s) \/ UNCHANGED replyChan
           /\ SetExpectResponse(s) \/ UNCHANGED connState
BY DEF SenderStep, ExecSimpleQuery, Ping, Start, Close, AcquireSenderLock,
       CheckErr, SetExpectResponse, WriteQuery, WriteFails, FailSetErr,
       FailClose, RecvReply, RecvReplyClosed, ReadErr, CloseSock, Return,
       lockVars, readerVars

LEMMA PendingType ==
    ASSUME TypeOK PROVE Pending \in Seq(Msg)
BY AppendProperties DEF TypeOK, Pending

LEMMA PendingFrame ==
    ASSUME UNCHANGED <<rpc, rmsg, replyChan>> PROVE Pending' = Pending
BY DEF Pending

--------------------------------------------------------------------------------
(* senderLock *)

LEMMA LockStep ==
    ASSUME TypeOK, LockInv, [Next]_vars
    PROVE  LockInv'
<1> USE NoSenderAssumption DEF LockInv, RunningPcs, Goto
<1>1. ASSUME NEW s \in Senders,
             ExecSimpleQuery(s) \/ Ping(s) \/ Close(s)
               \/ AcquireSenderLock(s) \/ SenderStep(s)
      PROVE  LockInv'
  <2>1. pc \in [Senders -> RunningPcs \cup {"idle", "lock", "check", "closeSock"}]
    BY DEF TypeOK
  <2>2. ASSUME NEW o, Start(s, o) PROVE LockInv'
    BY <2>1, <2>2 DEF Start, lockVars
  <2>3. CASE Close(s)
    BY <2>1, <2>3 DEF Close, lockVars
  <2>4. CASE AcquireSenderLock(s)
    BY <2>1, <2>4 DEF AcquireSenderLock
  <2>5. CASE CheckErr(s)
    BY <2>1, <2>5 DEF CheckErr, Return
  <2>6. CASE SetExpectResponse(s)
    BY <2>1, <2>6 DEF SetExpectResponse
  <2>7. CASE WriteQuery(s) \/ WriteFails(s) \/ FailSetErr(s) \/ RecvReplyClosed(s)
    BY <2>1, <2>7 DEF WriteQuery, WriteFails, FailSetErr, RecvReplyClosed, lockVars
  <2>8. CASE FailClose(s) \/ ReadErr(s)
    BY <2>1, <2>8 DEF FailClose, ReadErr, Return
  <2>9. CASE RecvReply(s)
    BY <2>1, <2>9 DEF RecvReply, Return
  <2>10. CASE CloseSock(s)
    BY <2>1, <2>10 DEF CloseSock, lockVars
  <2> QED
    BY <1>1, <2>2, <2>3, <2>4, <2>5, <2>6, <2>7, <2>8, <2>9, <2>10
       DEF SenderStep, ExecSimpleQuery, Ping
<1>2. CASE ReaderStep \/ EnvironmentStep \/ UNCHANGED vars
  BY <1>2, ReaderFrame, EnvironmentFrame DEF vars
<1> QED
  BY <1>1, <1>2 DEF Next

--------------------------------------------------------------------------------
(* The replies pending and the protocol state *)

\* The reader accepts a reply: it is pending from then on.
LEMMA AcceptReply ==
    ASSUME rpc = "recv", rpc' = "reply", UNCHANGED replyChan
    PROVE  Pending' = Append(Pending, rmsg')
BY DEF Pending

\* Putting it on the channel changes nothing: it was pending already.
LEMMA PushKeepsPending == PushReply => Pending' = Pending
BY DEF PushReply, Pending

\* A sender takes the first one.
LEMMA RecvTakesPending ==
    ASSUME TypeOK, NEW s \in Senders, RecvReply(s)
    PROVE  /\ Pending # <<>>
           /\ Head(Pending) = Head(replyChan)
           /\ Pending' = Tail(Pending)
<1>1. /\ replyChan \in Seq(Msg) /\ replyChan # <<>> /\ rmsg \in Msg
      /\ replyChan' = Tail(replyChan)
      /\ UNCHANGED <<rpc, rmsg>>
  BY DEF TypeOK, RecvReply, readerVars
<1>2. CASE rpc # "reply"
  BY <1>1, <1>2 DEF Pending
<1>3. CASE rpc = "reply"
  BY <1>1, <1>3, HeadTailAppend DEF Pending
<1> QED
  BY <1>2, <1>3
\* A step that changes neither the pending replies nor the protocol state.
LEMMA PendingInvFrame ==
    ASSUME PendingInv, Pending' = Pending, UNCHANGED connState
    PROVE  PendingInv'
BY DEF PendingInv

LEMMA PendingStep ==
    ASSUME IInv, [Next]_vars
    PROVE  PendingInv'
<1>1. PendingInv /\ TypeOK /\ QuietInv
  BY DEF IInv
<1>2. /\ Pending \in Seq(Msg)
      /\ Len(Pending) \in Nat
      /\ \A i \in 1..Len(Pending) : Pending[i] \in Msg
  BY <1>1, PendingType, LenProperties, ElementOfSeq
<1>3. ASSUME NEW s \in Senders, RecvReply(s)
      PROVE  PendingInv'
  <2>1. Pending # <<>> /\ Pending' = Tail(Pending)
    BY <1>1, <1>3, RecvTakesPending
  <2>2. /\ Len(Pending') = Len(Pending) - 1
        /\ \A i \in 1..Len(Pending') : Pending'[i] = Pending[i+1]
    BY <1>2, <2>1, HeadTailProperties
  <2>3. connState' = connState
    BY <1>3 DEF RecvReply
  <2>4. connState # "ExpectResponse"
    BY <1>1, <2>1 DEF PendingInv
  <2>5. connState = "ExpectReadyForQuery" => Len(Pending') <= 1
    BY <1>1, <1>2, <2>2 DEF PendingInv
  <2>6. Len(Pending') <= 2
    BY <1>1, <1>2, <2>2 DEF PendingInv
  <2>7. ASSUME NEW i \in 1..Len(Pending'), Pending'[i].typ = "Z"
        PROVE  connState = "Idle" /\ i = Len(Pending')
    <3>1. i \in Nat /\ i+1 \in 1..Len(Pending) /\ Pending[i+1].typ = "Z"
      BY <1>2, <2>2, <2>7
    <3> QED
      BY <1>1, <1>2, <2>2, <3>1 DEF PendingInv
  <2> QED
    BY <2>3, <2>4, <2>5, <2>6, <2>7 DEF PendingInv
<1>4. ASSUME NEW s \in Senders, SetExpectResponse(s)
      PROVE  PendingInv'
  <2>1. Pending' = Pending
    BY <1>4, PendingFrame DEF SetExpectResponse, readerVars
  <2>2. Quiet
    BY <1>1, <1>4 DEF SetExpectResponse, QuietInv
  <2>3. connState' = "ExpectResponse" \/ UNCHANGED connState
    BY <1>4 DEF SetExpectResponse
  <2> QED
    BY <1>1, <2>1, <2>2, <2>3, EmptySeq DEF PendingInv, Quiet
<1>5. ASSUME NEW s \in Senders,
             ExecSimpleQuery(s) \/ Ping(s) \/ Close(s)
               \/ AcquireSenderLock(s) \/ SenderStep(s),
             ~RecvReply(s), ~SetExpectResponse(s)
      PROVE  PendingInv'
  BY <1>1, <1>5, SenderFrame, PendingFrame, PendingInvFrame DEF readerVars
<1>6. CASE RecvError /\ connState' # connState
  <2>1. /\ rpc = "recv" /\ rpc' = "reply" /\ UNCHANGED replyChan
        /\ rmsg' = Head(wire) /\ Head(wire).typ = "E"
        /\ connState = "ExpectResponse" /\ connState' = "ExpectReadyForQuery"
    BY <1>6 DEF RecvError, Recv, CanSet, ExpectedState
  <2>2. Pending = <<>> /\ Pending' = Append(Pending, rmsg')
    BY <1>1, <2>1, AcceptReply DEF PendingInv
  <2>3. Len(Pending') = 1 /\ Pending'[1] = rmsg'
    BY <2>2
  <2> QED
    BY <2>1, <2>3 DEF PendingInv
<1>7. CASE RecvReady /\ connState' # connState
  <2>1. /\ rpc = "recv" /\ rpc' = "reply" /\ UNCHANGED replyChan
        /\ connState = "ExpectReadyForQuery" /\ connState' = "Idle"
        /\ rmsg' = Head(wire) /\ Head(wire) \in Msg
    BY <1>1, <1>7, HeadTailProperties DEF RecvReady, Recv, CanSet, ExpectedState, TypeOK
  <2>2. Pending' = Append(Pending, rmsg')
    BY <2>1, AcceptReply
  <2>3. /\ Len(Pending') = Len(Pending) + 1
        /\ \A i \in 1..Len(Pending) : Pending'[i] = Pending[i]
    BY <1>2, <2>1, <2>2, AppendProperties
  <2> QED
    BY <1>1, <1>2, <2>1, <2>3 DEF PendingInv
<1>8. CASE RecvComplete /\ connState' # connState
  <2>1. /\ connState = "ExpectResponse" /\ connState' = "ExpectReadyForQuery"
        /\ rpc # "reply" /\ rpc' # "reply" /\ UNCHANGED replyChan
    BY <1>8 DEF RecvComplete, Recv, CanSet, ExpectedState
  <2>2. Pending = <<>> /\ Pending' = Pending
    BY <1>1, <2>1 DEF PendingInv, Pending
  <2> QED
    BY <1>1, <2>1, <2>2, EmptySeq DEF PendingInv
<1>9. CASE ReaderStep /\ connState' = connState
  <2>1. Pending' = Pending
    <3>1. CASE PushReply
      BY <3>1, PushKeepsPending
    <3>2. CASE ~PushReply
      <4>1. rpc # "reply" /\ rpc' # "reply" /\ UNCHANGED replyChan
        BY <1>9, <3>2
           DEF ReaderStep, RecvNotification, RecvIgnored, RecvError,
               RecvComplete, RecvReady, RecvUnexpected, RecvFails,
               PushNotification, MainSetErr, MainClose, CloseReplyChan,
               CloseNotificationChan, Recv, Quit, CanSet, ExpectedState, readerVars
      <4> QED
        BY <4>1 DEF Pending
    <3> QED
      BY <3>1, <3>2
  <2> QED
    BY <1>1, <1>9, <2>1, PendingInvFrame
<1>10. CASE ReaderStep
  <2>1. RecvError \/ RecvReady \/ RecvComplete \/ UNCHANGED connState
    BY <1>10 DEF ReaderStep, RecvNotification, RecvIgnored, RecvUnexpected,
                 RecvFails, PushNotification, PushReply, MainSetErr, MainClose,
                 CloseReplyChan, CloseNotificationChan, lockVars
  <2> QED
    BY <1>6, <1>7, <1>8, <1>9, <1>10, <2>1
<1>11. CASE EnvironmentStep \/ UNCHANGED vars
  <2>1. UNCHANGED <<connState, rpc, rmsg, replyChan>>
    BY <1>11, EnvironmentFrame DEF vars
  <2> QED
    BY <1>1, <2>1, PendingFrame, PendingInvFrame
<1> QED
  BY <1>3, <1>4, <1>5, <1>10, <1>11 DEF Next
--------------------------------------------------------------------------------
(* err: set before anybody relies on it, and never taken back *)

LEMMA ErrStep ==
    ASSUME TypeOK, ErrInv, ErrBeforeClose, [Next]_vars
    PROVE  ErrInv' /\ ErrBeforeClose' /\ (err # Nil => err' = err)
<1> USE DEF ErrInv, ErrBeforeClose, Goto
<1>1. /\ pc \in [Senders -> RunningPcs \cup {"idle", "lock", "check", "closeSock"}]
      /\ qerr \in [Senders -> Reasons \cup {Nil}]
      /\ ret \in [Senders -> [out : {"none", "executed", "failed"},
                              err : Reasons \cup {Nil}]]
  BY DEF TypeOK
<1>2. ASSUME NEW s \in Senders,
             ExecSimpleQuery(s) \/ Ping(s) \/ Close(s)
               \/ AcquireSenderLock(s) \/ SenderStep(s)
      PROVE  ErrInv' /\ ErrBeforeClose' /\ (err # Nil => err' = err)
  <2>1. ASSUME NEW o, Start(s, o)
        PROVE  ErrInv' /\ ErrBeforeClose' /\ (err # Nil => err' = err)
    BY <1>1, <2>1 DEF Start, readerVars
  <2>2. CASE Close(s)
    BY <1>1, <2>2 DEF Close, readerVars, Nil
  <2>3. CASE AcquireSenderLock(s)
    BY <1>1, <2>3 DEF AcquireSenderLock, readerVars
  <2>4. CASE CheckErr(s)
    BY <1>1, <2>4 DEF CheckErr, Return, readerVars
  <2>5. CASE SetExpectResponse(s)
    BY <1>1, <2>5 DEF SetExpectResponse, readerVars, Nil
  <2>6. CASE WriteQuery(s)
    BY <1>1, <2>6 DEF WriteQuery, readerVars
  <2>7. CASE WriteFails(s)
    BY <1>1, <2>7 DEF WriteFails, readerVars, Nil
  <2>8. CASE FailSetErr(s)
    BY <1>1, <2>8 DEF FailSetErr, SetErrOnce, readerVars
  <2>9. CASE FailClose(s)
    BY <1>1, <2>9 DEF FailClose, Return, readerVars
  <2>10. CASE RecvReply(s)
    BY <1>1, <2>10, SMTT(30) DEF RecvReply, Return, readerVars
  <2>11. CASE RecvReplyClosed(s)
    BY <1>1, <2>11 DEF RecvReplyClosed, ReplyChanClosed, readerVars
  <2>12. CASE ReadErr(s)
    BY <1>1, <2>12 DEF ReadErr, Return, readerVars
  <2>13. CASE CloseSock(s)
    BY <1>1, <2>13 DEF CloseSock, readerVars
  <2> QED
    BY <1>2, <2>1, <2>2, <2>3, <2>4, <2>5, <2>6, <2>7, <2>8, <2>9, <2>10,
       <2>11, <2>12, <2>13 DEF SenderStep, ExecSimpleQuery, Ping
<1>3. CASE ReaderStep
  <2>1. UNCHANGED <<senderLock, pc, op, qerr, calls, ret>>
    BY <1>3, ReaderFrame
  <2>2. CASE MainSetErr
    BY <2>1, <2>2 DEF MainSetErr, SetErrOnce
  <2>3. CASE MainClose
    BY <2>1, <2>3 DEF MainClose
  <2>4. CASE CloseReplyChan \/ CloseNotificationChan
    BY <2>1, <2>4 DEF CloseReplyChan, CloseNotificationChan
  <2>5. CASE RecvError \/ RecvReady \/ RecvComplete
    BY <2>1, <2>5 DEF RecvError, RecvReady, RecvComplete, Quit, Nil
  <2>6. CASE RecvNotification \/ RecvIgnored \/ PushNotification \/ PushReply
    BY <2>1, <2>6 DEF RecvNotification, RecvIgnored, PushNotification, PushReply,
                      Recv, readerVars
  <2>7. CASE RecvUnexpected \/ RecvFails
    BY <2>1, <2>7 DEF RecvUnexpected, RecvFails, Quit, Nil
  <2> QED
    BY <1>3, <2>2, <2>3, <2>4, <2>5, <2>6, <2>7 DEF ReaderStep
<1>4. CASE EnvironmentStep \/ UNCHANGED vars
  BY <1>4, EnvironmentFrame DEF vars
<1> QED
  BY <1>2, <1>3, <1>4 DEF Next

--------------------------------------------------------------------------------
(* Between two queries *)

\* When no query is running the reader does not believe one is: whatever the
\* server sends, it neither accepts a reply nor moves the protocol state.
LEMMA ReaderKeepsQuiet ==
    ASSUME Quiet, TypeOK, ReaderStep
    PROVE  Quiet'
<1>1. connState = "Idle" /\ rpc # "reply" /\ replyChan = <<>>
  <2>1. replyChan \in Seq(Msg) /\ rmsg \in Msg
    BY DEF TypeOK
  <2>2. Append(replyChan, rmsg) # <<>>
    BY <2>1, AppendProperties
  <2>3. rpc # "reply"
    BY <2>2 DEF Quiet, Pending
  <2> QED
    BY <2>3 DEF Quiet, Pending
<1>2. UNCHANGED <<connState, replyChan>> /\ rpc' # "reply"
  BY <1>1 DEF ReaderStep, RecvNotification, RecvIgnored, RecvError, RecvComplete,
              RecvReady, RecvUnexpected, RecvFails, PushNotification, PushReply,
              MainSetErr, MainClose, CloseReplyChan, CloseNotificationChan,
              Recv, Quit, CanSet, ExpectedState, lockVars, readerVars
<1> QED
  BY <1>1, <1>2 DEF Quiet, Pending

LEMMA QuietStep ==
    ASSUME IInv, [Next]_vars
    PROVE  QuietInv'
<1>1. TypeOK /\ LockInv /\ PendingInv /\ QuietInv /\ ErrInv
  BY DEF IInv
<1>2. pc \in [Senders -> RunningPcs \cup {"idle", "lock", "check", "closeSock"}]
  BY <1>1 DEF TypeOK
<1>3. err' = Nil => err = Nil
  BY <1>1, ErrStep DEF IInv
<1>4. LockInv'
  BY <1>1, LockStep
<1>5. ASSUME NEW s \in Senders, UNCHANGED <<connState, Pending>>,
             ExecSimpleQuery(s) \/ Ping(s) \/ Close(s)
               \/ AcquireSenderLock(s) \/ SenderStep(s)
      PROVE  QuietInv'
  <2>1. Quiet => Quiet'
    BY <1>5 DEF Quiet
  <2>2. ASSUME NEW o, Start(s, o) PROVE QuietInv'
    BY <1>1, <1>2, <2>1, <2>2 DEF Start, Goto, QuietInv, lockVars
  <2>3. CASE Close(s)
    BY <1>1, <1>2, <2>1, <2>3 DEF Close, Goto, QuietInv, Nil, lockVars
  <2>4. CASE AcquireSenderLock(s)
    BY <1>1, <1>2, <2>1, <2>4 DEF AcquireSenderLock, Goto, QuietInv
  <2>5. CASE CheckErr(s)
    BY <1>1, <1>2, <2>1, <2>5 DEF CheckErr, Return, Goto, QuietInv
  <2>6. CASE SetExpectResponse(s)
    BY <1>1, <1>2, <2>1, <2>6 DEF SetExpectResponse, Goto, QuietInv
  <2>7. CASE WriteQuery(s) \/ WriteFails(s) \/ RecvReplyClosed(s)
    BY <1>1, <1>2, <2>1, <2>7
       DEF WriteQuery, WriteFails, RecvReplyClosed, Goto, QuietInv, lockVars
  <2>8. CASE FailSetErr(s)
    BY <1>1, <1>2, <1>3, <2>1, <2>8 DEF FailSetErr, Goto, QuietInv, lockVars
  <2>9. CASE FailClose(s) \/ ReadErr(s)
    BY <1>1, <1>2, <2>1, <2>9 DEF FailClose, ReadErr, Return, Goto, QuietInv, ErrInv
  <2>10. CASE RecvReply(s)
    BY <1>1, <1>5, <2>10, RecvTakesPending, PendingType, HeadTailProperties, LenProperties
  <2>11. CASE CloseSock(s)
    BY <1>1, <1>2, <2>1, <2>11 DEF CloseSock, Goto, QuietInv, lockVars
  <2> QED
    BY <1>5, <2>2, <2>3, <2>4, <2>5, <2>6, <2>7, <2>8, <2>9, <2>10, <2>11
       DEF SenderStep, ExecSimpleQuery, Ping
<1>6. ASSUME NEW s \in Senders, SetExpectResponse(s)
      PROVE  QuietInv'
  <2>1. senderLock' = s /\ pc'[s] \in {"write", "fail"}
    BY <1>1, <1>2, <1>6, NoSenderAssumption
       DEF SetExpectResponse, Goto, LockInv, RunningPcs
  <2> QED
    BY <1>4, <2>1, NoSenderAssumption DEF LockInv, QuietInv, RunningPcs
<1>7. ASSUME NEW s \in Senders, RecvReply(s)
      PROVE  QuietInv'
  <2>1. CASE Head(replyChan).typ = "Z"
    <3>1. /\ Pending # <<>> /\ Head(Pending).typ = "Z" /\ Pending' = Tail(Pending)
          /\ Pending \in Seq(Msg)
      BY <1>1, <1>7, <2>1, RecvTakesPending, PendingType
    <3>2. Len(Pending) = 1 /\ connState = "Idle"
      <4>1. Len(Pending) \in Nat \ {0}
        BY <3>1, EmptySeq
      <4>2. Pending[1].typ = "Z"
        BY <3>1
      <4>3. \A i \in 1..Len(Pending) :
                Pending[i].typ = "Z" => connState = "Idle" /\ i = Len(Pending)
        BY <1>1 DEF PendingInv
      <4>4. 1 \in 1..Len(Pending)
        BY <4>1
      <4> HIDE DEF Pending
      <4> QED
        BY <4>2, <4>3, <4>4
    <3>3. Pending' = <<>>
      BY <3>1, <3>2, HeadTailProperties, EmptySeq
    <3>4. Quiet'
      BY <1>7, <3>2, <3>3 DEF RecvReply, Quiet
    <3> QED
      BY <3>4 DEF QuietInv
  <2>2. CASE Head(replyChan).typ # "Z"
    <3>1. senderLock' = s /\ pc'[s] = "wait"
      BY <1>1, <1>7, <2>2 DEF RecvReply, LockInv, RunningPcs
    <3> QED
      BY <1>4, <3>1, NoSenderAssumption DEF LockInv, QuietInv, RunningPcs
  <2> QED
    BY <2>1, <2>2
<1>8. ASSUME NEW s \in Senders,
             ExecSimpleQuery(s) \/ Ping(s) \/ Close(s)
               \/ AcquireSenderLock(s) \/ SenderStep(s)
      PROVE  QuietInv'
  BY <1>5, <1>6, <1>7, <1>8, SenderFrame, PendingFrame DEF readerVars
<1>9. CASE ReaderStep
  BY <1>1, <1>3, <1>9, ReaderFrame, ReaderKeepsQuiet DEF QuietInv
<1>10. CASE EnvironmentStep \/ UNCHANGED vars
  <2>1. UNCHANGED <<connState, Pending, err, senderLock, pc>>
    BY <1>10, EnvironmentFrame, PendingFrame DEF vars
  <2> QED
    BY <1>1, <2>1 DEF QuietInv, Quiet
<1> QED
  BY <1>8, <1>9, <1>10 DEF Next
--------------------------------------------------------------------------------
(* Once a call has failed *)

LEMMA AbandonedStep ==
    ASSUME IInv, [Next]_vars
    PROVE  AbandonedForGood'
<1>1. TypeOK /\ LockInv /\ ErrInv /\ AbandonedForGood
  BY DEF IInv
<1>2. /\ pc \in [Senders -> RunningPcs \cup {"idle", "lock", "check", "closeSock"}]
      /\ ret \in [Senders -> [out : {"none", "executed", "failed"},
                              err : Reasons \cup {Nil}]]
  BY <1>1 DEF TypeOK
<1>3. err # Nil => err' = err
  BY ErrStep DEF IInv
<1>4. LockInv'
  BY <1>1, LockStep
<1> DEFINE NoneFails == \A t \in Senders : ret'[t].out = "failed" => ret[t].out = "failed"
           NoneAdmitted == \A t \in Senders : pc'[t] \in RunningPcs => pc[t] \in RunningPcs
<1>5. NoneFails /\ NoneAdmitted => AbandonedForGood'
  BY <1>1, <1>3 DEF AbandonedForGood
<1>6. err # Nil /\ senderLock' = NoSender => AbandonedForGood'
  BY <1>3, <1>4, NoSenderAssumption DEF AbandonedForGood, LockInv
<1>7. ASSUME NEW s \in Senders,
             ExecSimpleQuery(s) \/ Ping(s) \/ Close(s)
               \/ AcquireSenderLock(s) \/ SenderStep(s)
      PROVE  AbandonedForGood'
  <2> USE DEF Goto, RunningPcs
  <2>1. ASSUME NEW o, Start(s, o) PROVE NoneFails /\ NoneAdmitted
    BY <1>2, <2>1 DEF Start
  <2>2. CASE Close(s) \/ AcquireSenderLock(s) \/ CloseSock(s)
    <3> QED BY <1>2, <1>5, <2>2 DEF Close, AcquireSenderLock, CloseSock
  <2>3. CASE CheckErr(s)
    <3>1. CASE err = Nil
      <4>1. \A t \in Senders : ret[t].out # "failed"
        BY <1>1, <3>1 DEF AbandonedForGood
      <4>2. ret' = ret
        BY <2>3, <3>1 DEF CheckErr
      <4> QED
        BY <4>1, <4>2 DEF AbandonedForGood
    <3>2. CASE err # Nil
      BY <1>6, <2>3, <3>2 DEF CheckErr, Return
    <3> QED
      BY <3>1, <3>2
  <2>4. CASE SetExpectResponse(s) \/ WriteQuery(s) \/ WriteFails(s)
    <3> QED BY <1>2, <1>5, <2>4 DEF SetExpectResponse, WriteQuery, WriteFails
  <2>5. CASE FailSetErr(s) \/ RecvReplyClosed(s)
    <3> QED BY <1>2, <1>5, <2>5 DEF FailSetErr, RecvReplyClosed
  <2>6. CASE FailClose(s) \/ ReadErr(s)
    BY <1>1, <1>6, <2>6 DEF FailClose, ReadErr, Return, ErrInv
  <2>7. CASE RecvReply(s)
    BY <1>2, <1>5, <2>7 DEF RecvReply, Return
  <2> QED
    BY <1>5, <1>7, <2>1, <2>2, <2>3, <2>4, <2>5, <2>6, <2>7
       DEF SenderStep, ExecSimpleQuery, Ping
<1>8. CASE ReaderStep \/ EnvironmentStep \/ UNCHANGED vars
  BY <1>5, <1>8, ReaderFrame, EnvironmentFrame DEF vars
<1> QED
  BY <1>7, <1>8 DEF Next

--------------------------------------------------------------------------------
(* The theorems *)

LEMMA InitInv == Init => IInv
<1> SUFFICES ASSUME Init PROVE IInv
  OBVIOUS
<1>1. TypeOK
  BY InitType
<1>2. Pending = <<>> /\ Len(Pending) = 0
  BY DEF Init, Pending
<1>3. LockInv
  BY NoSenderAssumption DEF Init, LockInv, RunningPcs
<1>4. PendingInv /\ QuietInv
  BY <1>2 DEF Init, PendingInv, QuietInv, Quiet
<1>5. ErrInv /\ ErrBeforeClose /\ AbandonedForGood
  BY DEF Init, ErrInv, ErrBeforeClose, AbandonedForGood
<1> QED
  BY <1>1, <1>3, <1>4, <1>5 DEF IInv

LEMMA InvStep == IInv /\ [Next]_vars => IInv'
<1> SUFFICES ASSUME IInv, [Next]_vars PROVE IInv'
  OBVIOUS
<1>1. TypeOK'
  BY SenderType, ReaderType, EnvironmentType, StutterType DEF IInv, Next
<1>2. LockInv'
  BY LockStep DEF IInv
<1>3. PendingInv' /\ QuietInv' /\ AbandonedForGood'
  BY PendingStep, QuietStep, AbandonedStep
<1>4. ErrInv' /\ ErrBeforeClose'
  BY ErrStep DEF IInv
<1> QED
  BY <1>1, <1>2, <1>3, <1>4 DEF IInv

\* The inductive invariant holds in every reachable state.
THEOREM Invariance == Spec => []IInv
BY InitInv, InvStep, PTL DEF Spec

\* The reader goroutine never blocks on replyChan: the room for two replies
\* suffices for any number of senders and whatever the server sends.
THEOREM ReaderNeverBlocks == Spec => []ReplyNeverBlocks
<1>1. IInv => ReplyNeverBlocks
  <2> SUFFICES ASSUME IInv, rpc = "reply" PROVE Len(replyChan) < ReplyChanCap
    BY DEF ReplyNeverBlocks
  <2>1. replyChan \in Seq(Msg) /\ rmsg \in Msg
    BY DEF IInv, TypeOK
  <2>2. Len(Append(replyChan, rmsg)) = Len(replyChan) + 1 /\ Len(replyChan) \in Nat
    BY <2>1, AppendProperties, LenProperties
  <2>3. Len(Append(replyChan, rmsg)) <= 2
    BY DEF IInv, PendingInv, Pending
  <2> QED
    BY <2>2, <2>3 DEF ReplyChanCap
<1> QED
  BY <1>1, Invariance, PTL

\* "two queries running at the same time" never happens.
THEOREM OneQueryAtATime == Spec => []NoTwoQueries
<1>1. IInv => NoTwoQueries
  BY DEF IInv, QuietInv, Quiet, NoTwoQueries
<1> QED
  BY <1>1, Invariance, PTL

\* A query that was not executed is reported with an error.
THEOREM FailureHasReason == Spec => []NotExecutedHasErr
<1>1. IInv => NotExecutedHasErr
  BY DEF IInv, ErrInv, NotExecutedHasErr
<1> QED
  BY <1>1, Invariance, PTL

\* After one call has failed none runs or will run again.
THEOREM FailureIsFinal == Spec => []AbandonedForGood
<1>1. IInv => AbandonedForGood
  BY DEF IInv
<1> QED
  BY <1>1, Invariance, PTL

\* This side closes the socket only after the error is there for the caller to see.
THEOREM ErrorBeforeClose == Spec => []ErrBeforeClose
<1>1. IInv => ErrBeforeClose
  BY DEF IInv
<1> QED
  BY <1>1, Invariance, PTL

\* The first error is the one that stays, and it is there before this side
\* closes the socket.
THEOREM FirstErrorStays == Spec => ErrStable /\ []ErrBeforeClose
<1>1. IInv => ErrBeforeClose
  BY DEF IInv
<1>2. IInv /\ [Next]_vars => [err # Nil => err' = err]_err
  BY ErrStep DEF IInv
<1> QED
  BY <1>1, <1>2, Invariance, PTL DEF Spec, ErrStable

--------------------------------------------------------------------------------
(* ListenerConn implements ListenerConnAPI: every step of it is a step of the *)
(* promise or leaves it alone.                                               *)

LEMMA CallOfValue ==
    /\ \A p \in {"idle", "closeSock"} : CallOf(p) = "idle"
    /\ \A p \in {"lock", "check"} : CallOf(p) = "queued"
    /\ \A p \in RunningPcs : CallOf(p) = "running"
    /\ \A p : CallOf(p) = "running" => p \notin {"idle", "lock", "check", "closeSock"}
BY DEF CallOf, RunningPcs

\* How callState follows pc when one sender moves.
LEMMA CallStateMove ==
    ASSUME pc \in [Senders -> RunningPcs \cup {"idle", "lock", "check", "closeSock"}],
           NEW s \in Senders, NEW to, Goto(s, to)
    PROVE  /\ callState[s] = CallOf(pc[s])
           /\ callState' = [callState EXCEPT ![s] = CallOf(to)]
           /\ CallOf(to) = CallOf(pc[s]) => callState' = callState
<1>1. callState[s] = CallOf(pc[s])
  BY DEF callState
<1>2. \A t \in Senders : pc'[t] = IF t = s THEN to ELSE pc[t]
  BY DEF Goto
<1>3. callState' = [t \in Senders |-> IF t = s THEN CallOf(to) ELSE CallOf(pc[t])]
  BY <1>2, Zenon DEF callState
<1>4. callState' = [callState EXCEPT ![s] = CallOf(to)]
  BY <1>3 DEF callState
<1>5. CallOf(to) = CallOf(pc[s]) => callState' = callState
  BY <1>3 DEF callState
<1> QED
  BY <1>1, <1>4, <1>5

LEMMA InitRefines == Init => API!Init
<1> SUFFICES ASSUME Init PROVE API!Init
  OBVIOUS
<1>1. \A s \in Senders : CallOf(pc[s]) = "idle"
  BY CallOfValue DEF Init
<1>2. callState = [s \in Senders |-> "idle"]
  BY <1>1 DEF callState
<1> QED
  BY <1>2 DEF Init, API!Init

\* The step of one sender.
LEMMA SenderRefines ==
    ASSUME IInv, IInv', NEW s \in Senders,
           ExecSimpleQuery(s) \/ Ping(s) \/ Close(s)
             \/ AcquireSenderLock(s) \/ SenderStep(s)
    PROVE  API!Next \/ UNCHANGED <<err, callState, ret>>
<1>1. TypeOK /\ TypeOK' /\ LockInv /\ ErrInv
  BY DEF IInv
<1>2. /\ pc \in [Senders -> RunningPcs \cup {"idle", "lock", "check", "closeSock"}]
      /\ pc' \in [Senders -> RunningPcs \cup {"idle", "lock", "check", "closeSock"}]
      /\ qerr \in [Senders -> Reasons \cup {Nil}]
      /\ err \in Reasons \cup {Nil}
  BY <1>1 DEF TypeOK
<1>3. \A t \in Senders : callState[t] = "running" => senderLock = t
  <2>1. \A t \in Senders : pc[t] \in RunningPcs => senderLock = t
    BY <1>1 DEF LockInv
  <2>2. \A t \in Senders : callState[t] = CallOf(pc[t])
    BY DEF callState
  <2> QED
    BY <1>2, <2>1, <2>2, CallOfValue
<1>4. ASSUME NEW o, Start(s, o) PROVE API!Begin(s)
  <2>1. pc[s] = "idle" /\ Goto(s, "lock") /\ UNCHANGED <<err, ret>>
    BY <1>4 DEF Start
  <2>2. callState[s] = "idle" /\ callState' = [callState EXCEPT ![s] = "queued"]
    BY <1>2, <2>1, CallStateMove, CallOfValue
  <2> QED
    BY <2>1, <2>2 DEF API!Begin
<1>5. ASSUME NEW e \in Reasons, pc[s] \in {"check", "failClose", "lost"},
             err # Nil, UNCHANGED err, Return(s, "failed", e)
      PROVE  API!Failed(s, e)
  <2>1. Goto(s, "idle") /\ ret' = [ret EXCEPT ![s] = [out |-> "failed", err |-> e]]
    BY <1>5 DEF Return
  <2>2. callState[s] # "idle" /\ callState' = [callState EXCEPT ![s] = "idle"]
    BY <1>2, <1>5, <2>1, CallStateMove, CallOfValue DEF RunningPcs
  <2>3. senderLock = s
    BY <1>1, <1>5 DEF LockInv, RunningPcs
  <2>4. \A t \in Senders \ {s} : callState[t] # "running"
    BY <1>3, <2>3
  <2> QED
    BY <1>5, <2>1, <2>2, <2>4 DEF API!Failed, API!Return
<1>6. CASE CheckErr(s)
  <2>1. CASE err = Nil
    <3>1. pc[s] = "check" /\ Goto(s, "send") /\ UNCHANGED <<err, ret>>
      BY <1>6, <2>1 DEF CheckErr
    <3>2. callState[s] = "queued" /\ callState' = [callState EXCEPT ![s] = "running"]
      BY <1>2, <3>1, CallStateMove, CallOfValue DEF RunningPcs
    <3>3. senderLock = s
      BY <1>1, <3>1 DEF LockInv
    <3>4. API!NobodyRuns
      BY <1>3, <3>2, <3>3 DEF API!NobodyRuns
    <3>5. API!Admit(s)
      BY <2>1, <3>1, <3>2, <3>4 DEF API!Admit
    <3> QED
      BY <3>5 DEF API!Next
  <2>2. CASE err # Nil
    <3>1. API!Failed(s, err) /\ err \in Reasons
      BY <1>2, <1>5, <1>6, <2>2 DEF CheckErr
    <3> QED
      BY <3>1 DEF API!Next
  <2> QED
    BY <2>1, <2>2
<1>7. CASE FailClose(s)
  <2>1. qerr[s] \in Reasons /\ err # Nil
    BY <1>1, <1>2, <1>7 DEF FailClose, ErrInv
  <2>2. API!Failed(s, qerr[s])
    BY <1>5, <1>7, <2>1 DEF FailClose
  <2> QED
    BY <2>1, <2>2 DEF API!Next
<1>8. CASE ReadErr(s)
  <2>1. err \in Reasons /\ err # Nil
    BY <1>1, <1>2, <1>8 DEF ReadErr, ErrInv
  <2>2. API!Failed(s, err)
    BY <1>5, <1>8, <2>1 DEF ReadErr
  <2> QED
    BY <2>1, <2>2 DEF API!Next
<1>9. CASE RecvReply(s)
  <2>1. CASE Head(replyChan).typ = "Z"
    <3>1. /\ pc[s] = "wait" /\ UNCHANGED err /\ Goto(s, "idle")
          /\ ret' = [ret EXCEPT ![s] = [out |-> "executed", err |-> qerr[s]]]
      BY <1>9, <2>1 DEF RecvReply, Return
    <3>2. callState[s] = "running" /\ callState' = [callState EXCEPT ![s] = "idle"]
      BY <1>2, <3>1, CallStateMove, CallOfValue DEF RunningPcs
    <3>3. API!Executed(s, qerr[s])
      BY <3>1, <3>2 DEF API!Executed, API!Return
    <3> QED
      BY <1>2, <3>3 DEF API!Next
  <2>2. CASE Head(replyChan).typ # "Z"
    BY <1>9, <2>2 DEF RecvReply, callState
  <2> QED
    BY <2>1, <2>2
<1>10. CASE Close(s)
  <2>1. callState' = callState
    BY <1>2, <1>10, CallStateMove, CallOfValue DEF Close
  <2>2. API!Abandon("closed")
    BY <1>10, <2>1 DEF Close, API!Abandon
  <2> QED
    BY <2>2 DEF API!Next, Reasons
<1>11. CASE FailSetErr(s)
  <2>1. callState' = callState
    BY <1>2, <1>11, CallStateMove, CallOfValue DEF FailSetErr, RunningPcs
  <2>2. qerr[s] \in Reasons
    BY <1>1, <1>2, <1>11 DEF FailSetErr, ErrInv
  <2>3. CASE err = Nil
    <3>1. API!Abandon(qerr[s])
      BY <1>11, <2>1, <2>3 DEF FailSetErr, SetErrOnce, API!Abandon
    <3> QED
      BY <2>2, <3>1 DEF API!Next
  <2>4. CASE err # Nil
    BY <1>11, <2>1, <2>4 DEF FailSetErr, SetErrOnce
  <2> QED
    BY <2>3, <2>4
<1>12. CASE AcquireSenderLock(s) \/ SetExpectResponse(s) \/ WriteQuery(s)
              \/ WriteFails(s) \/ RecvReplyClosed(s) \/ CloseSock(s)
  <2>1. UNCHANGED <<err, ret>>
    BY <1>12 DEF AcquireSenderLock, SetExpectResponse, WriteQuery, WriteFails,
                 RecvReplyClosed, CloseSock
  <2>2. \/ pc[s] = "lock" /\ Goto(s, "check")
        \/ pc[s] = "closeSock" /\ Goto(s, "idle")
        \/ pc[s] \in RunningPcs /\ \E to \in RunningPcs : Goto(s, to)
    BY <1>12 DEF AcquireSenderLock, SetExpectResponse, WriteQuery, WriteFails,
                 RecvReplyClosed, CloseSock, RunningPcs
  <2>3. callState' = callState
    BY <1>2, <2>2, CallStateMove, CallOfValue
  <2> QED
    BY <2>1, <2>3
<1> QED
  BY <1>4, <1>6, <1>7, <1>8, <1>9, <1>10, <1>11, <1>12
     DEF SenderStep, ExecSimpleQuery, Ping, API!Next

\* The reader changes nothing of the promise but err, once.
LEMMA ReaderRefines ==
    ASSUME IInv, ReaderStep
    PROVE  API!Next \/ UNCHANGED <<err, callState, ret>>
<1>1. callState' = callState /\ ret' = ret
  BY ReaderFrame DEF callState
<1>2. CASE MainSetErr /\ err = Nil
  <2>1. rerr \in Reasons
    BY <1>2 DEF MainSetErr, IInv, ErrInv, TypeOK
  <2>2. API!Abandon(rerr)
    BY <1>1, <1>2 DEF MainSetErr, SetErrOnce, API!Abandon
  <2> QED
    BY <2>1, <2>2 DEF API!Next
<1>3. CASE ~(MainSetErr /\ err = Nil)
  <2>1. err' = err
    BY <1>3 DEF ReaderStep, RecvNotification, RecvIgnored, RecvError,
                RecvComplete, RecvReady, RecvUnexpected, RecvFails,
                PushNotification, PushReply, MainSetErr, SetErrOnce, MainClose,
                CloseReplyChan, CloseNotificationChan
  <2> QED
    BY <1>1, <2>1
<1> QED
  BY <1>2, <1>3

\* ListenerConn keeps the promise of ListenerConnAPI: queries one at a time,
\* one lasting reason for abandoning the connection, no query after it.
THEOREM Refinement == Spec => ImplementsAPI
<1>1. Init => API!Init
  BY InitRefines
<1>2. IInv /\ IInv' /\ [Next]_vars => [API!Next]_(API!apiVars)
  <2> SUFFICES ASSUME IInv, IInv', [Next]_vars
               PROVE  API!Next \/ UNCHANGED <<err, callState, ret>>
    BY DEF API!apiVars
  <2>1. CASE EnvironmentStep \/ UNCHANGED vars
    BY <2>1, EnvironmentFrame DEF vars, callState
  <2> QED
    BY <2>1, SenderRefines, ReaderRefines DEF Next
<1> QED
  BY <1>1, <1>2, Invariance, PTL DEF Spec, ImplementsAPI, API!Spec

--------------------------------------------------------------------------------
(* Whose answers are on their way                                            *)

LEMMA TailElements ==
    ASSUME NEW S, NEW s \in Seq(S), s # <<>>
    PROVE  /\ Head(s) \in S /\ Head(s) = s[1] /\ 1 \in 1..Len(s)
           /\ Tail(s) \in Seq(S) /\ Len(Tail(s)) = Len(s) - 1
           /\ \A i \in 1..Len(Tail(s)) :
                 i + 1 \in 1..Len(s) /\ Tail(s)[i] = s[i + 1]
BY HeadTailProperties, EmptySeq, LenProperties

LEMMA TailOfOne ==
    ASSUME NEW S, NEW s \in Seq(S), Len(s) = 1
    PROVE  Tail(s) = <<>>
<1>1. s # <<>>
  OBVIOUS
<1>2. Tail(s) \in Seq(S) /\ Len(Tail(s)) = 0
  BY <1>1, HeadTailProperties
<1> QED
  BY <1>2, EmptySeq

LEMMA AppendElements ==
    ASSUME NEW S, NEW s \in Seq(S), NEW e \in S
    PROVE  /\ Append(s, e) \in Seq(S) /\ Len(Append(s, e)) = Len(s) + 1
           /\ Len(s) + 1 \in 1..Len(Append(s, e))
           /\ \A i \in 1..Len(Append(s, e)) :
                 \/ i = Len(s) + 1 /\ Append(s, e)[i] = e
                 \/ i \in 1..Len(s) /\ Append(s, e)[i] = s[i]
BY AppendProperties, LenProperties

LEMMA FlowType ==
    ASSUME TypeOK
    PROVE  /\ wire \in Seq(Msg) /\ Len(wire) \in Nat
           /\ todo \in Seq(Msg) /\ Len(todo) \in Nat
           /\ Pending \in Seq(Msg) /\ Len(Pending) \in Nat
           /\ rmsg \in Msg
           /\ pc \in [Senders -> RunningPcs \cup {"idle", "lock", "check", "closeSock"}]
BY PendingType, LenProperties DEF TypeOK

\* An answer to query q that says r, the 'Z' that ends it included.
AnswerTo(a, q, r) ==
    /\ a \in Seq(Msg) /\ Len(a) \in Nat
    /\ \A i \in 1..Len(a) :
          /\ a[i].q = q /\ ~Unasked(a[i])
          /\ a[i].typ = "Z" <=> i = Len(a)
          /\ a[i].typ = "E" => \E j \in 1..Len(r) : r[j] = "E"

LEMMA AnswerElements ==
    ASSUME NEW s \in Senders, NEW n \in Nat, NEW r \in Seq(Types \ {"Z"})
    PROVE  AnswerTo(Answer(<<s, n>>, Append(r, "Z")), <<s, n>>, r)
<1>a. PICK a : a = Answer(<<s, n>>, Append(r, "Z"))
  OBVIOUS
<1>1. r \in Seq(Types) /\ "Z" \in Types /\ Len(r) \in Nat
      /\ \A i \in 1..Len(r) : r[i] # "Z"
  <2>1. Len(r) \in Nat /\ \A i \in 1..Len(r) : r[i] \in Types \ {"Z"}
    BY LenProperties, ElementOfSeq
  <2>2. r \in Seq(Types)
    BY DEF Types
  <2> QED
    BY <2>1, <2>2 DEF Types
<1> DEFINE t == Append(r, "Z")
<1>2. /\ t \in Seq(Types) /\ Len(t) = Len(r) + 1
      /\ \A i \in 1..Len(t) : \/ i = Len(r) + 1 /\ t[i] = "Z"
                              \/ i \in 1..Len(r) /\ t[i] = r[i]
  BY <1>1, AppendElements
<1>3. a \in Seq(Msg) /\ Len(a) \in Nat
  BY <1>a, <1>2, AnswerType, LenProperties DEF Queries
<1>4. a = [i \in 1..Len(t) |-> [typ |-> t[i], q |-> <<s, n>>]]
  BY <1>a DEF Answer
<1>5. Len(t) \in Nat
  BY <1>1, <1>2
<1> HIDE DEF t
<1>6. Len(a) = Len(t)
  BY <1>4, <1>5
<1>7. \A i \in 1..Len(a) : a[i].typ = t[i] /\ a[i].q = <<s, n>>
  <2>1. ASSUME NEW i \in 1..Len(a)
        PROVE  a[i].typ = t[i] /\ a[i].q = <<s, n>>
    <3>1. a[i] = [typ |-> t[i], q |-> <<s, n>>]
      BY <1>4, <1>6, Zenon
    <3> QED
      BY <3>1
  <2> QED
    BY <2>1
<1>8. <<s, n>> # NoQuery
  BY DEF NoQuery
<1>9. ASSUME NEW i \in 1..Len(a)
      PROVE  /\ a[i].q = <<s, n>> /\ ~Unasked(a[i])
             /\ a[i].typ = "Z" <=> i = Len(a)
             /\ a[i].typ = "E" => \E j \in 1..Len(r) : r[j] = "E"
  <2>1. \/ i = Len(r) + 1 /\ t[i] = "Z"
        \/ i \in 1..Len(r) /\ t[i] = r[i]
    BY <1>2, <1>6
  <2>2. a[i].typ = t[i] /\ a[i].q = <<s, n>>
    BY <1>7
  <2>3. ~Unasked(a[i])
    BY <1>8, <2>2 DEF Unasked
  <2>4. a[i].typ = "Z" <=> i = Len(a)
    BY <1>1, <1>2, <1>6, <2>1, <2>2
  <2>5. a[i].typ = "E" => \E j \in 1..Len(r) : r[j] = "E"
    BY <2>1, <2>2
  <2> QED
    BY <2>2, <2>3, <2>4, <2>5
<1> QED
  BY <1>a, <1>3, <1>9 DEF AnswerTo

\* Whose query is waited for changes only when a sender starts or stops waiting.
LEMMA MineFrame ==
    ASSUME \A s \in Senders : pc[s] = "wait" => pc'[s] = "wait" /\ calls'[s] = calls[s],
           NEW m, Mine(m)
    PROVE  Mine(m)'
BY DEF Mine

OwnInv == PendingOwn /\ IdleInv /\ WireInv

\* A step that stops nobody waiting and lets nobody write.
LEMMA OwnFrame ==
    ASSUME OwnInv, UNCHANGED <<connState, wire, todo, Pending>>,
           ReplyChanClosed => ReplyChanClosed',
           \A s \in Senders :
              /\ pc[s] = "wait" => pc'[s] = "wait" /\ calls'[s] = calls[s]
              /\ pc'[s] = "write" => pc[s] = "write"
    PROVE  OwnInv'
<1>1. \A m : Mine(m) => Mine(m)'
  BY MineFrame
<1>2. PendingOwn'
  BY <1>1 DEF OwnInv, PendingOwn, Unasked
<1>3. IdleInv'
  BY DEF OwnInv, IdleInv, NoneOwed, Unasked
<1>4. WireInv'
  BY <1>1 DEF OwnInv, WireInv, Unasked
<1> QED
  BY <1>2, <1>3, <1>4 DEF OwnInv

\* Nothing is on its way while nobody waits for an answer and the reader reads.
LEMMA NobodyWaits ==
    ASSUME TypeOK, LockInv, WireInv, NEW s \in Senders,
           pc[s] \in RunningPcs \ {"wait"}, ~ReplyChanClosed
    PROVE  NoneOwed
<1>1. ASSUME NEW m PROVE ~Mine(m)
  BY DEF LockInv, Mine, RunningPcs
<1>2. todo = <<>>
  BY <1>1, FlowType, EmptySeq DEF WireInv
<1> QED
  BY <1>1, <1>2 DEF WireInv, NoneOwed

LEMMA OwnWriteQuery ==
    ASSUME TypeOK, LockInv, OwnInv, NEW s \in Senders, WriteQuery(s)
    PROVE  OwnInv'
<1>1. /\ pc[s] = "write" /\ pc' = [pc EXCEPT ![s] = "wait"]
      /\ UNCHANGED <<connState, wire, rpc, rmsg, replyChan, calls>>
  BY DEF WriteQuery, Goto, lockVars, readerVars
<1>2. Pending' = Pending /\ ReplyChanClosed' = ReplyChanClosed
  BY <1>1, PendingFrame DEF ReplyChanClosed
<1>3. pc'[s] = "wait" /\ \A t \in Senders : t # s => pc'[t] = pc[t]
  BY <1>1 DEF TypeOK
<1>4. \A m : Mine(m) => Mine(m)'
  BY <1>1, <1>3, MineFrame
<1>5. PendingOwn'
  BY <1>2, <1>4 DEF OwnInv, PendingOwn, Unasked
<1>6. connState' # "Idle"
  BY <1>1 DEF OwnInv, IdleInv
<1>7. ~ReplyChanClosed => NoneOwed
  BY <1>1, NobodyWaits DEF OwnInv, RunningPcs
<1>8. CASE todo' = todo
  BY <1>1, <1>2, <1>4, <1>5, <1>6, <1>8 DEF OwnInv, IdleInv, WireInv, Unasked
<1>9. CASE todo' # todo
  <2>1. PICK r \in Replies(s) :
            todo' = todo \o Answer(<<s, calls[s]>>, Append(r, "Z"))
    BY <1>9 DEF WriteQuery
  <2>2. r \in Seq(Types \ {"Z"}) /\ calls[s] \in Nat
    BY OneReadyAssumption, BoundsAssumption DEF Replies, TypeOK
  <2>3. PICK a : /\ todo' = todo \o a
                 /\ AnswerTo(a, <<s, calls[s]>>, r)
    BY <2>1, <2>2, AnswerElements, Zenon
  <2>4. \A i \in 1..Len(a) : Mine(a[i])'
    BY <1>1, <1>3, <2>3 DEF Mine, AnswerTo
  <2>5. /\ Len(todo') = Len(todo) + Len(a)
        /\ \A i \in 1..Len(todo') :
              todo'[i] = IF i <= Len(todo) THEN todo[i] ELSE a[i - Len(todo)]
    BY <2>3, FlowType, ConcatProperties DEF AnswerTo
  <2>6. ASSUME NEW i \in 1..Len(todo')
        PROVE  \/ i \in 1..Len(todo) /\ todo'[i] = todo[i]
               \/ i - Len(todo) \in 1..Len(a) /\ todo'[i] = a[i - Len(todo)]
    <3>1. Len(todo) \in Nat /\ Len(a) \in Nat
      BY <2>3, FlowType DEF AnswerTo
    <3> QED
      BY <2>5, <3>1
  <2>7. \A i \in 1..Len(todo') : ~Unasked(todo'[i])
    <3>1. \A i \in 1..Len(todo) : ~Unasked(todo[i])
      BY DEF OwnInv, WireInv
    <3>2. \A i \in 1..Len(a) : ~Unasked(a[i])
      BY <2>3 DEF AnswerTo
    <3> QED
      BY <2>6, <3>1, <3>2
  <2>8. ASSUME ~ReplyChanClosed PROVE WireInv'
    <3>1. Len(todo) = 0 /\ Len(todo') = Len(a) /\ Len(a) \in Nat
      BY <1>7, <2>3, <2>5, <2>8 DEF NoneOwed, AnswerTo
    <3>2. \A i \in 1..Len(todo') : Mine(todo[i])'
      BY <2>4, <2>6, <3>1
    <3>3. \A i \in 1..Len(todo') : todo'[i].typ = "Z" => i = Len(todo')
      <4>1. \A i \in 1..Len(a) : a[i].typ = "Z" => i = Len(a)
        BY <2>3 DEF AnswerTo
      <4>2. \A i \in 1..Len(todo') : i \in 1..Len(a) /\ todo'[i] = a[i]
        BY <2>6, <3>1
      <4> QED
        BY <3>1, <4>1, <4>2
    <3>4. \A i \in 1..Len(wire) : Unasked(wire[i]) /\ wire[i].typ # "Z"
      BY <1>7, <2>8 DEF NoneOwed, OwnInv, WireInv
    <3> QED
      BY <1>1, <1>2, <2>7, <3>2, <3>3, <3>4 DEF OwnInv, WireInv, Unasked
  <2>9. ASSUME ReplyChanClosed PROVE WireInv'
    BY <1>1, <1>2, <2>7, <2>9 DEF OwnInv, WireInv, Unasked
  <2> QED
    BY <1>3, <1>5, <1>6, <2>8, <2>9 DEF OwnInv, IdleInv
<1> QED
  BY <1>8, <1>9

LEMMA OwnRecvReply ==
    ASSUME TypeOK, PendingInv, OwnInv, NEW s \in Senders, RecvReply(s)
    PROVE  OwnInv'
<1>1. Pending # <<>> /\ Head(Pending) = Head(replyChan) /\ Pending' = Tail(Pending)
  BY RecvTakesPending
<1>2. /\ Head(Pending) = Pending[1] /\ 1 \in 1..Len(Pending)
      /\ Len(Pending') = Len(Pending) - 1
      /\ \A i \in 1..Len(Pending') :
            i + 1 \in 1..Len(Pending) /\ Pending'[i] = Pending[i + 1]
  BY <1>1, FlowType, TailElements
<1>3. /\ UNCHANGED <<connState, wire, todo, rpc, calls>>
      /\ \A t \in Senders : pc'[t] = "write" => pc[t] = "write"
      /\ Head(replyChan).typ # "Z" => UNCHANGED pc
  BY DEF RecvReply, Return, Goto, TypeOK, netVars, readerVars
<1>4. IdleInv'
  BY <1>3 DEF OwnInv, IdleInv, NoneOwed, Unasked
<1>5. CASE Head(Pending).typ = "Z"
  <2>1. connState = "Idle" /\ Len(Pending) = 1
    BY <1>2, <1>5 DEF PendingInv
  <2>2. PendingOwn'
    BY <1>2, <2>1 DEF PendingOwn
  <2>3. todo = <<>> /\ \A i \in 1..Len(wire) : Unasked(wire[i])
    BY <2>1 DEF OwnInv, IdleInv, NoneOwed
  <2>4. WireInv'
    BY <1>3, <2>3 DEF OwnInv, WireInv, Unasked
  <2> QED
    BY <1>4, <2>2, <2>4 DEF OwnInv
<1>6. CASE Head(Pending).typ # "Z"
  <2>1. \A m : Mine(m) => Mine(m)'
    BY <1>1, <1>3, <1>6 DEF Mine
  <2>2. PendingOwn'
    BY <1>2, <2>1 DEF OwnInv, PendingOwn, Unasked
  <2>3. WireInv'
    BY <1>3, <2>1 DEF OwnInv, WireInv, Unasked, ReplyChanClosed
  <2> QED
    BY <1>4, <2>2, <2>3 DEF OwnInv
<1> QED
  BY <1>5, <1>6

LEMMA OwnSender ==
    ASSUME AnswerInv, NEW s \in Senders,
           ExecSimpleQuery(s) \/ Ping(s) \/ Close(s)
             \/ AcquireSenderLock(s) \/ SenderStep(s)
    PROVE  OwnInv'
<1>1. TypeOK /\ LockInv /\ PendingInv /\ OwnInv
  BY DEF AnswerInv, IInv, OwnInv
<1>2. pc \in [Senders -> RunningPcs \cup {"idle", "lock", "check", "closeSock"}]
      /\ calls \in [Senders -> 0..MaxCalls]
  BY <1>1 DEF TypeOK
<1>3. CASE WriteQuery(s)
  BY <1>1, <1>3, OwnWriteQuery
<1>4. CASE RecvReply(s)
  BY <1>1, <1>4, OwnRecvReply
<1>5. CASE SetExpectResponse(s)
  <2>1. /\ UNCHANGED <<wire, todo, rpc, rmsg, replyChan, calls>>
        /\ connState' = "ExpectResponse" \/ UNCHANGED connState
        /\ \A t \in Senders : pc'[t] = "wait" <=> pc[t] = "wait"
        /\ \A t \in Senders :
              pc'[t] = "write" => pc[t] = "write" \/ connState' = "ExpectResponse"
    BY <1>2, <1>5 DEF SetExpectResponse, Goto, netVars, readerVars
  <2>2. Pending' = Pending /\ ReplyChanClosed' = ReplyChanClosed
    BY <2>1, PendingFrame DEF ReplyChanClosed
  <2>3. \A m : Mine(m) => Mine(m)'
    BY <2>1, MineFrame
  <2>4. PendingOwn' /\ WireInv'
    BY <1>1, <2>1, <2>2, <2>3 DEF OwnInv, PendingOwn, WireInv, Unasked
  <2>5. IdleInv'
    BY <1>1, <2>1 DEF OwnInv, IdleInv, NoneOwed, Unasked
  <2> QED
    BY <2>4, <2>5 DEF OwnInv
<1>6. CASE RecvReplyClosed(s)
  <2>1. /\ UNCHANGED <<connState, wire, todo, rpc, rmsg, replyChan, calls>>
        /\ ReplyChanClosed /\ replyChan = <<>>
        /\ \A t \in Senders : pc'[t] = "write" => pc[t] = "write"
    BY <1>2, <1>6 DEF RecvReplyClosed, Goto, netVars, readerVars, lockVars
  <2>2. Pending' = <<>> /\ ReplyChanClosed'
    BY <2>1 DEF Pending, ReplyChanClosed
  <2>3. PendingOwn' /\ IdleInv' /\ WireInv'
    BY <1>1, <2>1, <2>2 DEF OwnInv, PendingOwn, IdleInv, NoneOwed, WireInv, Unasked
  <2> QED
    BY <2>3 DEF OwnInv
<1>7. CASE \/ \E o \in {"exec", "ping"} : Start(s, o)
           \/ Close(s) \/ AcquireSenderLock(s) \/ CheckErr(s) \/ WriteFails(s)
           \/ FailSetErr(s) \/ FailClose(s) \/ ReadErr(s) \/ CloseSock(s)
  <2>1. /\ UNCHANGED <<connState, wire, todo, rpc, rmsg, replyChan>>
        /\ \A t \in Senders :
              /\ pc[t] = "wait" => pc'[t] = "wait" /\ calls'[t] = calls[t]
              /\ pc'[t] = "write" => pc[t] = "write"
    BY <1>2, <1>7
       DEF Start, Close, AcquireSenderLock, CheckErr, WriteFails, FailSetErr,
           FailClose, ReadErr, CloseSock, Return, Goto, netVars, readerVars, lockVars
  <2>2. Pending' = Pending /\ ReplyChanClosed' = ReplyChanClosed
    BY <2>1, PendingFrame DEF ReplyChanClosed
  <2> QED
    BY <1>1, <2>1, <2>2, OwnFrame
<1> QED
  BY <1>3, <1>4, <1>5, <1>6, <1>7 DEF SenderStep, ExecSimpleQuery, Ping

\* The reader takes a message: what is left is still for the query waited for.
LEMMA OwnRecv ==
    ASSUME TypeOK, OwnInv, NEW ts, Recv(ts), UNCHANGED <<todo, pc, calls>>
    PROVE  /\ Head(wire) \in Msg
           /\ Unasked(Head(wire)) \/ Mine(Head(wire))
           /\ Head(wire).typ = "Z" => NoneOwed'
           /\ NoneOwed => NoneOwed'
           /\ WireInv'
<1>1. /\ Head(wire) \in Msg /\ Head(wire) = wire[1] /\ 1 \in 1..Len(wire)
      /\ Len(wire') = Len(wire) - 1
      /\ \A i \in 1..Len(wire') : i + 1 \in 1..Len(wire) /\ wire'[i] = wire[i + 1]
  BY FlowType, TailElements DEF Recv
<1>2. ~ReplyChanClosed
  BY DEF Recv, ReplyChanClosed
<1>3. \A m : Mine(m) => Mine(m)'
  BY DEF Mine
<1>4. Len(wire) \in Nat
  BY FlowType
<1>5. Unasked(Head(wire)) \/ Mine(Head(wire))
  BY <1>1, <1>2 DEF OwnInv, WireInv
<1>6. Head(wire).typ = "Z" => NoneOwed'
  <2>1. Head(wire).typ = "Z" =>
           todo = <<>> /\ \A j \in 1..Len(wire) : j > 1 => Unasked(wire[j])
    BY <1>1, <1>2 DEF OwnInv, WireInv
  <2> QED
    BY <1>1, <1>4, <2>1 DEF NoneOwed, Unasked
<1>7. NoneOwed => NoneOwed'
  BY <1>1 DEF NoneOwed, Unasked
<1>8. WireInv'
  <2>1. \A i \in 1..Len(wire') :
           /\ Unasked(wire'[i]) => wire'[i].typ \in {"A", "E"}
           /\ Unasked(wire'[i]) \/ Mine(wire[i])'
    BY <1>1, <1>2, <1>3 DEF OwnInv, WireInv
  <2>2. ASSUME NEW i \in 1..Len(wire'), wire'[i].typ = "Z"
        PROVE  todo = <<>> /\ \A j \in 1..Len(wire') : j > i => Unasked(wire'[j])
    <3>1. /\ i + 1 \in 1..Len(wire) /\ wire[i + 1].typ = "Z"
          /\ \A j \in 1..Len(wire') :
                /\ j > i => j + 1 > i + 1
                /\ j + 1 \in 1..Len(wire) /\ wire'[j] = wire[j + 1]
      BY <1>1, <1>4, <2>2
    <3> QED
      BY <1>2, <3>1 DEF OwnInv, WireInv
  <2> QED
    BY <1>2, <1>3, <2>1, <2>2 DEF OwnInv, WireInv, Unasked
<1> QED
  BY <1>1, <1>5, <1>6, <1>7, <1>8

LEMMA OwnReader ==
    ASSUME AnswerInv, ReaderStep
    PROVE  OwnInv'
<1>1. TypeOK /\ OwnInv
  BY DEF AnswerInv, IInv, OwnInv
<1>2. UNCHANGED <<senderLock, pc, op, qerr, calls, ret>>
  BY ReaderFrame
<1>3. \A m : Mine(m) => Mine(m)'
  BY <1>2 DEF Mine
<1>4. CASE \/ RecvNotification \/ RecvIgnored \/ RecvError \/ RecvComplete
           \/ RecvReady \/ RecvUnexpected
  <2>1. UNCHANGED todo
    BY <1>4 DEF RecvNotification, RecvIgnored, RecvError, RecvComplete,
                RecvReady, RecvUnexpected, netVars
  <2>2. PICK ts : Recv(ts)
    BY <1>4 DEF RecvNotification, RecvIgnored, RecvError, RecvComplete,
                RecvReady, RecvUnexpected
  <2>3. /\ Head(wire) \in Msg
        /\ Unasked(Head(wire)) \/ Mine(Head(wire))
        /\ Head(wire).typ = "Z" => NoneOwed'
        /\ NoneOwed => NoneOwed'
        /\ WireInv'
    BY <1>1, <1>2, <2>1, <2>2, OwnRecv
  <2>4. /\ connState' = "Idle" => connState = "Idle" \/ Head(wire).typ = "Z"
        /\ rpc = "recv" /\ UNCHANGED replyChan
        /\ rpc' # "reply" \/ (rpc' = "reply" /\ rmsg' = Head(wire))
    BY <1>4 DEF RecvNotification, RecvIgnored, RecvError, RecvComplete, RecvReady,
                RecvUnexpected, Recv, Quit, CanSet, lockVars, readerVars
  <2>5. IdleInv'
    <3>1. \A s \in Senders : pc'[s] = "write" => connState' # "Idle"
      <4>1. ASSUME NEW s \in Senders, pc[s] = "write" PROVE Head(wire).typ # "Z"
        <5>1. NoneOwed
          BY <2>4, <4>1, NobodyWaits DEF AnswerInv, IInv, ReplyChanClosed, RunningPcs
        <5>2. Head(wire) = wire[1] /\ 1 \in 1..Len(wire)
          BY <1>1, <2>2, FlowType, TailElements DEF Recv
        <5> QED
          BY <1>1, <5>1, <5>2 DEF NoneOwed, OwnInv, WireInv
      <4> QED
        BY <1>1, <1>2, <2>4, <4>1 DEF OwnInv, IdleInv
    <3> QED
      BY <1>1, <2>3, <2>4, <3>1 DEF OwnInv, IdleInv
  <2>6. PendingOwn'
    <3>1. CASE rpc' # "reply"
      BY <1>1, <1>3, <2>4, <3>1 DEF OwnInv, PendingOwn, Pending, Unasked
    <3>2. CASE rpc' = "reply"
      <4>1. Pending' = Append(Pending, Head(wire))
        BY <2>4, <3>2, AcceptReply
      <4>2. \A i \in 1..Len(Pending') :
               \/ Pending'[i] = Head(wire)
               \/ i \in 1..Len(Pending) /\ Pending'[i] = Pending[i]
        BY <1>1, <2>3, <4>1, FlowType, AppendElements
      <4>3. ASSUME NEW i \in 1..Len(Pending')
            PROVE  Unasked(Pending'[i]) \/ Mine(Pending[i])'
        <5>1. Unasked(Pending'[i]) \/ Mine(Pending'[i])
          BY <1>1, <2>3, <4>2 DEF OwnInv, PendingOwn
        <5> QED
          BY <1>3, <5>1
      <4> QED
        BY <4>3 DEF PendingOwn, Unasked
    <3> QED
      BY <3>1, <3>2
  <2> QED
    BY <2>3, <2>5, <2>6 DEF OwnInv
<1>5. CASE \/ RecvFails \/ PushNotification \/ PushReply
           \/ MainSetErr \/ MainClose \/ CloseReplyChan \/ CloseNotificationChan
  <2>1. /\ UNCHANGED <<connState, wire, todo>>
        /\ ReplyChanClosed => ReplyChanClosed'
        /\ PushReply \/ (rpc # "reply" /\ rpc' # "reply" /\ UNCHANGED replyChan)
    BY <1>5 DEF RecvFails, PushNotification, PushReply, MainSetErr, MainClose,
                CloseReplyChan, CloseNotificationChan, Quit, ReplyChanClosed,
                lockVars, netVars
  <2>2. Pending' = Pending
    BY <2>1, PushKeepsPending DEF Pending
  <2> QED
    BY <1>1, <1>2, <2>1, <2>2, OwnFrame
<1> QED
  BY <1>4, <1>5 DEF ReaderStep

LEMMA OwnEnvironment ==
    ASSUME AnswerInv, EnvironmentStep
    PROVE  OwnInv'
<1>1. TypeOK /\ OwnInv
  BY DEF AnswerInv, IInv, OwnInv
<1>2. UNCHANGED <<connState, err, senderLock, replyChan, sock, rpc, rmsg,
                  rerr, pc, op, qerr, calls, ret>>
  BY EnvironmentFrame
<1>3. Pending' = Pending /\ ReplyChanClosed' = ReplyChanClosed
  BY <1>2, PendingFrame DEF ReplyChanClosed
<1>4. \A m : Mine(m) <=> Mine(m)'
  BY <1>2 DEF Mine
<1>5. PendingOwn'
  BY <1>1, <1>3, <1>4 DEF OwnInv, PendingOwn, Unasked
<1>6. CASE ServerReplies
  <2>1. /\ Head(todo) \in Msg /\ Head(todo) = todo[1] /\ 1 \in 1..Len(todo)
        /\ Len(todo') = Len(todo) - 1
        /\ \A i \in 1..Len(todo') : i + 1 \in 1..Len(todo) /\ todo'[i] = todo[i + 1]
    BY <1>1, <1>6, FlowType, TailElements DEF ServerReplies
  <2>2. /\ Len(wire') = Len(wire) + 1 /\ Len(wire) \in Nat
        /\ \A i \in 1..Len(wire') :
              \/ i = Len(wire) + 1 /\ wire'[i] = todo[1]
              \/ i \in 1..Len(wire) /\ wire'[i] = wire[i]
    BY <1>1, <1>6, <2>1, FlowType, AppendElements DEF ServerReplies
  <2>3. connState # "Idle"
    BY <1>1, <1>6 DEF ServerReplies, OwnInv, IdleInv, NoneOwed
  <2>4. IdleInv'
    BY <1>2, <2>3 DEF IdleInv
  <2>5. /\ \A i \in 1..Len(wire') : Unasked(wire'[i]) => wire'[i].typ \in {"A", "E"}
        /\ \A i \in 1..Len(todo') : ~Unasked(todo'[i])
    BY <1>1, <2>1, <2>2 DEF OwnInv, WireInv
  <2>6. ASSUME ~ReplyChanClosed
        PROVE  /\ \A i \in 1..Len(wire') : Unasked(wire'[i]) \/ Mine(wire[i])'
               /\ \A i \in 1..Len(todo') : Mine(todo[i])'
               /\ \A i \in 1..Len(wire') : wire'[i].typ = "Z" =>
                     /\ todo' = <<>>
                     /\ \A j \in 1..Len(wire') : j > i => Unasked(wire'[j])
               /\ \A i \in 1..Len(todo') : todo'[i].typ = "Z" => i = Len(todo')
    <3>1. \A i \in 1..Len(wire') : Unasked(wire'[i]) \/ Mine(wire[i])'
      BY <1>1, <1>4, <2>1, <2>2, <2>6 DEF OwnInv, WireInv
    <3>2. \A i \in 1..Len(todo') : Mine(todo[i])'
      BY <1>1, <1>4, <2>1, <2>6 DEF OwnInv, WireInv
    <3>3. \A i \in 1..Len(todo') : todo'[i].typ = "Z" => i = Len(todo')
      <4>1. \A i \in 1..Len(todo) : todo[i].typ = "Z" => i = Len(todo)
        BY <1>1, <2>6 DEF OwnInv, WireInv
      <4> QED
        BY <1>1, <2>1, <4>1, FlowType
    <3>4. \A i \in 1..Len(wire) : wire[i].typ # "Z"
      BY <1>1, <1>6, <2>6 DEF OwnInv, WireInv, ServerReplies
    <3>5. todo[1].typ = "Z" => todo' = <<>>
      <4>1. todo[1].typ = "Z" => Len(todo) = 1
        BY <1>1, <2>1, <2>6 DEF OwnInv, WireInv
      <4> QED
        BY <1>1, <1>6, <4>1, FlowType, TailOfOne DEF ServerReplies
    <3>6. ASSUME NEW i \in 1..Len(wire'), wire'[i].typ = "Z"
          PROVE  /\ todo' = <<>>
                 /\ \A j \in 1..Len(wire') : j > i => Unasked(wire'[j])
      <4>1. i = Len(wire) + 1 /\ todo[1].typ = "Z"
        BY <2>2, <3>4, <3>6
      <4> QED
        BY <2>2, <3>5, <4>1
    <3> QED
      BY <3>1, <3>2, <3>3, <3>6
  <2>7. WireInv'
    BY <1>3, <2>5, <2>6 DEF WireInv, Unasked
  <2> QED
    BY <1>5, <2>4, <2>7 DEF OwnInv
<1>7. CASE ServerSendsUnasked \/ ServerFatal
  <2>1. PICK m \in Msg : /\ wire' = Append(wire, m)
                         /\ Unasked(m) /\ m.typ \in {"A", "E"}
    BY <1>7 DEF ServerSendsUnasked, ServerFatal, Msg, Types, Unasked
  <2>2. todo' = todo \/ todo' = <<>>
    BY <1>7 DEF ServerSendsUnasked, ServerFatal
  <2>3. /\ Len(wire') = Len(wire) + 1 /\ Len(wire) \in Nat
        /\ \A i \in 1..Len(wire') :
              \/ i = Len(wire) + 1 /\ wire'[i] = m
              \/ i \in 1..Len(wire) /\ wire'[i] = wire[i]
    BY <1>1, <2>1, FlowType, AppendElements
  <2>4. IdleInv'
    BY <1>1, <1>2, <2>1, <2>2, <2>3 DEF OwnInv, IdleInv, NoneOwed, Unasked
  <2>5. /\ \A i \in 1..Len(wire') : Unasked(wire'[i]) => wire'[i].typ \in {"A", "E"}
        /\ \A i \in 1..Len(todo') : ~Unasked(todo'[i])
    BY <1>1, <2>1, <2>2, <2>3 DEF OwnInv, WireInv
  <2>6. ASSUME ~ReplyChanClosed
        PROVE  /\ \A i \in 1..Len(wire') : Unasked(wire'[i]) \/ Mine(wire[i])'
               /\ \A i \in 1..Len(todo') : Mine(todo[i])'
               /\ \A i \in 1..Len(todo') : todo'[i].typ = "Z" => i = Len(todo')
    BY <1>1, <1>4, <2>1, <2>2, <2>3, <2>6 DEF OwnInv, WireInv
  <2>7. ASSUME ~ReplyChanClosed, NEW i \in 1..Len(wire'), wire'[i].typ = "Z"
        PROVE  /\ todo' = <<>>
               /\ \A j \in 1..Len(wire') : j > i => Unasked(wire'[j])
    BY <1>1, <2>1, <2>2, <2>3, <2>7 DEF OwnInv, WireInv
  <2>8. WireInv'
    BY <1>3, <2>5, <2>6, <2>7 DEF WireInv, Unasked
  <2> QED
    BY <1>5, <2>4, <2>8 DEF OwnInv
<1>8. CASE ServerGone
  <2>1. todo' = <<>> /\ wire' = wire
    BY <1>8 DEF ServerGone
  <2>2. IdleInv' /\ WireInv'
    BY <1>1, <1>2, <1>3, <1>4, <2>1 DEF OwnInv, IdleInv, NoneOwed, WireInv, Unasked
  <2> QED
    BY <1>5, <2>2 DEF OwnInv
<1>9. CASE Consume
  <2>1. UNCHANGED <<wire, todo>>
    BY <1>9 DEF Consume, netVars
  <2> QED
    BY <1>1, <1>2, <1>3, <2>1, OwnFrame
<1> QED
  BY <1>6, <1>7, <1>8, <1>9 DEF EnvironmentStep

--------------------------------------------------------------------------------
(* The last message of a server that is gone *)

LEMMA FatalFrame ==
    ASSUME FatalInv, UNCHANGED <<serverUp, todo, wire, Pending>>
    PROVE  FatalInv'
BY DEF FatalInv, FatalError, NothingComes, Unasked

LEMMA FatalSender ==
    ASSUME AnswerInv, NEW s \in Senders,
           ExecSimpleQuery(s) \/ Ping(s) \/ Close(s)
             \/ AcquireSenderLock(s) \/ SenderStep(s)
    PROVE  FatalInv'
<1>1. TypeOK /\ FatalInv
  BY DEF AnswerInv, IInv
<1>2. CASE WriteQuery(s)
  <2>1. /\ UNCHANGED <<serverUp, wire, rpc, rmsg, replyChan>>
        /\ ~serverUp => todo' = todo
    BY <1>2 DEF WriteQuery, readerVars
  <2>2. Pending' = Pending
    BY <2>1, PendingFrame
  <2> QED
    BY <1>1, <2>1, <2>2 DEF FatalInv, FatalError, NothingComes, Unasked
<1>3. CASE RecvReply(s)
  <2>1. Pending # <<>> /\ Pending' = Tail(Pending)
    BY <1>1, <1>3, RecvTakesPending
  <2>2. /\ Len(Pending') = Len(Pending) - 1 /\ Len(Pending) \in Nat
        /\ \A i \in 1..Len(Pending') :
              i + 1 \in 1..Len(Pending) /\ Pending'[i] = Pending[i + 1]
    BY <1>1, <2>1, FlowType, TailElements
  <2>3. UNCHANGED <<serverUp, wire, todo>>
    BY <1>3 DEF RecvReply, netVars
  <2>4. ASSUME NEW i \in 1..Len(Pending')
        PROVE  /\ Pending'[i].typ \in {"E", "Z"}
               /\ FatalError(Pending'[i]) => i = Len(Pending') /\ NothingComes
    <3>1. /\ Pending[i + 1].typ \in {"E", "Z"}
          /\ FatalError(Pending[i + 1]) => i + 1 = Len(Pending) /\ NothingComes
      BY <1>1, <2>2 DEF FatalInv
    <3> QED
      BY <2>2, <3>1
  <2> QED
    BY <1>1, <2>3, <2>4 DEF FatalInv, FatalError, NothingComes, Unasked
<1>4. CASE ~WriteQuery(s) /\ ~RecvReply(s)
  <2>1. UNCHANGED <<serverUp, wire, todo, rpc, rmsg, replyChan>>
    BY <1>4 DEF SenderStep, ExecSimpleQuery, Ping, Start, Close, AcquireSenderLock,
       CheckErr, SetExpectResponse, WriteFails, FailSetErr,
       FailClose, RecvReplyClosed, ReadErr, CloseSock, netVars, readerVars
  <2> QED
    BY <1>1, <2>1, PendingFrame, FatalFrame
<1> QED
  BY <1>2, <1>3, <1>4

LEMMA FatalReader ==
    ASSUME AnswerInv, ReaderStep
    PROVE  FatalInv'
<1>1. TypeOK /\ FatalInv /\ PendingInv
  BY DEF AnswerInv, IInv
<1>2. CASE \/ RecvNotification \/ RecvIgnored \/ RecvError \/ RecvComplete
           \/ RecvReady \/ RecvUnexpected
  <2>1. /\ UNCHANGED <<serverUp, todo>>
        /\ wire # <<>> /\ wire' = Tail(wire)
        /\ rpc = "recv" /\ UNCHANGED replyChan
        /\ \/ rpc' # "reply"
           \/ /\ rpc' = "reply" /\ rmsg' = Head(wire)
              /\ Head(wire).typ \in {"E", "Z"}
              /\ Head(wire).typ = "E" => connState = "ExpectResponse"
    BY <1>2 DEF RecvNotification, RecvIgnored, RecvError, RecvComplete, RecvReady,
                RecvUnexpected, Recv, Quit, CanSet, ExpectedState, lockVars,
                readerVars, netVars
  <2>2. /\ Head(wire) \in Msg /\ Head(wire) = wire[1] /\ 1 \in 1..Len(wire)
        /\ Len(wire') = Len(wire) - 1 /\ Len(wire) \in Nat
        /\ wire' \in Seq(Msg)
        /\ \A i \in 1..Len(wire') : i + 1 \in 1..Len(wire) /\ wire'[i] = wire[i + 1]
    BY <1>1, <2>1, FlowType, TailElements
  <2>3. ASSUME NEW i \in 1..Len(wire'), FatalError(wire'[i])
        PROVE  i = Len(wire') /\ ~serverUp
    BY <1>1, <2>2, <2>3 DEF FatalInv
  <2>4. \A i \in 1..Len(Pending) : ~FatalError(Pending[i])
    BY <1>1, <2>1 DEF FatalInv, NothingComes
  <2>5. ASSUME NEW i \in 1..Len(Pending')
        PROVE  /\ Pending'[i].typ \in {"E", "Z"}
               /\ FatalError(Pending'[i]) =>
                     i = Len(Pending') /\ ~serverUp /\ wire' = <<>>
    <3>1. CASE rpc' # "reply"
      <4>1. Pending' = Pending
        BY <2>1, <3>1 DEF Pending
      <4> QED
        BY <1>1, <2>4, <2>5, <4>1 DEF FatalInv
    <3>2. CASE rpc' = "reply"
      <4>1. Pending' = Append(Pending, Head(wire))
        BY <2>1, <3>2, AcceptReply
      <4>2. /\ Len(Pending') = Len(Pending) + 1
            /\ \/ i = Len(Pending) + 1 /\ Pending'[i] = Head(wire)
               \/ i \in 1..Len(Pending) /\ Pending'[i] = Pending[i]
        BY <1>1, <2>2, <2>5, <4>1, FlowType, AppendElements
      <4>3. CASE i \in 1..Len(Pending) /\ Pending'[i] = Pending[i]
        BY <1>1, <2>4, <4>3 DEF FatalInv
      <4>4. CASE i = Len(Pending) + 1 /\ Pending'[i] = Head(wire)
        <5>1. FatalError(Head(wire)) => Len(wire) = 1 /\ ~serverUp
          BY <1>1, <2>2 DEF FatalInv
        <5>2. Len(wire) = 1 => Len(wire') = 0
          BY <2>2
        <5>3. Len(wire) = 1 => wire' = <<>>
          BY <2>2, <5>2, EmptySeq
        <5> QED
          BY <2>1, <3>2, <4>2, <4>4, <5>1, <5>3
      <4> QED
        BY <4>2, <4>3, <4>4
    <3> QED
      BY <3>1, <3>2
  <2> QED
    BY <1>1, <2>1, <2>3, <2>5 DEF FatalInv, FatalError, NothingComes, Unasked
<1>3. CASE \/ RecvFails \/ PushNotification \/ PushReply
           \/ MainSetErr \/ MainClose \/ CloseReplyChan \/ CloseNotificationChan
  <2>1. /\ UNCHANGED <<serverUp, wire, todo>>
        /\ PushReply \/ (rpc # "reply" /\ rpc' # "reply" /\ UNCHANGED replyChan)
    BY <1>3 DEF RecvFails, PushNotification, PushReply, MainSetErr, MainClose,
                CloseReplyChan, CloseNotificationChan, Quit, netVars
  <2>2. Pending' = Pending
    BY <2>1, PushKeepsPending DEF Pending
  <2> QED
    BY <1>1, <2>1, <2>2, FatalFrame
<1> QED
  BY <1>2, <1>3 DEF ReaderStep

LEMMA FatalEnvironment ==
    ASSUME AnswerInv, EnvironmentStep
    PROVE  FatalInv'
<1>1. TypeOK /\ FatalInv /\ WireInv
  BY DEF AnswerInv, IInv
<1>2. Pending' = Pending
  BY EnvironmentFrame, PendingFrame
<1>3. CASE ServerReplies \/ ServerSendsUnasked
  <2>1. PICK m \in Msg : wire' = Append(wire, m) /\ ~FatalError(m)
    <3>1. CASE ServerReplies
      <4>1. Head(todo) \in Msg /\ Head(todo) = todo[1] /\ 1 \in 1..Len(todo)
        BY <1>1, <3>1, FlowType, TailElements DEF ServerReplies
      <4> QED
        BY <1>1, <3>1, <4>1 DEF ServerReplies, WireInv, FatalError
    <3>2. CASE ServerSendsUnasked
      BY <3>2 DEF ServerSendsUnasked, Msg, Types, FatalError
    <3> QED
      BY <1>3, <3>1, <3>2
  <2>2. \A i \in 1..Len(wire') :
              \/ wire'[i] = m
              \/ i \in 1..Len(wire) /\ wire'[i] = wire[i]
    BY <1>1, <2>1, FlowType, AppendElements
  <2>3. serverUp /\ serverUp'
    BY <1>3 DEF ServerReplies, ServerSendsUnasked, netVars
  <2> QED
    BY <1>1, <1>2, <2>1, <2>2, <2>3 DEF FatalInv, FatalError, NothingComes, Unasked
<1>4. CASE ServerFatal
  <2>1. PICK m \in Msg : wire' = Append(wire, m)
    BY <1>4 DEF ServerFatal, Msg, Types
  <2>2. /\ Len(wire') = Len(wire) + 1
        /\ \A i \in 1..Len(wire') :
              \/ i = Len(wire) + 1
              \/ i \in 1..Len(wire) /\ wire'[i] = wire[i]
    BY <1>1, <2>1, FlowType, AppendElements
  <2>3. serverUp /\ ~serverUp' /\ todo' = <<>>
    BY <1>4 DEF ServerFatal
  <2> QED
    BY <1>1, <1>2, <2>1, <2>2, <2>3 DEF FatalInv, FatalError, NothingComes, Unasked
<1>5. CASE ServerGone
  BY <1>1, <1>2, <1>5 DEF ServerGone, FatalInv, FatalError, NothingComes, Unasked
<1>6. CASE Consume
  BY <1>1, <1>2, <1>6, FatalFrame DEF Consume, netVars
<1> QED
  BY <1>3, <1>4, <1>5, <1>6 DEF EnvironmentStep

--------------------------------------------------------------------------------
(* Ping *)

\* PingInv, of one sender.
PingOk(s) ==
    /\ pc[s] \in {"lock", "check", "send", "write"} => qerr[s] = Nil
    /\ pc[s] = "wait" /\ op[s] = "ping" =>
          /\ qerr[s] # Nil => Pending = <<>> /\ NothingComes
          /\ NoErrorFor(s, Pending)
          /\ ~ReplyChanClosed => NoErrorFor(s, wire) /\ NoErrorFor(s, todo)
    /\ pc[s] \in {"idle", "closeSock"} /\ op[s] = "ping" /\ ret[s].out = "executed"
          => ret[s].err = Nil

LEMMA PingInvIs == PingInv <=> \A s \in Senders : PingOk(s)
BY Zenon DEF PingInv, PingOk

\* A step of one sender leaves the others as they are: only who holds senderLock
\* waits for replies, and only who holds it touches what concerns them.
LEMMA PingOthers ==
    ASSUME TypeOK, LockInv, PingInv, NEW s \in Senders,
           ExecSimpleQuery(s) \/ Ping(s) \/ Close(s)
             \/ AcquireSenderLock(s) \/ SenderStep(s),
           NEW t \in Senders, t # s
    PROVE  PingOk(t)'
<1>1. PingOk(t)
  BY PingInvIs
<1>2. /\ pc \in [Senders -> RunningPcs \cup {"idle", "lock", "check", "closeSock"}]
      /\ op \in [Senders -> {"exec", "ping"}]
      /\ qerr \in [Senders -> Reasons \cup {Nil}]
      /\ calls \in [Senders -> 0..MaxCalls]
      /\ ret \in [Senders -> [out : {"none", "executed", "failed"},
                              err : Reasons \cup {Nil}]]
  BY DEF TypeOK
<1>3. /\ pc'[t] = pc[t] /\ op'[t] = op[t] /\ qerr'[t] = qerr[t]
      /\ calls'[t] = calls[t] /\ ret'[t] = ret[t]
  BY <1>2 DEF SenderStep, ExecSimpleQuery, Ping, Start, Close, AcquireSenderLock,
       CheckErr, SetExpectResponse, WriteQuery, WriteFails, FailSetErr,
       FailClose, RecvReply, RecvReplyClosed, ReadErr, CloseSock, Return, Goto
<1>4. CASE pc[t] # "wait"
  BY <1>1, <1>3, <1>4 DEF PingOk
<1>5. CASE pc[t] = "wait"
  <2>1. pc[s] \notin RunningPcs
    BY <1>5 DEF LockInv, RunningPcs
  <2>2. UNCHANGED <<serverUp, wire, todo, rpc, rmsg, replyChan>>
    BY <2>1 DEF SenderStep, ExecSimpleQuery, Ping, Start, Close, AcquireSenderLock,
       CheckErr, SetExpectResponse, WriteQuery, WriteFails, FailSetErr,
       FailClose, RecvReply, RecvReplyClosed, ReadErr, CloseSock, RunningPcs,
       netVars, readerVars
  <2>3. Pending' = Pending /\ ReplyChanClosed' = ReplyChanClosed
    BY <2>2, PendingFrame DEF ReplyChanClosed
  <2> QED
    BY <1>1, <1>3, <2>2, <2>3 DEF PingOk, NothingComes, NoErrorFor
<1> QED
  BY <1>4, <1>5

LEMMA PingSender ==
    ASSUME AnswerInv, NEW s \in Senders,
           ExecSimpleQuery(s) \/ Ping(s) \/ Close(s)
             \/ AcquireSenderLock(s) \/ SenderStep(s)
    PROVE  PingInv'
<1>1. TypeOK /\ LockInv /\ PendingInv /\ PendingOwn /\ WireInv /\ FatalInv /\ PingInv
  BY DEF AnswerInv, IInv
<1>2. /\ pc \in [Senders -> RunningPcs \cup {"idle", "lock", "check", "closeSock"}]
      /\ op \in [Senders -> {"exec", "ping"}]
      /\ qerr \in [Senders -> Reasons \cup {Nil}]
      /\ calls \in [Senders -> 0..MaxCalls]
      /\ ret \in [Senders -> [out : {"none", "executed", "failed"},
                              err : Reasons \cup {Nil}]]
  BY <1>1 DEF TypeOK
<1>3. PingOk(s)
  BY <1>1, PingInvIs
<1>4. ASSUME PingOk(s)' PROVE PingInv'
  BY <1>1, <1>4, PingOthers, Zenon DEF PingInv, PingOk
<1>5. ASSUME NEW o \in {"exec", "ping"}, Start(s, o) PROVE PingOk(s)'
  BY <1>2, <1>5 DEF Start, Goto, PingOk
<1>6. CASE Close(s) \/ CloseSock(s)
  <2>1. PingOk(s)'
    BY <1>2, <1>3, <1>6 DEF Close, CloseSock, Goto, PingOk
  <2> QED
    BY <1>4, <2>1
<1>7. CASE AcquireSenderLock(s)
  <2>1. PingOk(s)'
    BY <1>2, <1>3, <1>7 DEF AcquireSenderLock, Goto, PingOk
  <2> QED
    BY <1>4, <2>1
<1>8. CASE CheckErr(s)
  <2>1. PingOk(s)'
    BY <1>2, <1>3, <1>8 DEF CheckErr, Return, Goto, PingOk
  <2> QED
    BY <1>4, <2>1
<1>9. CASE SetExpectResponse(s)
  <2>1. PingOk(s)'
    BY <1>2, <1>3, <1>9 DEF SetExpectResponse, Goto, PingOk
  <2> QED
    BY <1>4, <2>1
<1>10. CASE WriteFails(s) \/ FailSetErr(s) \/ RecvReplyClosed(s)
  <2>1. PingOk(s)'
    BY <1>2, <1>10 DEF WriteFails, FailSetErr, RecvReplyClosed, Goto, PingOk
  <2> QED
    BY <1>4, <2>1
<1>11. CASE FailClose(s) \/ ReadErr(s)
  <2>1. PingOk(s)'
    BY <1>2, <1>11 DEF FailClose, ReadErr, Return, Goto, PingOk
  <2> QED
    BY <1>4, <2>1
<1>12. CASE WriteQuery(s)
  <2>1. /\ pc[s] = "write" /\ pc'[s] = "wait"
        /\ UNCHANGED <<wire, rpc, rmsg, replyChan, op, qerr, calls>>
    BY <1>2, <1>12 DEF WriteQuery, Goto, lockVars, readerVars
  <2>2. Pending' = Pending /\ ReplyChanClosed' = ReplyChanClosed
    BY <2>1, PendingFrame DEF ReplyChanClosed
  <2>3. qerr[s] = Nil
    BY <1>3, <2>1 DEF PingOk
  <2>4. NoErrorFor(s, Pending)
    <3>1. \A m : ~Mine(m)
      BY <1>1, <2>1 DEF Mine, LockInv, RunningPcs
    <3>2. \A i \in 1..Len(Pending) : Pending[i].q = NoQuery
      BY <1>1, <3>1 DEF PendingOwn, Unasked
    <3> QED
      BY <3>2 DEF NoErrorFor, NoQuery
  <2>5. ASSUME ~ReplyChanClosed, op[s] = "ping"
        PROVE  NoErrorFor(s, wire) /\ NoErrorFor(s, todo)'
    <3>1. NoneOwed
      BY <1>1, <2>1, <2>5, NobodyWaits DEF RunningPcs
    <3>2. NoErrorFor(s, wire)
      <4>1. SUFFICES ASSUME NEW i \in 1..Len(wire), wire[i].q = <<s, calls[s]>>
                     PROVE  FALSE
        BY Zenon DEF NoErrorFor
      <4>2. wire[i].q = <<>>
        BY <3>1 DEF NoneOwed, Unasked, NoQuery
      <4> QED
        BY <4>1, <4>2
    <3>3. CASE todo' = todo
      <4>1. todo' = <<>> /\ Len(todo') = 0
        BY <3>1, <3>3 DEF NoneOwed
      <4> QED
        BY <3>2, <4>1 DEF NoErrorFor
    <3>4. CASE todo' # todo
      <4>1. PICK r \in PingReplies :
                todo' = todo \o Answer(<<s, calls[s]>>, Append(r, "Z"))
        BY <1>12, <2>5, <3>4 DEF WriteQuery, Replies
      <4>2. r \in Seq(Types \ {"Z"}) /\ calls[s] \in Nat
        BY <1>1, OneReadyAssumption, BoundsAssumption DEF TypeOK
      <4>3. PICK a : /\ todo' = todo \o a
                     /\ AnswerTo(a, <<s, calls[s]>>, r)
        BY <4>1, <4>2, AnswerElements, Zenon
      <4>4. todo' = a
        BY <3>1, <4>3, ConcatEmptySeq DEF NoneOwed, AnswerTo
      <4>5. \A j \in 1..Len(r) : r[j] # "E"
        <5>1. r \in Seq(Types \ {"E"})
          BY PingRepliesAssumption
        <5> QED
          BY <5>1, ElementOfSeq
      <4>6. \A i \in 1..Len(a) : a[i].typ # "E"
        BY <4>3, <4>5 DEF AnswerTo
      <4> QED
        BY <3>2, <4>4, <4>6 DEF NoErrorFor
    <3> QED
      BY <3>2, <3>3, <3>4
  <2>6. PingOk(s)'
    BY <2>1, <2>2, <2>3, <2>4, <2>5 DEF PingOk, NoErrorFor
  <2> QED
    BY <1>4, <2>6
<1>13. CASE RecvReply(s)
  <2>1. Pending # <<>> /\ Head(Pending) = Head(replyChan) /\ Pending' = Tail(Pending)
    BY <1>1, <1>13, RecvTakesPending
  <2>2. /\ Head(Pending) = Pending[1] /\ 1 \in 1..Len(Pending)
        /\ Len(Pending') = Len(Pending) - 1 /\ Len(Pending) \in Nat
        /\ Pending' \in Seq(Msg)
        /\ \A i \in 1..Len(Pending') :
              i + 1 \in 1..Len(Pending) /\ Pending'[i] = Pending[i + 1]
    BY <1>1, <2>1, FlowType, TailElements
  <2>3. /\ pc[s] = "wait"
        /\ UNCHANGED <<wire, todo, serverUp, rpc, op, calls>>
    BY <1>13 DEF RecvReply, netVars, readerVars
  <2>4. op[s] = "ping" => qerr[s] = Nil
    BY <1>3, <2>1, <2>3 DEF PingOk
  <2>5. CASE Head(Pending).typ = "Z"
    <3>1. Return(s, "executed", qerr[s])
      BY <1>13, <2>1, <2>5 DEF RecvReply
    <3>2. pc'[s] = "idle" /\ ret'[s].err = qerr[s]
      BY <1>2, <3>1 DEF Return, Goto
    <3>3. PingOk(s)'
      BY <2>3, <2>4, <3>2 DEF PingOk
    <3> QED
      BY <1>4, <3>3
  <2>6. CASE Head(Pending).typ # "Z"
    <3>1. UNCHANGED pc
      BY <1>13, <2>1, <2>6 DEF RecvReply
    <3>2. ASSUME op[s] = "ping" PROVE FatalError(Head(Pending))
      <4>1. Pending[1].typ = "E"
        BY <1>1, <2>2, <2>6 DEF FatalInv
      <4>2. Pending[1].q # <<s, calls[s]>>
        BY <1>3, <2>2, <2>3, <3>2, <4>1 DEF PingOk, NoErrorFor
      <4>3. ~Mine(Pending[1])
        BY <1>1, <2>3, <4>2 DEF Mine, LockInv, RunningPcs
      <4>4. Unasked(Pending[1])
        BY <1>1, <2>2, <4>3 DEF PendingOwn
      <4> QED
        BY <2>2, <4>1, <4>4 DEF FatalError
    <3>3. op[s] = "ping" => Pending' = <<>> /\ NothingComes
      <4>1. op[s] = "ping" => Len(Pending) = 1 /\ NothingComes
        BY <1>1, <2>2, <3>2 DEF FatalInv
      <4> QED
        BY <1>1, <2>1, <4>1, FlowType, TailOfOne
    <3>4. PingOk(s)'
      BY <1>3, <2>3, <3>1, <3>3 DEF PingOk, NoErrorFor, NothingComes, ReplyChanClosed
    <3> QED
      BY <1>4, <3>4
  <2> QED
    BY <2>5, <2>6
<1> QED
  BY <1>4, <1>5, <1>6, <1>7, <1>8, <1>9, <1>10, <1>11, <1>12, <1>13
     DEF SenderStep, ExecSimpleQuery, Ping

\* A step that moves no sender, and brings none an error it did not have.
LEMMA PingFrame ==
    ASSUME PingInv, UNCHANGED <<pc, op, qerr, calls, ret>>,
           ReplyChanClosed => ReplyChanClosed',
           NothingComes => NothingComes',
           \A s \in Senders : pc[s] = "wait" /\ op[s] = "ping" =>
              /\ qerr[s] # Nil /\ NothingComes => Pending' = Pending
              /\ NoErrorFor(s, Pending) => NoErrorFor(s, Pending')
              /\ NoErrorFor(s, wire) /\ NoErrorFor(s, todo) =>
                    NoErrorFor(s, wire') /\ NoErrorFor(s, todo')
    PROVE  PingInv'
<1>1. \A s \in Senders : \A q : NoErrorFor(s, q)' <=> NoErrorFor(s, q)
  BY DEF NoErrorFor
<1> QED
  BY <1>1 DEF PingInv

LEMMA PingReader ==
    ASSUME AnswerInv, ReaderStep
    PROVE  PingInv'
<1>1. TypeOK /\ PingInv /\ FatalInv
  BY DEF AnswerInv, IInv
<1>2. UNCHANGED <<senderLock, pc, op, qerr, calls, ret>>
  BY ReaderFrame
<1>3. CASE \/ RecvNotification \/ RecvIgnored \/ RecvError \/ RecvComplete
           \/ RecvReady \/ RecvUnexpected
  <2>1. /\ UNCHANGED <<serverUp, todo>>
        /\ wire # <<>> /\ wire' = Tail(wire)
        /\ rpc = "recv" /\ UNCHANGED replyChan
        /\ rpc' # "reply" \/ (rpc' = "reply" /\ rmsg' = Head(wire))
    BY <1>3 DEF RecvNotification, RecvIgnored, RecvError, RecvComplete, RecvReady,
                RecvUnexpected, Recv, Quit, readerVars, netVars
  <2>2. /\ Head(wire) \in Msg /\ Head(wire) = wire[1] /\ 1 \in 1..Len(wire)
        /\ \A i \in 1..Len(wire') : i + 1 \in 1..Len(wire) /\ wire'[i] = wire[i + 1]
    BY <1>1, <2>1, FlowType, TailElements
  <2>3. ~NothingComes /\ ~ReplyChanClosed
    BY <2>1 DEF NothingComes, ReplyChanClosed
  <2>4. ASSUME NEW s \in Senders, pc[s] = "wait", op[s] = "ping"
        PROVE  /\ qerr[s] = Nil
               /\ NoErrorFor(s, Pending') /\ NoErrorFor(s, wire') /\ NoErrorFor(s, todo')
    <3>1. /\ qerr[s] = Nil
          /\ NoErrorFor(s, Pending) /\ NoErrorFor(s, wire) /\ NoErrorFor(s, todo)
      BY <1>1, <2>3, <2>4 DEF PingInv
    <3>2. NoErrorFor(s, wire') /\ NoErrorFor(s, todo')
      BY <2>1, <2>2, <3>1 DEF NoErrorFor
    <3>3. NoErrorFor(s, Pending')
      <4>1. CASE rpc' # "reply"
        BY <2>1, <3>1, <4>1 DEF Pending
      <4>2. CASE rpc' = "reply"
        <5>1. Pending' = Append(Pending, Head(wire))
          BY <2>1, <4>2, AcceptReply
        <5>2. \A i \in 1..Len(Pending') :
                 \/ Pending'[i] = wire[1]
                 \/ i \in 1..Len(Pending) /\ Pending'[i] = Pending[i]
          BY <1>1, <2>2, <5>1, FlowType, AppendElements
        <5> QED
          BY <2>2, <3>1, <5>2 DEF NoErrorFor
      <4> QED
        BY <4>1, <4>2
    <3> QED
      BY <3>1, <3>2, <3>3
  <2> QED
    BY <1>1, <1>2, <2>3, <2>4 DEF PingInv, NoErrorFor
<1>4. CASE \/ RecvFails \/ PushNotification \/ PushReply
           \/ MainSetErr \/ MainClose \/ CloseReplyChan \/ CloseNotificationChan
  <2>1. /\ UNCHANGED <<serverUp, wire, todo>>
        /\ ReplyChanClosed => ReplyChanClosed'
        /\ PushReply \/ (rpc # "reply" /\ rpc' # "reply" /\ UNCHANGED replyChan)
    BY <1>4 DEF RecvFails, PushNotification, PushReply, MainSetErr, MainClose,
                CloseReplyChan, CloseNotificationChan, Quit, ReplyChanClosed, netVars
  <2>2. Pending' = Pending
    BY <2>1, PushKeepsPending DEF Pending
  <2> QED
    BY <1>1, <1>2, <2>1, <2>2 DEF PingInv, NoErrorFor, NothingComes
<1> QED
  BY <1>3, <1>4 DEF ReaderStep

LEMMA PingEnvironment ==
    ASSUME AnswerInv, EnvironmentStep
    PROVE  PingInv'
<1>1. TypeOK /\ PingInv
  BY DEF AnswerInv, IInv
<1>2. UNCHANGED <<pc, op, qerr, calls, ret, rpc, rmsg, replyChan>>
  BY EnvironmentFrame
<1>3. Pending' = Pending /\ ReplyChanClosed' = ReplyChanClosed
  BY <1>2, PendingFrame DEF ReplyChanClosed
<1>4. NothingComes => NothingComes'
  BY DEF EnvironmentStep, ServerReplies, ServerSendsUnasked, ServerFatal,
         ServerGone, Consume, NothingComes, netVars
<1>5. ASSUME NEW s \in Senders, NoErrorFor(s, wire), NoErrorFor(s, todo)
      PROVE  NoErrorFor(s, wire') /\ NoErrorFor(s, todo')
  <2>1. CASE ServerReplies
    <3>1. /\ Head(todo) \in Msg /\ Head(todo) = todo[1] /\ 1 \in 1..Len(todo)
          /\ \A i \in 1..Len(todo') : i + 1 \in 1..Len(todo) /\ todo'[i] = todo[i + 1]
      BY <1>1, <2>1, FlowType, TailElements DEF ServerReplies
    <3>2. \A i \in 1..Len(wire') :
             \/ wire'[i] = todo[1]
             \/ i \in 1..Len(wire) /\ wire'[i] = wire[i]
      BY <1>1, <2>1, <3>1, FlowType, AppendElements DEF ServerReplies
    <3>3. NoErrorFor(s, todo')
      BY <1>5, <3>1 DEF NoErrorFor
    <3>4. todo[1].q = <<s, calls[s]>> => todo[1].typ # "E"
      BY <1>5, <3>1 DEF NoErrorFor
    <3>5. NoErrorFor(s, wire')
      BY <1>5, <3>2, <3>4 DEF NoErrorFor
    <3> QED
      BY <3>3, <3>5
  <2>2. CASE ServerSendsUnasked \/ ServerFatal
    <3>1. PICK m \in Msg : wire' = Append(wire, m) /\ Unasked(m)
      BY <2>2 DEF ServerSendsUnasked, ServerFatal, Msg, Types, Unasked
    <3>2. \A i \in 1..Len(wire') :
             \/ wire'[i] = m
             \/ i \in 1..Len(wire) /\ wire'[i] = wire[i]
      BY <1>1, <3>1, FlowType, AppendElements
    <3>3. m.q # <<s, calls[s]>>
      BY <3>1 DEF Unasked, NoQuery
    <3>4. NoErrorFor(s, wire')
      BY <1>5, <3>2, <3>3 DEF NoErrorFor
    <3>5. NoErrorFor(s, todo')
      <4>1. todo' = todo \/ (todo' = <<>> /\ Len(todo') = 0)
        BY <2>2 DEF ServerSendsUnasked, ServerFatal
      <4> QED
        BY <1>5, <4>1 DEF NoErrorFor
    <3> QED
      BY <3>4, <3>5
  <2>3. CASE ServerGone \/ Consume
    <3>1. wire' = wire /\ (todo' = todo \/ (todo' = <<>> /\ Len(todo') = 0))
      BY <2>3 DEF ServerGone, Consume, netVars
    <3> QED
      BY <1>5, <3>1 DEF NoErrorFor
  <2> QED
    BY <2>1, <2>2, <2>3 DEF EnvironmentStep
<1> QED
  BY <1>1, <1>2, <1>3, <1>4, <1>5, PingFrame

--------------------------------------------------------------------------------

LEMMA InitAnswer == Init => AnswerInv
<1> SUFFICES ASSUME Init PROVE AnswerInv
  OBVIOUS
<1>1. IInv
  BY InitInv
<1>2. Pending = <<>> /\ Len(Pending) = 0 /\ Len(wire) = 0 /\ Len(todo) = 0
  BY DEF Init, Pending
<1>3. PendingOwn /\ IdleInv /\ WireInv /\ FatalInv
  BY <1>2 DEF Init, PendingOwn, IdleInv, NoneOwed, WireInv, FatalInv
<1>4. PingInv
  BY DEF Init, PingInv
<1> QED
  BY <1>1, <1>3, <1>4 DEF AnswerInv

LEMMA AnswerStep == AnswerInv /\ [Next]_vars => AnswerInv'
<1> SUFFICES ASSUME AnswerInv, [Next]_vars PROVE AnswerInv'
  OBVIOUS
<1>1. IInv'
  BY InvStep DEF AnswerInv
<1>2. OwnInv' /\ FatalInv' /\ PingInv'
  <2>1. CASE UNCHANGED vars
    <3>1. UNCHANGED <<serverUp, todo, wire, connState, Pending, pc, op, qerr, calls, ret>>
      BY <2>1, PendingFrame DEF vars
    <3>2. ReplyChanClosed' = ReplyChanClosed
      BY <2>1 DEF vars, ReplyChanClosed
    <3>3. OwnInv'
      BY <3>1, <3>2, OwnFrame DEF AnswerInv, OwnInv
    <3>4. FatalInv'
      BY <3>1, FatalFrame DEF AnswerInv
    <3>5. PingInv'
      BY <3>1, <3>2, PingFrame DEF AnswerInv, NothingComes
    <3> QED
      BY <3>3, <3>4, <3>5
  <2>2. CASE Next
    BY <2>2, OwnSender, OwnReader, OwnEnvironment, FatalSender, FatalReader,
       FatalEnvironment, PingSender, PingReader, PingEnvironment DEF Next
  <2> QED
    BY <2>1, <2>2
<1> QED
  BY <1>1, <1>2 DEF AnswerInv, OwnInv

\* What is on its way between the server and the senders is always for the query
\* that is running.
THEOREM AnswersInvariance == Spec => []AnswerInv
BY InitAnswer, AnswerStep, PTL DEF Spec

\* A sender never gets the reply to another query.
THEOREM RepliesAreOwn == Spec => []ReplyIsOwn
<1>1. AnswerInv => ReplyIsOwn
  <2> SUFFICES ASSUME AnswerInv, NEW s \in Senders, pc[s] = "wait",
                      NEW i \in 1..Len(replyChan)
               PROVE  replyChan[i].q \in {<<s, calls[s]>>, NoQuery}
    BY DEF ReplyIsOwn
  <2>1. replyChan \in Seq(Msg) /\ rmsg \in Msg
    BY DEF AnswerInv, IInv, TypeOK
  <2>2. i \in 1..Len(Pending) /\ Pending[i] = replyChan[i]
    BY <2>1, AppendProperties, LenProperties DEF Pending
  <2>3. Unasked(Pending[i]) \/ Mine(Pending[i])
    BY <2>2 DEF AnswerInv, PendingOwn
  <2> QED
    BY <2>2, <2>3 DEF Unasked, Mine, AnswerInv, IInv, LockInv, RunningPcs
<1> QED
  BY <1>1, AnswersInvariance, PTL

\* Ping does not panic if the server answers empty queries without an error, not
\* even when it is shut down meanwhile.
THEOREM PingDoesNotPanic == Spec => []PingNeverPanics
<1>1. AnswerInv => PingNeverPanics
  BY DEF AnswerInv, PingInv, PingNeverPanics
<1> QED
  BY <1>1, AnswersInvariance, PTL
================================================================================
