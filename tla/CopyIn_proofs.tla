------------------------------ MODULE CopyIn_proofs ------------------------------
(***************************************************************************)
(* Proofs about CopyIn, for every number of rows and copies and for every  *)
(* size of the buffers: the variables have their types, resploop never     *)
(* waits to signal its end, and, until the application makes another       *)
(* method send a request beside an open COPY statement, only one goroutine *)
(* reads the connection at a time, the connection stays in step and Close  *)
(* tells the truth about the rows.  The invariants are stated without this *)
(* condition; their steps assume it, and it is put before them where the   *)
(* theorems are proved.                                                    *)
(***************************************************************************)
EXTENDS CopyIn, SequenceTheorems, TLAPS

USE DEF connVars, copyVars, callerVars, serverVars, ConnExec, ExtendedRequest, EndTx

Reading == resp \in {"reads", "signals"}
Awaiting == pc \in {"awaitCopyIn", "awaitAbort", "awaitReady"}

\* resploop leaves one value, as its last act.
DoneInv ==
    /\ resp \in {"none", "reads", "signals", "over"}
    /\ done \in Nat
    /\ done > 0 => resp = "over"

\* While resploop runs, inCopy keeps queries away, and once the statement is closed the
\* state of the connection does.
ReadingInv ==
    /\ Reading => inCopy
    /\ Reading /\ pc = "rest" /\ stmt # "open" => bad \/ link = "down"

IInv == DoneInv /\ ReadingInv /\ SoleReader

--------------------------------------------------------------------------------

LEMMA DoneInit == Init => DoneInv
BY DEF Init, DoneInv

LEMMA DoneStep ==
    ASSUME DoneInv, [Next]_vars
    PROVE  DoneInv'
<1> USE DEF DoneInv
<1>1. CASE Environment
  BY <1>1 DEF Environment, Server, ServerUnasked, ConnBreaks
<1>2. CASE CopyInStarts
  BY <1>2 DEF CopyInStarts
<1>3. CASE CopyInPanics \/ CopyAborted \/ PrepareReads \/ CallReadFails
  BY <1>3 DEF CopyInPanics, CopyAborted, PrepareReads, CallReadFails
<1>4. CASE CloseFlushes \/ CloseSendsDone \/ AwaitsReady
  BY <1>4 DEF CloseFlushes, CloseSendsDone, AwaitsReady
<1>5. CASE CloseReturns
  BY <1>5 DEF CloseReturns
<1>6. CASE Prepare \/ Exec \/ CopyData \/ ExecRefused
  BY <1>6 DEF Prepare, Exec, CopyData, PutRow, ExecRefused
<1>7. CASE Sync \/ Close \/ CloseAgain \/ Query \/ ConnExec \/ ExtendedRequest \/ EndTx
  BY <1>7 DEF Sync, Close, StartsClosing, CloseAgain, Query, Requests
<1>8. CASE Resploop \/ ResploopReadFails
  BY <1>8 DEF Resploop, ResploopReadFails, ResploopEnds
<1>9. CASE Signal
  BY <1>9 DEF Signal
<1>10. CASE UNCHANGED vars
  BY <1>10 DEF vars
<1> QED
  BY <1>1, <1>2, <1>3, <1>4, <1>5, <1>6, <1>7, <1>8, <1>9, <1>10
     DEF Next, Continues, Calls, Reader

\* resploop never waits at done, also when Close has returned early and nobody will
\* receive from it: the channel has room for its one value (copy.go:87).
THEOREM SignalNeverBlocks == Spec => [](resp = "signals" => done < DoneCap)
<1>1. DoneInv => (resp = "signals" => done < DoneCap)
  BY DEF DoneInv, DoneCap
<1> QED
  BY DoneInit, DoneStep, <1>1, PTL DEF Spec

--------------------------------------------------------------------------------

\* A request beside an open COPY statement is never forgotten.
LEMMA BesideStays ==
    ASSUME [Next]_vars, ~beside'
    PROVE  ~beside
<1>1. CASE Environment \/ UNCHANGED vars
  BY <1>1 DEF Environment, Server, ServerUnasked, ConnBreaks, vars
<1>2. CASE CopyInStarts \/ CopyInPanics \/ CopyAborted \/ PrepareReads
  BY <1>2 DEF CopyInStarts, CopyInPanics, CopyAborted, PrepareReads
<1>3. CASE CallReadFails \/ CloseFlushes \/ CloseSendsDone \/ CloseReturns \/ AwaitsReady
  BY <1>3 DEF CallReadFails, CloseFlushes, CloseSendsDone, CloseReturns, AwaitsReady
<1>4. CASE Prepare \/ ConnExec \/ ExtendedRequest \/ EndTx
  BY <1>4 DEF Prepare, Requests, NotesRequest
<1>5. CASE Exec \/ CopyData \/ ExecRefused \/ Sync \/ Close \/ CloseAgain \/ Query
  BY <1>5 DEF Exec, CopyData, PutRow, ExecRefused, Sync, Close, StartsClosing, CloseAgain, Query
<1>6. CASE Reader
  BY <1>6 DEF Reader, Resploop, ResploopReadFails, Signal
<1> QED
  BY <1>1, <1>2, <1>3, <1>4, <1>5, <1>6 DEF Next, Continues, Calls

LEMMA ReaderInit == Init => ReadingInv /\ SoleReader
BY DEF Init, ReadingInv, SoleReader, Reading

LEMMA EnvironmentStep ==
    ASSUME IInv, Environment
    PROVE  (ReadingInv /\ SoleReader)'
BY DEF IInv, ReadingInv, SoleReader, Reading, Environment, Server, ServerUnasked, ConnBreaks

\* A call starts to read only when resploop does not: query sees inCopy, and the
\* others, if they send a request, find no open statement and a connection to write to.
LEMMA CallStep ==
    ASSUME ~beside', IInv, Calls
    PROVE  (ReadingInv /\ SoleReader)'
<1> USE DEF IInv, DoneInv, ReadingInv, SoleReader, Reading, Returns, GoesBad, Unread, Writes,
            WriteFails
<1>1. CASE Prepare
  <2>1. /\ DoneInv' /\ pc = "rest" /\ UNCHANGED <<resp, inCopy, link>> /\ (bad => bad')
        /\ stmt' = IF stmt = "open" THEN stmt ELSE "none"
    BY <1>1 DEF Prepare
  <2>2. pc' = "rest" \/ (pc' = "awaitCopyIn" /\ ~bad /\ link = "up" /\ stmt # "open")
    BY <1>1 DEF Prepare, NotesRequest
  <2> QED
    BY <2>1, <2>2
<1>2. CASE Exec \/ CopyData
  BY <1>2 DEF Exec, CopyData, PutRow
<1>3. CASE ExecRefused \/ CloseAgain
  BY <1>3 DEF ExecRefused, Refused, CloseAgain
<1>4. CASE Sync \/ Close
  BY <1>4 DEF Sync, Close, StartsClosing
<1>5. CASE Query
  BY <1>5 DEF Query, Sees
<1>6. CASE ConnExec \/ ExtendedRequest \/ EndTx
  BY <1>6 DEF Requests, NotesRequest
<1> QED
  BY <1>1, <1>2, <1>3, <1>4, <1>5, <1>6 DEF Calls

LEMMA ContinuesStep ==
    ASSUME IInv, Continues
    PROVE  (ReadingInv /\ SoleReader)'
<1> USE DEF IInv, DoneInv, ReadingInv, SoleReader, Reading, Returns, GoesBad, Unread, Quiet,
            Writes, WriteFails
<1>1. CASE CopyInStarts
  BY <1>1 DEF CopyInStarts
<1>2. CASE CopyInPanics \/ CallReadFails
  BY <1>2 DEF CopyInPanics, CallReadFails
<1>3. CASE CopyAborted
  BY <1>3 DEF CopyAborted
<1>4. CASE PrepareReads
  BY <1>4 DEF PrepareReads
<1>5. CASE CloseFlushes \/ CloseSendsDone
  BY <1>5 DEF CloseFlushes, CloseSendsDone
<1>6. CASE CloseReturns
  BY <1>6 DEF CloseReturns, ResploopIsDone
<1>7. CASE AwaitsReady
  BY <1>7 DEF AwaitsReady
<1> QED
  BY <1>1, <1>2, <1>3, <1>4, <1>5, <1>6, <1>7 DEF Continues

LEMMA ResploopStep ==
    ASSUME IInv, Reader
    PROVE  (ReadingInv /\ SoleReader)'
<1> USE DEF IInv, DoneInv, ReadingInv, SoleReader, Reading, GoesBad, ResploopEnds
<1>1. CASE Resploop
  BY <1>1 DEF Resploop, Quiet
<1>2. CASE ResploopReadFails
  BY <1>2 DEF ResploopReadFails
<1>3. CASE Signal
  BY <1>3 DEF Signal
<1> QED
  BY <1>1, <1>2, <1>3 DEF Reader

LEMMA InvStep ==
    ASSUME ~beside', IInv, [Next]_vars
    PROVE  IInv'
<1>1. DoneInv'
  BY DoneStep DEF IInv
<1>2. CASE UNCHANGED vars
  BY <1>1, <1>2 DEF vars, IInv, ReadingInv, SoleReader, Reading
<1>3. CASE Next
  BY <1>1, <1>3, EnvironmentStep, CallStep, ContinuesStep, ResploopStep DEF Next, IInv
<1> QED
  BY <1>2, <1>3

\* Two goroutines never read the connection at the same time, nor write to the scratch
\* buffer that resploop reads into (copy.go:345), unless the application has made a
\* method that does not look at inCopy send a request with its COPY statement open:
\* conn.Exec, Prepare, a statement's methods, Commit or Rollback (conn.go:512, 589, 621).
THEOREM OneReaderHolds == Spec => []OneReader
<1> DEFINE Inv == DoneInv /\ (~beside => IInv)
<1>1. Init => Inv
  BY DoneInit, ReaderInit DEF IInv
<1>2. Inv /\ [Next]_vars => Inv'
  BY DoneStep, InvStep, BesideStays
<1>3. Inv => OneReader
  BY DEF IInv, OneReader
<1> QED
  BY <1>1, <1>2, <1>3, PTL DEF Spec

--------------------------------------------------------------------------------
(* Types *)

\* What is small, what is on the connection, and the rows.  The buffer outgrows its
\* capacity only by a flush that failed.
ConnInv ==
    /\ bad \in BOOLEAN /\ txnStatus \in TxnStatuses
    /\ pc \in {"rest", "awaitCopyIn", "awaitAbort", "flush", "sendDone", "awaitDone",
               "awaitReady"}
    /\ err \in {"nil", "server", "binary", "copyTo"}
CopyInv ==
    /\ inCopy \in BOOLEAN /\ result \in BOOLEAN /\ done \in {0, 1}
    /\ stmt \in {"none", "open", "closed"}
    /\ copyErr \in {"nil", "server", "unexpected", "io"}
    /\ resp \in {"none", "reads", "signals", "over"}
    /\ link \in {"up", "down"} /\ mode \in {"ready", "copy"}
    /\ stxn \in TxnStatuses /\ async \in 0..MaxAsync /\ copies \in 0..MaxCopies
    /\ beside \in BOOLEAN
FlagInv == ConnInv /\ CopyInv
NetInv == toServer \in Seq(ClientMessages) /\ toClient \in Seq(ServerMessages)
RowsInv ==
    /\ buffer \in Rows /\ given \in Rows /\ received \in Rows
    /\ Len(buffer) <= BufferRows + FlushRows + 1
    /\ ~bad => Len(buffer) <= BufferRows + FlushRows
TypeInv == FlagInv /\ NetInv /\ RowsInv

LEMMA TypeInvParts == TypeInv => TypeOK
BY DEF TypeInv, FlagInv, ConnInv, CopyInv, NetInv, RowsInv, TypeOK

LEMMA ServerMessageTypes ==
    ASSUME NEW m \in ServerMessages
    PROVE  m.type = "Z" => m.val \in TxnStatuses
BY DEF ServerMessages, Msg

LEMMA ClientMessageTypes ==
    ASSUME NEW m \in ClientMessages
    PROVE  m.type = "d" => m.val \in Rows
BY DEF ClientMessages, Msg

LEMMA ServerMessagesAre ==
    /\ \A t \in {"H", "d", "c", "C", "E", "N", "S"} : Msg(t) \in ServerMessages
    /\ \A f \in Formats, n \in Columns : CopyInResponse(f, n) \in ServerMessages
    /\ \A s \in TxnStatuses : ReadyForQuery(s) \in ServerMessages
BY DEF ServerMessages, CopyInResponse, ReadyForQuery

LEMMA ClientMessagesAre ==
    /\ \A t \in {"copy", "query", "extended", "end", "c", "f"} : Msg(t) \in ClientMessages
    /\ \A rows \in Rows : RowData(rows) \in ClientMessages
BY DEF ClientMessages, RowData

LEMMA SaysTyped ==
    ASSUME toClient \in Seq(ServerMessages), NEW msgs \in Seq(ServerMessages), Says(msgs)
    PROVE  toClient' \in Seq(ServerMessages)
BY DEF Says

LEMMA SaysOne ==
    ASSUME NetInv, NEW m \in ServerMessages, Says(<<m>>)
    PROVE  toClient' \in Seq(ServerMessages)
BY SaysTyped, <<m>> \in Seq(ServerMessages) DEF NetInv

LEMMA SaysTwo ==
    ASSUME NetInv, NEW m \in ServerMessages, NEW k \in ServerMessages, Says(<<m, k>>)
    PROVE  toClient' \in Seq(ServerMessages)
BY SaysTyped, <<m, k>> \in Seq(ServerMessages) DEF NetInv

LEMMA Completed ==
    ASSUME NetInv, NEW s \in TxnStatuses, Says(<<Msg("C"), ReadyForQuery(s)>>)
    PROVE  toClient' \in Seq(ServerMessages)
BY SaysTwo, ServerMessagesAre

LEMMA ServerFailsTyped ==
    ASSUME NetInv, ServerFails(<<>>)
    PROVE  toClient' \in Seq(ServerMessages) /\ stxn' \in TxnStatuses
<1> DEFINE s == Failed
<1>1. s \in TxnStatuses /\ stxn' = s
  BY DEF ServerFails, Failed, TxnStatuses
<1>2. <<Msg("E"), ReadyForQuery(s)>> \in Seq(ServerMessages)
  BY <1>1, ServerMessagesAre
<1>3. Says(<<Msg("E"), ReadyForQuery(s)>>)
  BY <1>2 DEF ServerFails, Says
<1> QED
  BY <1>1, <1>2, <1>3, SaysTyped DEF NetInv

LEMMA ServerTyped ==
    ASSUME TypeInv, Server
    PROVE  /\ toClient' \in Seq(ServerMessages) /\ toServer' \in Seq(ClientMessages)
           /\ stxn' \in TxnStatuses /\ mode' \in {"ready", "copy"} /\ received' \in Rows
<1> DEFINE m == Head(toServer)
<1>1. toServer # <<>> /\ m \in ClientMessages /\ toServer' \in Seq(ClientMessages)
  BY DEF Server, TypeInv, NetInv, FlagInv, ConnInv, CopyInv, RowsInv
<1>2. CASE mode = "copy" /\ ServerCopies(m)
  <2>1. CASE m.type = "d" /\ received' = received \o m.val /\ UNCHANGED <<mode, stxn, toClient>>
    BY <1>1, <2>1, ClientMessageTypes DEF TypeInv, NetInv, FlagInv, ConnInv, CopyInv, RowsInv, Rows
  <2>2. CASE /\ mode' = "ready" /\ Says(<<Msg("C"), ReadyForQuery(stxn)>>)
             /\ UNCHANGED <<received, stxn>>
    BY <1>1, <2>2, Completed DEF TypeInv, NetInv, FlagInv, ConnInv, CopyInv, RowsInv
  <2>3. CASE ServerFails(<<>>) /\ mode' = "ready" /\ UNCHANGED received
    BY <1>1, <2>3, ServerFailsTyped DEF TypeInv, NetInv, FlagInv, ConnInv, CopyInv, RowsInv
  <2>4. ASSUME NEW more \in {<<>>, <<Msg("E")>>},
               Says(<<Msg("E"), ReadyForQuery(Failed)>> \o more \o <<ReadyForQuery(Failed)>>),
               stxn' = Failed, mode' = "ready", UNCHANGED received
        PROVE  toClient' \in Seq(ServerMessages) /\ stxn' \in TxnStatuses
    <3>1. Failed \in TxnStatuses
      BY DEF Failed, TxnStatuses
    <3>2. more \in Seq(ServerMessages)
      <4>1. <<Msg("E")>> \in Seq(ServerMessages) /\ <<>> \in Seq(ServerMessages)
        BY ServerMessagesAre
      <4> QED
        BY <4>1
    <3>3. <<Msg("E"), ReadyForQuery(Failed)>> \in Seq(ServerMessages)
      BY <3>1, ServerMessagesAre
    <3>4. <<ReadyForQuery(Failed)>> \in Seq(ServerMessages)
      BY <3>1, ServerMessagesAre
    <3>5. <<Msg("E"), ReadyForQuery(Failed)>> \o more \o <<ReadyForQuery(Failed)>>
            \in Seq(ServerMessages)
      BY <3>2, <3>3, <3>4
    <3> QED
      BY <2>4, <3>1, <3>5, SaysTyped DEF TypeInv, NetInv
  <2> QED
    BY <1>1, <1>2, <2>1, <2>2, <2>3, <2>4 DEF ServerCopies, TypeInv, RowsInv
<1>3. CASE mode # "copy" /\ ServerQueries(m)
  <2>1. CASE UNCHANGED <<mode, received, stxn, toClient>>
    BY <1>1, <2>1 DEF TypeInv, NetInv, FlagInv, ConnInv, CopyInv, RowsInv
  <2>2. CASE ServerStartsCopy
    <3>1. CASE /\ \E f \in Formats, n \in Columns : Says(<<CopyInResponse(f, n)>>)
               /\ mode' = "copy" /\ received' = <<>> /\ UNCHANGED stxn
      BY <1>1, <3>1, ServerMessagesAre, SaysOne DEF TypeInv, NetInv, FlagInv, ConnInv, CopyInv, RowsInv, Rows
    <3>2. ASSUME NEW data \in {<<>>, <<Msg("d")>>},
                 Says(<<Msg("H")>> \o data \o <<Msg("c"), Msg("C"), ReadyForQuery(stxn)>>),
                 UNCHANGED <<mode, received, stxn>>
          PROVE  toClient' \in Seq(ServerMessages)
      <4>1. data \in Seq(ServerMessages)
        <5>1. <<Msg("d")>> \in Seq(ServerMessages)
          BY ServerMessagesAre
        <5>2. <<>> \in Seq(ServerMessages)
          OBVIOUS
        <5> QED
          BY <5>1, <5>2
      <4>2. <<Msg("H")>> \in Seq(ServerMessages)
        BY ServerMessagesAre
      <4>3. <<Msg("c"), Msg("C"), ReadyForQuery(stxn)>> \in Seq(ServerMessages)
        BY ServerMessagesAre DEF TypeInv, NetInv, FlagInv, ConnInv, CopyInv, RowsInv
      <4>4. <<Msg("H")>> \o data \o <<Msg("c"), Msg("C"), ReadyForQuery(stxn)>>
              \in Seq(ServerMessages)
        BY <4>1, <4>2, <4>3
      <4> QED
        BY <3>2, <4>4, SaysTyped DEF TypeInv, NetInv, FlagInv, ConnInv, CopyInv, RowsInv
    <3>3. CASE Says(<<Msg("C"), ReadyForQuery(stxn)>>) /\ UNCHANGED <<mode, received, stxn>>
      BY <1>1, <3>3, Completed DEF TypeInv, NetInv, FlagInv, ConnInv, CopyInv, RowsInv
    <3>4. CASE ServerFails(<<>>) /\ UNCHANGED <<mode, received>>
      BY <1>1, <3>4, ServerFailsTyped DEF TypeInv, NetInv, FlagInv, ConnInv, CopyInv, RowsInv
    <3> QED
      BY <1>1, <2>2, <3>1, <3>2, <3>3, <3>4 DEF ServerStartsCopy, TypeInv, NetInv, FlagInv, ConnInv, CopyInv, RowsInv
  <2>3. CASE /\ stxn' = "I" /\ Says(<<Msg("C"), ReadyForQuery("I")>>)
             /\ UNCHANGED <<mode, received>>
    BY <1>1, <2>3, Completed DEF TypeInv, NetInv, FlagInv, ConnInv, CopyInv, RowsInv, TxnStatuses
  <2>4. CASE /\ Says(<<Msg("C"), ReadyForQuery(stxn)>>) /\ UNCHANGED <<stxn, mode, received>>
    BY <1>1, <2>4, Completed DEF TypeInv, NetInv, FlagInv, ConnInv, CopyInv, RowsInv
  <2>5. CASE ServerFails(<<>>) /\ UNCHANGED <<mode, received>>
    BY <1>1, <2>5, ServerFailsTyped DEF TypeInv, NetInv, FlagInv, ConnInv, CopyInv, RowsInv
  <2> QED
    BY <1>3, <2>1, <2>2, <2>3, <2>4, <2>5 DEF ServerQueries
<1> QED
  BY <1>2, <1>3 DEF Server

LEMMA EnvironmentTyped ==
    ASSUME TypeInv, Environment
    PROVE  TypeInv'
<1> USE DEF TypeInv
<1>1. CASE Server
  BY <1>1, ServerTyped DEF FlagInv, ConnInv, CopyInv, NetInv, RowsInv, Server
<1>2. CASE ServerUnasked
  <2>1. \E t \in {"N", "S"} : Says(<<Msg(t)>>)
    BY <1>2 DEF ServerUnasked
  <2>2. toClient' \in Seq(ServerMessages)
    BY <2>1, ServerMessagesAre, SaysOne
  <2>3. async' \in 0..MaxAsync
    BY <1>2, BoundsAssumption DEF FlagInv, ConnInv, CopyInv, ServerUnasked
  <2> QED
    BY <1>2, <2>2, <2>3 DEF FlagInv, ConnInv, CopyInv, NetInv, RowsInv, ServerUnasked
<1>3. CASE ConnBreaks
  <2>1. toClient' \in Seq(ServerMessages)
    <3>1. <<>> \in Seq(ServerMessages)
      OBVIOUS
    <3> QED
      BY <1>3, <3>1, ServerMessagesAre, SaysOne, SaysTyped DEF NetInv, ConnBreaks
  <2> QED
    BY <1>3, <2>1 DEF FlagInv, ConnInv, CopyInv, NetInv, RowsInv, ConnBreaks
<1> QED
  BY <1>1, <1>2, <1>3 DEF Environment

--------------------------------------------------------------------------------

LEMMA WritesTyped ==
    ASSUME NetInv, NEW m \in ClientMessages, Writes(<<m>>)
    PROVE  toServer' \in Seq(ClientMessages)
BY <<m>> \in Seq(ClientMessages) DEF Writes, NetInv

LEMMA ReadsTyped ==
    ASSUME NetInv, Arrived, Reads
    PROVE  /\ toClient' \in Seq(ServerMessages)
           /\ Head(toClient).type = "Z" => Head(toClient).val \in TxnStatuses
<1>1. toClient' \in Seq(ServerMessages) /\ Head(toClient) \in ServerMessages
  BY DEF Arrived, Reads, NetInv
<1> QED
  BY <1>1, ServerMessageTypes

\* What a call writes.
LEMMA CallWrites ==
    ASSUME TypeInv, Calls \/ CopyAborted \/ CloseFlushes \/ CloseSendsDone
    PROVE  toServer' \in Seq(ClientMessages)
<1> USE DEF TypeInv, WriteFails, NetInv, RowsInv, serverVars
<1>1. \A m \in ClientMessages : Writes(<<m>>) => toServer' \in Seq(ClientMessages)
  BY WritesTyped
<1>2. CASE Prepare \/ Query \/ ConnExec \/ ExtendedRequest \/ EndTx
  BY <1>1, <1>2, ClientMessagesAre DEF Prepare, Query, Requests
<1>3. ASSUME NEW capacity, PutRow(NextRow, capacity)
      PROVE  toServer' \in Seq(ClientMessages)
  <2>1. Append(buffer, NextRow) \in Rows
    BY <1>3, BoundsAssumption DEF PutRow, NextRow, Rows
  <2> QED
    BY <1>1, <1>3, <2>1, ClientMessagesAre DEF PutRow
<1>4. CASE ExecRefused \/ Sync \/ Close \/ CloseAgain
  BY <1>4 DEF ExecRefused, Sync, Close, StartsClosing, CloseAgain
<1>5. CASE CopyAborted
  BY <1>1, <1>5, ClientMessagesAre DEF CopyAborted
<1>6. CASE CloseFlushes
  BY <1>1, <1>6, ClientMessagesAre DEF CloseFlushes
<1>7. CASE CloseSendsDone
  BY <1>1, <1>7, ClientMessagesAre DEF CloseSendsDone
<1> QED
  BY <1>2, <1>3, <1>4, <1>5, <1>6, <1>7 DEF Calls, Exec, CopyData

LEMMA CallRows ==
    ASSUME TypeInv, Calls
    PROVE  RowsInv'
<1> USE DEF TypeInv, RowsInv
<1>1. ASSUME NEW capacity \in {BufferRows, FlushRows}, PutRow(NextRow, capacity)
      PROVE  RowsInv'
  <2> DEFINE rows == Append(buffer, NextRow)
  <2>1. rows \in Rows /\ given' \in Rows /\ Len(rows) = Len(buffer) + 1
    BY <1>1, BoundsAssumption DEF PutRow, NextRow, Rows
  <2>2. Len(buffer) <= BufferRows + FlushRows /\ Len(buffer) \in Nat
    BY <1>1 DEF PutRow, Refusal, Rows
  <2>3. UNCHANGED received
    BY <1>1 DEF PutRow, Unread
  <2>4. CASE Len(rows) <= capacity /\ buffer' = rows
    BY <2>1, <2>2, <2>3, <2>4, BufferAssumption
  <2>5. CASE buffer' = AfterFlush(rows)
    BY <2>1, <2>2, <2>3, <2>5, BufferAssumption DEF AfterFlush, Rows
  <2>6. CASE buffer' = rows /\ GoesBad
    BY <2>1, <2>2, <2>3, <2>6, BufferAssumption DEF GoesBad
  <2> QED
    BY <1>1, <2>4, <2>5, <2>6 DEF PutRow
<1>2. CASE Prepare \/ Query \/ ConnExec \/ ExtendedRequest \/ EndTx
  BY <1>2 DEF Prepare, Query, Requests, Unread, GoesBad
<1>3. CASE ExecRefused \/ Sync \/ Close \/ CloseAgain
  BY <1>3 DEF ExecRefused, Sync, Close, StartsClosing, CloseAgain
<1> QED
  BY <1>1, <1>2, <1>3 DEF Calls, Exec, CopyData

LEMMA CallFlags ==
    ASSUME FlagInv, Calls
    PROVE  FlagInv' /\ UNCHANGED toClient
<1> USE DEF FlagInv, ConnInv, CopyInv, Returns, GoesBad, Unread
<1>1. CASE Prepare
  <2>1. copies' \in 0..MaxCopies /\ beside' \in BOOLEAN
    <3>1. copies' \in 0..MaxCopies
      BY <1>1, BoundsAssumption DEF Prepare
    <3>2. beside' = beside \/ NotesRequest
      BY <1>1 DEF Prepare
    <3> QED
      BY <3>1, <3>2, Zenon DEF NotesRequest
  <2> QED
    <3>1. /\ bad' \in {bad, TRUE} /\ pc' \in {"rest", "awaitCopyIn"}
          /\ err' = "nil" /\ stmt' \in {stmt, "none"}
      BY <1>1 DEF Prepare
    <3>2. UNCHANGED <<txnStatus, inCopy, copyErr, result, done, resp,
                      link, mode, stxn, async, toClient>>
      BY <1>1 DEF Prepare
    <3>3. ConnInv'
      BY <3>1, <3>2
    <3>4. CopyInv'
      BY <2>1, <3>1, <3>2
    <3> QED
      BY <3>2, <3>3, <3>4
<1>2. CASE Query \/ ConnExec \/ ExtendedRequest \/ EndTx
  BY <1>2 DEF Query, Requests, NotesRequest
<1>3. CASE Exec \/ CopyData
  BY <1>3 DEF Exec, CopyData, PutRow
<1>4. CASE ExecRefused \/ Sync \/ Close \/ CloseAgain
  BY <1>4 DEF ExecRefused, Sync, Close, StartsClosing, CloseAgain
<1> QED
  BY <1>1, <1>2, <1>3, <1>4 DEF Calls

LEMMA ContinuesConn ==
    ASSUME ConnInv, NetInv, Continues
    PROVE  ConnInv' /\ toClient' \in Seq(ServerMessages)
<1> USE DEF ConnInv, Returns, GoesBad, Unread, Quiet
<1>1. Arrived /\ Reads =>
        /\ toClient' \in Seq(ServerMessages)
        /\ Head(toClient).type = "Z" => Head(toClient).val \in TxnStatuses
  BY ReadsTyped
<1>2. CASE CopyInStarts \/ CopyInPanics
  BY <1>1, <1>2 DEF CopyInStarts, CopyInPanics
<1>3. CASE CopyAborted
  BY <1>1, <1>3 DEF CopyAborted
<1>4. CASE PrepareReads
  BY <1>1, <1>4 DEF PrepareReads
<1>5. CASE CallReadFails \/ CloseFlushes \/ CloseSendsDone
  BY <1>5 DEF CallReadFails, CloseFlushes, CloseSendsDone, NetInv
<1>6. CASE CloseReturns
  BY <1>6 DEF CloseReturns, NetInv
<1>7. CASE AwaitsReady
  BY <1>1, <1>7 DEF AwaitsReady
<1> QED
  BY <1>2, <1>3, <1>4, <1>5, <1>6, <1>7 DEF Continues

LEMMA ContinuesCopy ==
    ASSUME CopyInv, Continues
    PROVE  CopyInv'
<1> USE DEF CopyInv, Unread, Quiet
<1>1. CASE CopyInStarts
  BY <1>1 DEF CopyInStarts
<1>2. CASE CopyInPanics \/ CallReadFails
  BY <1>2 DEF CopyInPanics, CallReadFails
<1>3. CASE CopyAborted
  BY <1>3 DEF CopyAborted
<1>4. CASE PrepareReads
  BY <1>4 DEF PrepareReads
<1>5. CASE CloseFlushes \/ CloseSendsDone
  BY <1>5 DEF CloseFlushes, CloseSendsDone
<1>6. CASE CloseReturns
  BY <1>6 DEF CloseReturns
<1>7. CASE AwaitsReady
  BY <1>7 DEF AwaitsReady
<1> QED
  BY <1>1, <1>2, <1>3, <1>4, <1>5, <1>6, <1>7 DEF Continues

LEMMA ContinuesRest ==
    ASSUME RowsInv, NetInv, Continues
    PROVE  RowsInv' /\ (CopyAborted \/ CloseFlushes \/ CloseSendsDone \/ UNCHANGED toServer)
<1> USE DEF RowsInv, GoesBad, Unread, Quiet
<1>1. CASE CopyInStarts
  BY <1>1, BufferAssumption DEF CopyInStarts, Rows
<1>2. CASE CopyInPanics \/ CallReadFails
  BY <1>2 DEF CopyInPanics, CallReadFails
<1>3. CASE CopyAborted
  BY <1>3 DEF CopyAborted
<1>4. CASE PrepareReads
  BY <1>4 DEF PrepareReads
<1>5. CASE CloseFlushes \/ CloseSendsDone
  BY <1>5 DEF CloseFlushes, CloseSendsDone
<1>6. CASE CloseReturns
  BY <1>6 DEF CloseReturns
<1>7. CASE AwaitsReady
  BY <1>7 DEF AwaitsReady
<1> QED
  BY <1>1, <1>2, <1>3, <1>4, <1>5, <1>6, <1>7 DEF Continues

LEMMA ReaderTyped ==
    ASSUME TypeInv, DoneInv, Reader
    PROVE  TypeInv'
<1> USE DEF TypeInv
<1>1. RowsInv'
  <2>1. UNCHANGED <<buffer, given, received>>
    BY DEF Reader, Resploop, ResploopReadFails, Signal, Quiet
  <2>2. bad => bad'
    BY DEF Reader, Resploop, ResploopReadFails, Signal, Quiet, GoesBad
  <2> QED
    BY <2>1, <2>2 DEF RowsInv, FlagInv, ConnInv
<1>2. CASE Resploop
  <2>1. /\ toClient' \in Seq(ServerMessages)
        /\ Head(toClient).type = "Z" => Head(toClient).val \in TxnStatuses
    BY <1>2, ReadsTyped DEF Resploop
  <2>2. ConnInv'
    <3>1. /\ UNCHANGED <<pc, err>>
          /\ bad' \in {bad, TRUE}
          /\ txnStatus' = txnStatus \/ txnStatus' \in TxnStatuses
      BY <1>2, <2>1 DEF Resploop, GoesBad
    <3> QED
      BY <3>1 DEF FlagInv, ConnInv
  <2>3. NetInv'
    BY <1>2, <2>1 DEF Resploop, Quiet, NetInv
  <2>4. CopyInv'
    <3>1. /\ result' \in {result, TRUE} /\ resp' \in {resp, "signals"}
          /\ copyErr' \in {copyErr, "server", "unexpected"}
      BY <1>2 DEF Resploop, ResploopEnds
    <3>2. UNCHANGED <<inCopy, done, stmt, link, mode, stxn, async, copies, beside>>
      BY <1>2 DEF Resploop, Quiet
    <3>3. /\ result' \in BOOLEAN /\ resp' \in {"none", "reads", "signals", "over"}
          /\ copyErr' \in {"nil", "server", "unexpected", "io"}
      BY <3>1 DEF FlagInv, CopyInv
    <3> QED
      BY <3>2, <3>3 DEF FlagInv, CopyInv
  <2> QED
    BY <1>1, <2>2, <2>3, <2>4 DEF FlagInv
<1>3. CASE ResploopReadFails
  BY <1>1, <1>3 DEF ResploopReadFails, ResploopEnds, GoesBad, FlagInv, ConnInv, CopyInv, NetInv
<1>4. CASE Signal
  BY <1>1, <1>4 DEF Signal, DoneInv, FlagInv, ConnInv, CopyInv, NetInv
<1> QED
  BY <1>2, <1>3, <1>4 DEF Reader

LEMMA TypeInit == Init => TypeInv
<1> SUFFICES ASSUME Init PROVE TypeInv
  OBVIOUS
<1>1. ConnInv
  BY DEF Init, ConnInv, TxnStatuses
<1>2. CopyInv
  <2>1. copies \in 0..MaxCopies /\ async \in 0..MaxAsync
    BY BoundsAssumption DEF Init
  <2>2. stxn \in TxnStatuses
    BY DEF Init, TxnStatuses
  <2> QED
    BY <2>1, <2>2 DEF Init, CopyInv
<1>3. NetInv
  BY DEF Init, NetInv
<1>4. RowsInv
  BY BufferAssumption DEF Init, RowsInv, Rows
<1> QED
  BY <1>1, <1>2, <1>3, <1>4 DEF TypeInv, FlagInv

LEMMA TypeStep ==
    ASSUME TypeInv, DoneInv, [Next]_vars
    PROVE  TypeInv'
<1>1. CASE UNCHANGED vars
  BY <1>1 DEF vars, TypeInv, FlagInv, ConnInv, CopyInv, NetInv, RowsInv
<1>2. CASE Continues
  BY <1>2, ContinuesConn, ContinuesCopy, ContinuesRest, CallWrites DEF TypeInv, FlagInv, NetInv
<1>3. CASE Calls
  BY <1>3, CallFlags, CallRows, CallWrites DEF TypeInv, NetInv
<1> QED
  BY <1>1, <1>2, <1>3, EnvironmentTyped, ReaderTyped DEF Next

\* Every variable of CopyIn has its type: the buffer is never longer than one row more
\* than its capacity, done holds one value at most, and what is on the connection are
\* the messages of the protocol, the transaction statuses among them.
THEOREM TypeCorrect == Spec => []TypeOK
<1>1. Init => TypeInv /\ DoneInv
  BY TypeInit, DoneInit
<1>2. TypeInv /\ DoneInv /\ [Next]_vars => (TypeInv /\ DoneInv)'
  BY TypeStep, DoneStep
<1> QED
  BY <1>1, <1>2, TypeInvParts, PTL DEF Spec

--------------------------------------------------------------------------------
(* What is on the connection, and what Close reports *)

Usable == ~bad /\ link = "up"
RequestTypes == {"copy", "query", "extended", "end"}
Closing == pc \in {"flush", "sendDone", "awaitDone"}
Copying == stmt = "open" \/ Closing
Preparing == pc \in {"awaitCopyIn", "awaitAbort"}

\* A message of type t is on its way to the client.
Coming(t) == \E i \in 1..Len(toClient) : toClient[i].type = t

CallInv ==
    /\ stmt = "open" => pc = "rest"
    /\ Closing => stmt = "closed"
    /\ ~bad /\ Copying => inCopy

\* A request is the last message sent, and its answer is waited for.
RequestInv ==
    \A i \in 1..Len(toServer) : toServer[i].type \in RequestTypes =>
        /\ i = Len(toServer) /\ toClient = <<>> /\ mode = "ready"
        /\ pc = IF toServer[i].type = "copy" THEN "awaitCopyIn" ELSE "awaitReady"

\* ReadyForQuery is the last message to come, and it is true.
ReadyInv ==
    \A i \in 1..Len(toClient) : toClient[i].type = "Z" =>
        i = Len(toClient) /\ toClient[i].val = stxn /\ mode = "ready"

\* CopyInResponse is the first message of the COPY, and the server waits for rows.
StartInv ==
    ~bad => \A i \in 1..Len(toClient) : toClient[i].type = "G" =>
        /\ i = 1 /\ pc = "awaitCopyIn"
        /\ ~Coming("C") /\ ~Coming("Z") /\ (Coming("E") => link = "down")
        /\ link = "up" => mode = "copy" /\ toServer = <<>> /\ received = <<>>

\* Who is in a COPY: the server has failed it neither openly nor with the answer on
\* its way, and it is in a transaction which an error would abort.
PhaseInv ==
    /\ inCopy => Copying
    /\ mode = "copy" =>
          /\ (Copying /\ resp = "reads") \/ Preparing
          /\ stxn = "T" /\ ~Coming("E") /\ ~Coming("C")
    /\ Copying \/ Preparing => stxn # "I"

\* Between calls, and once resploop has seen the end, everything has been read.
SettledInv ==
    (pc = "rest" /\ stmt # "open") \/ (Copying /\ resp # "reads") =>
        toClient = <<>> /\ mode = "ready" /\ txnStatus = stxn

StepInv == Usable => RequestInv /\ ReadyInv /\ PhaseInv /\ SettledInv

\* The rows are those of all after the first a, up to b.
Run(rows, all, a, b) ==
    Len(rows) = b - a /\ \A i \in 1..Len(rows) : rows[i] = all[a + i]

\* cut[i] rows are with the server once it has received i messages more.
RowFlow(cut) ==
    /\ Run(received, given, 0, cut[0])
    /\ \A i \in 1..Len(toServer) :
          \/ toServer[i].type = "d" /\ Run(toServer[i].val, given, cut[i-1], cut[i])
          \/ /\ toServer[i].type = "c" /\ cut[i] = cut[i-1]
             /\ i = Len(toServer) /\ pc = "awaitDone"
    /\ pc \in {"rest", "flush"} => Run(buffer, given, cut[Len(toServer)], Len(given))
    /\ pc \in {"sendDone", "awaitDone"} => cut[Len(toServer)] = Len(given)

\* During the COPY every row given is with the server, on its way or in the buffer.
FlowInv ==
    Usable /\ Copying /\ mode = "copy" =>
        \E cut \in [0..Len(toServer) -> 0..Len(given)] : RowFlow(cut)

\* Before message i resploop has heard, or will hear, what became of the COPY.
Judged(i) ==
    result \/ copyErr # "nil" \/ \E j \in 1..(i-1) : toClient[j].type \in {"C", "E"}

Complete == pc = "awaitDone" /\ received = given

VerdictInv ==
    /\ copyErr # "nil" \/ (resp = "reads" /\ Coming("E")) => (stxn = "E" \/ link = "down")
    /\ resp = "reads" =>
          /\ result \/ Coming("C") => Complete /\ (link = "up" => mode = "ready")
          /\ \A i \in 1..Len(toClient) : toClient[i].type = "Z" => Judged(i)
    /\ resp # "reads" /\ copyErr = "nil" => Complete /\ result

\* A COPY without an error is complete, and one with an error will not be committed.
TruthInv ==
    /\ ~bad /\ Copying => VerdictInv
    /\ Closing /\ copyErr = "nil" => ~bad

CloseInv == CallInv /\ StartInv /\ StepInv /\ FlowInv /\ TruthInv

--------------------------------------------------------------------------------

\* What is left of a sequence without its head, and what one appended to holds.
LEMMA TailElements ==
    ASSUME NEW S, NEW s \in Seq(S), s # <<>>
    PROVE  /\ Tail(s) \in Seq(S) /\ Len(s) \in Nat /\ Len(s) >= 1
           /\ Len(Tail(s)) = Len(s) - 1
           /\ \A i \in 1..Len(Tail(s)) : i + 1 \in 1..Len(s) /\ Tail(s)[i] = s[i + 1]
           /\ 1 \in 1..Len(s) /\ Head(s) = s[1]
OBVIOUS

LEMMA TailOfOne ==
    ASSUME NEW S, NEW s \in Seq(S), Len(s) = 1
    PROVE  Tail(s) = <<>>
<1>1. s # <<>>
  OBVIOUS
<1>2. Tail(s) \in Seq(S) /\ Len(Tail(s)) = 0
  BY <1>1, HeadTailProperties
<1> QED
  BY <1>2, EmptySeq

LEMMA AppendElements ==
    ASSUME NEW S, NEW s \in Seq(S), NEW x
    PROVE  /\ Len(s \o <<x>>) = Len(s) + 1 /\ Len(s) \in Nat
           /\ \A i \in 1..Len(s) : (s \o <<x>>)[i] = s[i]
           /\ (s \o <<x>>)[Len(s) + 1] = x
OBVIOUS

LEMMA CallInvStep ==
    ASSUME ~beside', IInv, CallInv, [Next]_vars
    PROVE  CallInv'
<1> USE DEF CallInv, NotesRequest, Copying, Closing, Returns, GoesBad, Unread, Quiet
<1>1. CASE Environment
  BY <1>1 DEF Environment, Server, ServerUnasked, ConnBreaks
<1>2. CASE CopyInStarts \/ CopyInPanics \/ CopyAborted
  BY <1>2 DEF CopyInStarts, CopyInPanics, CopyAborted
<1>3. CASE PrepareReads \/ CallReadFails
  BY <1>3 DEF PrepareReads, CallReadFails
<1>4. CASE CloseFlushes \/ CloseSendsDone \/ CloseReturns
  BY <1>4 DEF CloseFlushes, CloseSendsDone, CloseReturns
<1>5. CASE AwaitsReady
  BY <1>5 DEF AwaitsReady
<1>6. CASE Prepare \/ Exec \/ CopyData \/ ExecRefused
  BY <1>6 DEF Prepare, Exec, CopyData, PutRow, ExecRefused
<1>7. CASE Sync \/ Close \/ CloseAgain
  BY <1>7 DEF Sync, Close, StartsClosing, CloseAgain
<1>8. CASE Query \/ ConnExec \/ ExtendedRequest \/ EndTx
  BY <1>8 DEF Query, Sees, Requests
<1>9. CASE Resploop \/ ResploopReadFails \/ Signal
  BY <1>9 DEF Resploop, ResploopReadFails, Signal
<1>10. CASE UNCHANGED vars
  BY <1>10 DEF vars
<1> QED
  BY <1>1, <1>2, <1>3, <1>4, <1>5, <1>6, <1>7, <1>8, <1>9, <1>10
     DEF Next, Continues, Calls, Reader

\* A message that is read: what comes after it came before, and after ReadyForQuery
\* there is nothing.
LEMMA ReadElements ==
    ASSUME NetInv, Arrived, Reads
    PROVE  /\ Len(toClient') = Len(toClient) - 1 /\ Len(toClient) \in Nat \ {0}
           /\ \A i \in 1..Len(toClient') :
                 i + 1 \in 1..Len(toClient) /\ toClient'[i] = toClient[i + 1]
           /\ 1 \in 1..Len(toClient) /\ Head(toClient) = toClient[1]
           /\ \A t : Coming(t)' => Coming(t)
           /\ Coming(Head(toClient).type)
<1>1. /\ Len(toClient') = Len(toClient) - 1 /\ Len(toClient) \in Nat \ {0}
      /\ \A i \in 1..Len(toClient') :
            i + 1 \in 1..Len(toClient) /\ toClient'[i] = toClient[i + 1]
      /\ 1 \in 1..Len(toClient) /\ Head(toClient) = toClient[1]
  BY TailElements DEF NetInv, Arrived, Reads
<1> QED
  BY <1>1 DEF Coming

LEMMA ReadyIsLast ==
    ASSUME NetInv, Usable, ReadyInv, Arrived, Reads, Head(toClient).type = "Z"
    PROVE  toClient' = <<>> /\ mode = "ready" /\ Head(toClient).val = stxn
<1>1. 1 \in 1..Len(toClient) /\ Head(toClient) = toClient[1]
  BY ReadElements
<1>2. Len(toClient) = 1 /\ mode = "ready" /\ Head(toClient).val = stxn
  BY <1>1 DEF ReadyInv
<1> QED
  BY <1>2, TailOfOne DEF NetInv, Reads

\* Nobody reads while a request is on its way, so nobody disturbs it.
LEMMA NoRequestWhenRead ==
    ASSUME RequestInv, Arrived
    PROVE  \A i \in 1..Len(toServer) : toServer[i].type \notin RequestTypes
BY DEF RequestInv, Arrived

LEMMA ReadKeeps ==
    ASSUME NetInv, Usable, RequestInv, ReadyInv, Arrived, Reads, UNCHANGED <<toServer, mode, stxn>>
    PROVE  RequestInv' /\ ReadyInv'
<1>1. RequestInv'
  BY NoRequestWhenRead DEF RequestInv
<1>2. ASSUME NEW i \in 1..Len(toClient'), toClient'[i].type = "Z"
      PROVE  i = Len(toClient') /\ toClient'[i].val = stxn /\ mode = "ready"
  BY <1>2, ReadElements DEF ReadyInv
<1> QED
  BY <1>1, <1>2 DEF ReadyInv

\* What is sent comes after what was.
LEMMA WriteElements ==
    ASSUME NetInv, NEW m, Writes(<<m>>)
    PROVE  /\ Len(toServer') = Len(toServer) + 1 /\ Len(toServer) \in Nat
           /\ \A i \in 1..Len(toServer) : toServer'[i] = toServer[i]
           /\ toServer'[Len(toServer) + 1] = m
BY AppendElements DEF NetInv, Writes

LEMMA WriteKeeps ==
    ASSUME NetInv, NEW m, Writes(<<m>>), m.type \notin RequestTypes,
           \A i \in 1..Len(toServer) : toServer[i].type \notin RequestTypes
    PROVE  RequestInv'
<1>1. \A i \in 1..Len(toServer') : toServer'[i].type \notin RequestTypes
  BY WriteElements
<1> QED
  BY <1>1 DEF RequestInv

LEMMA NoRequestAtRest ==
    ASSUME RequestInv, pc = "rest" \/ Closing \/ pc = "awaitAbort"
    PROVE  \A i \in 1..Len(toServer) : toServer[i].type \notin RequestTypes
BY DEF RequestInv, Closing

LEMMA RequestKeeps ==
    ASSUME NetInv, RequestInv, NEW m, Writes(<<m>>), m.type \in RequestTypes,
           pc = "rest", toClient' = <<>>, mode' = "ready",
           pc' = IF m.type = "copy" THEN "awaitCopyIn" ELSE "awaitReady"
    PROVE  RequestInv'
<1>1. \A i \in 1..Len(toServer) : toServer[i].type \notin RequestTypes
  BY NoRequestAtRest
<1>2. ASSUME NEW i \in 1..Len(toServer'), toServer'[i].type \in RequestTypes
      PROVE  i = Len(toServer') /\ toServer'[i] = m
  BY <1>1, <1>2, WriteElements
<1> QED
  BY <1>2 DEF RequestInv

--------------------------------------------------------------------------------
(* StepInv, from the calls *)

LEMMA PrepareSteps ==
    ASSUME ~beside', NetInv, CallInv, StepInv, Prepare
    PROVE  StepInv'
<1> SUFFICES ASSUME Usable' PROVE (RequestInv /\ ReadyInv /\ PhaseInv /\ SettledInv)'
  BY DEF StepInv
<1>1. Usable /\ RequestInv /\ ReadyInv /\ PhaseInv /\ SettledInv /\ pc = "rest"
  BY DEF Prepare, GoesBad, Unread, Usable, StepInv
<1>2. UNCHANGED <<toClient, mode, txnStatus, stxn, inCopy, resp>>
      /\ stmt' = IF stmt = "open" THEN stmt ELSE "none"
  BY DEF Prepare, Unread
<1>3. ReadyInv'
  BY <1>1, <1>2 DEF ReadyInv
<1>4. CASE UNCHANGED toServer /\ pc' = "rest"
  BY <1>1, <1>2, <1>3, <1>4
     DEF RequestInv, PhaseInv, SettledInv, Coming, Copying, Closing, Preparing
<1>5. CASE Writes(<<Msg("copy")>>) /\ pc' = "awaitCopyIn" /\ txnStatus # "I" /\ NotesRequest
  <2>1. stmt # "open"
    BY <1>5 DEF NotesRequest
  <2>2. toClient = <<>> /\ mode = "ready" /\ txnStatus = stxn /\ ~Copying /\ ~inCopy
    BY <1>1, <2>1 DEF SettledInv, PhaseInv, Copying, Closing
  <2>3. RequestInv'
    BY <1>1, <1>2, <1>5, <2>2, RequestKeeps DEF Msg, RequestTypes
  <2> QED
    BY <1>2, <1>3, <1>5, <2>1, <2>2, <2>3 DEF PhaseInv, SettledInv, Copying, Closing, Preparing
<1> QED
  BY <1>4, <1>5 DEF Prepare, Returns, GoesBad, Usable

LEMMA QuerySteps ==
    ASSUME ~beside', NetInv, CallInv, StepInv, Query \/ ConnExec \/ ExtendedRequest \/ EndTx
    PROVE  StepInv'
<1> SUFFICES ASSUME Usable' PROVE (RequestInv /\ ReadyInv /\ PhaseInv /\ SettledInv)'
  BY DEF StepInv
<1>1. Usable /\ RequestInv /\ ReadyInv /\ PhaseInv /\ SettledInv /\ pc = "rest"
  BY DEF Query, Requests, GoesBad, Unread, Usable, StepInv
<1>2. UNCHANGED <<toClient, mode, txnStatus, stxn, inCopy, stmt, resp>>
  BY DEF Query, Requests, Unread
<1>3. ReadyInv'
  BY <1>1, <1>2 DEF ReadyInv
<1>4. CASE UNCHANGED toServer /\ pc' = "rest"
  BY <1>1, <1>2, <1>3, <1>4 DEF RequestInv, PhaseInv, SettledInv, Copying, Closing, Preparing, Coming
<1>5. ASSUME stmt # "open", NEW t \in {"query", "extended", "end"}, Writes(<<Msg(t)>>),
             pc' = "awaitReady"
      PROVE  (RequestInv /\ PhaseInv /\ SettledInv)'
  <2>1. toClient = <<>> /\ mode = "ready"
    BY <1>1, <1>5 DEF SettledInv
  <2>2. RequestInv'
    BY <1>1, <1>2, <1>5, <2>1, RequestKeeps DEF Msg, RequestTypes
  <2> QED
    BY <1>1, <1>2, <1>5, <2>1, <2>2 DEF PhaseInv, SettledInv, Copying, Closing, Preparing
<1>6. CASE Query
  <2>1. ~Sees => stmt # "open"
    BY <1>1 DEF CallInv, Copying, Sees, Usable
  <2> QED
    BY <1>3, <1>4, <1>5, <1>6, <2>1 DEF Query, Returns, GoesBad, Usable
<1>7. ASSUME NEW t \in {"query", "extended", "end"}, Requests(Msg(t))
      PROVE  (RequestInv /\ ReadyInv /\ PhaseInv /\ SettledInv)'
  <2>1. \/ UNCHANGED toServer /\ pc' = "rest"
        \/ Writes(<<Msg(t)>>) /\ pc' = "awaitReady" /\ stmt # "open"
    BY <1>7 DEF Requests, NotesRequest, Returns, GoesBad, Usable
  <2> QED
    BY <1>3, <1>4, <1>5, <2>1
<1> QED
  BY <1>6, <1>7

\* The calls of the statement keep what is said of the connection: they send nothing
\* but rows, and the server's view of the COPY does not change by it.
LEMMA StatementKeeps ==
    ASSUME NetInv, CallInv, Usable, StepInv,
           Copying, Copying', UNCHANGED <<toClient, mode, txnStatus, stxn, inCopy, resp>>,
           \/ UNCHANGED toServer
           \/ \E m : Writes(<<m>>) /\ m.type \notin RequestTypes
    PROVE  (RequestInv /\ ReadyInv /\ PhaseInv /\ SettledInv)'
<1>1. RequestInv /\ ReadyInv /\ PhaseInv /\ SettledInv
  BY DEF StepInv
<1>2. \A i \in 1..Len(toServer) : toServer[i].type \notin RequestTypes
  BY <1>1, NoRequestAtRest DEF Copying, CallInv
<1>3. RequestInv'
  <2>1. CASE UNCHANGED toServer
    BY <1>2, <2>1 DEF RequestInv
  <2>2. ASSUME NEW m, Writes(<<m>>), m.type \notin RequestTypes
        PROVE  RequestInv'
    BY <1>2, <2>2, WriteKeeps
  <2> QED
    BY <2>1, <2>2
<1>4. ReadyInv'
  BY <1>1 DEF ReadyInv
<1> QED
  BY <1>1, <1>3, <1>4 DEF PhaseInv, SettledInv, Coming, Copying, Closing, Preparing

LEMMA PutRowSteps ==
    ASSUME NetInv, CallInv, StepInv, NEW row, NEW capacity, PutRow(row, capacity)
    PROVE  StepInv'
<1> SUFFICES ASSUME Usable' PROVE (RequestInv /\ ReadyInv /\ PhaseInv /\ SettledInv)'
  BY DEF StepInv
<1>1. Usable /\ Copying /\ Copying'
  BY DEF PutRow, GoesBad, Unread, Usable, Copying
<1>2. UNCHANGED <<toClient, mode, txnStatus, stxn, inCopy, resp>>
  BY DEF PutRow, Unread
<1>3. \/ UNCHANGED toServer
      \/ \E m : Writes(<<m>>) /\ m.type \notin RequestTypes
  <2>1. RowData(Append(buffer, row)).type \notin RequestTypes
    BY DEF RowData, RequestTypes
  <2> QED
    BY <2>1 DEF PutRow, WriteFails
<1> QED
  BY <1>1, <1>2, <1>3, StatementKeeps

LEMMA ClosingSteps ==
    ASSUME NetInv, CallInv, StepInv, Sync \/ Close \/ CloseFlushes \/ CloseSendsDone
    PROVE  StepInv'
<1> SUFFICES ASSUME Usable' PROVE (RequestInv /\ ReadyInv /\ PhaseInv /\ SettledInv)'
  BY DEF StepInv
<1>1. Usable /\ Copying /\ Copying'
  BY DEF Sync, Close, StartsClosing, CloseFlushes, CloseSendsDone, WriteFails, GoesBad, Unread,
         Usable, Copying, Closing
<1>2. UNCHANGED <<toClient, mode, txnStatus, stxn, inCopy, resp>>
  BY DEF Sync, Close, StartsClosing, CloseFlushes, CloseSendsDone, Unread
<1>3. \/ UNCHANGED toServer
      \/ \E m : Writes(<<m>>) /\ m.type \notin RequestTypes
  BY DEF Sync, Close, StartsClosing, CloseFlushes, CloseSendsDone, WriteFails, RowData, Msg,
         RequestTypes
<1> QED
  BY <1>1, <1>2, <1>3, StatementKeeps

LEMMA CloseReturnsSteps ==
    ASSUME DoneInv, CallInv, StepInv, CloseReturns
    PROVE  StepInv'
<1> SUFFICES ASSUME Usable' PROVE (RequestInv /\ ReadyInv /\ PhaseInv /\ SettledInv)'
  BY DEF StepInv
<1>1. Usable /\ RequestInv /\ ReadyInv /\ PhaseInv /\ SettledInv
  BY DEF CloseReturns, Usable, StepInv
<1>2. toClient = <<>> /\ mode = "ready" /\ txnStatus = stxn
  BY <1>1 DEF CloseReturns, ResploopIsDone, DoneInv, SettledInv, Copying, Closing
<1>3. RequestInv'
  <2>1. \A j \in 1..Len(toServer) : toServer[j].type \notin RequestTypes
    BY <1>1, NoRequestAtRest DEF CloseReturns, Closing
  <2> QED
    BY <2>1 DEF CloseReturns, RequestInv
<1>4. stmt' = "closed" /\ pc' = "rest" /\ ~inCopy'
  BY DEF CloseReturns, Returns, CallInv, Closing
<1>5. UNCHANGED <<toClient, mode, txnStatus, stxn>>
  BY DEF CloseReturns
<1> QED
  BY <1>2, <1>3, <1>4, <1>5 DEF ReadyInv, PhaseInv, SettledInv, Copying, Closing, Preparing

LEMMA NothingSteps ==
    ASSUME StepInv, ExecRefused \/ CloseAgain \/ UNCHANGED vars
    PROVE  StepInv'
<1>1. UNCHANGED <<connVars, copyVars, serverVars, pc>>
  BY DEF ExecRefused, Refused, CloseAgain, Returns, vars
<1> QED
  BY <1>1 DEF StepInv, RequestInv, ReadyInv, PhaseInv, SettledInv, Coming, Copying, Closing,
              Preparing, Usable

\* StepInv, from those who read.

LEMMA CopyInStartsSteps ==
    ASSUME SoleReader, NetInv, CallInv, StartInv, StepInv, CopyInStarts
    PROVE  StepInv'
<1> SUFFICES ASSUME Usable' PROVE (RequestInv /\ ReadyInv /\ PhaseInv /\ SettledInv)'
  BY DEF StepInv
<1>1. Usable /\ RequestInv /\ ReadyInv /\ PhaseInv /\ SettledInv /\ Arrived /\ Reads
  BY DEF CopyInStarts, Quiet, Usable, StepInv
<1>2. UNCHANGED <<toServer, mode, stxn, txnStatus>> /\ resp' = "reads" /\ stmt' = "open"
      /\ inCopy' /\ pc' = "rest" /\ Preparing
  BY DEF CopyInStarts, Quiet, Returns, Preparing
<1>3. RequestInv' /\ ReadyInv'
  BY <1>1, <1>2, ReadKeeps
<1>4. PhaseInv'
  BY <1>1, <1>2, ReadElements DEF PhaseInv, Copying, Preparing
<1> QED
  BY <1>2, <1>3, <1>4 DEF SettledInv, Copying, Closing

LEMMA CopyAbortedSteps ==
    ASSUME NetInv, CallInv, StepInv, CopyAborted
    PROVE  StepInv'
<1> SUFFICES ASSUME Usable' PROVE (RequestInv /\ ReadyInv /\ PhaseInv /\ SettledInv)'
  BY DEF StepInv
<1>1. Usable /\ RequestInv /\ ReadyInv /\ PhaseInv /\ SettledInv /\ Arrived /\ Reads
  BY DEF CopyAborted, GoesBad, WriteFails, Usable, StepInv
<1>2. Writes(<<Msg("f")>>) /\ pc = "awaitCopyIn" /\ pc' = "awaitAbort"
  BY DEF CopyAborted, GoesBad, Usable
<1>3. UNCHANGED <<mode, stxn, txnStatus, resp, stmt, inCopy>> /\ stmt # "open"
  BY <1>2 DEF CopyAborted, CallInv
<1>4. RequestInv'
  BY <1>1, <1>2, NoRequestWhenRead, WriteKeeps DEF Msg, RequestTypes
<1>5. ASSUME NEW i \in 1..Len(toClient'), toClient'[i].type = "Z"
      PROVE  i = Len(toClient') /\ toClient'[i].val = stxn /\ mode = "ready"
  BY <1>1, <1>5, ReadElements DEF ReadyInv
<1>6. PhaseInv'
  BY <1>1, <1>2, <1>3, ReadElements DEF PhaseInv, Copying, Closing, Preparing
<1> QED
  BY <1>2, <1>3, <1>4, <1>5, <1>6 DEF ReadyInv, SettledInv, Copying, Closing

\* A call that reads: it goes on, or it returns having read everything.
LEMMA CallReadsKeeps ==
    ASSUME NetInv, Usable, StepInv, Awaiting, ~Copying, Arrived, Reads,
           UNCHANGED <<toServer, mode, stxn, resp, stmt, inCopy>>,
           \/ pc' = pc
           \/ pc' = "rest" /\ Head(toClient).type = "Z" /\ txnStatus' = Head(toClient).val
    PROVE  (RequestInv /\ ReadyInv /\ PhaseInv /\ SettledInv)'
<1>1. RequestInv /\ ReadyInv /\ PhaseInv
  BY DEF StepInv
<1>2. RequestInv' /\ ReadyInv'
  BY <1>1, ReadKeeps
<1>3. pc' = "rest" => toClient' = <<>> /\ mode = "ready" /\ txnStatus' = stxn
  BY <1>1, ReadyIsLast DEF Awaiting
<1>4. PhaseInv'
  BY <1>1, <1>3, ReadElements DEF PhaseInv, Awaiting, Copying, Closing, Preparing
<1>5. SettledInv'
  BY <1>3 DEF SettledInv, Awaiting, Copying, Closing
<1> QED
  BY <1>2, <1>4, <1>5

LEMMA CallReadsSteps ==
    ASSUME NetInv, CallInv, StepInv, CopyInPanics \/ PrepareReads \/ AwaitsReady \/ CallReadFails
    PROVE  StepInv'
<1> SUFFICES ASSUME Usable' PROVE (RequestInv /\ ReadyInv /\ PhaseInv /\ SettledInv)'
  BY DEF StepInv
<1>1. Awaiting /\ ~Copying
  BY DEF CopyInPanics, PrepareReads, AwaitsReady, CallReadFails, Awaiting, CallInv, Copying, Closing
<1>2. CASE PrepareReads
  <2>1. Usable /\ Arrived /\ Reads /\ UNCHANGED <<toServer, mode, stxn, resp, stmt, inCopy>>
    BY <1>2 DEF PrepareReads, GoesBad, Quiet, Usable
  <2>2. \/ pc' = pc
        \/ pc' = "rest" /\ Head(toClient).type = "Z" /\ txnStatus' = Head(toClient).val
    BY <1>2 DEF PrepareReads, GoesBad, Usable, Returns
  <2> QED
    BY <1>1, <2>1, <2>2, CallReadsKeeps
<1>3. CASE AwaitsReady
  <2>1. Usable /\ Arrived /\ Reads /\ UNCHANGED <<toServer, mode, stxn, resp, stmt, inCopy>>
    BY <1>3 DEF AwaitsReady, GoesBad, Quiet, Usable
  <2>2. \/ pc' = pc
        \/ pc' = "rest" /\ Head(toClient).type = "Z" /\ txnStatus' = Head(toClient).val
    BY <1>3 DEF AwaitsReady, GoesBad, Usable, Returns
  <2> QED
    BY <1>1, <2>1, <2>2, CallReadsKeeps
<1>4. ~CopyInPanics /\ ~CallReadFails
  BY DEF CopyInPanics, CallReadFails, GoesBad, Broken, Unread, Usable
<1> QED
  BY <1>2, <1>3, <1>4

LEMMA ResploopSteps ==
    ASSUME IInv, NetInv, CallInv, StepInv, Reader
    PROVE  StepInv'
<1> SUFFICES ASSUME Usable' PROVE (RequestInv /\ ReadyInv /\ PhaseInv /\ SettledInv)'
  BY DEF StepInv
<1>1. CASE Resploop
  <2>1. Usable /\ RequestInv /\ ReadyInv /\ PhaseInv /\ SettledInv /\ Arrived /\ Reads
    BY <1>1 DEF Resploop, GoesBad, Quiet, Usable, StepInv
  <2>2. UNCHANGED <<toServer, mode, stxn, stmt, pc, inCopy>> /\ resp = "reads"
    BY <1>1 DEF Resploop, Quiet
  <2>3. RequestInv' /\ ReadyInv'
    BY <2>1, <2>2, ReadKeeps
  <2>4. Copying
    BY <2>1, <2>2 DEF IInv, ReadingInv, Reading, PhaseInv
  <2>5. pc = "rest" => stmt = "open"
    BY <2>4 DEF Copying, Closing
  <2>6. CASE Head(toClient).type = "Z"
    <3>1. toClient' = <<>> /\ mode = "ready" /\ txnStatus' = stxn
      BY <1>1, <2>1, <2>6, ReadyIsLast DEF Resploop
    <3> QED
      BY <2>1, <2>2, <2>3, <3>1 DEF PhaseInv, SettledInv, Copying, Closing, Preparing
  <2>7. CASE Head(toClient).type # "Z"
    <3>1. UNCHANGED <<resp, txnStatus>>
      BY <1>1, <2>7 DEF Resploop, GoesBad, Usable
    <3> QED
      BY <2>1, <2>2, <2>3, <2>5, <3>1, ReadElements
         DEF PhaseInv, SettledInv, Copying, Closing, Preparing
  <2> QED
    BY <2>6, <2>7
<1>2. CASE Signal
  <2>1. UNCHANGED <<toServer, toClient, mode, stxn, txnStatus, stmt, pc, inCopy>>
        /\ resp = "signals" /\ resp' = "over" /\ Usable
    BY <1>2 DEF Signal, Usable
  <2> QED
    BY <2>1 DEF StepInv, RequestInv, ReadyInv, PhaseInv, SettledInv, Coming, Copying, Closing,
                Preparing
<1>3. ~ResploopReadFails
  BY DEF ResploopReadFails, GoesBad, Usable
<1> QED
  BY <1>1, <1>2, <1>3 DEF Reader

\* StepInv, from the server and the network.

\* What the server says comes after what it said before.
LEMMA SaysElements ==
    ASSUME NetInv, NEW msgs \in Seq(ServerMessages), Says(msgs)
    PROVE  /\ Len(toClient') = Len(toClient) + Len(msgs)
           /\ Len(toClient) \in Nat /\ Len(msgs) \in Nat
           /\ \A i \in 1..Len(toClient) : toClient'[i] = toClient[i]
           /\ \A i \in 1..Len(msgs) : toClient'[Len(toClient) + i] = msgs[i]
           /\ \A i \in 1..Len(toClient') : i \in 1..Len(toClient) \/
                 \E j \in 1..Len(msgs) : i = Len(toClient) + j /\ toClient'[i] = msgs[j]
<1>1. /\ Len(toClient') = Len(toClient) + Len(msgs)
      /\ Len(toClient) \in Nat /\ Len(msgs) \in Nat
      /\ \A i \in 1..Len(toClient) : toClient'[i] = toClient[i]
      /\ \A i \in 1..Len(msgs) : toClient'[Len(toClient) + i] = msgs[i]
  BY DEF NetInv, Says
<1>2. ASSUME NEW i \in 1..Len(toClient'), i \notin 1..Len(toClient)
      PROVE  \E j \in 1..Len(msgs) : i = Len(toClient) + j /\ toClient'[i] = msgs[j]
  <2>1. i - Len(toClient) \in 1..Len(msgs) /\ i = Len(toClient) + (i - Len(toClient))
    BY <1>1, <1>2
  <2> QED
    BY <1>1, <2>1
<1> QED
  BY <1>1, <1>2

LEMMA SaysOneMore ==
    ASSUME NetInv, NEW m \in ServerMessages, Says(<<m>>)
    PROVE  /\ Len(toClient') = Len(toClient) + 1 /\ Len(toClient) \in Nat
           /\ \A i \in 1..Len(toClient) : toClient'[i] = toClient[i]
           /\ toClient'[Len(toClient) + 1] = m
           /\ \A t : Coming(t)' <=> Coming(t) \/ m.type = t
<1>1. /\ Len(toClient') = Len(toClient) + 1 /\ Len(toClient) \in Nat
      /\ \A i \in 1..Len(toClient) : toClient'[i] = toClient[i]
      /\ toClient'[Len(toClient) + 1] = m
  BY AppendElements DEF NetInv, Says
<1>2. \A i \in 1..Len(toClient') : i \in 1..Len(toClient) \/ i = Len(toClient) + 1
  BY <1>1
<1>3. ASSUME NEW t
      PROVE  Coming(t)' <=> Coming(t) \/ m.type = t
  <2>1. Coming(t) => Coming(t)'
    BY <1>1 DEF Coming
  <2>2. m.type = t => Coming(t)'
    BY <1>1 DEF Coming
  <2>3. Coming(t)' => Coming(t) \/ m.type = t
    BY <1>1, <1>2 DEF Coming
  <2> QED
    BY <2>1, <2>2, <2>3
<1> QED
  BY <1>1, <1>3

\* An answer ends in ReadyForQuery.
LEMMA SaysReady ==
    ASSUME NetInv, ~Coming("Z"), NEW m \in ServerMessages, NEW s \in TxnStatuses,
           Says(<<m, ReadyForQuery(s)>>), m.type # "Z", mode' = "ready", stxn' = s
    PROVE  ReadyInv' /\ Len(toClient') = Len(toClient) + 2
<1> DEFINE msgs == <<m, ReadyForQuery(s)>>
<1>1. msgs \in Seq(ServerMessages) /\ Len(msgs) = 2
  BY ServerMessagesAre
<1>2. msgs[1] = m /\ msgs[2].type = "Z" /\ msgs[2].val = s
  BY DEF ReadyForQuery
<1> HIDE DEF msgs
<1>3. Says(msgs)
  BY DEF msgs
<1>4. Len(toClient') = Len(toClient) + 2 /\ Len(toClient) \in Nat
  BY <1>1, <1>3, SaysElements
<1>5. ASSUME NEW i \in 1..Len(toClient'), toClient'[i].type = "Z"
      PROVE  i = Len(toClient') /\ toClient'[i].val = s
  <2>1. i \notin 1..Len(toClient)
    BY <1>1, <1>3, <1>5, SaysElements DEF Coming
  <2>2. PICK j \in 1..Len(msgs) : i = Len(toClient) + j /\ toClient'[i] = msgs[j]
    BY <1>1, <1>3, <2>1, SaysElements
  <2>3. j = 2
    BY <1>1, <1>2, <1>5, <2>2
  <2> QED
    BY <1>2, <1>4, <2>2, <2>3
<1> QED
  BY <1>4, <1>5 DEF ReadyInv

\* What the server takes from the connection.
LEMMA TakeElements ==
    ASSUME NetInv, Server
    PROVE  /\ Len(toServer') = Len(toServer) - 1 /\ Len(toServer) \in Nat \ {0}
           /\ \A i \in 1..Len(toServer') :
                 i + 1 \in 1..Len(toServer) /\ toServer'[i] = toServer[i + 1]
           /\ 1 \in 1..Len(toServer) /\ Head(toServer) = toServer[1]
           /\ Head(toServer) \in ClientMessages
BY TailElements DEF NetInv, Server

\* While the server waits for rows no ReadyForQuery is on its way, and no request.
LEMMA NothingInCopy ==
    ASSUME RequestInv, ReadyInv, mode = "copy"
    PROVE  /\ ~Coming("Z")
           /\ \A i \in 1..Len(toServer) : toServer[i].type \notin RequestTypes
BY DEF RequestInv, ReadyInv, Coming

LEMMA NoRequestTaken ==
    ASSUME NetInv, RequestInv, ReadyInv, Server, mode = "copy"
    PROVE  Head(toServer).type # "extended"
BY NothingInCopy, TakeElements DEF RequestTypes

LEMMA ServerFailsIs ==
    ASSUME ServerFails(<<>>), stxn \in TxnStatuses
    PROVE  /\ stxn' \in TxnStatuses /\ (stxn # "I" => stxn' = "E") /\ (stxn = "I" => stxn' = "I")
           /\ Says(<<Msg("E"), ReadyForQuery(stxn')>>)
<1> DEFINE s == Failed
<1>1. s \in TxnStatuses /\ stxn' = s
  BY DEF ServerFails, Failed, TxnStatuses
<1>2. Says(<<Msg("E"), ReadyForQuery(s)>>)
  <2>1. <<Msg("E"), ReadyForQuery(s)>> \in Seq({Msg("E"), ReadyForQuery(s)})
    OBVIOUS
  <2> QED
    BY <2>1 DEF ServerFails, Says
<1> QED
  BY <1>1, <1>2 DEF Failed

LEMMA MsgType == \A t : Msg(t).type = t
BY DEF Msg

LEMMA ServerCopiesSteps ==
    ASSUME TypeInv, StepInv, Usable, Server, mode = "copy"
    PROVE  (RequestInv /\ ReadyInv /\ PhaseInv /\ SettledInv)'
<1> DEFINE m == Head(toServer)
<1>1. RequestInv /\ ReadyInv /\ PhaseInv /\ SettledInv /\ NetInv /\ stxn = "T"
  BY DEF StepInv, TypeInv, PhaseInv
<1>2. /\ ~Coming("Z")
      /\ \A i \in 1..Len(toServer) : toServer[i].type \notin RequestTypes
  BY <1>1, NothingInCopy
<1>3. UNCHANGED <<pc, stmt, inCopy, resp, txnStatus>> /\ ServerCopies(m)
  BY DEF Server
<1>4. RequestInv'
  BY <1>1, <1>2, TakeElements DEF RequestInv
<1>5. CASE UNCHANGED <<mode, stxn, toClient>>
  BY <1>1, <1>3, <1>4, <1>5
     DEF ReadyInv, PhaseInv, SettledInv, Coming, Copying, Closing, Preparing
<1>6. ASSUME NEW t \in {"C", "E"}, NEW s \in TxnStatuses, s # "I",
             Says(<<Msg(t), ReadyForQuery(s)>>), mode' = "ready", stxn' = s
      PROVE  (ReadyInv /\ PhaseInv /\ SettledInv)'
  <2>1. ReadyInv'
    BY <1>1, <1>2, <1>6, SaysReady, ServerMessagesAre, MsgType
  <2> QED
    BY <1>1, <1>3, <1>6, <2>1 DEF PhaseInv, SettledInv, Copying, Closing, Preparing
<1>7. "T" \in TxnStatuses /\ "E" \in TxnStatuses
  BY DEF TxnStatuses
<1>8. m.type # "extended"
  BY <1>1, NoRequestTaken
<1> QED
  BY <1>1, <1>3, <1>4, <1>5, <1>6, <1>7, <1>8, ServerFailsIs DEF ServerCopies

LEMMA ServerQueriesSteps ==
    ASSUME TypeInv, CallInv, StepInv, Usable, Server, mode # "copy"
    PROVE  (RequestInv /\ ReadyInv /\ PhaseInv /\ SettledInv)'
<1> DEFINE m == Head(toServer)
<1>1. /\ RequestInv /\ ReadyInv /\ PhaseInv /\ SettledInv /\ NetInv
      /\ mode = "ready" /\ stxn \in TxnStatuses
  BY DEF StepInv, TypeInv, FlagInv, CopyInv
<1>2. UNCHANGED <<pc, stmt, inCopy, resp, txnStatus, bad, link>> /\ ServerQueries(m)
  BY DEF Server
<1>3. CASE UNCHANGED <<mode, stxn, toClient>>
  <2>1. ASSUME NEW i \in 1..Len(toServer'), toServer'[i].type \in RequestTypes
        PROVE  /\ i = Len(toServer') /\ toClient = <<>>
               /\ pc = IF toServer'[i].type = "copy" THEN "awaitCopyIn" ELSE "awaitReady"
    BY <1>1, <2>1, TakeElements DEF RequestInv
  <2> QED
    BY <1>1, <1>2, <1>3, <2>1
       DEF RequestInv, ReadyInv, PhaseInv, SettledInv, Coming, Copying, Closing, Preparing
<1>4. ASSUME m.type \in RequestTypes
      PROVE  /\ toClient = <<>> /\ toServer' = <<>>
             /\ pc = IF m.type = "copy" THEN "awaitCopyIn" ELSE "awaitReady"
  <2>1. Len(toServer) = 1
    BY <1>1, <1>4, TakeElements DEF RequestInv
  <2> QED
    BY <1>1, <1>4, <2>1, TakeElements, TailOfOne DEF RequestInv, Server, NetInv
<1>5. ASSUME toClient = <<>>, toServer' = <<>>, ReadyInv',
             pc = "awaitReady" \/ (pc = "awaitCopyIn" /\ stxn' # "I"),
             mode' = "copy" => stxn' = "T" /\ ~Coming("E")' /\ ~Coming("C")' /\ pc = "awaitCopyIn"
      PROVE  (RequestInv /\ ReadyInv /\ PhaseInv /\ SettledInv)'
  <2>1. ~Copying /\ pc # "rest"
    BY <1>5 DEF CallInv, Copying, Closing
  <2> QED
    BY <1>1, <1>2, <1>5, <2>1 DEF RequestInv, PhaseInv, SettledInv, Copying, Closing, Preparing
<1>6. ASSUME toClient = <<>>, NEW t \in {"C", "E"}, NEW s \in TxnStatuses,
             Says(<<Msg(t), ReadyForQuery(s)>>), stxn' = s, UNCHANGED mode
      PROVE  ReadyInv'
  <2>1. ~Coming("Z")
    BY <1>6 DEF Coming
  <2> QED
    BY <1>1, <1>6, <2>1, SaysReady, ServerMessagesAre, MsgType
<1>7. CASE m.type = "copy" /\ ServerStartsCopy
  <2>1. toClient = <<>> /\ toServer' = <<>> /\ pc = "awaitCopyIn" /\ stxn # "I"
    BY <1>1, <1>4, <1>7 DEF RequestTypes, PhaseInv, Preparing
  <2>2. ASSUME NEW f \in Formats, NEW n \in Columns, Says(<<CopyInResponse(f, n)>>),
               stxn # "E", mode' = "copy", UNCHANGED stxn
        PROVE  (RequestInv /\ ReadyInv /\ PhaseInv /\ SettledInv)'
    <3>1. CopyInResponse(f, n) \in ServerMessages /\ CopyInResponse(f, n).type = "G"
      BY ServerMessagesAre DEF CopyInResponse
    <3>2. \A t : Coming(t)' <=> t = "G"
      BY <1>1, <2>1, <2>2, <3>1, SaysOneMore DEF Coming
    <3>3. ReadyInv'
      BY <3>2 DEF ReadyInv, Coming
    <3>4. stxn' = "T"
      BY <1>1, <2>1, <2>2 DEF TxnStatuses
    <3> QED
      BY <1>5, <2>1, <2>2, <3>2, <3>3, <3>4
  <2>3. ASSUME NEW data \in {<<>>, <<Msg("d")>>},
               Says(<<Msg("H")>> \o data \o <<Msg("c"), Msg("C"), ReadyForQuery(stxn)>>),
               UNCHANGED <<mode, stxn>>
        PROVE  (RequestInv /\ ReadyInv /\ PhaseInv /\ SettledInv)'
    <3> DEFINE msgs == <<Msg("H")>> \o data \o <<Msg("c"), Msg("C"), ReadyForQuery(stxn)>>
    <3>1. toClient' = msgs
      <4>1. CASE data = <<>>
        BY <2>1, <2>3, <4>1 DEF Says
      <4>2. CASE data = <<Msg("d")>>
        BY <2>1, <2>3, <4>2 DEF Says
      <4> QED
        BY <4>1, <4>2
    <3>2. \A i \in 1..Len(msgs) : msgs[i].type = "Z" => i = Len(msgs) /\ msgs[i].val = stxn
      <4>1. CASE data = <<>>
        BY <4>1 DEF Msg, ReadyForQuery
      <4>2. CASE data = <<Msg("d")>>
        BY <4>2 DEF Msg, ReadyForQuery
      <4> QED
        BY <4>1, <4>2
    <3>3. ReadyInv'
      BY <1>1, <2>3, <3>1, <3>2 DEF ReadyInv
    <3> QED
      BY <1>1, <1>5, <2>1, <2>3, <3>3
  <2>4. CASE Says(<<Msg("C"), ReadyForQuery(stxn)>>) /\ UNCHANGED <<mode, stxn>>
    BY <1>1, <1>5, <1>6, <2>1, <2>4
  <2>5. CASE ServerFails(<<>>) /\ UNCHANGED mode
    <3>1. stxn' = "E" /\ stxn' \in TxnStatuses /\ Says(<<Msg("E"), ReadyForQuery(stxn')>>)
      BY <1>1, <2>1, <2>5, ServerFailsIs
    <3> QED
      BY <1>1, <1>5, <1>6, <2>1, <2>5, <3>1
  <2> QED
    BY <1>7, <2>2, <2>3, <2>4, <2>5 DEF ServerStartsCopy
<1>8. ASSUME m.type \in {"end", "query", "extended"}, NEW t \in {"C", "E"}, NEW s \in TxnStatuses,
             Says(<<Msg(t), ReadyForQuery(s)>>), stxn' = s, UNCHANGED mode
      PROVE  (RequestInv /\ ReadyInv /\ PhaseInv /\ SettledInv)'
  <2>1. toClient = <<>> /\ toServer' = <<>> /\ pc = "awaitReady"
    BY <1>4, <1>8 DEF RequestTypes
  <2>2. ReadyInv'
    BY <1>6, <1>8, <2>1
  <2>3. mode' # "copy"
    BY <1>1, <1>8
  <2> QED
    BY <1>5, <2>1, <2>2, <2>3
<1>9. CASE m.type = "end" /\ stxn' = "I" /\ Says(<<Msg("C"), ReadyForQuery("I")>>) /\ UNCHANGED mode
  <2>1. "I" \in TxnStatuses /\ m.type \in {"end", "query", "extended"} /\ "C" \in {"C", "E"}
    BY <1>9 DEF TxnStatuses
  <2> HIDE DEF m
  <2> QED
    BY <1>8, <1>9, <2>1
<1>10. CASE m.type \in {"query", "extended"} /\ UNCHANGED mode /\ ServerFails(<<>>)
  BY <1>1, <1>8, <1>10, ServerFailsIs
<1>11. CASE /\ m.type \in {"query", "extended"} /\ UNCHANGED <<mode, stxn>>
            /\ Says(<<Msg("C"), ReadyForQuery(stxn)>>)
  BY <1>1, <1>8, <1>11
<1> QED
  BY <1>2, <1>3, <1>7, <1>9, <1>10, <1>11 DEF ServerQueries

LEMMA EnvironmentSteps ==
    ASSUME TypeInv, CallInv, StepInv, Environment
    PROVE  StepInv'
<1> SUFFICES ASSUME Usable' PROVE (RequestInv /\ ReadyInv /\ PhaseInv /\ SettledInv)'
  BY DEF StepInv
<1>1. CASE Server
  BY <1>1, ServerCopiesSteps, ServerQueriesSteps DEF Server, Usable
<1>2. CASE ServerUnasked
  <2>1. /\ Usable /\ RequestInv /\ ReadyInv /\ PhaseInv /\ SettledInv /\ NetInv
        /\ mode = "copy"
    BY <1>2 DEF ServerUnasked, Usable, StepInv, TypeInv
  <2>2. UNCHANGED <<pc, stmt, inCopy, resp, txnStatus, toServer, mode, stxn>>
    BY <1>2 DEF ServerUnasked
  <2>3. PICK t \in {"N", "S"} : Says(<<Msg(t)>>)
    BY <1>2 DEF ServerUnasked
  <2>4. \A u : Coming(u)' <=> Coming(u) \/ t = u
    BY <2>1, <2>3, SaysOneMore, ServerMessagesAre, MsgType
  <2>5. ~Coming("Z")' /\ \A i \in 1..Len(toServer) : toServer[i].type \notin RequestTypes
    BY <2>1, <2>4, NothingInCopy
  <2>6. RequestInv' /\ ReadyInv'
    BY <2>2, <2>5 DEF RequestInv, ReadyInv, Coming
  <2> QED
    BY <2>1, <2>2, <2>4, <2>6 DEF PhaseInv, SettledInv, Copying, Closing, Preparing
<1>3. ~ConnBreaks
  BY DEF ConnBreaks, Usable
<1> QED
  BY <1>1, <1>2, <1>3 DEF Environment

--------------------------------------------------------------------------------
(* StartInv *)

LEMMA NoStart ==
    ASSUME StartInv, ~bad, pc # "awaitCopyIn" \/ (toServer # <<>> /\ link = "up")
    PROVE  ~Coming("G")
BY DEF StartInv, Coming

LEMMA NothingStarts ==
    ASSUME ~bad' => ~Coming("G")'
    PROVE  StartInv'
BY DEF StartInv, Coming

\* CopyInResponse comes first, so nothing but it is read before it.
LEMMA ReadStarts ==
    ASSUME NetInv, StartInv, ~bad, Arrived, Reads
    PROVE  ~Coming("G")'
<1> SUFFICES ASSUME NEW i \in 1..Len(toClient'), toClient'[i].type = "G" PROVE FALSE
  BY DEF Coming
<1>1. i + 1 \in 1..Len(toClient) /\ toClient[i + 1].type = "G"
  BY ReadElements
<1>2. i + 1 = 1
  BY <1>1 DEF StartInv
<1> QED
  BY <1>2

LEMMA AnswerComes ==
    ASSUME NetInv, NEW m \in ServerMessages, NEW s \in TxnStatuses, Says(<<m, ReadyForQuery(s)>>)
    PROVE  /\ \A t : Coming(t)' <=> Coming(t) \/ t \in {m.type, "Z"}
           /\ \A i \in 1..Len(toClient) : toClient'[i] = toClient[i]
           /\ Len(toClient') = Len(toClient) + 2 /\ Len(toClient) \in Nat
           /\ toClient'[Len(toClient) + 1] = m /\ toClient'[Len(toClient) + 2] = ReadyForQuery(s)
<1> DEFINE msgs == <<m, ReadyForQuery(s)>>
<1>1. msgs \in Seq(ServerMessages) /\ Len(msgs) = 2 /\ msgs[1] = m /\ msgs[2] = ReadyForQuery(s)
      /\ msgs[2].type = "Z"
  BY ServerMessagesAre DEF ReadyForQuery
<1> HIDE DEF msgs
<1>2. Says(msgs)
  BY DEF msgs
<1>3. /\ Len(toClient') = Len(toClient) + 2 /\ Len(toClient) \in Nat
      /\ \A i \in 1..Len(toClient) : toClient'[i] = toClient[i]
      /\ toClient'[Len(toClient) + 1] = m /\ toClient'[Len(toClient) + 2] = msgs[2]
  <2>1. 1 \in 1..Len(msgs) /\ 2 \in 1..Len(msgs)
    BY <1>1
  <2>2. \A i \in 1..Len(msgs) : toClient'[Len(toClient) + i] = msgs[i]
    BY <1>1, <1>2, SaysElements
  <2>3. toClient'[Len(toClient) + 1] = m /\ toClient'[Len(toClient) + 2] = msgs[2]
    BY <1>1, <2>1, <2>2
  <2>4. /\ Len(toClient') = Len(toClient) + 2 /\ Len(toClient) \in Nat
        /\ \A i \in 1..Len(toClient) : toClient'[i] = toClient[i]
    BY <1>1, <1>2, SaysElements
  <2> QED
    BY <2>3, <2>4
<1>4. \A i \in 1..Len(toClient') :
         i \in 1..Len(toClient) \/ i = Len(toClient) + 1 \/ i = Len(toClient) + 2
  BY <1>3
<1>5. ASSUME NEW t
      PROVE  Coming(t)' <=> Coming(t) \/ t \in {m.type, "Z"}
  <2>1. Coming(t) => Coming(t)'
    BY <1>3 DEF Coming
  <2>2. t = m.type => Coming(t)'
    BY <1>3 DEF Coming
  <2>3. t = "Z" => Coming(t)'
    BY <1>1, <1>3 DEF Coming
  <2>4. Coming(t)' => Coming(t) \/ t \in {m.type, "Z"}
    BY <1>1, <1>3, <1>4 DEF Coming
  <2> QED
    BY <2>1, <2>2, <2>3, <2>4
<1> QED
  BY <1>1, <1>3, <1>5

LEMMA AnswerStartsNothing ==
    ASSUME NetInv, ~Coming("G"), NEW t \in {"C", "E"}, NEW s \in TxnStatuses,
           Says(<<Msg(t), ReadyForQuery(s)>>)
    PROVE  ~Coming("G")'
BY AnswerComes, ServerMessagesAre, MsgType

LEMMA ServerStarts ==
    ASSUME TypeInv, StartInv, StepInv, Usable, Server
    PROVE  StartInv'
<1> DEFINE m == Head(toServer)
<1>1. NetInv /\ stxn \in TxnStatuses /\ ~Coming("G") /\ toServer # <<>>
  BY NoStart DEF TypeInv, FlagInv, CopyInv, Server, Usable
<1>2. UNCHANGED <<pc, bad, link>>
  BY DEF Server
<1>3. CASE UNCHANGED toClient
  BY <1>1, <1>3, NothingStarts DEF Coming
<1>4. ASSUME NEW t \in {"C", "E"}, NEW s \in TxnStatuses, Says(<<Msg(t), ReadyForQuery(s)>>)
      PROVE  StartInv'
  BY <1>1, <1>4, AnswerStartsNothing, NothingStarts
<1>5. CASE ServerFails(<<>>)
  BY <1>1, <1>4, <1>5, ServerFailsIs
<1>6. CASE Says(<<Msg("C"), ReadyForQuery(stxn)>>)
  BY <1>1, <1>4, <1>6
<1>7. CASE Says(<<Msg("C"), ReadyForQuery("I")>>)
  <2>1. "I" \in TxnStatuses
    BY DEF TxnStatuses
  <2> QED
    BY <1>4, <1>7, <2>1
<1>8. CASE m.type = "copy" /\ mode # "copy" /\ ServerStartsCopy
  <2>1. 1 = Len(toServer) /\ toClient = <<>> /\ pc = "awaitCopyIn"
    BY <1>1, <1>8, TakeElements DEF StepInv, RequestInv, RequestTypes
  <2>2. toServer' = <<>>
    BY <1>1, <2>1, TailOfOne DEF Server, NetInv
  <2>3. ASSUME NEW f \in Formats, NEW n \in Columns, Says(<<CopyInResponse(f, n)>>),
               mode' = "copy", received' = <<>>
        PROVE  StartInv'
    <3>1. CopyInResponse(f, n) \in ServerMessages /\ CopyInResponse(f, n).type = "G"
      BY ServerMessagesAre DEF CopyInResponse
    <3>2. Len(toClient') = 1 /\ \A t : Coming(t)' <=> t = "G"
      BY <1>1, <2>1, <2>3, <3>1, SaysOneMore DEF Coming
    <3> QED
      BY <1>2, <2>1, <2>2, <2>3, <3>2 DEF StartInv
  <2>4. ASSUME NEW data \in {<<>>, <<Msg("d")>>},
               Says(<<Msg("H")>> \o data \o <<Msg("c"), Msg("C"), ReadyForQuery(stxn)>>)
        PROVE  StartInv'
    <3> DEFINE msgs == <<Msg("H")>> \o data \o <<Msg("c"), Msg("C"), ReadyForQuery(stxn)>>
    <3>1. toClient' = msgs
      <4>1. CASE data = <<>>
        BY <2>1, <2>4, <4>1 DEF Says
      <4>2. CASE data = <<Msg("d")>>
        BY <2>1, <2>4, <4>2 DEF Says
      <4> QED
        BY <4>1, <4>2
    <3>2. \A i \in 1..Len(msgs) : msgs[i].type # "G"
      <4>1. CASE data = <<>>
        BY <4>1 DEF Msg, ReadyForQuery
      <4>2. CASE data = <<Msg("d")>>
        BY <4>2 DEF Msg, ReadyForQuery
      <4> QED
        BY <4>1, <4>2
    <3> QED
      BY <3>1, <3>2 DEF StartInv
  <2> QED
    BY <1>5, <1>6, <1>8, <2>3, <2>4 DEF ServerStartsCopy
<1>9. CASE mode = "copy"
  <2>1. m.type # "extended"
    BY <1>1, <1>9, NoRequestTaken DEF StepInv
  <2> QED
    BY <1>3, <1>5, <1>6, <1>9, <2>1 DEF Server, ServerCopies
<1>10. CASE mode # "copy"
  BY <1>3, <1>5, <1>6, <1>7, <1>8, <1>10 DEF Server, ServerQueries
<1> QED
  BY <1>9, <1>10

\* A connection marked bad stays so.
LEMMA BadStays ==
    ASSUME [Next]_vars, ~bad'
    PROVE  ~bad
<1> USE DEF GoesBad
<1>1. CASE Environment \/ UNCHANGED vars
  BY <1>1 DEF Environment, Server, ServerUnasked, ConnBreaks, vars
<1>2. CASE CopyInStarts \/ CopyInPanics \/ CopyAborted \/ PrepareReads
  BY <1>2 DEF CopyInStarts, CopyInPanics, CopyAborted, PrepareReads
<1>3. CASE CallReadFails \/ CloseFlushes \/ CloseSendsDone \/ CloseReturns \/ AwaitsReady
  BY <1>3 DEF CallReadFails, CloseFlushes, CloseSendsDone, CloseReturns, AwaitsReady
<1>4. CASE Prepare \/ Exec \/ CopyData
  BY <1>4 DEF Prepare, Exec, CopyData, PutRow
<1>5. CASE \/ ExecRefused \/ Sync \/ Close \/ CloseAgain
           \/ Query \/ ConnExec \/ ExtendedRequest \/ EndTx
  BY <1>5 DEF ExecRefused, Sync, Close, StartsClosing, CloseAgain, Query, Requests
<1>6. CASE Reader
  BY <1>6 DEF Reader, Resploop, ResploopReadFails, Signal
<1> QED
  BY <1>1, <1>2, <1>3, <1>4, <1>5, <1>6 DEF Next, Continues, Calls

LEMMA StartInvStep ==
    ASSUME ~beside', IInv, TypeInv, StartInv, StepInv, [Next]_vars
    PROVE  StartInv'
<1> SUFFICES ASSUME ~bad' PROVE StartInv'
  BY DEF StartInv
<1>1. ~bad
  BY BadStays
<1>2. CASE Server
  BY <1>1, <1>2, ServerStarts DEF Server, Usable
<1>3. CASE ServerUnasked
  <2>1. PICK t \in {"N", "S"} : Says(<<Msg(t)>>)
    BY <1>3 DEF ServerUnasked
  <2>2. /\ Len(toClient') = Len(toClient) + 1 /\ Len(toClient) \in Nat
        /\ \A i \in 1..Len(toClient) : toClient'[i] = toClient[i]
        /\ toClient'[Len(toClient) + 1].type = t
        /\ \A u : Coming(u)' <=> Coming(u) \/ t = u
    BY <2>1, SaysOneMore, ServerMessagesAre, MsgType DEF TypeInv
  <2> QED
    BY <1>1, <1>3, <2>2 DEF StartInv, ServerUnasked
<1>4. CASE ConnBreaks
  <2>1. CASE Says(<<>>)
    <3>1. toClient' = toClient
      BY <2>1 DEF Says, TypeInv, NetInv
    <3> QED
      BY <1>1, <1>4, <3>1 DEF StartInv, Coming, ConnBreaks
  <2>2. CASE Says(<<Msg("E")>>)
    <3>1. /\ Len(toClient') = Len(toClient) + 1 /\ Len(toClient) \in Nat
          /\ \A i \in 1..Len(toClient) : toClient'[i] = toClient[i]
          /\ toClient'[Len(toClient) + 1].type = "E"
          /\ \A u : Coming(u)' <=> Coming(u) \/ "E" = u
      BY <2>2, SaysOneMore, ServerMessagesAre, MsgType DEF TypeInv
    <3> QED
      BY <1>1, <1>4, <3>1 DEF StartInv, ConnBreaks
  <2> QED
    BY <1>4, <2>1, <2>2 DEF ConnBreaks
<1>5. CASE Arrived /\ Reads
  BY <1>1, <1>5, ReadStarts, NothingStarts DEF TypeInv
<1>6. CASE CallReadFails
  <2>1. toClient' = <<>>
    BY <1>6 DEF CallReadFails, Broken, Unread
  <2> QED
    BY <2>1 DEF StartInv
<1>7. CASE pc # "awaitCopyIn" /\ UNCHANGED toClient
  BY <1>1, <1>7, NoStart, NothingStarts DEF Coming
<1>8. CASE ResploopReadFails \/ Signal
  <2>1. pc # "awaitCopyIn" /\ UNCHANGED toClient
    BY <1>8 DEF ResploopReadFails, Signal, IInv, SoleReader
  <2> QED
    BY <1>7, <2>1
<1>9. CASE Calls \/ CloseFlushes \/ CloseSendsDone \/ CloseReturns
  <2>1. pc # "awaitCopyIn"
    BY <1>9 DEF Calls, Prepare, Exec, CopyData, PutRow, ExecRefused, Refused, Sync, Close,
                StartsClosing, CloseAgain, Query, Requests, CloseFlushes, CloseSendsDone,
                CloseReturns
  <2>2. UNCHANGED toClient
    BY <1>9 DEF Calls, Prepare, Exec, CopyData, PutRow, ExecRefused, Sync, Close,
                StartsClosing, CloseAgain, Query, Requests, CloseFlushes, CloseSendsDone,
                CloseReturns, Unread
  <2> QED
    BY <1>7, <2>1, <2>2
<1>10. CASE UNCHANGED vars
  BY <1>10 DEF vars, StartInv, Coming
<1>11. CASE \/ CopyInStarts \/ CopyInPanics \/ CopyAborted \/ PrepareReads \/ AwaitsReady
            \/ Resploop
  BY <1>5, <1>11 DEF CopyInStarts, CopyInPanics, CopyAborted, PrepareReads, AwaitsReady, Resploop
<1> QED
  BY <1>2, <1>3, <1>4, <1>6, <1>8, <1>9, <1>10, <1>11 DEF Next, Environment, Continues, Reader

--------------------------------------------------------------------------------
(* FlowInv *)

LEMMA RunGrows ==
    ASSUME NEW S, NEW all \in Seq(S), NEW rows \in Seq(S), NEW a \in 0..Len(all),
           NEW b \in 0..Len(all), NEW x \in S, Run(rows, all, a, b)
    PROVE  Run(rows, Append(all, x), a, b)
<1>1. \A i \in 1..Len(rows) : a + i \in 1..Len(all)
  BY DEF Run
<1> QED
  BY <1>1 DEF Run

LEMMA RunAppends ==
    ASSUME NEW S, NEW all \in Seq(S), NEW rows \in Seq(S), NEW a \in 0..Len(all),
           NEW x \in S, Run(rows, all, a, Len(all))
    PROVE  Run(Append(rows, x), Append(all, x), a, Len(all) + 1)
<1>1. Len(rows) \in Nat /\ Len(all) \in Nat /\ Len(rows) = Len(all) - a
  BY DEF Run
<1>2. Len(Append(rows, x)) = Len(rows) + 1
  OBVIOUS
<1>3. ASSUME NEW i \in 1..Len(rows)
      PROVE  Append(rows, x)[i] = Append(all, x)[a + i]
  <2>1. a + i \in 1..Len(all) /\ rows[i] = all[a + i]
    BY <1>1 DEF Run
  <2> QED
    BY <2>1
<1>4. Append(rows, x)[Len(rows) + 1] = x /\ Append(all, x)[Len(all) + 1] = x
  OBVIOUS
<1> DEFINE p == Append(rows, x)
           q == Append(all, x)
<1>5. PICK n \in Nat, k \in Nat : n = Len(rows) /\ k = Len(all)
  BY <1>1
<1>6. a \in Nat /\ n + 1 = k + 1 - a /\ a + (n + 1) = k + 1
  BY <1>1, <1>5
<1>7. Len(p) = n + 1
  BY <1>2, <1>5
<1>8. (\A i \in 1..n : p[i] = q[a + i]) /\ p[n + 1] = q[k + 1]
  BY <1>3, <1>4, <1>5
<1> HIDE DEF p, q
<1>9. ASSUME NEW i \in 1..(n + 1)
      PROVE  p[i] = q[a + i]
  <2>1. CASE i = n + 1
    BY <1>6, <1>8, <2>1
  <2>2. CASE i # n + 1
    <3>1. i \in 1..n
      BY <2>2
    <3> QED
      BY <1>8, <3>1
  <2> QED
    BY <2>1, <2>2
<1>10. Run(p, q, a, k + 1)
  BY <1>6, <1>7, <1>9 DEF Run
<1> QED
  BY <1>5, <1>10 DEF p, q

LEMMA RunJoins ==
    ASSUME NEW S, NEW all \in Seq(S), NEW r1 \in Seq(S), NEW r2 \in Seq(S),
           NEW a \in 0..Len(all), NEW b \in 0..Len(all),
           Run(r1, all, 0, a), Run(r2, all, a, b)
    PROVE  Run(r1 \o r2, all, 0, b)
<1>1. Len(r1) = a /\ Len(r2) = b - a /\ Len(r1 \o r2) = b /\ a \in Nat /\ b \in Nat
  <2>1. Len(all) \in Nat /\ Len(r1 \o r2) = Len(r1) + Len(r2)
    OBVIOUS
  <2>2. a \in Nat /\ b \in Nat
    BY <2>1
  <2>3. Len(r1) = a - 0 /\ Len(r2) = b - a
    BY DEF Run
  <2> QED
    BY <2>1, <2>2, <2>3
<1>2. ASSUME NEW i \in 1..b
      PROVE  (r1 \o r2)[i] = all[i]
  <2>1. CASE i <= a
    BY <1>1, <2>1 DEF Run
  <2>2. CASE i > a
    <3>1. i - a \in 1..Len(r2) /\ (r1 \o r2)[i] = r2[i - a]
      BY <1>1, <2>2
    <3>2. r2[i - a] = all[a + (i - a)] /\ a + (i - a) = i
      BY <1>1, <3>1 DEF Run
    <3> QED
      BY <3>1, <3>2
  <2> QED
    BY <1>1, <2>1, <2>2
<1> QED
  BY <1>1, <1>2 DEF Run

LEMMA RunOfAll ==
    ASSUME NEW S, NEW all \in Seq(S), NEW rows \in Seq(S), Run(rows, all, 0, Len(all))
    PROVE  rows = all
<1>1. Len(rows) = Len(all) /\ \A i \in 1..Len(rows) : rows[i] = all[i]
  BY DEF Run
<1> QED
  BY <1>1, SeqEqual

\* What does not touch the rows leaves them where they are.
LEMMA FlowKeeps ==
    ASSUME FlowInv, UNCHANGED <<bad, link, mode, toServer, given, received, buffer>>,
           Copying, pc' = pc \/ (pc = "rest" /\ pc' = "flush")
    PROVE  FlowInv'
<1> SUFFICES ASSUME Usable', Copying', mode' = "copy"
             PROVE  \E cut \in [0..Len(toServer') -> 0..Len(given')] : RowFlow(cut)'
  BY DEF FlowInv
<1>1. PICK cut \in [0..Len(toServer) -> 0..Len(given)] : RowFlow(cut)
  BY DEF FlowInv, Usable
<1>2. RowFlow(cut)'
  BY <1>1 DEF RowFlow
<1> QED
  BY <1>1, <1>2

LEMMA CopyInStartsFlow ==
    ASSUME NetInv, StartInv, CopyInStarts
    PROVE  FlowInv'
<1> SUFFICES ASSUME Usable'
             PROVE  \E cut \in [0..Len(toServer') -> 0..Len(given')] : RowFlow(cut)'
  BY DEF FlowInv
<1>1. 1 \in 1..Len(toClient) /\ toClient[1].type = "G" /\ Usable
  BY ReadElements DEF CopyInStarts, Usable, Quiet
<1>2. toServer = <<>> /\ received = <<>>
  BY <1>1 DEF StartInv, Usable
<1>3. toServer' = <<>> /\ received' = <<>> /\ buffer' = <<>> /\ given' = <<>> /\ pc' = "rest"
  BY <1>2 DEF CopyInStarts, Quiet, Returns
<1> DEFINE cut == [i \in 0..0 |-> 0]
<1>4. cut \in [0..Len(toServer') -> 0..Len(given')] /\ cut[0] = 0
  BY <1>3
<1> HIDE DEF cut
<1>5. RowFlow(cut)'
  BY <1>3, <1>4 DEF RowFlow, Run
<1> QED
  BY <1>4, <1>5

\* A row goes to the end of the buffer, or with it to the server.
LEMMA PutRowFlow ==
    ASSUME TypeInv, FlowInv, NEW capacity, PutRow(NextRow, capacity)
    PROVE  FlowInv'
<1> DEFINE row == NextRow
<1> SUFFICES ASSUME Usable', mode' = "copy"
             PROVE  \E cut \in [0..Len(toServer') -> 0..Len(given')] : RowFlow(cut)'
  BY DEF FlowInv
<1>1. Usable /\ Copying /\ mode = "copy" /\ pc = "rest" /\ pc' = "rest"
  BY DEF PutRow, GoesBad, Unread, Usable, Copying, Returns
<1>2. PICK cut \in [0..Len(toServer) -> 0..Len(given)] : RowFlow(cut)
  BY <1>1 DEF FlowInv
<1>3. PICK n \in Nat : n = Len(toServer)
  BY DEF TypeInv, NetInv
<1>4. PICK all \in Rows : all = given
  BY DEF TypeInv, RowsInv
<1>5. PICK rows \in Rows : rows = buffer
  BY DEF TypeInv, RowsInv
<1>6. PICK x \in 1..MaxRows : x = NextRow
  BY BoundsAssumption DEF NextRow, PutRow, TypeInv, RowsInv, Rows
<1>7. given' = Append(all, x) /\ received' = received /\ Len(Append(all, x)) = Len(all) + 1
      /\ Len(all) \in Nat
  BY <1>4, <1>6 DEF PutRow, Unread, Rows
<1>8. Run(received, Append(all, x), 0, cut[0])
  <2>1. 0 \in 0..n /\ 0 \in 0..Len(all)
    BY <1>3, <1>7
  <2>2. cut[0] \in 0..Len(all) /\ Run(received, all, 0, cut[0])
    BY <1>2, <1>3, <1>4, <2>1 DEF RowFlow
  <2>3. received \in Rows
    BY DEF TypeInv, RowsInv
  <2> QED
    BY <2>1, <2>2, <2>3, RunGrows DEF Rows
<1>9. Run(Append(rows, x), Append(all, x), cut[n], Len(all) + 1)
  <2>1. Run(rows, all, cut[n], Len(all)) /\ cut[n] \in 0..Len(all)
    BY <1>1, <1>2, <1>3, <1>4, <1>5 DEF RowFlow
  <2> QED
    BY <2>1, RunAppends DEF Rows
<1>10. ASSUME NEW i \in 1..n
       PROVE  toServer[i].type = "d" /\ Run(toServer[i].val, Append(all, x), cut[i-1], cut[i])
  <2>1. toServer[i].type = "d" /\ Run(toServer[i].val, all, cut[i-1], cut[i])
    BY <1>1, <1>2, <1>3, <1>4 DEF RowFlow
  <2>2. toServer[i].val \in Rows
    BY <1>3, <2>1, ClientMessageTypes DEF TypeInv, NetInv
  <2>3. cut[i-1] \in 0..Len(all) /\ cut[i] \in 0..Len(all)
    BY <1>2, <1>3, <1>4
  <2> QED
    BY <2>1, <2>2, <2>3, RunGrows DEF Rows
<1>11. CASE UNCHANGED toServer /\ buffer' = Append(buffer, NextRow)
  <2>1. cut \in [0..Len(toServer') -> 0..Len(given')]
    BY <1>2, <1>4, <1>7, <1>11
  <2>2. RowFlow(cut)'
    BY <1>1, <1>3, <1>5, <1>6, <1>7, <1>8, <1>9, <1>10, <1>11 DEF RowFlow
  <2> QED
    BY <2>1, <2>2
<1>12. CASE Writes(<<RowData(Append(buffer, NextRow))>>) /\ buffer' = <<>>
  <2> DEFINE to == [i \in 0..(n + 1) |-> IF i = n + 1 THEN Len(all) + 1 ELSE cut[i]]
  <2>1. /\ Len(toServer') = n + 1
        /\ \A i \in 1..n : toServer'[i] = toServer[i]
        /\ toServer'[n + 1].type = "d" /\ toServer'[n + 1].val = Append(rows, x)
    BY <1>3, <1>5, <1>6, <1>12, WriteElements DEF RowData, TypeInv
  <2>2. to \in [0..Len(toServer') -> 0..Len(given')]
    BY <1>2, <1>3, <1>4, <1>7, <2>1
  <2>3. to[n + 1] = Len(all) + 1 /\ \A i \in 0..n : to[i] = cut[i]
    BY <1>3
  <2> HIDE DEF to
  <2>4. ASSUME NEW i \in 1..(n + 1)
        PROVE  toServer'[i].type = "d" /\ Run(toServer'[i].val, given', to[i-1], to[i])
    <3>1. CASE i = n + 1
      <4>1. n \in 0..n /\ i - 1 = n
        BY <3>1
      <4>2. to[i - 1] = cut[n] /\ to[i] = Len(all) + 1
        BY <2>3, <3>1, <4>1
      <4> QED
        BY <1>7, <1>9, <2>1, <3>1, <4>2
    <3>2. CASE i # n + 1
      <4>1. i \in 1..n /\ i \in 0..n /\ i - 1 \in 0..n
        BY <1>3, <3>2
      <4> QED
        BY <1>7, <1>10, <2>1, <2>3, <4>1
    <3> QED
      BY <3>1, <3>2
  <2>5. Run(buffer', given', to[n + 1], Len(given'))
    BY <1>7, <1>12, <2>3 DEF Run
  <2>6. Run(received', given', 0, to[0])
    BY <1>3, <1>7, <1>8, <2>3
  <2>7. RowFlow(to)'
    BY <1>1, <2>1, <2>4, <2>5, <2>6 DEF RowFlow
  <2> QED
    BY <2>2, <2>7
<1> QED
  BY <1>11, <1>12 DEF PutRow, AfterFlush, GoesBad, Usable

\* Close sends the buffer, and then that there is no more.
LEMMA CloseSendsFlow ==
    ASSUME TypeInv, FlowInv, CloseFlushes \/ CloseSendsDone
    PROVE  FlowInv'
<1> SUFFICES ASSUME Usable', mode' = "copy"
             PROVE  \E cut \in [0..Len(toServer') -> 0..Len(given')] : RowFlow(cut)'
  BY DEF FlowInv
<1>1. Usable /\ Copying /\ mode = "copy"
  BY DEF CloseFlushes, CloseSendsDone, WriteFails, GoesBad, Unread, Usable, Copying, Closing
<1>2. PICK cut \in [0..Len(toServer) -> 0..Len(given)] : RowFlow(cut)
  BY <1>1 DEF FlowInv
<1>3. PICK n \in Nat : n = Len(toServer)
  BY DEF TypeInv, NetInv
<1>4. PICK g \in Nat : g = Len(given)
  BY DEF TypeInv, RowsInv, Rows
<1>5. UNCHANGED <<given, received>>
  BY DEF CloseFlushes, CloseSendsDone, Unread
<1>6. PICK m : /\ Writes(<<m>>)
               /\ \/ /\ m.type = "d" /\ Run(m.val, given, cut[n], g)
                     /\ pc = "flush" /\ pc' = "sendDone"
                  \/ m.type = "c" /\ cut[n] = g /\ pc = "sendDone" /\ pc' = "awaitDone"
  <2>1. CASE CloseFlushes
    <3>1. Writes(<<RowData(buffer)>>) /\ pc = "flush" /\ pc' = "sendDone"
      BY <2>1 DEF CloseFlushes, GoesBad, Usable
    <3>2. Run(buffer, given, cut[n], g)
      BY <1>2, <1>3, <1>4, <3>1 DEF RowFlow
    <3>3. RowData(buffer).type = "d" /\ RowData(buffer).val = buffer
      BY DEF RowData
    <3> QED
      BY <3>1, <3>2, <3>3
  <2>2. CASE CloseSendsDone
    <3>1. pc = "sendDone" /\ Writes(<<Msg("c")>>) /\ pc' = "awaitDone"
      BY <2>2 DEF CloseSendsDone, WriteFails, Usable
    <3>2. Msg("c").type = "c"
      BY DEF Msg
    <3>3. cut[n] = g
      BY <1>2, <1>3, <1>4, <3>1 DEF RowFlow
    <3> QED
      BY <3>1, <3>2, <3>3
  <2> QED
    BY <2>1, <2>2
<1> DEFINE to == [i \in 0..(n + 1) |-> IF i = n + 1 THEN g ELSE cut[i]]
<1>7. /\ Len(toServer') = n + 1 /\ toServer'[n + 1] = m
      /\ \A i \in 1..n : toServer'[i] = toServer[i]
  BY <1>3, <1>6, WriteElements DEF TypeInv
<1>8. to \in [0..Len(toServer') -> 0..Len(given')]
  BY <1>2, <1>3, <1>4, <1>5, <1>7
<1>9. to[n + 1] = g /\ \A i \in 0..n : to[i] = cut[i]
  BY <1>3
<1> HIDE DEF to
<1>10. ASSUME NEW i \in 1..n
       PROVE  /\ toServer[i].type = "d" /\ Run(toServer[i].val, given, to[i-1], to[i])
              /\ toServer'[i] = toServer[i]
  <2>1. toServer[i].type = "d" /\ Run(toServer[i].val, given, cut[i-1], cut[i])
    BY <1>2, <1>3, <1>6 DEF RowFlow
  <2>2. i \in 0..n /\ i - 1 \in 0..n
    BY <1>3
  <2> QED
    BY <1>7, <1>9, <2>1, <2>2
<1>11. n \in 0..n /\ (n + 1) - 1 = n /\ 0 \in 0..n
  BY <1>3
<1>12. \/ toServer'[n+1].type = "d" /\ Run(toServer'[n+1].val, given, to[(n+1)-1], to[n+1])
       \/ toServer'[n+1].type = "c" /\ to[n+1] = to[(n+1)-1] /\ pc' = "awaitDone"
  BY <1>6, <1>7, <1>9, <1>11
<1>13. Run(received, given, 0, to[0])
  BY <1>2, <1>9, <1>11 DEF RowFlow
<1>14. ASSUME NEW i \in 1..(n + 1)
       PROVE  \/ toServer'[i].type = "d" /\ Run(toServer'[i].val, given, to[i-1], to[i])
              \/ /\ toServer'[i].type = "c" /\ to[i] = to[i-1]
                 /\ i = n + 1 /\ pc' = "awaitDone"
  <2>1. CASE i = n + 1
    BY <1>12, <2>1
  <2>2. CASE i # n + 1
    <3>1. i \in 1..n
      BY <1>3, <2>2
    <3> QED
      BY <1>10, <3>1
  <2> QED
    BY <2>1, <2>2
<1>15. RowFlow(to)'
  BY <1>4, <1>5, <1>6, <1>7, <1>9, <1>13, <1>14 DEF RowFlow
<1> QED
  BY <1>8, <1>15

\* What the server takes it has.
LEMMA ServerFlow ==
    ASSUME TypeInv, CallInv, StepInv, FlowInv, Server
    PROVE  FlowInv'
<1> SUFFICES ASSUME Usable', Copying', mode' = "copy"
             PROVE  \E cut \in [0..Len(toServer') -> 0..Len(given')] : RowFlow(cut)'
  BY DEF FlowInv
<1> DEFINE m == Head(toServer)
<1>1. Usable /\ Copying /\ UNCHANGED <<pc, given, buffer>>
  BY DEF Server, Usable, Copying, Closing
<1>2. NetInv /\ RequestInv /\ stxn \in TxnStatuses
  BY <1>1 DEF TypeInv, FlagInv, CopyInv, StepInv
<1>3. mode = "copy"
  <2>1. SUFFICES ASSUME mode # "copy" PROVE FALSE
    OBVIOUS
  <2>2. m.type \notin RequestTypes
    BY <1>1, <1>2, TakeElements, NoRequestAtRest DEF CallInv, Copying
  <2>3. UNCHANGED mode
    BY <2>1, <2>2 DEF Server, ServerQueries, RequestTypes
  <2> QED
    BY <2>1, <2>3
<1>4. m.type = "d" /\ received' = received \o m.val
  BY <1>3 DEF Server, ServerCopies
<1>5. PICK cut \in [0..Len(toServer) -> 0..Len(given)] : RowFlow(cut)
  BY <1>1, <1>3, SMTT(30) DEF FlowInv
<1>6. PICK n \in Nat : n + 1 = Len(toServer)
  <2>1. Len(toServer) \in Nat \ {0}
    BY <1>2, TakeElements
  <2>2. Len(toServer) - 1 \in Nat /\ (Len(toServer) - 1) + 1 = Len(toServer)
    BY <2>1
  <2> QED
    BY <2>2
<1>7. PICK g \in Nat : g = Len(given)
  BY DEF TypeInv, RowsInv, Rows
<1>8. /\ Len(toServer') = n /\ 1 \in 1..Len(toServer) /\ m = toServer[1]
      /\ \A i \in 1..n : i + 1 \in 1..Len(toServer) /\ toServer'[i] = toServer[i + 1]
  BY <1>2, <1>6, TakeElements, SMTT(30)
<1> DEFINE to == [i \in 0..n |-> cut[i + 1]]
<1>9. to \in [0..n -> 0..g]
  BY <1>5, <1>6, <1>7
<1>10. \A i \in 0..n : to[i] = cut[i + 1]
  OBVIOUS
<1> HIDE DEF to
<1>11. Run(received', given, 0, to[0])
  <2>1. 0 \in 0..n /\ 0 + 1 = 1 /\ 1 - 1 = 0 /\ 0 \in 0..(n + 1) /\ 1 \in 0..(n + 1)
    BY <1>6
  <2>2. to[0] = cut[1] /\ cut[0] \in 0..g /\ cut[1] \in 0..g
    BY <1>5, <1>6, <1>7, <1>10, <2>1
  <2>3. Run(received, given, 0, cut[0]) /\ Run(m.val, given, cut[0], cut[1])
    BY <1>4, <1>5, <1>8, <2>1 DEF RowFlow
  <2>4. received \in Rows /\ m.val \in Rows /\ given \in Rows
    BY <1>2, <1>4, TakeElements, ClientMessageTypes DEF TypeInv, RowsInv
  <2> QED
    BY <1>4, <1>7, <2>2, <2>3, <2>4, RunJoins DEF Rows
<1>12. ASSUME NEW i \in 1..n
       PROVE  \/ toServer'[i].type = "d" /\ Run(toServer'[i].val, given, to[i-1], to[i])
              \/ /\ toServer'[i].type = "c" /\ to[i] = to[i-1]
                 /\ i = n /\ pc = "awaitDone"
  <2>1. i \in 0..n /\ i - 1 \in 0..n /\ (i - 1) + 1 = i /\ (i + 1) - 1 = i /\ (i + 1 = n + 1 => i = n)
    BY <1>6
  <2>2. to[i] = cut[i + 1] /\ to[i - 1] = cut[i]
    BY <1>10, <2>1
  <2>3. i + 1 \in 1..Len(toServer) /\ toServer'[i] = toServer[i + 1]
    BY <1>8
  <2>4. \/ toServer[i+1].type = "d" /\ Run(toServer[i+1].val, given, cut[(i+1)-1], cut[i+1])
        \/ /\ toServer[i+1].type = "c" /\ cut[i+1] = cut[(i+1)-1]
           /\ i + 1 = Len(toServer) /\ pc = "awaitDone"
    BY <1>5, <2>3 DEF RowFlow
  <2> QED
    BY <1>6, <2>1, <2>2, <2>3, <2>4
<1>13. n \in 0..n /\ to[n] = cut[n + 1]
  BY <1>6, <1>10
<1>14. RowFlow(to)'
  BY <1>1, <1>5, <1>6, <1>7, <1>8, <1>11, <1>12, <1>13 DEF RowFlow
<1> QED
  BY <1>1, <1>7, <1>8, <1>9, <1>14

LEMMA FlowInvStep ==
    ASSUME ~beside', IInv, TypeInv, CallInv, StartInv, StepInv, FlowInv, [Next]_vars
    PROVE  FlowInv'
<1>1. CASE Server
  BY <1>1, ServerFlow
<1>2. CASE CopyInStarts
  BY <1>2, CopyInStartsFlow DEF TypeInv
<1>3. CASE Exec \/ CopyData
  BY <1>3, PutRowFlow DEF Exec, CopyData
<1>4. CASE CloseFlushes \/ CloseSendsDone
  BY <1>4, CloseSendsFlow
<1>5. CASE ConnBreaks
  BY <1>5 DEF ConnBreaks, FlowInv, Usable
<1>6. CASE ServerUnasked \/ Resploop \/ Signal \/ ExecRefused \/ Sync \/ Close \/ UNCHANGED vars
  <2>1. SUFFICES ASSUME Usable', Copying', mode' = "copy" PROVE FlowInv'
    BY DEF FlowInv
  <2>2. UNCHANGED <<bad, link, mode, toServer, given, received, buffer>>
    BY <1>6, <2>1 DEF ServerUnasked, Resploop, Signal, ExecRefused, Sync, Close, StartsClosing,
                      Quiet, GoesBad, Usable, vars
  <2>3. Copying /\ (pc' = pc \/ (pc = "rest" /\ pc' = "flush"))
    BY <1>6, <2>1 DEF ServerUnasked, Resploop, Signal, ExecRefused, Refused, Sync, Close,
                      StartsClosing, Quiet, Returns, Usable, Copying, Closing, vars
  <2> QED
    BY <2>2, <2>3, FlowKeeps
<1>7. CASE Prepare \/ Query \/ ConnExec \/ ExtendedRequest \/ EndTx
  <2>1. SUFFICES ASSUME Usable', Copying', mode' = "copy" PROVE FlowInv'
    BY DEF FlowInv
  <2>2. UNCHANGED <<link, mode, given, received, buffer>> /\ Copying /\ pc = "rest"
        /\ stmt = "open" /\ ~bad
    BY <1>7, <2>1 DEF Prepare, Query, Requests, Unread, GoesBad, Returns, Usable, Copying, Closing
  <2>3. UNCHANGED <<bad, toServer>> /\ pc' = pc
    BY <1>7, <2>1, <2>2 DEF Prepare, Query, Sees, Requests, NotesRequest, Returns, GoesBad,
                            CallInv, Copying, Usable
  <2> QED
    BY <2>2, <2>3, FlowKeeps
<1>8. CASE ResploopReadFails
  BY <1>8 DEF ResploopReadFails, GoesBad, FlowInv, Usable
<1>9. CASE CopyInPanics \/ CopyAborted \/ PrepareReads \/ CallReadFails \/ AwaitsReady
  <2>1. stmt # "open" /\ UNCHANGED stmt /\ pc' \notin {"flush", "sendDone", "awaitDone"}
    BY <1>9 DEF CopyInPanics, CopyAborted, PrepareReads, CallReadFails, AwaitsReady, Returns, CallInv
  <2> QED
    BY <2>1 DEF FlowInv, Copying, Closing
<1>10. CASE CloseReturns \/ CloseAgain
  <2>1. stmt' # "open" /\ pc' \notin {"flush", "sendDone", "awaitDone"}
    BY <1>10 DEF CloseReturns, CloseAgain, Returns, CallInv, Closing
  <2> QED
    BY <2>1 DEF FlowInv, Copying, Closing
<1> QED
  BY <1>1, <1>2, <1>3, <1>4, <1>5, <1>6, <1>7, <1>8, <1>9, <1>10
     DEF Next, Environment, Continues, Calls, Reader

--------------------------------------------------------------------------------
(* TruthInv *)

LEMMA GoodStep ==
    ASSUME ~beside', CallInv, TruthInv, [Next]_vars
    PROVE  (Closing /\ copyErr = "nil" => ~bad)'
<1> USE DEF TruthInv, Closing, GoesBad, Returns
<1>1. CASE Environment \/ UNCHANGED vars
  BY <1>1 DEF Environment, Server, ServerUnasked, ConnBreaks, vars
<1>2. CASE CopyInStarts \/ CopyInPanics \/ CopyAborted
  BY <1>2 DEF CopyInStarts, CopyInPanics, CopyAborted
<1>3. CASE PrepareReads \/ CallReadFails
  BY <1>3 DEF PrepareReads, CallReadFails
<1>4. CASE CloseFlushes \/ CloseSendsDone \/ CloseReturns
  BY <1>4 DEF CloseFlushes, CloseSendsDone, CloseReturns
<1>5. CASE AwaitsReady
  BY <1>5 DEF AwaitsReady
<1>6. CASE Prepare \/ Exec \/ CopyData \/ ExecRefused
  BY <1>6 DEF Prepare, Exec, CopyData, PutRow, ExecRefused
<1>7. CASE Sync \/ Close \/ CloseAgain \/ Query \/ ConnExec \/ ExtendedRequest \/ EndTx
  BY <1>7 DEF Sync, Close, StartsClosing, CloseAgain, Query, Requests
<1>8. CASE Reader
  BY <1>8 DEF Reader, Resploop, ResploopReadFails, Signal
<1> QED
  BY <1>1, <1>2, <1>3, <1>4, <1>5, <1>6, <1>7, <1>8 DEF Next, Continues, Calls

\* Nothing is said of rows given later, as long as the COPY cannot be over.
LEMMA VerdictKeeps ==
    ASSUME VerdictInv, UNCHANGED <<link, toClient, mode, received, stxn, copyErr, result, resp>>,
           pc # "awaitDone" \/ UNCHANGED <<pc, given>>
    PROVE  VerdictInv'
<1> USE DEF VerdictInv, Complete, Coming, Judged, Usable
<1>1. CASE UNCHANGED <<pc, given>>
  BY <1>1
<1>2. CASE pc # "awaitDone"
  BY <1>2
<1> QED
  BY <1>1, <1>2

\* The server takes CopyDone when it has got every row.
LEMMA DoneIsComplete ==
    ASSUME TypeInv, FlowInv, Usable, Copying, mode = "copy", Server, Head(toServer).type = "c"
    PROVE  Complete
<1>1. PICK cut \in [0..Len(toServer) -> 0..Len(given)] : RowFlow(cut)
  BY DEF FlowInv
<1>2. 1 \in 1..Len(toServer) /\ toServer[1].type = "c"
  BY TakeElements DEF TypeInv
<1>3. cut[1] = cut[1-1] /\ Len(toServer) = 1 /\ pc = "awaitDone"
  BY <1>1, <1>2 DEF RowFlow
<1>4. cut[1] = Len(given) /\ Run(received, given, 0, cut[0])
  BY <1>1, <1>3 DEF RowFlow
<1>5. Run(received, given, 0, Len(given))
  <2>1. 1 - 1 = 0
    OBVIOUS
  <2> QED
    BY <1>3, <1>4, <2>1
<1> QED
  BY <1>3, <1>5, RunOfAll DEF Complete, TypeInv, RowsInv, Rows

LEMMA ServerVerdict ==
    ASSUME TypeInv, CallInv, StepInv, FlowInv, Usable, Copying, VerdictInv, Server
    PROVE  VerdictInv'
<1> DEFINE m == Head(toServer)
<1>1. UNCHANGED <<pc, given, link, copyErr, result, resp, bad>>
  BY DEF Server
<1>2. /\ NetInv /\ RequestInv /\ ReadyInv /\ PhaseInv /\ SettledInv
      /\ stxn \in TxnStatuses /\ mode \in {"ready", "copy"} /\ ~Preparing
  BY DEF TypeInv, FlagInv, CopyInv, StepInv, Copying, Closing, Preparing, CallInv
<1>3. CASE mode = "ready"
  <2>1. m.type \notin RequestTypes
    BY <1>2, TakeElements, NoRequestAtRest DEF CallInv, Copying
  <2>2. UNCHANGED <<toClient, mode, received, stxn>>
    BY <1>3, <2>1 DEF Server, ServerQueries, RequestTypes
  <2> QED
    BY <1>1, <2>2, VerdictKeeps
<1>4. CASE mode = "copy"
  <2>1. resp = "reads" /\ stxn = "T" /\ ~Coming("C") /\ ~Coming("E") /\ ~result /\ ~Coming("Z")
    BY <1>2, <1>4, NothingInCopy DEF PhaseInv, VerdictInv, Usable
  <2>2. CASE UNCHANGED <<toClient, mode, stxn>>
    BY <1>1, <2>1, <2>2 DEF VerdictInv, Coming
  <2>3. ASSUME NEW t \in {"C", "E"}, NEW s \in TxnStatuses,
               Says(<<Msg(t), ReadyForQuery(s)>>), stxn' = s, mode' = "ready",
               \/ t = "E" /\ s = "E"
               \/ t = "C" /\ Complete /\ UNCHANGED <<received, stxn>>
        PROVE  VerdictInv'
    <3>1. /\ \A u : Coming(u)' <=> Coming(u) \/ u \in {t, "Z"}
          /\ \A i \in 1..Len(toClient) : toClient'[i] = toClient[i]
          /\ Len(toClient') = Len(toClient) + 2 /\ Len(toClient) \in Nat
          /\ toClient'[Len(toClient) + 1].type = t
      BY <1>2, <2>3, AnswerComes, ServerMessagesAre, MsgType
    <3>2. ASSUME NEW i \in 1..Len(toClient'), toClient'[i].type = "Z"
          PROVE  Judged(i)'
      <4>1. i \notin 1..Len(toClient) /\ i # Len(toClient) + 1
        BY <2>1, <3>1, <3>2 DEF Coming
      <4>2. Len(toClient) + 1 \in 1..(i-1)
        BY <3>1, <4>1
      <4> QED
        BY <3>1, <4>2 DEF Judged
    <3>3. copyErr # "nil" \/ Coming("E")' => stxn' = "E" \/ link = "down"
      BY <2>1, <2>3, <3>1 DEF VerdictInv
    <3>4. Coming("C")' => Complete'
      BY <1>1, <2>1, <2>3, <3>1 DEF Complete
    <3> QED
      BY <1>1, <2>1, <2>3, <3>2, <3>3, <3>4 DEF VerdictInv
  <2>4. CASE m.type = "c" /\ mode' = "ready" /\ Says(<<Msg("C"), ReadyForQuery(stxn)>>)
             /\ UNCHANGED <<received, stxn>>
    <3>1. Complete
      BY <1>4, <2>4, DoneIsComplete
    <3> QED
      BY <1>2, <2>3, <2>4, <3>1
  <2>5. CASE ServerFails(<<>>) /\ mode' = "ready"
    <3>1. stxn' = "E" /\ stxn' \in TxnStatuses /\ Says(<<Msg("E"), ReadyForQuery(stxn')>>)
      BY <1>2, <2>1, <2>5, ServerFailsIs
    <3> QED
      BY <2>3, <2>5, <3>1
  <2> QED
    BY <1>2, <1>4, <2>2, <2>4, <2>5, NoRequestTaken DEF Server, ServerCopies
<1> QED
  BY <1>2, <1>3, <1>4

LEMMA EnvironmentVerdict ==
    ASSUME TypeInv, StepInv, CallInv, FlowInv, ~bad, Copying, VerdictInv, Environment
    PROVE  VerdictInv'
<1>1. CASE Server
  BY <1>1, ServerVerdict DEF Server, Usable
<1>2. ASSUME NEW m \in ServerMessages, m.type \notin {"C", "Z"}, Says(<<m>>),
             UNCHANGED <<pc, given, received, mode, stxn, copyErr, result, resp>>,
             m.type = "E" => link' = "down", link = "up"
      PROVE  VerdictInv'
  <2>1. /\ Len(toClient') = Len(toClient) + 1 /\ Len(toClient) \in Nat
        /\ \A i \in 1..Len(toClient) : toClient'[i] = toClient[i]
        /\ toClient'[Len(toClient) + 1] = m
        /\ \A t : Coming(t)' <=> Coming(t) \/ m.type = t
    BY <1>2, SaysOneMore DEF TypeInv
  <2>2. ASSUME NEW i \in 1..Len(toClient'), toClient'[i].type = "Z", resp = "reads"
        PROVE  Judged(i)'
    <3>1. i \in 1..Len(toClient) /\ toClient[i].type = "Z"
      BY <1>2, <2>1, <2>2
    <3>2. Judged(i) /\ \A j \in 1..(i-1) : toClient'[j] = toClient[j]
      BY <2>1, <2>2, <3>1 DEF VerdictInv
    <3> QED
      BY <1>2, <3>2 DEF Judged
  <2>3. Complete <=> Complete'
    BY <1>2 DEF Complete
  <2>4. copyErr' # "nil" \/ (resp' = "reads" /\ Coming("E")') => stxn' = "E" \/ link' = "down"
    BY <1>2, <2>1 DEF VerdictInv
  <2>5. resp' = "reads" /\ (result' \/ Coming("C")') =>
           Complete' /\ (link' = "up" => mode' = "ready")
    BY <1>2, <2>1, <2>3 DEF VerdictInv
  <2> QED
    BY <1>2, <2>2, <2>3, <2>4, <2>5 DEF VerdictInv
<1>3. CASE ServerUnasked
  BY <1>2, <1>3, ServerMessagesAre, MsgType DEF ServerUnasked
<1>4. CASE ConnBreaks
  <2>1. CASE Says(<<>>)
    <3>1. toClient' = toClient
      BY <2>1 DEF Says, TypeInv, NetInv
    <3> QED
      BY <1>4, <3>1 DEF ConnBreaks, VerdictInv, Coming, Judged, Complete
  <2>2. CASE Says(<<Msg("E")>>)
    <3>1. Msg("E") \in ServerMessages /\ Msg("E").type = "E"
      BY ServerMessagesAre, MsgType
    <3> QED
      BY <1>2, <1>4, <2>2, <3>1 DEF ConnBreaks
  <2> QED
    BY <1>4, <2>1, <2>2 DEF ConnBreaks
<1> QED
  BY <1>1, <1>3, <1>4 DEF Environment

\* A COPY begins with nothing said of it.
LEMMA CopyInStartsVerdict ==
    ASSUME NetInv, StartInv, ~bad, CopyInStarts
    PROVE  VerdictInv'
<1>1. 1 \in 1..Len(toClient) /\ toClient[1].type = "G" /\ \A t : Coming(t)' => Coming(t)
  BY ReadElements DEF CopyInStarts
<1>2. ~Coming("C")' /\ ~Coming("Z")' /\ (Coming("E")' => link = "down")
  BY <1>1 DEF StartInv
<1>3. \A i \in 1..Len(toClient') : toClient'[i].type # "Z"
  BY <1>2 DEF Coming
<1> QED
  BY <1>2, <1>3 DEF CopyInStarts, Quiet, VerdictInv

LEMMA ResploopVerdict ==
    ASSUME NetInv, ~bad, ~bad', VerdictInv, Resploop
    PROVE  VerdictInv'
<1> DEFINE m == Head(toClient)
<1>1. /\ Len(toClient') = Len(toClient) - 1 /\ Len(toClient) \in Nat \ {0}
      /\ \A i \in 1..Len(toClient') :
            i + 1 \in 1..Len(toClient) /\ toClient'[i] = toClient[i + 1]
      /\ 1 \in 1..Len(toClient) /\ m = toClient[1]
      /\ \A t : Coming(t)' => Coming(t)
      /\ Coming(m.type)
  BY ReadElements DEF Resploop
<1>2. resp = "reads" /\ UNCHANGED <<pc, given, received, mode, stxn, link>>
  BY DEF Resploop, Quiet
<1>3. Complete <=> Complete'
  BY <1>2 DEF Complete
<1>4. (m.type = "E" => copyErr' # "nil") /\ (m.type = "C" => result')
      /\ (copyErr # "nil" => copyErr' # "nil") /\ (result => result')
  BY DEF Resploop, GoesBad
<1>5. ASSUME NEW i \in 1..Len(toClient'), toClient'[i].type = "Z"
      PROVE  Judged(i)'
  <2>1. i + 1 \in 1..Len(toClient) /\ toClient[i + 1].type = "Z" /\ i \in Nat
    BY <1>1, <1>5
  <2>2. Judged(i + 1)
    BY <1>2, <2>1 DEF VerdictInv
  <2>3. ASSUME NEW j \in 1..((i+1)-1), toClient[j].type \in {"C", "E"}
        PROVE  Judged(i)'
    <3>1. CASE j = 1
      BY <1>1, <1>4, <2>3, <3>1 DEF Judged
    <3>2. CASE j # 1
      <4>1. j - 1 \in 1..(i-1) /\ j - 1 \in 1..Len(toClient') /\ (j - 1) + 1 = j
        BY <1>1, <2>1, <3>2
      <4>2. toClient'[j - 1].type \in {"C", "E"}
        BY <1>1, <2>3, <4>1
      <4> QED
        BY <4>1, <4>2 DEF Judged
    <3> QED
      BY <3>1, <3>2
  <2> QED
    BY <1>4, <2>2, <2>3 DEF Judged
<1>6. copyErr' # "nil" \/ Coming("E")' => stxn' = "E" \/ link' = "down"
  BY <1>1, <1>2 DEF Resploop, GoesBad, VerdictInv
<1>7. result' \/ Coming("C")' => Complete' /\ (link' = "up" => mode' = "ready")
  <2>1. result' => result \/ m.type = "C"
    BY DEF Resploop
  <2> QED
    BY <1>1, <1>2, <1>3, <2>1 DEF VerdictInv
<1>8. CASE m.type = "Z"
  <2>1. Judged(1)
    BY <1>1, <1>2, <1>8 DEF VerdictInv
  <2>2. result \/ copyErr # "nil"
    BY <2>1 DEF Judged
  <2> QED
    BY <1>2, <1>3, <1>4, <1>6, <1>7, <1>8, <2>2 DEF Resploop, ResploopEnds, VerdictInv
<1>9. CASE m.type # "Z"
  <2>1. resp' = "reads"
    BY <1>2, <1>9 DEF Resploop, GoesBad
  <2> QED
    BY <1>5, <1>6, <1>7, <2>1 DEF VerdictInv
<1> QED
  BY <1>8, <1>9

LEMMA TruthInvStep ==
    ASSUME ~beside', IInv, TypeInv, CloseInv, [Next]_vars
    PROVE  TruthInv'
<1> USE DEF CloseInv
<1>1. SUFFICES ASSUME ~bad', Copying' PROVE VerdictInv'
  BY GoodStep DEF TruthInv
<1>2. ~bad
  BY <1>1, BadStays
<1>3. CASE Environment
  <2>1. Copying
    BY <1>1, <1>3 DEF Environment, Server, ServerUnasked, ConnBreaks, Copying, Closing
  <2> QED
    BY <1>2, <1>3, <2>1, EnvironmentVerdict DEF TruthInv
<1>4. CASE CopyInStarts
  BY <1>2, <1>4, CopyInStartsVerdict DEF TypeInv
<1>5. CASE Resploop
  <2>1. Copying
    BY <1>1, <1>5 DEF Resploop, Quiet, Copying, Closing
  <2> QED
    BY <1>1, <1>2, <1>5, <2>1, ResploopVerdict DEF TruthInv, TypeInv
<1>6. CASE Signal
  <2>1. Copying /\ UNCHANGED <<pc, given, received, copyErr, result, stxn, link>> /\ resp' = "over"
        /\ resp = "signals"
    BY <1>1, <1>6 DEF Signal, Copying, Closing
  <2> QED
    BY <1>2, <2>1 DEF TruthInv, VerdictInv, Complete
<1>7. CASE Exec \/ CopyData
  <2>1. pc = "rest" /\ Copying
    BY <1>7 DEF Exec, CopyData, PutRow, Copying
  <2>2. UNCHANGED <<link, toClient, mode, received, stxn, copyErr, result, resp>>
    BY <1>7 DEF Exec, CopyData, PutRow, Unread
  <2> QED
    BY <1>2, <2>1, <2>2, VerdictKeeps DEF TruthInv
<1>8. CASE Sync \/ Close \/ CloseFlushes \/ CloseSendsDone
  <2>1. pc # "awaitDone" /\ Copying
    BY <1>8 DEF Sync, Close, StartsClosing, CloseFlushes, CloseSendsDone, Copying, Closing
  <2>2. UNCHANGED <<link, toClient, mode, received, stxn, copyErr, result, resp>>
    BY <1>8 DEF Sync, Close, StartsClosing, CloseFlushes, CloseSendsDone, Unread
  <2> QED
    BY <1>2, <2>1, <2>2, VerdictKeeps DEF TruthInv
<1>9. CASE \/ ExecRefused \/ Prepare \/ Query \/ ConnExec \/ ExtendedRequest \/ EndTx
           \/ UNCHANGED vars
  <2>1. UNCHANGED <<link, toClient, mode, received, stxn, copyErr, result, resp, given>>
    BY <1>9 DEF ExecRefused, Prepare, Query, Requests, Unread, vars
  <2>2. Copying /\ (pc # "awaitDone" \/ pc' = pc)
    BY <1>1, <1>9 DEF ExecRefused, Refused, Prepare, Query, Requests, Returns, Copying, Closing,
                      vars
  <2> QED
    BY <1>2, <2>1, <2>2, VerdictKeeps DEF TruthInv
<1>10. ~ResploopReadFails
  BY <1>1 DEF ResploopReadFails, GoesBad
<1>11. ~(CopyInPanics \/ CopyAborted \/ PrepareReads \/ CallReadFails \/ AwaitsReady)
  BY <1>1 DEF CopyInPanics, CopyAborted, PrepareReads, CallReadFails, AwaitsReady, Returns,
              CallInv, Copying, Closing
<1>12. ~(CloseReturns \/ CloseAgain)
  BY <1>1 DEF CloseReturns, CloseAgain, Returns, CallInv, Copying, Closing
<1> QED
  BY <1>3, <1>4, <1>5, <1>6, <1>7, <1>8, <1>9, <1>10, <1>11, <1>12
     DEF Next, Continues, Calls, Reader

--------------------------------------------------------------------------------

LEMMA StepInvStep ==
    ASSUME ~beside', IInv, TypeInv, CloseInv, [Next]_vars
    PROVE  StepInv'
<1>1. NetInv /\ CallInv /\ StartInv /\ StepInv /\ SoleReader /\ DoneInv
  BY DEF TypeInv, CloseInv, IInv
<1>2. CASE Environment
  BY <1>1, <1>2, EnvironmentSteps
<1>3. CASE Continues
  BY <1>1, <1>3, CopyInStartsSteps, CopyAbortedSteps, CallReadsSteps, ClosingSteps,
     CloseReturnsSteps DEF Continues
<1>4. CASE Calls
  BY <1>1, <1>4, PrepareSteps, PutRowSteps, NothingSteps, ClosingSteps, QuerySteps
     DEF Calls, Exec, CopyData
<1>5. CASE Reader
  BY <1>1, <1>5, ResploopSteps
<1>6. CASE UNCHANGED vars
  BY <1>1, <1>6, NothingSteps
<1> QED
  BY <1>2, <1>3, <1>4, <1>5, <1>6 DEF Next

\* Everything there is to know of the states that can be reached without a request
\* beside an open COPY statement.
FullInv == IInv /\ TypeInv /\ CloseInv

LEMMA FullInit == Init => FullInv
<1> SUFFICES ASSUME Init PROVE IInv /\ TypeInv /\ CloseInv
  BY DEF FullInv
<1>1. IInv
  BY DoneInit, ReaderInit DEF IInv
<1>2. TypeInv
  BY TypeInit
<1>3. CallInv /\ StartInv
  BY DEF Init, CallInv, StartInv, Copying, Closing
<1>4. StepInv
  BY DEF Init, StepInv, RequestInv, ReadyInv, PhaseInv, SettledInv, Copying, Closing, Preparing
<1>5. FlowInv /\ TruthInv
  BY DEF Init, FlowInv, TruthInv, Copying, Closing
<1> QED
  BY <1>1, <1>2, <1>3, <1>4, <1>5 DEF CloseInv

LEMMA FullStep ==
    ASSUME ~beside', FullInv, [Next]_vars
    PROVE  FullInv'
<1>1. IInv /\ TypeInv /\ CloseInv
  BY DEF FullInv
<1>2. IInv'
  BY <1>1, InvStep
<1>3. TypeInv'
  BY <1>1, TypeStep DEF IInv
<1>4. CallInv' /\ StartInv' /\ StepInv' /\ FlowInv' /\ TruthInv'
  BY <1>1, CallInvStep, StartInvStep, StepInvStep, FlowInvStep, TruthInvStep DEF CloseInv
<1> QED
  BY <1>2, <1>3, <1>4 DEF FullInv, CloseInv

\* What holds from then on, too.
LastingInv == TypeInv /\ DoneInv /\ (~beside => FullInv)

LEMMA LastingInit == Init => LastingInv
BY FullInit DEF LastingInv, FullInv, IInv

LEMMA LastingStep ==
    ASSUME LastingInv, [Next]_vars
    PROVE  LastingInv'
BY TypeStep, DoneStep, FullStep, BesideStays DEF LastingInv

\* Until a request is sent beside an open COPY statement, every error path of Prepare,
\* Close, a query, an Exec and the end of a transaction leaves a connection that is not
\* marked bad where the next call can start: nothing is left to read, and txnStatus is
\* the server's (copy.go:111, 128, 182, 334; conn.go:590, 621).
THEOREM StaysInStep == Spec => []InStep
<1>1. FullInv => InStep
  <2> SUFFICES ASSUME FullInv, pc = "rest", ~bad, link = "up", stmt # "open" PROVE
         /\ toClient = <<>> /\ mode = "ready"
         /\ \A i \in DOMAIN toServer : toServer[i].type \in {"d", "c", "f"}
         /\ txnStatus = stxn
         /\ resp \in {"none", "over"} /\ ~inCopy
    BY DEF InStep
  <2>1. RequestInv /\ PhaseInv /\ SettledInv /\ NetInv /\ ReadingInv
    BY DEF FullInv, IInv, TypeInv, CloseInv, StepInv, Usable
  <2>2. toClient = <<>> /\ mode = "ready" /\ txnStatus = stxn
    BY <2>1 DEF SettledInv
  <2>3. ~inCopy
    BY <2>1 DEF PhaseInv, Copying, Closing
  <2>4. resp \in {"none", "over"}
    BY <2>1, <2>3 DEF ReadingInv, Reading, FullInv, TypeInv, FlagInv, CopyInv
  <2>5. ASSUME NEW i \in DOMAIN toServer
        PROVE  toServer[i].type \in {"d", "c", "f"}
    <3>1. i \in 1..Len(toServer) /\ toServer[i] \in ClientMessages
      BY <2>1 DEF NetInv
    <3>2. toServer[i].type \notin RequestTypes
      BY <2>1, <3>1, NoRequestAtRest
    <3> QED
      BY <3>1, <3>2 DEF ClientMessages, Msg, RequestTypes
  <2> QED
    BY <2>2, <2>3, <2>4, <2>5
<1>2. LastingInv => InStep
  BY <1>1 DEF LastingInv, InStep
<1> QED
  BY LastingInit, LastingStep, <1>2, PTL DEF Spec

\* What Close and Exec() return is true, if no request has been sent beside the COPY:
\* without an error the server has every row that was accepted and has completed the
\* COPY, with one it will not be committed (copy.go:334; resploop's handling of every
\* message, copy.go:176).
THEOREM OutcomesAreTrue == Spec => OutcomeIsTrue
<1>1. ASSUME FullInv, [Next]_vars, pc' = "rest", pc \in {"flush", "sendDone", "awaitDone"}
      PROVE  Outcome
  <2>1. CASE CloseFlushes
    BY <1>1, <2>1 DEF CloseFlushes, GoesBad, Returns, Outcome
  <2>2. CASE CloseSendsDone
    BY <1>1, <2>2 DEF CloseSendsDone, WriteFails, Returns, Outcome
  <2>3. CASE CloseReturns
    <3>1. Copying /\ Closing /\ TruthInv /\ resp = "over"
      BY <1>1, <2>3 DEF FullInv, CloseInv, IInv, DoneInv, CloseReturns, ResploopIsDone, Copying,
                        Closing
    <3>2. CASE copyErr = "nil"
      BY <2>3, <3>1, <3>2 DEF TruthInv, VerdictInv, Complete, CloseReturns, Returns, AtTheEnd,
                              Outcome
    <3>3. CASE copyErr # "nil" /\ bad
      <4>1. copyErr # "ok"
        BY <1>1 DEF FullInv, TypeInv, FlagInv, CopyInv
      <4> QED
        BY <2>3, <3>3, <4>1 DEF CloseReturns, Returns, AtTheEnd, Outcome
    <3>4. CASE copyErr # "nil" /\ ~bad
      <4>1. copyErr # "ok"
        BY <1>1 DEF FullInv, TypeInv, FlagInv, CopyInv
      <4> QED
        BY <2>3, <3>1, <3>4, <4>1 DEF TruthInv, VerdictInv, CloseReturns, Returns, AtTheEnd, Outcome
    <3> QED
      BY <3>2, <3>3, <3>4
  <2>4. CloseFlushes \/ CloseSendsDone \/ CloseReturns
    <3>1. ~Environment /\ ~Reader /\ ~UNCHANGED vars
      BY <1>1 DEF Environment, Server, ServerUnasked, ConnBreaks, Reader, Resploop,
                  ResploopReadFails, Signal, vars
    <3>2. ~Calls
      BY <1>1 DEF Calls, Prepare, Exec, CopyData, PutRow, ExecRefused, Refused, Sync, Close,
                  StartsClosing, CloseAgain, Query, Requests
    <3>3. ~(CopyInStarts \/ CopyInPanics \/ CopyAborted \/ PrepareReads \/ CallReadFails
              \/ AwaitsReady)
      BY <1>1 DEF CopyInStarts, CopyInPanics, CopyAborted, PrepareReads, CallReadFails, AwaitsReady
    <3> QED
      BY <1>1, <3>1, <3>2, <3>3 DEF Next, Continues
  <2> QED
    BY <2>1, <2>2, <2>3, <2>4
<1>2. LastingInv /\ [Next]_vars =>
         (pc' = "rest" /\ pc \in {"flush", "sendDone", "awaitDone"} /\ ~beside => Outcome)
  BY <1>1 DEF LastingInv
<1> QED
  BY LastingInit, LastingStep, <1>2, PTL DEF Spec, OutcomeIsTrue

================================================================================
