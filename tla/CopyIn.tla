--------------------------------- MODULE CopyIn ---------------------------------
(***************************************************************************)
(* COPY FROM STDIN (copy.go).  Preparing a COPY starts resploop, a         *)
(* goroutine that reads the connection while the caller writes rows to it, *)
(* and that tells Close when the server is ready again.  Everything about  *)
(* it is a question of who reads, who writes and who knows what when:      *)
(* resploop sets the error, the result and the transaction status that     *)
(* the caller's goroutine looks at.                                        *)
(*                                                                         *)
(* The two directions of the connection are sequences of messages.  Rows   *)
(* are numbered; a buffer is the sequence of rows in it.  The other methods *)
(* of the connection appear as other users of it, at any time: Conn has    *)
(* their details.                                                          *)
(*                                                                         *)
(* Of these methods only query looks at inCopy.  An application that makes *)
(* one of the others send a request while its COPY statement is open has   *)
(* two goroutines read the same connection.  The history variable beside   *)
(* says that it has done so, and the properties, up to that moment, what   *)
(* everybody else can rely on.                                             *)
(***************************************************************************)
EXTENDS Naturals, Sequences

CONSTANTS
    MaxRows,        \* bound: rows an application copies
    MaxCopies,      \* bound: COPY statements it prepares
    MaxAsync,       \* bound: messages the server sends unasked
    BufferRows,     \* rows that fill the buffer for Exec (cpBufferSize)
    FlushRows,      \* and for CopyData (ciBufferFlushSize)
    Columns         \* numbers of columns a COPY may have

ASSUME BoundsAssumption == MaxRows \in Nat /\ MaxCopies \in Nat /\ MaxAsync \in Nat
ASSUME BufferAssumption == BufferRows \in Nat /\ FlushRows \in Nat /\ Columns \subseteq Nat

VARIABLES
    \* struct conn
    bad,            \* conn.err is set
    inCopy,
    txnStatus,
    \* struct copyin; resploop
    stmt,           \* the statement: "none", "open" or "closed"
    buffer,         \* rows not flushed yet
    copyErr,        \* mu.err: "nil", "server", "unexpected" or "io"
    result,         \* mu.Result has been set
    done,           \* values in the channel
    resp,           \* resploop: "none", "reads", "signals" or "over"
    \* the caller's goroutine
    pc,             \* where it is; "rest" between two calls
    err,            \* the error of the call so far
    ret,            \* what the last call returned
    given,          \* the rows Exec and CopyData have accepted for this COPY
    copies,         \* bound: COPYs prepared so far
    beside,         \* history: a request was sent with a COPY statement open
    \* the network and the server
    link,           \* "up" or "down"
    toServer, toClient,
    mode,           \* the server waits for a query, "ready", or for rows, "copy"
    received,       \* the rows it has received for this COPY
    stxn,           \* its transaction status
    async           \* bound: messages sent unasked

connVars == <<bad, inCopy, txnStatus>>
copyVars == <<stmt, buffer, copyErr, result, done, resp>>
callerVars == <<pc, err, ret, given, copies, beside>>
serverVars == <<link, toServer, toClient, mode, received, stxn, async>>
vars == <<connVars, copyVars, callerVars, serverVars>>

(* Mistakes the code could have made, as mutated forms for the properties.   *)
Unbuffered == 0                         \* done has no room for a value
NotLooked == FALSE                      \* query does not look at inCopy
Kept(rows) == rows                      \* the buffer is not reset by a flush
ErrIgnored(e) == "ok"                   \* Close does not look at err at the end
NotWaited == TRUE                       \* Close does not wait for resploop
NotTold == resp' = "over"               \* resploop ends without done <- true

--------------------------------------------------------------------------------
(* Messages, the network and the server *)

Msg(t) == [type |-> t, val |-> "-"]
CopyInResponse(fmt, n) == [type |-> "G", val |-> <<fmt, n>>]
ReadyForQuery(s) == [type |-> "Z", val |-> s]
RowData(rows) == [type |-> "d", val |-> rows]

TxnStatuses == {"I", "T", "E"}
Formats == {0, 1}                       \* text and binary

Says(msgs) == toClient' = toClient \o msgs

\* An error ends the request, and the transaction fails.
Failed == IF stxn = "I" THEN "I" ELSE "E"
ServerFails(before) ==
    Says(before \o <<Msg("E"), ReadyForQuery(Failed)>>) /\ stxn' = Failed

\* COPY FROM STDIN, COPY TO STDOUT of one row or none, COPY with a file.
ServerStartsCopy ==
    \/ /\ stxn # "E"
       /\ \E f \in Formats, n \in Columns : Says(<<CopyInResponse(f, n)>>)
       /\ mode' = "copy" /\ received' = <<>> /\ UNCHANGED stxn
    \/ /\ stxn # "E"
       /\ \E data \in {<<>>, <<Msg("d")>>} :
              Says(<<Msg("H")>> \o data \o <<Msg("c"), Msg("C"), ReadyForQuery(stxn)>>)
       /\ UNCHANGED <<mode, received, stxn>>
    \/ /\ stxn # "E"
       /\ Says(<<Msg("C"), ReadyForQuery(stxn)>>)
       /\ UNCHANGED <<mode, received, stxn>>
    \/ ServerFails(<<>>) /\ UNCHANGED <<mode, received>>

\* What is not CopyData or CopyDone makes the COPY fail; rows may as well.  What
\* follows the first message of an extended request, up to Sync, is then a request
\* of its own, with or without an error.
ServerCopies(m) ==
    \/ /\ m.type = "d"
       /\ received' = received \o m.val
       /\ UNCHANGED <<mode, stxn, toClient>>
    \/ /\ m.type = "c"
       /\ mode' = "ready"
       /\ Says(<<Msg("C"), ReadyForQuery(stxn)>>)
       /\ UNCHANGED <<received, stxn>>
    \/ /\ m.type # "extended"
       /\ ServerFails(<<>>) /\ mode' = "ready" /\ UNCHANGED received
    \/ /\ m.type = "extended"
       /\ \E more \in {<<>>, <<Msg("E")>>} :
              Says(<<Msg("E"), ReadyForQuery(Failed)>> \o more \o <<ReadyForQuery(Failed)>>)
       /\ stxn' = Failed /\ mode' = "ready" /\ UNCHANGED received

\* CopyData, CopyDone and CopyFail are ignored once the COPY is over.
ServerQueries(m) ==
    \/ m.type \in {"d", "c", "f"} /\ UNCHANGED <<mode, received, stxn, toClient>>
    \/ m.type = "copy" /\ ServerStartsCopy
    \/ /\ m.type = "end"
       /\ stxn' = "I"
       /\ Says(<<Msg("C"), ReadyForQuery("I")>>)
       /\ UNCHANGED <<mode, received>>
    \/ /\ m.type \in {"query", "extended"}
       /\ \/ stxn # "E" /\ Says(<<Msg("C"), ReadyForQuery(stxn)>>) /\ UNCHANGED stxn
          \/ ServerFails(<<>>)
       /\ UNCHANGED <<mode, received>>

Server ==
    /\ link = "up"
    /\ toServer # <<>>
    /\ toServer' = Tail(toServer)
    /\ IF mode = "copy" THEN ServerCopies(Head(toServer))
                        ELSE ServerQueries(Head(toServer))
    /\ UNCHANGED <<connVars, copyVars, callerVars, link, async>>

\* Notices, and messages that resploop does not know (ParameterStatus).
ServerUnasked ==
    /\ link = "up" /\ mode = "copy" /\ async < MaxAsync
    /\ \E t \in {"N", "S"} : Says(<<Msg(t)>>)
    /\ async' = async + 1
    /\ UNCHANGED <<connVars, copyVars, callerVars, link, toServer, mode, received, stxn>>

\* The server goes away, with a last error or without.
ConnBreaks ==
    /\ link = "up"
    /\ link' = "down"
    /\ Says(<<>>) \/ Says(<<Msg("E")>>)
    /\ UNCHANGED <<connVars, copyVars, callerVars, toServer, mode, received, stxn, async>>

--------------------------------------------------------------------------------
(* Reading and writing *)

DoneCap == 1

\* Sending fails once the link is down.
Writes(msgs) == link = "up" /\ toServer' = toServer \o msgs
WriteFails == link = "down" /\ UNCHANGED toServer

Arrived == toClient # <<>>
Broken == toClient = <<>> /\ link = "down"
Reads == toClient' = Tail(toClient)

\* A request goes out, whether or not a COPY statement is open.
NotesRequest == beside' = (beside \/ stmt = "open")

\* The call returns r; the panics of a failed write or read mark it bad.
Returns(r) == pc' = "rest" /\ ret' = r /\ err' = "nil"
GoesBad == bad' = TRUE

Unread == UNCHANGED <<link, toClient, mode, received, stxn, async>>
Quiet == UNCHANGED <<link, toServer, mode, received, stxn, async>>

--------------------------------------------------------------------------------
(* Prepare *)

\* The byte prepareCopyIn takes for the format: it comes after the format, the
\* number of columns and one byte of the two that each column has.
FormatByte(v) == IF v[2] % 2 = 1 THEN v[1] ELSE 0

Unwanted(m) ==
    \/ m.type = "H"
    \/ m.type = "G" /\ m.val[2] > 0 /\ FormatByte(m.val) # 0

\* conn.Prepare of a COPY: neither it nor prepareCopyIn looks at inCopy, or whether
\* a COPY statement is open.  One that is closed is forgotten.
Prepare ==
    /\ pc = "rest" /\ copies < MaxCopies
    /\ copies' = copies + 1
    /\ \/ /\ bad /\ Returns("bad")
          /\ UNCHANGED <<bad, toServer, beside>>
       \/ /\ ~bad /\ txnStatus = "I" /\ Returns("noTxn")
          /\ UNCHANGED <<bad, toServer, beside>>
       \/ /\ ~bad /\ txnStatus # "I"
          /\ \/ /\ Writes(<<Msg("copy")>>)
                /\ pc' = "awaitCopyIn" /\ err' = "nil"
                /\ NotesRequest
                /\ UNCHANGED <<bad, ret>>
             \/ WriteFails /\ GoesBad /\ Returns("io") /\ UNCHANGED beside
    /\ stmt' = IF stmt = "open" THEN stmt ELSE "none"
    /\ Unread
    /\ UNCHANGED <<inCopy, txnStatus, buffer, copyErr, result, done, resp, given>>

\* The new statement takes the place of the one before.  (That may be open only
\* if beside is set: from then on the model follows the newest statement.)
CopyInStarts ==
    LET m == Head(toClient)
    IN  /\ pc = "awaitCopyIn" /\ Arrived
        /\ m.type = "G" /\ m.val[2] > 0 /\ ~Unwanted(m)
        /\ Reads
        /\ stmt' = "open" /\ resp' = "reads" /\ inCopy' = TRUE
        /\ buffer' = <<>> /\ given' = <<>>
        /\ copyErr' = "nil" /\ result' = FALSE /\ done' = 0
        /\ Returns("ok")
        /\ Quiet
        /\ UNCHANGED <<bad, txnStatus, copies, beside>>

\* COPY without a column runs out of bytes: a runtime error.
CopyInPanics ==
    /\ pc = "awaitCopyIn" /\ Arrived
    /\ Head(toClient).type = "G" /\ Head(toClient).val[2] = 0
    /\ Reads
    /\ GoesBad /\ Returns("panic")
    /\ Quiet
    /\ UNCHANGED <<inCopy, txnStatus, copyVars, given, copies, beside>>

\* A COPY that the driver does not want is aborted with CopyFail.
CopyAborted ==
    LET m == Head(toClient)
    IN  /\ pc = "awaitCopyIn" /\ Arrived /\ Unwanted(m)
        /\ Reads
        /\ \/ /\ Writes(<<Msg("f")>>)
              /\ pc' = "awaitAbort"
              /\ err' = IF m.type = "G" THEN "binary" ELSE "copyTo"
              /\ UNCHANGED <<bad, ret>>
           \/ WriteFails /\ GoesBad /\ Returns("io")
        /\ UNCHANGED <<inCopy, txnStatus, copyVars, given, copies, beside,
                       link, mode, received, stxn, async>>

\* What the answer to an aborted COPY may contain before ReadyForQuery.
AbortAnswers == {"c", "C", "E"}

PrepareReads ==
    LET m == Head(toClient)
    IN  /\ pc \in {"awaitCopyIn", "awaitAbort"} /\ Arrived
        /\ Reads
        /\ \/ /\ m.type \in {"N", "S"}
              /\ UNCHANGED <<bad, txnStatus, pc, err, ret>>
           \/ /\ pc = "awaitCopyIn" /\ m.type = "E"
              /\ err' = "server"
              /\ UNCHANGED <<bad, txnStatus, pc, ret>>
           \/ /\ pc = "awaitAbort" /\ m.type \in AbortAnswers
              /\ UNCHANGED <<bad, txnStatus, pc, err, ret>>
           \/ /\ m.type = "Z" /\ err # "nil"
              /\ txnStatus' = m.val
              /\ Returns(err)
              /\ UNCHANGED bad
           \/ /\ \/ m.type = "Z" /\ err = "nil"
                 \/ pc = "awaitCopyIn" /\ m.type \notin {"G", "H", "E", "Z", "N", "S"}
                 \/ pc = "awaitAbort" /\ m.type \notin AbortAnswers \cup {"Z", "N", "S"}
              /\ GoesBad /\ Returns("unexpected")
              /\ UNCHANGED txnStatus
        /\ Quiet
        /\ UNCHANGED <<inCopy, copyVars, given, copies, beside>>

\* A message cut short (io.ErrUnexpectedEOF) is an error like any other.
CallReadFails ==
    /\ pc \in {"awaitCopyIn", "awaitAbort", "awaitReady"} /\ Broken
    /\ bad' \in BOOLEAN /\ (bad => bad')
    /\ Returns("io")
    /\ Unread
    /\ UNCHANGED <<inCopy, txnStatus, copyVars, given, copies, beside, toServer>>

--------------------------------------------------------------------------------
(* The statement *)

\* Why Exec, CopyData and Exec() do nothing.
Refusal ==
    CASE stmt = "closed" -> "closed"
      [] stmt = "open" /\ bad -> "bad"
      [] stmt = "open" /\ ~bad -> copyErr

Refused == pc = "rest" /\ stmt # "none" /\ Refusal # "nil"

AfterFlush(rows) == <<>>

\* A row goes to the buffer, and the buffer to the server when it is full.
PutRow(row, capacity) ==
    /\ Len(given) < MaxRows
    /\ pc = "rest" /\ stmt = "open" /\ Refusal = "nil"
    /\ given' = Append(given, row)
    /\ LET rows == Append(buffer, row)
       IN  \/ /\ Len(rows) <= capacity
              /\ buffer' = rows
              /\ Returns("ok")
              /\ UNCHANGED <<bad, toServer>>
           \/ /\ Len(rows) > capacity
              /\ Writes(<<RowData(rows)>>)
              /\ buffer' = AfterFlush(rows)
              /\ Returns("ok")
              /\ UNCHANGED bad
           \/ /\ Len(rows) > capacity
              /\ WriteFails
              /\ buffer' = rows
              /\ GoesBad /\ Returns("io")
    /\ Unread
    /\ UNCHANGED <<inCopy, txnStatus, stmt, copyErr, result, done, resp, copies, beside>>

NextRow == Len(given) + 1
Exec == PutRow(NextRow, BufferRows)
CopyData == PutRow(NextRow, FlushRows)

ExecRefused ==
    /\ Refused
    /\ Returns(Refusal)
    /\ UNCHANGED <<connVars, copyVars, given, copies, beside, serverVars>>

\* Exec() without values closes the statement, if nothing went wrong before;
\* Close does so whatever went wrong.
StartsClosing(sync) ==
    /\ pc = "rest" /\ stmt = "open"
    /\ sync => Refusal = "nil"
    /\ stmt' = "closed"
    /\ \/ bad /\ Returns("bad")
       \/ ~bad /\ pc' = "flush" /\ err' = "nil" /\ UNCHANGED ret
    /\ UNCHANGED <<connVars, buffer, copyErr, result, done, resp, given, copies, beside, serverVars>>

Sync == StartsClosing(TRUE)
Close == StartsClosing(FALSE)

CloseAgain ==
    /\ pc = "rest" /\ stmt = "closed"
    /\ Returns("nothing")
    /\ UNCHANGED <<connVars, copyVars, given, copies, beside, serverVars>>

CloseFlushes ==
    /\ pc = "flush"
    /\ \/ Writes(<<RowData(buffer)>>) /\ pc' = "sendDone" /\ UNCHANGED <<bad, err, ret>>
       \/ WriteFails /\ GoesBad /\ Returns("io")
    /\ Unread
    /\ UNCHANGED <<inCopy, txnStatus, copyVars, given, copies, beside>>

\* The error of this write is returned, not panicked: conn.err stays unset.
CloseSendsDone ==
    /\ pc = "sendDone"
    /\ \/ Writes(<<Msg("c")>>) /\ pc' = "awaitDone" /\ UNCHANGED <<err, ret>>
       \/ WriteFails /\ Returns("io")
    /\ Unread
    /\ UNCHANGED <<connVars, copyVars, given, copies, beside>>

AtTheEnd(e) == IF e = "nil" THEN "ok" ELSE e

ResploopIsDone == done > 0              \* <-ci.done

CloseReturns ==
    /\ pc = "awaitDone"
    /\ ResploopIsDone
    /\ done' = 0
    /\ inCopy' = FALSE
    /\ Returns(AtTheEnd(copyErr))
    /\ UNCHANGED <<bad, txnStatus, stmt, buffer, copyErr, result, resp, given, copies, beside,
                   serverVars>>

--------------------------------------------------------------------------------
(* resploop *)

ResploopEnds == resp' = "signals"

Resploop ==
    LET m == Head(toClient)
    IN  /\ resp = "reads" /\ Arrived
        /\ Reads
        /\ \/ m.type = "C" /\ result' = TRUE /\ UNCHANGED <<bad, txnStatus, copyErr, resp>>
           \/ m.type = "N" /\ UNCHANGED <<bad, txnStatus, copyErr, result, resp>>
           \/ /\ m.type = "Z"
              /\ txnStatus' = m.val
              /\ ResploopEnds
              /\ UNCHANGED <<bad, copyErr, result>>
           \/ /\ m.type = "E"
              /\ copyErr' = IF copyErr = "nil" THEN "server" ELSE copyErr
              /\ UNCHANGED <<bad, txnStatus, result, resp>>
           \/ /\ m.type \notin {"C", "N", "Z", "E"}
              /\ GoesBad
              /\ copyErr' = IF copyErr = "nil" THEN "unexpected" ELSE copyErr
              /\ ResploopEnds
              /\ UNCHANGED <<txnStatus, result>>
        /\ Quiet
        /\ UNCHANGED <<inCopy, stmt, buffer, done, callerVars>>

ResploopReadFails ==
    /\ resp = "reads" /\ Broken
    /\ GoesBad
    /\ copyErr' = IF copyErr = "nil" THEN "io" ELSE copyErr
    /\ ResploopEnds
    /\ UNCHANGED <<inCopy, txnStatus, stmt, buffer, result, done, callerVars, serverVars>>

\* done <- true: into the channel if it has room.
Signal ==
    /\ resp = "signals"
    /\ done < DoneCap \/ pc = "awaitDone"
    /\ done' = done + 1
    /\ resp' = "over"
    /\ UNCHANGED <<connVars, stmt, buffer, copyErr, result, callerVars, serverVars>>

--------------------------------------------------------------------------------
(* Other methods of the connection *)

\* query, the only one that looks at inCopy.
Sees == inCopy

Query ==
    /\ pc = "rest"
    /\ \/ bad /\ Returns("bad") /\ UNCHANGED <<bad, toServer>>
       \/ ~bad /\ Sees /\ Returns("inCopy") /\ UNCHANGED <<bad, toServer>>
       \/ /\ ~bad /\ ~Sees
          /\ \/ Writes(<<Msg("query")>>) /\ pc' = "awaitReady" /\ UNCHANGED <<bad, err, ret>>
             \/ WriteFails /\ GoesBad /\ Returns("io")
    /\ Unread
    /\ UNCHANGED <<inCopy, txnStatus, copyVars, given, copies, beside>>

\* The others send their request, and read up to the end of its answer.
Requests(m) ==
    /\ pc = "rest"
    /\ \/ bad /\ Returns("bad") /\ UNCHANGED <<bad, toServer, beside>>
       \/ /\ ~bad
          /\ \/ /\ Writes(<<m>>)
                /\ pc' = "awaitReady"
                /\ NotesRequest
                /\ UNCHANGED <<bad, err, ret>>
             \/ WriteFails /\ GoesBad /\ Returns("io") /\ UNCHANGED beside
    /\ Unread
    /\ UNCHANGED <<inCopy, txnStatus, copyVars, given, copies>>

\* conn.Exec without arguments.
ConnExec == Requests(Msg("query"))

\* conn.Exec with arguments, conn.Prepare of anything but a COPY, and Query, Exec
\* and Close of such a statement.
ExtendedRequest == Requests(Msg("extended"))

\* Commit, Rollback: simpleExec in the end.
EndTx == txnStatus # "I" /\ Requests(Msg("end"))

AwaitsReady ==
    LET m == Head(toClient)
    IN  /\ pc = "awaitReady" /\ Arrived
        /\ Reads
        /\ \/ /\ m.type \in {"C", "N", "S"}
              /\ UNCHANGED <<bad, txnStatus, pc, err, ret>>
           \/ m.type = "E" /\ err' = "server" /\ UNCHANGED <<bad, txnStatus, pc, ret>>
           \/ /\ m.type = "Z"
              /\ txnStatus' = m.val
              /\ Returns(AtTheEnd(err))
              /\ UNCHANGED bad
           \/ /\ m.type \notin {"C", "N", "S", "E", "Z"}
              /\ GoesBad /\ Returns("unexpected")
              /\ UNCHANGED txnStatus
        /\ Quiet
        /\ UNCHANGED <<inCopy, copyVars, given, copies, beside>>

--------------------------------------------------------------------------------

Init ==
    /\ bad = FALSE /\ inCopy = FALSE
    /\ txnStatus \in {"I", "T"} /\ stxn = txnStatus
    /\ stmt = "none" /\ buffer = <<>> /\ copyErr = "nil" /\ result = FALSE
    /\ done = 0 /\ resp = "none"
    /\ pc = "rest" /\ err = "nil" /\ ret = "none" /\ given = <<>> /\ copies = 0
    /\ beside = FALSE
    /\ link = "up" /\ toServer = <<>> /\ toClient = <<>>
    /\ mode = "ready" /\ received = <<>> /\ async = 0

Environment == Server \/ ServerUnasked \/ ConnBreaks

\* What the caller's goroutine does once a call has started.
Continues ==
    \/ CopyInStarts \/ CopyInPanics \/ CopyAborted \/ PrepareReads \/ CallReadFails
    \/ CloseFlushes \/ CloseSendsDone \/ CloseReturns \/ AwaitsReady

Calls ==
    \/ Prepare \/ Exec \/ CopyData \/ ExecRefused \/ Sync \/ Close \/ CloseAgain
    \/ Query \/ ConnExec \/ ExtendedRequest \/ EndTx

Reader == Resploop \/ ResploopReadFails \/ Signal

Next == Environment \/ Continues \/ Calls \/ Reader

Spec == Init /\ [][Next]_vars

\* The goroutines are scheduled, and the server answers.
FairSpec == Spec /\ WF_vars(Continues) /\ WF_vars(Reader) /\ WF_vars(Server)

--------------------------------------------------------------------------------
(* Properties *)

Rows == Seq(1..MaxRows)
ServerMessages ==
    {Msg(t) : t \in {"H", "d", "c", "C", "E", "N", "S"}}
        \cup [type : {"G"}, val : Formats \X Columns]
        \cup [type : {"Z"}, val : TxnStatuses]
ClientMessages ==
    {Msg(t) : t \in {"copy", "query", "extended", "end", "c", "f"}} \cup [type : {"d"}, val : Rows]

\* The types of the variables, and how many values done can hold.
TypeOK ==
    /\ bad \in BOOLEAN /\ inCopy \in BOOLEAN /\ txnStatus \in TxnStatuses
    /\ stmt \in {"none", "open", "closed"}
    /\ buffer \in Rows /\ Len(buffer) <= BufferRows + FlushRows + 1
    /\ copyErr \in {"nil", "server", "unexpected", "io"} /\ result \in BOOLEAN
    /\ done \in {0, 1} /\ resp \in {"none", "reads", "signals", "over"}
    /\ pc \in {"rest", "awaitCopyIn", "awaitAbort", "flush", "sendDone", "awaitDone",
               "awaitReady"}
    /\ err \in {"nil", "server", "binary", "copyTo"}
    /\ given \in Rows /\ copies \in 0..MaxCopies /\ beside \in BOOLEAN
    /\ link \in {"up", "down"} /\ mode \in {"ready", "copy"}
    /\ received \in Rows
    /\ toServer \in Seq(ClientMessages) /\ toClient \in Seq(ServerMessages)
    /\ stxn \in TxnStatuses /\ async \in 0..MaxAsync

\* Nobody but resploop reads the connection while it runs, nor uses the scratch
\* buffer that it reads into ("Avoid touching the scratch buffer as resploop could be
\* using it", says Close).
SoleReader ==
    pc \in {"awaitCopyIn", "awaitAbort", "awaitReady"} => resp \in {"none", "over"}

\* Two goroutines read only if a method other than query was called with the COPY
\* statement open: neither a query, at any time, nor any call after a Close, however
\* that ended, nor the Prepare of the next COPY meets a resploop that still reads.
\* Each answer then reaches the goroutine it is for.
OneReader == ~beside => SoleReader

\* What a closing call may return.
Outcome ==
    \/ ret' = "ok" /\ received = given /\ result
    \/ ret' # "ok" /\ (bad' \/ stxn = "E" \/ link = "down")

\* Close and Exec() tell the truth.  Without an error the server has got every
\* row that Exec and CopyData accepted, each once and in order, and has completed
\* the COPY.  With an error none of them will be committed: the transaction has
\* failed, or the connection is lost or marked bad.
OutcomeIsTrue ==
    [][pc' = "rest" /\ pc \in {"flush", "sendDone", "awaitDone"} /\ ~beside => Outcome]_vars

\* What the transaction has become is known once the statement is closed, and a
\* connection that can be used again has nothing left to read: every error path
\* of Prepare and Close leaves it where the next call can start.
InStep ==
    pc = "rest" /\ ~bad /\ link = "up" /\ stmt # "open" /\ ~beside =>
        /\ toClient = <<>> /\ mode = "ready"
        /\ \A i \in DOMAIN toServer : toServer[i].type \in {"d", "c", "f"}
        /\ txnStatus = stxn
        /\ resp \in {"none", "over"} /\ ~inCopy

\* Every call returns: no read waits for a message that another goroutine got,
\* and Close does not wait for a resploop that is already over.
CallReturns == (pc # "rest") ~> (pc = "rest" \/ beside)

\* resploop does not outlive the statement, and it does not wait for ever for a
\* Close that returns early since the connection is bad.
ResploopIsOver == (stmt = "closed" \/ bad) ~> (resp \in {"none", "over"} \/ beside)
================================================================================
