---------------------------------- MODULE Conn ----------------------------------
(***************************************************************************)
(* conn (conn.go, rows.go, error.go): one connection of a database/sql     *)
(* pool, message by message.  database/sql uses it from one goroutine at a *)
(* time: single calls, queries whose rows stay open, prepared statements   *)
(* and transactions.  The server answers each request step by step; a step *)
(* may fail, and the connection may break at any moment, in the ways the   *)
(* driver tells apart.                                                     *)
(*                                                                         *)
(* What a call has still to do (prog) and what the server still has to  *)
(* answer (todo) are both sequences of steps: the question is whether they *)
(* always agree.  A request is a batch of steps that ends in "sync", which *)
(* the server answers with ReadyForQuery; after an error it skips to it.   *)
(*                                                                         *)
(* Left out: asynchronous messages (recv1 skips them), column types and    *)
(* formats, values, and the contents of errors.  The application closes    *)
(* its rows before it makes another call on the same connection.           *)
(***************************************************************************)
EXTENDS Naturals, Sequences

CONSTANTS
    Scripts,        \* bound: the query strings, as sequences of statements
    Statements,     \* bound: the statements run through the extended protocol
    MaxRows         \* bound: rows a SELECT returns

Kinds == {"select", "dml", "empty", "begin", "commit", "rollback",
          "copyIn", "copyOut"}

ASSUME ScriptsAssumption ==
    /\ \A q \in Scripts : q \in Seq(Kinds) /\ Len(q) \in {1, 2}
    /\ Statements \subseteq Kinds
ASSUME RowsAssumption == MaxRows \in Nat

\* No COPY follows the rows of a statement in one query string: rows.Next returns
\* an error for its CopyInResponse, but does not mark the connection bad.
NoCopyAfterRows ==
    \A q \in Scripts : Len(q) = 2 /\ q[1] = "select" => q[2] \notin {"copyIn", "copyOut"}

VARIABLES
    \* struct conn
    bad,            \* why conn.err is set: "no", "io", "txn", or the type of the
                    \*   message that was not understood
    txnStatus,
    saved,          \* saveMessageType and saveMessageBuffer
    \* the call in progress
    call,           \* which method, "none" at rest
    prog,           \* its steps: requests to send, functions that read answers
    err,            \* an ErrorResponse has been received
    res,            \* the result so far: "nil", "cols" or "done"
    tag,            \* the last command tag
    \* database/sql
    ret,            \* what the last call returned: "ok", "error", "ErrBadConn",
                    \*   or "panic"
    inTx,           \* a Tx owns the connection
    rows,           \* the rows object: "none", "open" or "done"
    prepared,       \* a statement is prepared
    \* the server
    todo,           \* steps of the requests it has received
    stxn,           \* its transaction status
    link,           \* "up"; or "fatal", a last ErrorResponse is to come; or how
                    \*   reading fails: "eof", "reset", "cut"
    performed       \* it may have performed a statement of this call

connVars == <<bad, txnStatus, saved>>
callVars == <<call, prog, err, res, tag>>
poolVars == <<ret, inTx, rows, prepared>>
serverVars == <<todo, stxn, link, performed>>
vars == <<connVars, callVars, poolVars, serverVars>>

(* Mistakes the code could have made, as mutated forms for the properties.   *)
AlwaysRetried(n) == "ErrBadConn"        \* a partial write is retried as well
StatusDecides(r, g, status) == IF status = "I" THEN "ok" ELSE "txn"
ErrorIgnored(r, g, status) == IF r # "ok" \/ g # "ROLLBACK" THEN "error" ELSE "ok"
AtOnce == <<>>                          \* an error is returned where it is read
NeverWrong(intxn) == FALSE              \* checkIsInTransaction is left out
Forgotten(m) == UNCHANGED saved         \* the message read ahead is not saved

--------------------------------------------------------------------------------
(* Messages and the server *)

Msg(t, v) == [type |-> t, val |-> v]
NoMsg == Msg("none", "-")

Tags == {"BEGIN", "COMMIT", "ROLLBACK", "other"}
TxnStatuses == {"I", "T", "E"}
PlainTypes == {"1", "2", "3", "t", "T", "n", "D", "I", "E", "G", "H", "d", "c"}

Messages == {Msg(t, "-") : t \in PlainTypes}
              \cup {Msg("C", g) : g \in Tags} \cup {Msg("Z", s) : s \in TxnStatuses}

\* The steps in which the server runs a statement that returns n rows.
RowSteps(n) == [i \in 1..n |-> "row"] \o <<"complete">>

Run(kind, n) ==
    CASE kind = "select" -> RowSteps(n)
      [] kind = "dml" -> <<"complete">>
      [] kind = "copyIn" -> <<"copyIn", "copying">>
      [] kind = "copyOut" -> <<"copyOut", "copyData", "copyDone", "complete">>
      [] OTHER -> <<kind>>

RunSimple(kind, n) == (IF kind = "select" THEN <<"header">> ELSE <<>>) \o Run(kind, n)

\* A query string has at most two statements.
SimpleRequest(script, n) ==
    RunSimple(script[1], n)
      \o (IF Len(script) > 1 THEN RunSimple(script[2], n) ELSE <<>>) \o <<"sync">>

Answer ==
    [parse |-> {"1"}, describe |-> {"t"}, fields |-> {"T", "n"}, bind |-> {"2"},
     portal |-> {"T", "n"}, close |-> {"3"}, header |-> {"T"}, row |-> {"D"},
     empty |-> {"I"}, copyIn |-> {"G"}, copyOut |-> {"H"}, copyData |-> {"d"},
     copyDone |-> {"c"}]

\* Steps of a statement: none succeeds in a failed transaction.
Running == {"header", "row", "complete", "begin", "copyIn", "copyOut"}

Pop == todo' = Tail(todo)

\* The empty query of Ping performs nothing.
Performing == call \notin {"none", "Ping"}

\* What follows the request that failed.
SkipToSync ==
    LET sync == CHOOSE i \in DOMAIN todo :
                    todo[i] = "sync" /\ \A j \in 1..(i - 1) : todo[j] # "sync"
    IN  SubSeq(todo, sync, Len(todo))

Answers(m) ==
    /\ Head(todo) \in DOMAIN Answer
    /\ Head(todo) \in Running => stxn # "E"
    /\ m.type \in Answer[Head(todo)]
    /\ performed' = (performed \/ (Head(todo) = "row" /\ Performing))
    /\ Pop
    /\ UNCHANGED stxn

Completes(m) ==
    /\ m.type = "C"
    /\ performed' = (performed \/ Performing)
    /\ Pop
    /\ \/ Head(todo) = "complete" /\ stxn # "E" /\ m.val = "other" /\ UNCHANGED stxn
       \/ Head(todo) = "begin" /\ stxn # "E" /\ m.val = "BEGIN" /\ stxn' = "T"
       \/ /\ Head(todo) = "commit"
          /\ m.val = IF stxn = "E" THEN "ROLLBACK" ELSE "COMMIT"
          /\ stxn' = "I"
       \/ Head(todo) = "rollback" /\ m.val = "ROLLBACK" /\ stxn' = "I"

\* Any step may fail; a COMMIT may fail and end the transaction.
Fails(m) ==
    /\ m.type = "E"
    /\ Head(todo) \notin {"sync", "copying"}
    /\ todo' = SkipToSync
    /\ \/ stxn = "T" /\ stxn' = "E"
       \/ stxn # "T" /\ UNCHANGED stxn
       \/ Head(todo) = "commit" /\ stxn' = "I"
    /\ UNCHANGED performed

Ready(m) ==
    /\ m = Msg("Z", stxn)
    /\ Head(todo) = "sync"
    /\ Pop
    /\ UNCHANGED <<stxn, performed>>

ServerSends(m) ==
    \/ /\ link = "up"
       /\ todo # <<>>
       /\ Answers(m) \/ Completes(m) \/ Fails(m) \/ Ready(m)
       /\ UNCHANGED link
    \/ /\ link = "fatal"
       /\ m = Msg("E", "-")
       /\ link' = "eof"
       /\ UNCHANGED <<todo, stxn, performed>>

\* A server waiting for COPY data takes another request for a failure of the
\* COPY, and forgets it.
Receives(request) ==
    todo' = IF todo # <<>> /\ Head(todo) = "copying"
            THEN <<"copyFailed", "sync">>
            ELSE todo \o request

\* The connection is lost: the server ends it with a fatal error, or reading gives io.EOF, a network error, or another
\* error (as when a message is cut short).  A request received is or is not
\* performed.
ConnBreaks(how) ==
    /\ link = "up"
    /\ link' = how
    /\ performed' \in {performed, performed \/ (todo # <<>> /\ Performing)}
    /\ todo' = <<>>
    /\ UNCHANGED <<stxn, connVars, callVars, poolVars>>

--------------------------------------------------------------------------------
(* The end of a call *)

AtRest == prog = <<>>

\* What database/sql holds after a call c that returned r.
Holds(c, r) ==
    /\ inTx' = CASE c = "Begin" -> r = "ok"
                 [] c \in {"Commit", "Rollback", "CommitFailed"} -> FALSE
                 [] OTHER -> inTx
    /\ prepared' = CASE c = "Prepare" -> r = "ok"
                     [] c = "StmtClose" -> FALSE
                     [] OTHER -> prepared

\* Ping has but one error to return, and ignores what closing its rows gives.
Result(r) ==
    IF call # "Ping" THEN r
    ELSE IF prog = <<"next">> THEN "ok" ELSE IF r = "error" THEN "ErrBadConn" ELSE r

Returns(r) ==
    /\ ret' = Result(r)
    /\ Holds(call, r)
    /\ call' = "none" /\ prog' = <<>> /\ err' = FALSE /\ res' = "nil" /\ tag' = "-"

\* It returns no rows object; rows.Close ends the one there was.
ReturnsPlain(r) ==
    /\ Returns(r)
    /\ rows' = IF call = "Close" THEN "none" ELSE rows

ReturnsRows(how) == Returns("ok") /\ rows' = how

\* syncErr.set: the first error stays.
SetBad(why) == bad' = IF bad = "no" THEN why ELSE bad

--------------------------------------------------------------------------------
(* Sending *)

\* A write that failed after n bytes; nothing written is safe to retry.
WriteError(n) == IF n = 0 THEN "ErrBadConn" ELSE "error"

\* What is written to a connection that was lost may seem to have been sent.
Sends(request) ==
    /\ prog' = Tail(prog)
    /\ IF link = "up" THEN Receives(request) ELSE UNCHANGED todo
    /\ UNCHANGED <<connVars, poolVars, call, err, res, tag, stxn, link, performed>>

SendFails ==
    /\ SetBad("io")
    /\ \/ /\ link # "up"
          /\ ReturnsPlain(WriteError(0))
          /\ UNCHANGED <<link, todo, performed>>
       \/ /\ link = "up"
          /\ link' = "reset"
          /\ todo' = <<>>
          /\ performed' \in {performed, performed \/ Performing}
          /\ ReturnsPlain(WriteError(1))
    /\ UNCHANGED <<txnStatus, saved, stxn>>

TxnStatement ==
    CASE call = "Begin" -> "begin" [] call = "Commit" -> "commit" [] OTHER -> "rollback"

Requests ==
    CASE Head(prog) = "sendQuery" ->
            IF call = "Ping" THEN {<<"empty", "sync">>}
            ELSE {SimpleRequest(q, n) : q \in Scripts, n \in 0..MaxRows}
      [] Head(prog) = "sendTxn" -> {<<TxnStatement, "sync">>}
      [] Head(prog) = "sendParse" -> {<<"parse", "describe", "fields", "sync">>}
      [] Head(prog) = "sendBind" ->
            {<<"bind">> \o Run(q, n) \o <<"sync">> : q \in Statements, n \in 0..MaxRows}
      [] Head(prog) = "sendBinary" ->
            {<<"parse", "bind", "portal">> \o Run(q, n) \o <<"sync">> :
                q \in Statements, n \in 0..MaxRows}
      [] Head(prog) = "sendClose" -> {<<"close", "sync">>}

SendSteps == {"sendQuery", "sendTxn", "sendParse", "sendBind", "sendBinary", "sendClose"}

Send ==
    /\ ~AtRest
    /\ Head(prog) \in SendSteps
    /\ SendFails \/ \E request \in Requests : Sends(request)

\* The arguments cannot be encoded, or are not as many as the statement takes.
BadArguments ==
    /\ ~AtRest
    /\ Head(prog) \in {"sendBind", "sendBinary"}
    /\ ReturnsPlain("error")
    /\ UNCHANGED <<connVars, serverVars>>

--------------------------------------------------------------------------------
(* Receiving *)

Reading(step) == ~AtRest /\ Head(prog) = step

\* recvMessage: the saved message first.  What becomes of saved is up to the
\* function that called it.
RecvMessage(m) ==
    IF saved = NoMsg THEN ServerSends(m) ELSE m = saved /\ UNCHANGED serverVars

Forget == saved' = NoMsg
SaveMessage(m) == saved' = m

\* The call goes on with program.
Continue(program) == prog' = program /\ UNCHANGED <<bad, txnStatus, call, poolVars>>

SameResult == UNCHANGED <<err, res, tag>>

Leave(r) == ReturnsPlain(r) /\ UNCHANGED <<bad, txnStatus>>

Unexpected(m) ==
    SetBad(m.type) /\ ReturnsPlain("error") /\ UNCHANGED txnStatus

\* Reading fails, and errRecover makes an error of it.
ReadError ==
    CASE link = "eof" -> SetBad("io") /\ ReturnsPlain("ErrBadConn")
      [] link = "reset" -> SetBad("io") /\ ReturnsPlain("error")
      [] link = "cut" -> UNCHANGED bad /\ ReturnsPlain("error")

RecvFails ==
    /\ ~AtRest
    /\ Head(prog) \notin SendSteps
    /\ saved = NoMsg
    /\ link \in {"eof", "reset", "cut"}
    /\ ReadError
    /\ UNCHANGED <<txnStatus, saved, serverVars>>

\* processReadyForQuery
ProcessReady(m) == txnStatus' = m.val

InTxn(status) == status \in {"T", "E"}

--------------------------------------------------------------------------------
(* simpleExec, and what Exec, begin, Commit and rollback do with its result   *)

\* The result of simpleExec: errUnexpectedReady if there was none.
ExecResult == IF err \/ res = "nil" THEN "error" ELSE "ok"

ExecTag(m) ==
    CASE m.type = "C" -> res' = "done" /\ tag' = m.val /\ UNCHANGED err
      [] m.type = "I" -> res' = "done" /\ UNCHANGED <<err, tag>>
      [] m.type = "E" -> err' = TRUE /\ UNCHANGED <<res, tag>>
      [] m.type \in {"T", "D"} -> SameResult

\* begin: the tag and the status have to be right.
BeginResult(r, g, status) ==
    IF r # "ok" THEN "error" ELSE IF g = "BEGIN" /\ status = "T" THEN "ok" ELSE "txn"

\* Commit: one that failed must have ended the transaction.
CommitResult(r, g, status) ==
    IF r # "ok" THEN IF InTxn(status) THEN "txn" ELSE "error"
    ELSE IF g = "COMMIT" /\ ~InTxn(status) THEN "ok" ELSE "txn"

\* rollback: a wrong tag is an error, but leaves the connection in use.
RollbackResult(r, g, status) ==
    IF r # "ok" THEN IF InTxn(status) THEN "txn" ELSE "error"
    ELSE IF g # "ROLLBACK" THEN "error"
    ELSE IF ~InTxn(status) THEN "ok" ELSE "txn"

\* "txn" marks the connection bad and is an error.
TxnReturns(r) ==
    IF r = "txn" THEN SetBad("txn") /\ ReturnsPlain("error")
    ELSE UNCHANGED bad /\ ReturnsPlain(r)

ReadsOn(m) == ProcessReady(m) /\ SameResult /\ UNCHANGED <<bad, call, prog, poolVars>>

SimpleExecDone(m) ==
    /\ ProcessReady(m)
    /\ CASE call = "Begin" -> TxnReturns(BeginResult(ExecResult, tag, m.val))
         [] call = "Commit" -> TxnReturns(CommitResult(ExecResult, tag, m.val))
         [] call = "Rollback" -> TxnReturns(RollbackResult(ExecResult, tag, m.val))
         [] call = "CommitFailed" ->
              LET r == RollbackResult(ExecResult, tag, m.val)
              IN  TxnReturns(IF r = "ok" THEN "error" ELSE r)
         [] OTHER -> UNCHANGED bad /\ ReturnsPlain(ExecResult)

SimpleExec(m) ==
    /\ Reading("simpleExec")
    /\ RecvMessage(m)
    /\ Forget
    /\ \/ m.type \in {"C", "I", "E", "T", "D"} /\ ExecTag(m) /\ Continue(prog)
       \/ m.type = "Z" /\ SimpleExecDone(m)
       \/ m.type \notin {"C", "I", "E", "T", "D", "Z"} /\ Unexpected(m)

--------------------------------------------------------------------------------
(* simpleQuery, for Query and Ping *)

\* Query returns the rows; Ping closes them.
QueryReturns(how) ==
    IF call # "Ping" THEN ReturnsRows(how)
    ELSE IF how = "done" \/ bad # "no" THEN ReturnsPlain("ok")
    ELSE prog' = <<"next">> /\ SameResult /\ UNCHANGED <<call, poolVars>>

\* A nil rows object and no error: the caller would dereference it.
NilRows == ReturnsPlain("panic")

SimpleQueryDone ==
    IF err THEN ReturnsPlain("error")
    ELSE IF res = "nil" THEN NilRows
    ELSE QueryReturns(IF res = "done" THEN "done" ELSE "open")

SimpleQuery(m) ==
    /\ Reading("simpleQuery")
    /\ RecvMessage(m)
    /\ \/ /\ m.type \in {"C", "I"} /\ ~err /\ Forget
          /\ \/ m.type = "C" /\ res = "cols" /\ QueryReturns("open") /\ UNCHANGED <<bad, txnStatus>>
             \/ /\ m.type = "I" \/ res # "cols"
                /\ res' = "done" /\ UNCHANGED <<err, tag>> /\ Continue(prog)
       \/ m.type = "T" /\ Forget /\ res' = "cols" /\ UNCHANGED <<err, tag>> /\ Continue(prog)
       \/ m.type = "E" /\ Forget /\ res' = "nil" /\ err' = TRUE /\ UNCHANGED tag /\ Continue(prog)
       \/ m.type = "D" /\ res # "nil" /\ SaveMessage(m) /\ QueryReturns("open") /\ UNCHANGED <<bad, txnStatus>>
       \/ m.type = "Z" /\ Forget /\ ProcessReady(m) /\ UNCHANGED bad /\ SimpleQueryDone
       \/ /\ \/ m.type \notin {"C", "I", "T", "E", "D", "Z"}
             \/ m.type \in {"C", "I"} /\ err
             \/ m.type = "D" /\ res = "nil"
          /\ Forget /\ Unexpected(m)

--------------------------------------------------------------------------------
(* The extended protocol *)

\* An error is returned once ReadyForQuery has been read.
AfterError == <<"failAtReady">>

\* A function that wants a message of one type, or an error.
ReadResponse(step, types, m) ==
    /\ Reading(step)
    /\ RecvMessage(m)
    /\ Forget
    /\ \/ m.type \in types /\ SameResult /\ Continue(Tail(prog))
       \/ m.type = "E" /\ SameResult /\ Continue(AfterError)
       \/ m.type \notin types \cup {"E"} /\ Unexpected(m)

ReadParseResponse(m) == ReadResponse("readParseResponse", {"1"}, m)
ReadBindResponse(m) == ReadResponse("readBindResponse", {"2"}, m)
ColumnsOnly(m) == ReadResponse("readPortalDescribeResponse", {"T"}, m)
ReadPortalDescribeResponse(m) == ReadResponse("readPortalDescribeResponse", {"T", "n"}, m)

ReadStatementDescribeResponse(m) ==
    \/ /\ Reading("readStatementDescribeResponse")
       /\ m.type = "t"
       /\ RecvMessage(m)
       /\ Forget
       /\ SameResult
       /\ Continue(prog)
    \/ /\ m.type # "t"
       /\ ReadResponse("readStatementDescribeResponse", {"T", "n"}, m)

ReadReadyForQuery(m) ==
    /\ Reading("readReadyForQuery") \/ Reading("failAtReady")
    /\ RecvMessage(m)
    /\ Forget
    /\ \/ m.type # "Z" /\ Unexpected(m)
       \/ /\ m.type = "Z"
          /\ ProcessReady(m)
          /\ UNCHANGED bad
          /\ \/ Reading("failAtReady") /\ ReturnsPlain("error")
             \/ Reading("readReadyForQuery") /\ Len(prog) = 1 /\ ReturnsPlain("ok")
             \/ /\ Reading("readReadyForQuery") /\ Len(prog) > 1
                /\ prog' = Tail(prog) /\ SameResult /\ UNCHANGED <<call, poolVars>>

\* It waits for the first sign of success, and leaves it for whoever reads next.
PostExecuteWorkaround(m) ==
    /\ Reading("postExecuteWorkaround")
    /\ RecvMessage(m)
    /\ \/ /\ m.type \in {"C", "D", "I"}
          /\ SaveMessage(m)
          /\ \/ Len(prog) > 1 /\ SameResult /\ Continue(Tail(prog))
             \/ Len(prog) = 1 /\ ReturnsRows("open") /\ UNCHANGED <<bad, txnStatus>>
       \/ m.type = "E" /\ Forget /\ SameResult /\ Continue(AfterError)
       \/ m.type \notin {"C", "D", "I", "E"} /\ Forget /\ Unexpected(m)

ReadExecuteResponse(m) ==
    /\ Reading("readExecuteResponse")
    /\ RecvMessage(m)
    /\ Forget
    /\ \/ /\ m.type = "E" \/ (m.type \in {"C", "T", "D", "I"} /\ ~err)
          /\ ExecTag(m)
          /\ Continue(prog)
       \/ m.type = "Z" /\ ProcessReady(m) /\ UNCHANGED bad /\ ReturnsPlain(ExecResult)
       \/ /\ \/ m.type \notin {"C", "T", "D", "I", "E", "Z"}
             \/ m.type \in {"C", "T", "D", "I"} /\ err
          /\ Unexpected(m)

\* stmt.Close
ReadCloseComplete(m) ==
    /\ Reading("readCloseComplete")
    /\ RecvMessage(m)
    /\ Forget
    /\ IF m.type = "3" THEN SameResult /\ Continue(Tail(prog)) ELSE Unexpected(m)

--------------------------------------------------------------------------------
(* rows.Next, and rows.Close, which calls it until done is set or it fails     *)

\* Next returns and leaves the rows open; Close calls it again.
NextReturns ==
    IF call = "Next" THEN ReturnsPlain("ok")
    ELSE err' = FALSE /\ UNCHANGED <<prog, res, tag, call, poolVars>>

\* What becomes of the rows when ReadyForQuery has been read.
RowsAtReady == IF call = "Next" THEN "done" ELSE IF call = "Close" THEN "none" ELSE rows

RowsNext(m) ==
    /\ Reading("next")
    /\ RecvMessage(m)
    /\ Forget
    /\ \/ m.type = "E" /\ err' = TRUE /\ UNCHANGED <<res, tag>> /\ Continue(prog)
       \/ m.type \in {"C", "I"} /\ SameResult /\ Continue(prog)
       \/ /\ (m.type = "D" /\ ~err) \/ m.type = "T"
          /\ NextReturns
          /\ UNCHANGED <<bad, txnStatus>>
       \/ m.type = "D" /\ ~err /\ call = "Next" /\ Leave("error")
       \/ m.type = "D" /\ err /\ Unexpected(m)
       \/ /\ m.type = "Z"
          /\ ProcessReady(m)
          /\ UNCHANGED bad
          /\ Returns(IF err THEN "error" ELSE "ok")
          /\ rows' = RowsAtReady
       \/ /\ m.type \notin {"E", "C", "I", "D", "T", "Z"}
          /\ Leave("error")

--------------------------------------------------------------------------------
(* Calls of database/sql *)

Programs(c) ==
    CASE c = "Exec" ->
            {<<"sendQuery", "simpleExec">>,
             <<"sendParse", "readParseResponse", "readStatementDescribeResponse",
               "readReadyForQuery", "sendBind", "readBindResponse",
               "postExecuteWorkaround", "readExecuteResponse">>,
             <<"sendBinary", "readParseResponse", "readBindResponse",
               "readPortalDescribeResponse", "postExecuteWorkaround",
               "readExecuteResponse">>}
      [] c = "Query" ->
            {<<"sendQuery", "simpleQuery">>,
             <<"sendParse", "readParseResponse", "readStatementDescribeResponse",
               "readReadyForQuery", "sendBind", "readBindResponse",
               "postExecuteWorkaround">>,
             <<"sendBinary", "readParseResponse", "readBindResponse",
               "readPortalDescribeResponse", "postExecuteWorkaround">>}
      [] c = "Ping" -> {<<"sendQuery", "simpleQuery">>}
      [] c = "Prepare" ->
            {<<"sendParse", "readParseResponse", "readStatementDescribeResponse",
               "readReadyForQuery">>}
      [] c = "StmtExec" ->
            {<<"sendBind", "readBindResponse", "postExecuteWorkaround",
               "readExecuteResponse">>}
      [] c = "StmtQuery" -> {<<"sendBind", "readBindResponse", "postExecuteWorkaround">>}
      [] c = "StmtClose" -> {<<"sendClose", "readCloseComplete", "readReadyForQuery">>}
      [] c \in {"Begin", "Commit", "CommitFailed", "Rollback"} -> {<<"sendTxn", "simpleExec">>}
      [] c \in {"Next", "Close"} -> {<<"next">>}

\* database/sql has the connection at its disposal for a new call.
Available == AtRest /\ rows = "none" /\ (inTx \/ ret # "ErrBadConn") /\ ret # "panic"

Goes(c) ==
    /\ call' = c
    /\ prog' \in Programs(c)
    /\ ret' = "none"
    /\ performed' = FALSE
    /\ SameResult
    /\ UNCHANGED <<connVars, inTx, rows, prepared, todo, stxn, link>>

\* The call returns before it has sent anything.
Refuses(c, r) ==
    /\ ret' = r
    /\ Holds(c, r)
    /\ performed' = FALSE
    /\ UNCHANGED <<callVars, rows, txnStatus, saved, todo, stxn, link>>

RefusedWhenBad(c) == bad # "no" /\ Refuses(c, "ErrBadConn") /\ UNCHANGED bad

\* checkIsInTransaction
WrongStatus(intxn) == InTxn(txnStatus) # intxn

\* The methods that ask conn.err first and go on at once.
Call(c) ==
    /\ Available
    /\ c \in {"StmtExec", "StmtQuery", "StmtClose"} => prepared
    /\ c = "Prepare" => ~prepared
    /\ RefusedWhenBad(c) \/ (bad = "no" /\ Goes(c))

\* Ping does not ask.
Ping == Available /\ ~inTx /\ Goes("Ping")

Transaction(c, intxn) ==
    /\ Available
    /\ inTx = intxn
    /\ \/ RefusedWhenBad(c)
       \/ /\ bad = "no"
          /\ WrongStatus(intxn)
          /\ SetBad("txn")
          /\ Refuses(c, "error")
       \/ /\ bad = "no"
          /\ ~WrongStatus(intxn)
          /\ Goes(IF c = "Commit" /\ txnStatus = "E" THEN "CommitFailed" ELSE c)

Begin == Transaction("Begin", FALSE)
Commit == Transaction("Commit", TRUE)
Rollback == Transaction("Rollback", TRUE)

\* Next and Close of rows that are done have nothing to read; of a connection
\* that is bad, they return its error.
RowsCall(c) ==
    /\ AtRest
    /\ rows # "none"
    /\ IF rows = "open" /\ bad = "no" THEN Goes(c)
       ELSE /\ ret' = IF rows = "done" THEN "ok" ELSE "ErrBadConn"
            /\ rows' = IF c = "Close" THEN "none" ELSE rows
            /\ performed' = FALSE
            /\ UNCHANGED <<connVars, callVars, inTx, prepared, todo, stxn, link>>

\* database/sql discards a connection that returned ErrBadConn, and goes on
\* with a new one.
Discard ==
    /\ AtRest /\ rows = "none" /\ ~inTx
    /\ ret = "ErrBadConn"
    /\ bad' = "no" /\ txnStatus' = "I" /\ saved' = NoMsg
    /\ ret' = "none" /\ prepared' = FALSE
    /\ todo' = <<>> /\ stxn' = "I" /\ link' = "up" /\ performed' = FALSE
    /\ UNCHANGED <<callVars, inTx, rows>>

Losses == {"fatal", "eof", "reset", "cut"}

Init ==
    /\ bad = "no" /\ txnStatus = "I" /\ saved = NoMsg
    /\ call = "none" /\ prog = <<>> /\ err = FALSE /\ res = "nil" /\ tag = "-"
    /\ ret = "none" /\ inTx = FALSE /\ rows = "none" /\ prepared = FALSE
    /\ todo = <<>> /\ stxn = "I" /\ link = "up" /\ performed = FALSE

PoolStep ==
    \/ \E c \in {"Exec", "Query", "Prepare", "StmtExec", "StmtQuery", "StmtClose"} : Call(c)
    \/ Ping \/ Begin \/ Commit \/ Rollback
    \/ \E c \in {"Next", "Close"} : RowsCall(c)
    \/ Discard

Reads(m) ==
    \/ SimpleExec(m) \/ SimpleQuery(m)
    \/ ReadParseResponse(m) \/ ReadStatementDescribeResponse(m)
    \/ ReadPortalDescribeResponse(m) \/ ReadBindResponse(m)
    \/ PostExecuteWorkaround(m) \/ ReadExecuteResponse(m)
    \/ ReadReadyForQuery(m) \/ ReadCloseComplete(m) \/ RowsNext(m)

DriverStep == Send \/ BadArguments \/ RecvFails \/ \E m \in Messages : Reads(m)

Next == PoolStep \/ DriverStep \/ \E how \in Losses : ConnBreaks(how)

Spec == Init /\ [][Next]_vars

\* A call in progress goes on, as long as the server answers.
FairSpec == Spec /\ WF_vars(DriverStep)

--------------------------------------------------------------------------------
(* Properties *)

CallNames == {"Exec", "Query", "Ping", "Prepare", "StmtExec", "StmtQuery", "StmtClose",
              "Begin", "Commit", "CommitFailed", "Rollback", "Next", "Close"}

\* Every variable has its type.  A connection that is bad for an answer the driver
\* did not know what to do with was given one to COPY, or an error where only
\* ReadyForQuery or CloseComplete is due; and only Ping of a bad connection panics.
TypeOK ==
    /\ bad \in {"no", "io", "txn", "G", "H", "E"}
    /\ ret = "panic" => bad # "no"
    /\ txnStatus \in TxnStatuses
    /\ saved \in Messages \cup {NoMsg}
    /\ call \in CallNames \cup {"none"}
    /\ err \in BOOLEAN
    /\ res \in {"nil", "cols", "done"}
    /\ tag \in Tags \cup {"-"}
    /\ ret \in {"none", "ok", "error", "ErrBadConn", "panic"}
    /\ inTx \in BOOLEAN
    /\ rows \in {"none", "open", "done"}
    /\ prepared \in BOOLEAN
    /\ stxn \in TxnStatuses
    /\ link \in {"up"} \cup Losses
    /\ performed \in BOOLEAN

\* Between calls, a connection that is to be used again is in step with its
\* server: nothing is left to read unless rows are open, and the driver knows
\* the status of the transaction.  This through errors at every step, results
\* of several statements, and rows closed before their end.
InStep ==
    AtRest /\ bad = "no" /\ link = "up" =>
        IF rows = "open" THEN todo # <<>>
        ELSE todo = <<>> /\ saved = NoMsg /\ txnStatus = stxn

\* database/sql makes a call again that returned ErrBadConn: nothing was
\* performed then, unless the server closed the connection while it was at it.
RetryIsSafe == ret = "ErrBadConn" /\ performed /\ ~inTx => link = "eof"

\* Commit returns nil only if the server has just committed the transaction.
CommitIsTrue ==
    [][call = "Commit" /\ ret' = "ok" => tag = "COMMIT" /\ stxn' = "I"]_vars

\* A transaction is the caller's own: Begin starts it outside of any other that was
\* left open on the connection, and one that ended leaves none behind on a connection
\* used again.
TxnIsOwn ==
    [][/\ call = "Begin" /\ Reading("sendTxn") /\ link = "up" => stxn = "I"
       /\ inTx /\ ~inTx' /\ bad' = "no" /\ link' = "up" => stxn' = "I"]_vars

\* No row is lost between Query, which reads ahead to see whether the query
\* fails, and Next: a row that is taken from the wire, or from the saved
\* message, is saved or returned by Next.
RowTaken ==
    \/ todo # <<>> /\ Head(todo) = "row" /\ todo' = Tail(todo)
    \/ saved.type = "D" /\ saved' = NoMsg
NoRowLost ==
    [][RowTaken /\ call \in {"Query", "StmtQuery", "Next"} /\ bad' = "no"
         => saved'.type = "D" \/ (call = "Next" /\ prog' = <<>>)]_vars

\* A call that has begun returns.
CallReturns == ~AtRest ~> AtRest
================================================================================
