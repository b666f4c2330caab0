------------------------------ MODULE Conn_proofs ------------------------------
(***************************************************************************)
(* Proofs about Conn, for any query strings, statements and numbers of     *)
(* rows: what a call has still to do and what the server has still to      *)
(* answer always agree.                                                    *)
(***************************************************************************)
EXTENDS Conn, SequenceTheorems, TLAPS

USE DEF connVars, callVars, poolVars, serverVars

--------------------------------------------------------------------------------
(* Programs: where a call may be *)

SendTxn == {<<"sendTxn", "simpleExec">>}
SendExec == {<<"sendQuery", "simpleExec">>}
SendQuery == {<<"sendQuery", "simpleQuery">>}
SendParse ==
    {<<"sendParse", "readParseResponse", "readStatementDescribeResponse", "readReadyForQuery">>,
     <<"sendParse", "readParseResponse", "readStatementDescribeResponse", "readReadyForQuery",
       "sendBind", "readBindResponse", "postExecuteWorkaround">>,
     <<"sendParse", "readParseResponse", "readStatementDescribeResponse", "readReadyForQuery",
       "sendBind", "readBindResponse", "postExecuteWorkaround", "readExecuteResponse">>}
SendBinary ==
    {<<"sendBinary", "readParseResponse", "readBindResponse", "readPortalDescribeResponse",
       "postExecuteWorkaround">>,
     <<"sendBinary", "readParseResponse", "readBindResponse", "readPortalDescribeResponse",
       "postExecuteWorkaround", "readExecuteResponse">>}
SendBind ==
    {<<"sendBind", "readBindResponse", "postExecuteWorkaround">>,
     <<"sendBind", "readBindResponse", "postExecuteWorkaround", "readExecuteResponse">>}
SendClose == {<<"sendClose", "readCloseComplete", "readReadyForQuery">>}
Sending == SendTxn \cup SendExec \cup SendQuery \cup SendParse \cup SendBinary \cup SendBind
             \cup SendClose

AtExec == {<<"simpleExec">>}
AtQuery == {<<"simpleQuery">>}
AtParse ==
    {<<"readParseResponse", "readStatementDescribeResponse", "readReadyForQuery">>,
     <<"readParseResponse", "readStatementDescribeResponse", "readReadyForQuery",
       "sendBind", "readBindResponse", "postExecuteWorkaround">>,
     <<"readParseResponse", "readStatementDescribeResponse", "readReadyForQuery",
       "sendBind", "readBindResponse", "postExecuteWorkaround", "readExecuteResponse">>}
AtDescribe ==
    {<<"readStatementDescribeResponse", "readReadyForQuery">>,
     <<"readStatementDescribeResponse", "readReadyForQuery",
       "sendBind", "readBindResponse", "postExecuteWorkaround">>,
     <<"readStatementDescribeResponse", "readReadyForQuery",
       "sendBind", "readBindResponse", "postExecuteWorkaround", "readExecuteResponse">>}
AtReady ==
    {<<"readReadyForQuery">>,
     <<"readReadyForQuery", "sendBind", "readBindResponse", "postExecuteWorkaround">>,
     <<"readReadyForQuery", "sendBind", "readBindResponse", "postExecuteWorkaround",
       "readExecuteResponse">>}
AtBinaryParse ==
    {<<"readParseResponse", "readBindResponse", "readPortalDescribeResponse",
       "postExecuteWorkaround">>,
     <<"readParseResponse", "readBindResponse", "readPortalDescribeResponse",
       "postExecuteWorkaround", "readExecuteResponse">>}
AtBinaryBind ==
    {<<"readBindResponse", "readPortalDescribeResponse", "postExecuteWorkaround">>,
     <<"readBindResponse", "readPortalDescribeResponse", "postExecuteWorkaround",
       "readExecuteResponse">>}
AtPortal ==
    {<<"readPortalDescribeResponse", "postExecuteWorkaround">>,
     <<"readPortalDescribeResponse", "postExecuteWorkaround", "readExecuteResponse">>}
AtBind ==
    {<<"readBindResponse", "postExecuteWorkaround">>,
     <<"readBindResponse", "postExecuteWorkaround", "readExecuteResponse">>}
AtPost == {<<"postExecuteWorkaround">>, <<"postExecuteWorkaround", "readExecuteResponse">>}
AtResult == {<<"readExecuteResponse">>}
AtClose == {<<"readCloseComplete", "readReadyForQuery">>}
AtFail == {<<"failAtReady">>}
AtNext == {<<"next">>}

Extended == SendParse \cup SendBinary \cup SendBind \cup SendClose
              \cup AtParse \cup AtDescribe \cup AtReady \cup AtBinaryParse \cup AtBinaryBind
              \cup AtPortal \cup AtBind \cup AtPost \cup AtResult \cup AtClose \cup AtFail

\* The programs a call runs through.
Stages(c) ==
    CASE c = "Exec" -> SendExec \cup AtExec \cup Extended
      [] c = "Query" -> SendQuery \cup AtQuery \cup Extended
      [] c \in {"Prepare", "StmtExec", "StmtQuery", "StmtClose"} -> Extended
      [] c = "Ping" -> SendQuery \cup AtQuery \cup AtNext
      [] c \in {"Begin", "Commit", "CommitFailed", "Rollback"} -> SendTxn \cup AtExec
      [] c \in {"Next", "Close"} -> AtNext
      [] c = "none" -> {<<>>}

--------------------------------------------------------------------------------
(* From one program to the next *)

\* A send, and the program that is left when it is done.
LEMMA AfterSending ==
    /\ \A p \in SendTxn : p # <<>> /\ Head(p) = "sendTxn" /\ Tail(p) \in AtExec
    /\ \A p \in SendExec : p # <<>> /\ Head(p) = "sendQuery" /\ Tail(p) \in AtExec
    /\ \A p \in SendQuery : p # <<>> /\ Head(p) = "sendQuery" /\ Tail(p) \in AtQuery
    /\ \A p \in SendParse : p # <<>> /\ Head(p) = "sendParse" /\ Tail(p) \in AtParse
    /\ \A p \in SendBinary : p # <<>> /\ Head(p) = "sendBinary" /\ Tail(p) \in AtBinaryParse
    /\ \A p \in SendBind : p # <<>> /\ Head(p) = "sendBind" /\ Tail(p) \in AtBind
    /\ \A p \in SendClose : p # <<>> /\ Head(p) = "sendClose" /\ Tail(p) \in AtClose
<1>1. \A p \in SendTxn : p # <<>> /\ Head(p) = "sendTxn" /\ Tail(p) \in AtExec
  <2>1. Tail(<<"sendTxn", "simpleExec">>) = <<"simpleExec">>
    OBVIOUS
  <2>2. \A p \in SendTxn : p # <<>> /\ Head(p) = "sendTxn"
    BY DEF SendTxn
  <2> QED
    BY <2>1, <2>2, Zenon DEF SendTxn, AtExec
<1>2. \A p \in SendExec : p # <<>> /\ Head(p) = "sendQuery" /\ Tail(p) \in AtExec
  <2>1. Tail(<<"sendQuery", "simpleExec">>) = <<"simpleExec">>
    OBVIOUS
  <2>2. \A p \in SendExec : p # <<>> /\ Head(p) = "sendQuery"
    BY DEF SendExec
  <2> QED
    BY <2>1, <2>2, Zenon DEF SendExec, AtExec
<1>3. \A p \in SendQuery : p # <<>> /\ Head(p) = "sendQuery" /\ Tail(p) \in AtQuery
  <2>1. Tail(<<"sendQuery", "simpleQuery">>) = <<"simpleQuery">>
    OBVIOUS
  <2>2. \A p \in SendQuery : p # <<>> /\ Head(p) = "sendQuery"
    BY DEF SendQuery
  <2> QED
    BY <2>1, <2>2, Zenon DEF SendQuery, AtQuery
<1>4. \A p \in SendParse : p # <<>> /\ Head(p) = "sendParse" /\ Tail(p) \in AtParse
  <2>1. /\ Tail(<<"sendParse", "readParseResponse", "readStatementDescribeResponse", "readReadyForQuery">>)
           = <<"readParseResponse", "readStatementDescribeResponse", "readReadyForQuery">>
        /\ Tail(<<"sendParse", "readParseResponse", "readStatementDescribeResponse", "readReadyForQuery",
                 "sendBind", "readBindResponse", "postExecuteWorkaround">>)
           = <<"readParseResponse", "readStatementDescribeResponse", "readReadyForQuery", "sendBind",
                 "readBindResponse", "postExecuteWorkaround">>
        /\ Tail(<<"sendParse", "readParseResponse", "readStatementDescribeResponse", "readReadyForQuery",
                 "sendBind", "readBindResponse", "postExecuteWorkaround", "readExecuteResponse">>)
           = <<"readParseResponse", "readStatementDescribeResponse", "readReadyForQuery", "sendBind",
                 "readBindResponse", "postExecuteWorkaround", "readExecuteResponse">>
    OBVIOUS
  <2>2. \A p \in SendParse : p # <<>> /\ Head(p) = "sendParse"
    BY DEF SendParse
  <2> QED
    BY <2>1, <2>2, Zenon DEF SendParse, AtParse
<1>5. \A p \in SendBinary : p # <<>> /\ Head(p) = "sendBinary" /\ Tail(p) \in AtBinaryParse
  <2>1. /\ Tail(<<"sendBinary", "readParseResponse", "readBindResponse", "readPortalDescribeResponse",
                 "postExecuteWorkaround">>)
           = <<"readParseResponse", "readBindResponse", "readPortalDescribeResponse", "postExecuteWorkaround">>
        /\ Tail(<<"sendBinary", "readParseResponse", "readBindResponse", "readPortalDescribeResponse",
                 "postExecuteWorkaround", "readExecuteResponse">>)
           = <<"readParseResponse", "readBindResponse", "readPortalDescribeResponse", "postExecuteWorkaround",
                 "readExecuteResponse">>
    OBVIOUS
  <2>2. \A p \in SendBinary : p # <<>> /\ Head(p) = "sendBinary"
    BY DEF SendBinary
  <2> QED
    BY <2>1, <2>2, Zenon DEF SendBinary, AtBinaryParse
<1>6. \A p \in SendBind : p # <<>> /\ Head(p) = "sendBind" /\ Tail(p) \in AtBind
  <2>1. /\ Tail(<<"sendBind", "readBindResponse", "postExecuteWorkaround">>)
           = <<"readBindResponse", "postExecuteWorkaround">>
        /\ Tail(<<"sendBind", "readBindResponse", "postExecuteWorkaround", "readExecuteResponse">>)
           = <<"readBindResponse", "postExecuteWorkaround", "readExecuteResponse">>
    OBVIOUS
  <2>2. \A p \in SendBind : p # <<>> /\ Head(p) = "sendBind"
    BY DEF SendBind
  <2> QED
    BY <2>1, <2>2, Zenon DEF SendBind, AtBind
<1>7. \A p \in SendClose : p # <<>> /\ Head(p) = "sendClose" /\ Tail(p) \in AtClose
  <2>1. Tail(<<"sendClose", "readCloseComplete", "readReadyForQuery">>)
           = <<"readCloseComplete", "readReadyForQuery">>
    OBVIOUS
  <2>2. \A p \in SendClose : p # <<>> /\ Head(p) = "sendClose"
    BY DEF SendClose
  <2> QED
    BY <2>1, <2>2, Zenon DEF SendClose, AtClose
<1> QED
  BY ONLY <1>1, <1>2, <1>3, <1>4, <1>5, <1>6, <1>7

\* A function that reads one answer, and the program that is left then.
LEMMA AfterReading ==
    /\ \A p \in AtParse :
           p # <<>> /\ Head(p) = "readParseResponse" /\ p[2] = "readStatementDescribeResponse" /\ Tail(p) \in AtDescribe
    /\ \A p \in AtDescribe :
           p # <<>> /\ Head(p) = "readStatementDescribeResponse" /\ Tail(p) \in AtReady
    /\ \A p \in AtBinaryParse :
           p # <<>> /\ Head(p) = "readParseResponse" /\ p[2] = "readBindResponse" /\ Tail(p) \in AtBinaryBind
    /\ \A p \in AtBinaryBind :
           p # <<>> /\ Head(p) = "readBindResponse" /\ p[2] = "readPortalDescribeResponse" /\ Tail(p) \in AtPortal
    /\ \A p \in AtPortal :
           p # <<>> /\ Head(p) = "readPortalDescribeResponse" /\ Tail(p) \in AtPost
    /\ \A p \in AtBind :
           p # <<>> /\ Head(p) = "readBindResponse" /\ p[2] = "postExecuteWorkaround" /\ Tail(p) \in AtPost
    /\ \A p \in AtClose : p # <<>> /\ Head(p) = "readCloseComplete" /\ Tail(p) \in AtReady
<1>1. \A p \in AtParse :
           p # <<>> /\ Head(p) = "readParseResponse" /\ p[2] = "readStatementDescribeResponse" /\ Tail(p) \in AtDescribe
  <2>1. /\ Tail(<<"readParseResponse", "readStatementDescribeResponse", "readReadyForQuery">>)
           = <<"readStatementDescribeResponse", "readReadyForQuery">>
        /\ Tail(<<"readParseResponse", "readStatementDescribeResponse", "readReadyForQuery", "sendBind",
                 "readBindResponse", "postExecuteWorkaround">>)
           = <<"readStatementDescribeResponse", "readReadyForQuery", "sendBind", "readBindResponse",
                 "postExecuteWorkaround">>
        /\ Tail(<<"readParseResponse", "readStatementDescribeResponse", "readReadyForQuery", "sendBind",
                 "readBindResponse", "postExecuteWorkaround", "readExecuteResponse">>)
           = <<"readStatementDescribeResponse", "readReadyForQuery", "sendBind", "readBindResponse",
                 "postExecuteWorkaround", "readExecuteResponse">>
    OBVIOUS
  <2>2. \A p \in AtParse : p # <<>> /\ Head(p) = "readParseResponse" /\ p[2] = "readStatementDescribeResponse"
    BY DEF AtParse
  <2> QED
    BY <2>1, <2>2, Zenon DEF AtParse, AtDescribe
<1>2. \A p \in AtDescribe :
           p # <<>> /\ Head(p) = "readStatementDescribeResponse" /\ Tail(p) \in AtReady
  <2>1. /\ Tail(<<"readStatementDescribeResponse", "readReadyForQuery">>)
           = <<"readReadyForQuery">>
        /\ Tail(<<"readStatementDescribeResponse", "readReadyForQuery", "sendBind", "readBindResponse",
                 "postExecuteWorkaround">>)
           = <<"readReadyForQuery", "sendBind", "readBindResponse", "postExecuteWorkaround">>
        /\ Tail(<<"readStatementDescribeResponse", "readReadyForQuery", "sendBind", "readBindResponse",
                 "postExecuteWorkaround", "readExecuteResponse">>)
           = <<"readReadyForQuery", "sendBind", "readBindResponse", "postExecuteWorkaround",
                 "readExecuteResponse">>
    OBVIOUS
  <2>2. \A p \in AtDescribe : p # <<>> /\ Head(p) = "readStatementDescribeResponse"
    BY DEF AtDescribe
  <2> QED
    BY <2>1, <2>2, Zenon DEF AtDescribe, AtReady
<1>3. \A p \in AtBinaryParse :
           p # <<>> /\ Head(p) = "readParseResponse" /\ p[2] = "readBindResponse" /\ Tail(p) \in AtBinaryBind
  <2>1. /\ Tail(<<"readParseResponse", "readBindResponse", "readPortalDescribeResponse", "postExecuteWorkaround">>)
           = <<"readBindResponse", "readPortalDescribeResponse", "postExecuteWorkaround">>
        /\ Tail(<<"readParseResponse", "readBindResponse", "readPortalDescribeResponse", "postExecuteWorkaround",
                 "readExecuteResponse">>)
           = <<"readBindResponse", "readPortalDescribeResponse", "postExecuteWorkaround", "readExecuteResponse">>
    OBVIOUS
  <2>2. \A p \in AtBinaryParse : p # <<>> /\ Head(p) = "readParseResponse" /\ p[2] = "readBindResponse"
    BY DEF AtBinaryParse
  <2> QED
    BY <2>1, <2>2, Zenon DEF AtBinaryParse, AtBinaryBind
<1>4. \A p \in AtBinaryBind :
           p # <<>> /\ Head(p) = "readBindResponse" /\ p[2] = "readPortalDescribeResponse" /\ Tail(p) \in AtPortal
  <2>1. /\ Tail(<<"readBindResponse", "readPortalDescribeResponse", "postExecuteWorkaround">>)
           = <<"readPortalDescribeResponse", "postExecuteWorkaround">>
        /\ Tail(<<"readBindResponse", "readPortalDescribeResponse", "postExecuteWorkaround", "readExecuteResponse">>)
           = <<"readPortalDescribeResponse", "postExecuteWorkaround", "readExecuteResponse">>
    OBVIOUS
  <2>2. \A p \in AtBinaryBind : p # <<>> /\ Head(p) = "readBindResponse" /\ p[2] = "readPortalDescribeResponse"
    BY DEF AtBinaryBind
  <2> QED
    BY <2>1, <2>2, Zenon DEF AtBinaryBind, AtPortal
<1>5. \A p \in AtPortal :
           p # <<>> /\ Head(p) = "readPortalDescribeResponse" /\ Tail(p) \in AtPost
  <2>1. /\ Tail(<<"readPortalDescribeResponse", "postExecuteWorkaround">>)
           = <<"postExecuteWorkaround">>
        /\ Tail(<<"readPortalDescribeResponse", "postExecuteWorkaround", "readExecuteResponse">>)
           = <<"postExecuteWorkaround", "readExecuteResponse">>
    OBVIOUS
  <2>2. \A p \in AtPortal : p # <<>> /\ Head(p) = "readPortalDescribeResponse"
    BY DEF AtPortal
  <2> QED
    BY <2>1, <2>2, Zenon DEF AtPortal, AtPost
<1>6. \A p \in AtBind :
           p # <<>> /\ Head(p) = "readBindResponse" /\ p[2] = "postExecuteWorkaround" /\ Tail(p) \in AtPost
  <2>1. /\ Tail(<<"readBindResponse", "postExecuteWorkaround">>)
           = <<"postExecuteWorkaround">>
        /\ Tail(<<"readBindResponse", "postExecuteWorkaround", "readExecuteResponse">>)
           = <<"postExecuteWorkaround", "readExecuteResponse">>
    OBVIOUS
  <2>2. \A p \in AtBind : p # <<>> /\ Head(p) = "readBindResponse" /\ p[2] = "postExecuteWorkaround"
    BY DEF AtBind
  <2> QED
    BY <2>1, <2>2, Zenon DEF AtBind, AtPost
<1>7. \A p \in AtClose : p # <<>> /\ Head(p) = "readCloseComplete" /\ Tail(p) \in AtReady
  <2>1. Tail(<<"readCloseComplete", "readReadyForQuery">>) = <<"readReadyForQuery">>
    OBVIOUS
  <2>2. \A p \in AtClose : p # <<>> /\ Head(p) = "readCloseComplete"
    BY DEF AtClose
  <2> QED
    BY <2>1, <2>2, Zenon DEF AtClose, AtReady
<1> QED
  BY ONLY <1>1, <1>2, <1>3, <1>4, <1>5, <1>6, <1>7

\* The functions that are the last of their call, or may be.
LEMMA LastOnes ==
    /\ \A p \in AtExec : p = <<"simpleExec">> /\ p # <<>> /\ Head(p) = "simpleExec"
    /\ \A p \in AtQuery : p = <<"simpleQuery">> /\ p # <<>> /\ Head(p) = "simpleQuery"
    /\ \A p \in AtResult : p # <<>> /\ Head(p) = "readExecuteResponse"
    /\ \A p \in AtFail : p # <<>> /\ Head(p) = "failAtReady"
    /\ \A p \in AtNext : p = <<"next">> /\ p # <<>> /\ Head(p) = "next"
    /\ \A p \in AtReady : p # <<>> /\ Head(p) = "readReadyForQuery"
    /\ \A p \in AtPost : p # <<>> /\ Head(p) = "postExecuteWorkaround"
<1>1. /\ \A p \in AtExec : p = <<"simpleExec">> /\ p # <<>> /\ Head(p) = "simpleExec"
      /\ \A p \in AtQuery : p = <<"simpleQuery">> /\ p # <<>> /\ Head(p) = "simpleQuery"
      /\ \A p \in AtNext : p = <<"next">> /\ p # <<>> /\ Head(p) = "next"
  BY DEF AtExec, AtQuery, AtNext
<1>2. \A p \in AtResult : p # <<>> /\ Head(p) = "readExecuteResponse"
  BY DEF AtResult
<1>3. \A p \in AtFail : p # <<>> /\ Head(p) = "failAtReady"
  BY DEF AtFail
<1>4. \A p \in AtReady : p # <<>> /\ Head(p) = "readReadyForQuery"
  BY DEF AtReady
<1>5. \A p \in AtPost : p # <<>> /\ Head(p) = "postExecuteWorkaround"
  BY DEF AtPost
<1> QED
  BY ONLY <1>1, <1>2, <1>3, <1>4, <1>5

LEMMA AfterReady == \A p \in AtReady : Len(p) > 1 => Tail(p) \in SendBind
<1>1. /\ Tail(<<"readReadyForQuery", "sendBind", "readBindResponse", "postExecuteWorkaround">>)
           = <<"sendBind", "readBindResponse", "postExecuteWorkaround">>
      /\ Tail(<<"readReadyForQuery", "sendBind", "readBindResponse", "postExecuteWorkaround",
                 "readExecuteResponse">>)
           = <<"sendBind", "readBindResponse", "postExecuteWorkaround", "readExecuteResponse">>
  OBVIOUS
<1>2. ~(Len(<<"readReadyForQuery">>) > 1)
  OBVIOUS
<1> QED
  BY <1>1, <1>2, Zenon DEF AtReady, SendBind

LEMMA AfterPost == \A p \in AtPost : Len(p) > 1 => Tail(p) \in AtResult
<1>1. Tail(<<"postExecuteWorkaround", "readExecuteResponse">>) = <<"readExecuteResponse">>
  OBVIOUS
<1>2. ~(Len(<<"postExecuteWorkaround">>) > 1)
  OBVIOUS
<1> QED
  BY <1>1, <1>2, Zenon DEF AtPost, AtResult

\* The functions that are called until they have read ReadyForQuery, and the error
\* they keep until then.
Lasting == AtExec \cup AtQuery \cup AtResult \cup AtNext \cup AtFail

LEMMA StagesGoOn ==
    ASSUME NEW c \in CallNames, NEW p \in Stages(c)
    PROVE  /\ p # <<>>
           /\ p \in AtReady \cup AtPost /\ Len(p) > 1 => Tail(p) \in Stages(c)
           /\ p \notin Lasting \cup AtReady \cup AtPost => Tail(p) \in Stages(c)
<1>1. CASE c \in {"Exec", "Query", "Prepare", "StmtExec", "StmtQuery", "StmtClose"}
  <2>1. /\ Extended \subseteq Stages(c)
        /\ p \in Extended \/ (c = "Exec" /\ p \in SendExec \cup AtExec)
             \/ (c = "Query" /\ p \in SendQuery \cup AtQuery)
    BY <1>1 DEF Stages
  <2>2. CASE p \in Extended
    BY <2>1, <2>2, AfterSending, AfterReading, LastOnes, AfterReady, AfterPost
    DEF Extended, Lasting
  <2>3. CASE c = "Exec" /\ p \in SendExec \cup AtExec
    BY <2>3, AfterSending, LastOnes DEF Lasting, Stages
  <2>4. CASE c = "Query" /\ p \in SendQuery \cup AtQuery
    BY <2>4, AfterSending, LastOnes DEF Lasting, Stages
  <2> QED
    BY <2>1, <2>2, <2>3, <2>4
<1>2. CASE c = "Ping"
  BY <1>2, AfterSending, LastOnes DEF Stages, Lasting
<1>3. CASE c \in {"Begin", "Commit", "CommitFailed", "Rollback"}
  BY <1>3, AfterSending, LastOnes DEF Stages, Lasting
<1>4. CASE c \in {"Next", "Close"}
  BY <1>4, LastOnes DEF Stages, Lasting
<1> QED
  BY <1>1, <1>2, <1>3, <1>4 DEF CallNames

LEMMA ProgramsAreStages ==
    ASSUME NEW c \in CallNames \ {"CommitFailed"} PROVE Programs(c) \subseteq Stages(c)
<1>1. CASE c = "Exec"
  BY <1>1, Zenon DEF Programs, Stages, SendExec, Extended, SendParse, SendBinary
<1>2. CASE c = "Query"
  BY <1>2, Zenon DEF Programs, Stages, SendQuery, Extended, SendParse, SendBinary
<1>3. CASE c = "Ping"
  BY <1>3 DEF Programs, Stages, SendQuery
<1>4. CASE c = "Prepare"
  BY <1>4, Zenon DEF Programs, Stages, Extended, SendParse
<1>5. CASE c = "StmtExec"
  BY <1>5, Zenon DEF Programs, Stages, Extended, SendBind
<1>6. CASE c = "StmtQuery"
  BY <1>6, Zenon DEF Programs, Stages, Extended, SendBind
<1>7. CASE c = "StmtClose"
  BY <1>7, Zenon DEF Programs, Stages, Extended, SendClose
<1>8. CASE c \in {"Begin", "Commit", "Rollback"}
  BY <1>8, Zenon DEF Programs, Stages, SendTxn
<1>9. CASE c \in {"Next", "Close"}
  BY <1>9, Zenon DEF Programs, Stages, AtNext
<1> QED
  BY <1>1, <1>2, <1>3, <1>4, <1>5, <1>6, <1>7, <1>8, <1>9 DEF CallNames

\* Commit of a failed transaction runs the program of Rollback.
LEMMA FailedCommitRollsBack == Programs("CommitFailed") \subseteq Stages("CommitFailed")
BY Zenon DEF Programs, Stages, SendTxn

--------------------------------------------------------------------------------
(* The call in progress *)

CallInv ==
    /\ call \in CallNames \cup {"none"} /\ prog \in Stages(call)
    /\ call # "none" => ret = "none"
    /\ call \notin {"none", "Ping"} => bad = "no"
    /\ call \in {"Next", "Close"} => rows = "open"
    /\ call \notin {"none", "Next", "Close"} => rows = "none"
    /\ call = "Begin" => ~inTx
    /\ prog \notin AtExec \cup AtQuery \cup AtResult \cup AtNext =>
           ~err /\ res = "nil" /\ tag = "-"

\* The types of what the messages leave behind.
PoolData ==
    /\ err \in BOOLEAN /\ res \in {"nil", "cols", "done"} /\ tag \in Tags \cup {"-"}
    /\ ret \in {"none", "ok", "error", "ErrBadConn", "panic"}
    /\ inTx \in BOOLEAN /\ rows \in {"none", "open", "done"} /\ prepared \in BOOLEAN
WireData == txnStatus \in TxnStatuses /\ saved \in Messages \cup {NoMsg}
ServerData ==
    stxn \in TxnStatuses /\ link \in {"up"} \cup Losses /\ performed \in BOOLEAN

LEMMA AtRestNoCall == ASSUME CallInv PROVE AtRest <=> call = "none"
<1>1. CASE call = "none"
  BY <1>1 DEF CallInv, Stages, AtRest
<1>2. CASE call \in CallNames
  BY <1>2, StagesGoOn DEF CallInv, AtRest, CallNames
<1> QED
  BY <1>1, <1>2 DEF CallInv

\* A step that ends the call.
LEMMA CallEnds == ASSUME NEW r, Returns(r) PROVE CallInv'
<1>1. call' = "none" /\ prog' = <<>> /\ err' = FALSE /\ res' = "nil" /\ tag' = "-"
  BY DEF Returns
<1>2. prog' \in Stages(call')
  BY <1>1 DEF Stages
<1> QED
  BY <1>1, <1>2 DEF CallInv

\* A step that goes on with it.
LEMMA CallGoesOn ==
    ASSUME CallInv, ~AtRest, prog' \in Stages(call), UNCHANGED <<call, bad, ret, rows, inTx>>,
           \/ SameResult /\ prog \notin AtExec \cup AtQuery \cup AtResult \cup AtNext
           \/ prog' \in AtExec \cup AtQuery \cup AtResult \cup AtNext
    PROVE  CallInv'
BY DEF CallInv, SameResult

\* A function that has read what it waited for, and one that was sent an error.
LEMMA CallMovesOn ==
    ASSUME CallInv, ~AtRest, prog \notin Lasting, prog \in AtReady \cup AtPost => Len(prog) > 1,
           prog' = Tail(prog), SameResult, UNCHANGED <<call, bad, ret, rows, inTx>>
    PROVE  CallInv'
<1>1. call \in CallNames /\ prog \in Stages(call)
  BY AtRestNoCall DEF CallInv
<1>2. prog' \in Stages(call)
  BY <1>1, StagesGoOn
<1> QED
  BY <1>2, CallGoesOn DEF Lasting

LEMMA CallFails ==
    ASSUME CallInv, ~AtRest, prog \in Extended, prog \notin Lasting,
           prog' = AfterError, SameResult, UNCHANGED <<call, bad, ret, rows, inTx>>
    PROVE  CallInv'
<1>1. call \in CallNames /\ prog \in Stages(call)
  BY AtRestNoCall DEF CallInv
<1>2. AfterError \in AtFail
  BY DEF AtFail, AfterError
<1>3. AfterError \in Extended
  BY <1>2 DEF Extended
<1>4. call \in {"Exec", "Query", "Prepare", "StmtExec", "StmtQuery", "StmtClose"}
  BY <1>1, AfterSending, AfterReading, LastOnes DEF Extended, Stages, CallNames
<1>5. prog' \in Stages(call)
  BY <1>3, <1>4 DEF Stages
<1> QED
  BY <1>5, CallGoesOn DEF Lasting

\* Where the call is, by the function that goes on.
LEMMA Where ==
    ASSUME CallInv, ~AtRest
    PROVE  /\ Head(prog) = "simpleExec" => prog \in AtExec
           /\ Head(prog) = "simpleQuery" => prog \in AtQuery
           /\ Head(prog) = "readParseResponse" => prog \in AtParse \cup AtBinaryParse
           /\ Head(prog) = "readStatementDescribeResponse" => prog \in AtDescribe
           /\ Head(prog) = "readBindResponse" => prog \in AtBinaryBind \cup AtBind
           /\ Head(prog) = "readPortalDescribeResponse" => prog \in AtPortal
           /\ Head(prog) = "postExecuteWorkaround" => prog \in AtPost
           /\ Head(prog) = "readExecuteResponse" => prog \in AtResult
           /\ Head(prog) = "readReadyForQuery" => prog \in AtReady
           /\ Head(prog) = "failAtReady" => prog \in AtFail
           /\ Head(prog) = "readCloseComplete" => prog \in AtClose
           /\ Head(prog) = "next" => prog \in AtNext
           /\ Head(prog) = "sendTxn" => prog \in SendTxn
           /\ Head(prog) = "sendQuery" => prog \in SendExec \cup SendQuery
           /\ Head(prog) = "sendParse" => prog \in SendParse
           /\ Head(prog) = "sendBinary" => prog \in SendBinary
           /\ Head(prog) = "sendBind" => prog \in SendBind
           /\ Head(prog) = "sendClose" => prog \in SendClose
<1>1. prog \in Stages(call) /\ call \in CallNames
  BY AtRestNoCall DEF CallInv
<1>2. prog \in Extended \cup SendTxn \cup SendExec \cup SendQuery \cup AtExec \cup AtQuery \cup AtNext
  BY <1>1 DEF Stages, CallNames
<1> QED
  BY <1>2, AfterSending, AfterReading, LastOnes DEF Extended

LEMMA PlainEnds == ASSUME NEW r, ReturnsPlain(r) PROVE CallInv'
BY CallEnds DEF ReturnsPlain

LEMMA UnexpectedEnds == ASSUME NEW m, Unexpected(m) PROVE CallInv'
BY PlainEnds DEF Unexpected

LEMMA CallReads ==
    ASSUME CallInv, ~AtRest, NEW types, NEW step, NEW m, ReadResponse(step, types, m),
           step \in {"readParseResponse", "readStatementDescribeResponse",
                     "readPortalDescribeResponse", "readBindResponse"}
    PROVE  CallInv'
<1>1. Head(prog) = step
  BY DEF ReadResponse, Reading
<1>2. prog \in Extended /\ prog \notin Lasting \cup AtReady \cup AtPost
  BY <1>1, Where, AfterReading, LastOnes DEF Extended, Lasting
<1>3. CASE SameResult /\ Continue(Tail(prog))
  BY <1>2, <1>3, CallMovesOn DEF Continue
<1>4. CASE SameResult /\ Continue(AfterError)
  BY <1>2, <1>4, CallFails DEF Continue
<1> QED
  BY <1>3, <1>4, UnexpectedEnds DEF ReadResponse

LEMMA CallSimpleExec == ASSUME CallInv, NEW m \in Messages, SimpleExec(m) PROVE CallInv'
<1>1. prog \in AtExec /\ ~AtRest
  BY Where DEF SimpleExec, Reading
<1>2. CASE ExecTag(m) /\ Continue(prog)
  <2>1. prog' \in Stages(call)
    BY <1>2 DEF Continue, CallInv
  <2> QED
    BY <1>1, <1>2, <2>1, CallGoesOn DEF Continue
<1>3. CASE SimpleExecDone(m)
  <2>1. ASSUME NEW r, TxnReturns(r) PROVE CallInv'
    BY <2>1, PlainEnds DEF TxnReturns
  <2> QED
    BY <1>3, <2>1, PlainEnds DEF SimpleExecDone
<1> QED
  BY <1>2, <1>3, UnexpectedEnds DEF SimpleExec

LEMMA CallSimpleQuery == ASSUME CallInv, NEW m \in Messages, SimpleQuery(m) PROVE CallInv'
<1>1. prog \in AtQuery /\ ~AtRest
  BY Where DEF SimpleQuery, Reading
<1>2. CASE Continue(prog)
  <2>1. prog' \in Stages(call)
    BY <1>2 DEF Continue, CallInv
  <2> QED
    BY <1>1, <1>2, <2>1, CallGoesOn DEF Continue
<1>3. ASSUME NEW how, QueryReturns(how), UNCHANGED bad PROVE CallInv'
  <2>1. CASE call = "Ping" /\ prog' = <<"next">> /\ SameResult /\ UNCHANGED <<call, poolVars>>
    <3>1. prog' \in AtNext
      BY <2>1 DEF AtNext
    <3>2. prog' \in Stages(call)
      BY <2>1, <3>1 DEF Stages
    <3> QED
      BY <1>1, <1>3, <2>1, <3>1, <3>2, CallGoesOn
  <2> QED
    BY <1>3, <2>1, PlainEnds, CallEnds DEF QueryReturns, ReturnsRows
<1>4. CASE UNCHANGED bad /\ SimpleQueryDone
  BY <1>3, <1>4, PlainEnds DEF SimpleQueryDone, NilRows
<1> QED
  BY <1>2, <1>3, <1>4, UnexpectedEnds DEF SimpleQuery

LEMMA CallReadyForQuery == ASSUME CallInv, NEW m, ReadReadyForQuery(m) PROVE CallInv'
<1>1. ~AtRest
  BY DEF ReadReadyForQuery, Reading
<1>2. CASE /\ Reading("readReadyForQuery") /\ Len(prog) > 1 /\ UNCHANGED bad
           /\ prog' = Tail(prog) /\ SameResult /\ UNCHANGED <<call, poolVars>>
  <2>1. prog \in AtReady /\ prog \notin Lasting
    BY <1>1, <1>2, Where, LastOnes DEF Reading, Lasting
  <2> QED
    BY <1>1, <1>2, <2>1, CallMovesOn
<1> QED
  BY <1>2, PlainEnds, UnexpectedEnds DEF ReadReadyForQuery

LEMMA CallPostExecute == ASSUME CallInv, NEW m, PostExecuteWorkaround(m) PROVE CallInv'
<1>1. prog \in AtPost /\ ~AtRest
  BY Where DEF PostExecuteWorkaround, Reading
<1>2. prog \in Extended /\ prog \notin Lasting
  BY <1>1, LastOnes DEF Extended, Lasting
<1>3. CASE Len(prog) > 1 /\ SameResult /\ Continue(Tail(prog))
  BY <1>1, <1>2, <1>3, CallMovesOn DEF Continue
<1>4. CASE SameResult /\ Continue(AfterError)
  BY <1>1, <1>2, <1>4, CallFails DEF Continue
<1> QED
  BY <1>3, <1>4, UnexpectedEnds, CallEnds DEF PostExecuteWorkaround, ReturnsRows

LEMMA CallExecute == ASSUME CallInv, NEW m, ReadExecuteResponse(m) PROVE CallInv'
<1>1. prog \in AtResult /\ ~AtRest
  BY Where DEF ReadExecuteResponse, Reading
<1>2. CASE Continue(prog)
  <2>1. prog' \in Stages(call)
    BY <1>2 DEF Continue, CallInv
  <2> QED
    BY <1>1, <1>2, <2>1, CallGoesOn DEF Continue
<1> QED
  BY <1>2, UnexpectedEnds, PlainEnds DEF ReadExecuteResponse

LEMMA CallCloseComplete == ASSUME CallInv, NEW m, ReadCloseComplete(m) PROVE CallInv'
<1>1. prog \in AtClose /\ ~AtRest
  BY Where DEF ReadCloseComplete, Reading
<1>2. prog \notin Lasting \cup AtReady \cup AtPost
  BY <1>1, AfterReading, LastOnes DEF Lasting
<1>3. CASE SameResult /\ Continue(Tail(prog))
  BY <1>1, <1>2, <1>3, CallMovesOn DEF Continue
<1> QED
  BY <1>3, UnexpectedEnds DEF ReadCloseComplete

LEMMA CallRowsNext == ASSUME CallInv, NEW m, RowsNext(m) PROVE CallInv'
<1>1. prog \in AtNext /\ ~AtRest
  BY Where DEF RowsNext, Reading
<1>2. CASE Continue(prog) \/ (UNCHANGED <<prog, call, poolVars, bad>>)
  <2>1. prog' \in Stages(call) /\ prog' = prog
    BY <1>2 DEF Continue, CallInv
  <2> QED
    BY <1>1, <1>2, <2>1, CallGoesOn DEF Continue
<1>3. CASE NextReturns /\ UNCHANGED <<bad, txnStatus>>
  BY <1>2, <1>3, PlainEnds DEF NextReturns
<1> QED
  BY <1>2, <1>3, UnexpectedEnds, PlainEnds, CallEnds DEF RowsNext, Leave

LEMMA CallReadsAny == ASSUME CallInv, NEW m \in Messages, Reads(m) PROVE CallInv'
<1>1. ~AtRest
  BY DEF Reads, SimpleExec, SimpleQuery, ReadParseResponse, ReadStatementDescribeResponse,
         ReadPortalDescribeResponse, ReadBindResponse, PostExecuteWorkaround,
         ReadExecuteResponse, ReadReadyForQuery, ReadCloseComplete, RowsNext, Reading,
         ReadResponse
<1>2. CASE ReadStatementDescribeResponse(m)
  <2>1. CASE SameResult /\ Continue(prog) /\ Reading("readStatementDescribeResponse")
    <3>1. prog \notin AtExec \cup AtQuery \cup AtResult \cup AtNext /\ prog \in Stages(call)
      BY <2>1, LastOnes DEF Reading, CallInv
    <3> QED
      BY <1>1, <2>1, <3>1, CallGoesOn DEF Continue
  <2> QED
    BY <1>1, <1>2, <2>1, CallReads DEF ReadStatementDescribeResponse
<1>3. CASE ReadParseResponse(m) \/ ReadPortalDescribeResponse(m) \/ ReadBindResponse(m)
  BY <1>1, <1>3, CallReads DEF ReadParseResponse, ReadPortalDescribeResponse, ReadBindResponse
<1> QED
  BY <1>2, <1>3, CallSimpleExec, CallSimpleQuery, CallReadyForQuery, CallPostExecute,
     CallExecute, CallCloseComplete, CallRowsNext DEF Reads

LEMMA CallSends ==
    ASSUME CallInv, Send \/ BadArguments \/ RecvFails PROVE CallInv'
<1>1. CASE Send
  <2>1. CASE SendFails
    BY <2>1, PlainEnds DEF SendFails
  <2>2. ASSUME NEW request, Sends(request) PROVE CallInv'
    <3>1. ~AtRest /\ prog \notin Lasting \cup AtReady \cup AtPost
      BY <1>1, LastOnes DEF Send, SendSteps, Lasting
    <3> QED
      BY <2>2, <3>1, CallMovesOn DEF Sends, SameResult
  <2> QED
    BY <1>1, <2>1, <2>2 DEF Send
<1>2. CASE BadArguments
  BY <1>2, PlainEnds DEF BadArguments
<1>3. CASE RecvFails
  BY <1>3, PlainEnds DEF RecvFails, ReadError
<1> QED
  BY <1>1, <1>2, <1>3

LEMMA CallBegins ==
    ASSUME CallInv, AtRest, NEW c \in CallNames, Goes(c),
           c # "Ping" => bad = "no",
           IF c \in {"Next", "Close"} THEN rows = "open" ELSE rows = "none",
           c = "Begin" => ~inTx
    PROVE  CallInv'
<1>1. prog \notin AtExec \cup AtQuery \cup AtResult \cup AtNext
  BY LastOnes DEF AtRest
<1>2. Programs(c) \subseteq Stages(c)
  BY ProgramsAreStages, FailedCommitRollsBack
<1>3. prog' \in Stages(call') /\ call' = c
  BY <1>2 DEF Goes
<1> QED
  BY <1>1, <1>3 DEF CallInv, Goes, SameResult, CallNames

\* The steps that begin no call leave the one in progress, or the rest.
LEMMA CallRests ==
    ASSUME CallInv, AtRest, UNCHANGED callVars PROVE CallInv'
<1>1. call = "none"
  BY AtRestNoCall
<1>2. prog' \in Stages(call') /\ call' = "none"
  BY <1>1 DEF CallInv
<1> QED
  BY <1>2 DEF CallInv

LEMMA CallPoolStep == ASSUME CallInv, PoolStep PROVE CallInv'
<1>1. ASSUME NEW c \in {"Exec", "Query", "Prepare", "StmtExec", "StmtQuery", "StmtClose"},
             Call(c)
      PROVE  CallInv'
  BY <1>1, CallBegins, CallRests DEF Call, Available, RefusedWhenBad, Refuses, CallNames
<1>2. CASE Ping
  BY <1>2, CallBegins DEF Ping, Available, CallNames
<1>3. ASSUME NEW c \in {"Begin", "Commit", "Rollback"}, NEW intxn \in BOOLEAN,
             Transaction(c, intxn), c = "Begin" => ~intxn
      PROVE  CallInv'
  <2>1. ASSUME Goes(IF c = "Commit" /\ txnStatus = "E" THEN "CommitFailed" ELSE c), bad = "no"
        PROVE  CallInv'
    BY <1>3, <2>1, CallBegins DEF Transaction, Available, CallNames
  <2> QED
    BY <1>3, <2>1, CallRests DEF Transaction, Available, RefusedWhenBad, Refuses
<1>4. ASSUME NEW c \in {"Next", "Close"}, RowsCall(c) PROVE CallInv'
  BY <1>4, CallBegins, CallRests DEF RowsCall, CallNames
<1>5. CASE Discard
  BY <1>5, CallRests DEF Discard
<1> QED
  BY <1>1, <1>2, <1>3, <1>4, <1>5 DEF PoolStep, Begin, Commit, Rollback

LEMMA CallUnmoved ==
    ASSUME CallInv, UNCHANGED <<callVars, poolVars, bad>> PROVE CallInv'
<1>1. prog' \in Stages(call')
  BY DEF CallInv
<1> QED
  BY <1>1 DEF CallInv

LEMMA CallStep == ASSUME CallInv, [Next]_vars PROVE CallInv'
<1>1. ASSUME NEW how \in Losses, ConnBreaks(how) PROVE CallInv'
  BY <1>1, CallUnmoved DEF ConnBreaks
<1>2. CASE UNCHANGED vars
  BY <1>2, CallUnmoved DEF vars
<1> QED
  BY <1>1, <1>2, CallPoolStep, CallSends, CallReadsAny DEF Next, DriverStep

--------------------------------------------------------------------------------
(* What the messages leave behind *)

LEMMA MessageTypes ==
    /\ \A m \in Messages :
          /\ m.type \in PlainTypes \cup {"C", "Z"}
          /\ m.type = "C" => m.val \in Tags
          /\ m.type = "Z" => m.val \in TxnStatuses
          /\ m.type \in PlainTypes => m = Msg(m.type, "-")
          /\ m # NoMsg
    /\ NoMsg.type = "none"
BY DEF Messages, PlainTypes, Tags, TxnStatuses, Msg, NoMsg

LEMMA ServerDataStep == ASSUME ServerData, [Next]_vars PROVE ServerData'
<1>1. ASSUME NEW m \in Messages, RecvMessage(m) PROVE ServerData'
  <2>1. CASE ServerSends(m)
    BY <2>1 DEF ServerSends, ServerData, Answers, Completes, Fails, Ready, TxnStatuses, Losses,
         Performing
  <2> QED
    BY <1>1, <2>1 DEF RecvMessage, ServerData
<1>2. CASE Send
  BY <1>2 DEF Send, SendFails, Sends, ServerData, Losses, Performing
<1>3. ASSUME NEW how \in Losses, ConnBreaks(how) PROVE ServerData'
  BY <1>3 DEF ConnBreaks, ServerData, Performing
<1>4. CASE PoolStep
  BY <1>4 DEF PoolStep, Call, Ping, Begin, Commit, Rollback, Transaction, RowsCall, Discard,
       RefusedWhenBad, Refuses, Goes, ServerData, TxnStatuses
<1>5. CASE BadArguments \/ RecvFails \/ UNCHANGED vars
  BY <1>5 DEF BadArguments, RecvFails, ServerData, vars
<1>6. ASSUME NEW m \in Messages, Reads(m) PROVE RecvMessage(m)
  BY <1>6 DEF Reads, SimpleExec, SimpleQuery, ReadParseResponse, ReadStatementDescribeResponse,
         ReadPortalDescribeResponse, ReadBindResponse, PostExecuteWorkaround,
         ReadExecuteResponse, ReadReadyForQuery, ReadCloseComplete, RowsNext, ReadResponse
<1> QED
  BY <1>1, <1>2, <1>3, <1>4, <1>5, <1>6 DEF Next, DriverStep

\* Every way a message is read sets txnStatus and saved from messages.
LEMMA WireDataStep == ASSUME WireData, [Next]_vars PROVE WireData'
<1>1. ASSUME NEW m \in Messages, Reads(m) PROVE WireData'
  <2>1. saved' \in {m, NoMsg, saved}
    BY <1>1 DEF Reads, SimpleExec, SimpleQuery, ReadParseResponse,
         ReadStatementDescribeResponse, ReadPortalDescribeResponse, ReadBindResponse,
         PostExecuteWorkaround, ReadExecuteResponse, ReadReadyForQuery, ReadCloseComplete,
         RowsNext, ReadResponse, Forget, SaveMessage
  <2>2. UNCHANGED txnStatus \/ (m.type = "Z" /\ txnStatus' = m.val)
    <3>1. ASSUME NEW step, NEW types, ReadResponse(step, types, m) PROVE UNCHANGED txnStatus
      BY <3>1 DEF ReadResponse, Continue, Unexpected
    <3>2. CASE SimpleExec(m)
      BY <3>2 DEF SimpleExec, SimpleExecDone, ProcessReady, Continue, Unexpected
    <3>3. CASE SimpleQuery(m)
      BY <3>3 DEF SimpleQuery, ProcessReady, Continue, Unexpected
    <3>4. CASE ReadReadyForQuery(m) \/ PostExecuteWorkaround(m) \/ ReadExecuteResponse(m)
                 \/ ReadCloseComplete(m)
      BY <3>4 DEF ReadReadyForQuery, PostExecuteWorkaround, ReadExecuteResponse,
           ReadCloseComplete, ProcessReady, Continue, Unexpected
    <3>5. CASE RowsNext(m)
      BY <3>5 DEF RowsNext, ProcessReady, Continue, Unexpected, Leave
    <3>6. CASE ReadStatementDescribeResponse(m)
      BY <3>1, <3>6 DEF ReadStatementDescribeResponse, Continue
    <3> QED
      BY <1>1, <3>1, <3>2, <3>3, <3>4, <3>5, <3>6 DEF Reads, ReadParseResponse,
         ReadPortalDescribeResponse, ReadBindResponse
  <2> QED
    BY <2>1, <2>2, MessageTypes DEF WireData
<1>2. CASE Send
  BY <1>2 DEF Send, SendFails, Sends, WireData
<1>3. ASSUME NEW how \in Losses, ConnBreaks(how) PROVE WireData'
  BY <1>3 DEF ConnBreaks, WireData
<1>4. CASE PoolStep
  BY <1>4 DEF PoolStep, Call, Ping, Begin, Commit, Rollback, Transaction, RowsCall, Discard,
       RefusedWhenBad, Refuses, Goes, WireData, TxnStatuses
<1>5. CASE BadArguments \/ RecvFails \/ UNCHANGED vars
  BY <1>5 DEF BadArguments, RecvFails, WireData, vars
<1> QED
  BY <1>1, <1>2, <1>3, <1>4, <1>5 DEF Next, DriverStep

Outcomes == {"ok", "error", "ErrBadConn", "panic"}

LEMMA PoolReturns ==
    ASSUME PoolData, NEW r \in Outcomes, Returns(r) PROVE
           /\ err' \in BOOLEAN /\ res' \in {"nil", "cols", "done"} /\ tag' \in Tags \cup {"-"}
           /\ ret' \in Outcomes /\ inTx' \in BOOLEAN /\ prepared' \in BOOLEAN
BY DEF Returns, Result, Holds, PoolData, Outcomes

LEMMA PoolReturnsPlain ==
    ASSUME PoolData, NEW r \in Outcomes, ReturnsPlain(r) PROVE PoolData'
BY PoolReturns DEF ReturnsPlain, PoolData, Outcomes

LEMMA PoolReturnsRows ==
    ASSUME PoolData, NEW how \in {"none", "open", "done"}, ReturnsRows(how) PROVE PoolData'
BY PoolReturns DEF ReturnsRows, PoolData, Outcomes

LEMMA PoolUnexpected == ASSUME PoolData, NEW m, Unexpected(m) PROVE PoolData'
BY PoolReturnsPlain DEF Unexpected, Outcomes

LEMMA PoolSame == ASSUME PoolData, SameResult, UNCHANGED poolVars PROVE PoolData'
BY DEF PoolData, SameResult

LEMMA PoolReads == ASSUME PoolData, NEW m \in Messages, Reads(m) PROVE PoolData'
<1>1. ASSUME NEW step, NEW types, ReadResponse(step, types, m) PROVE PoolData'
  BY <1>1, PoolSame, PoolUnexpected DEF ReadResponse, Continue
<1>2. ASSUME ExecTag(m), m.type \in {"C", "I", "E", "T", "D"}, UNCHANGED poolVars
      PROVE  PoolData'
  <2>1. m.type = "C" => m.val \in Tags
    BY MessageTypes
  <2>2. CASE m.type = "C"
    BY <1>2, <2>1, <2>2 DEF ExecTag, PoolData
  <2>3. CASE m.type = "I"
    BY <1>2, <2>3 DEF ExecTag, PoolData
  <2>4. CASE m.type = "E"
    BY <1>2, <2>4 DEF ExecTag, PoolData
  <2>5. CASE m.type \in {"T", "D"}
    <3>1. SameResult
      BY <1>2, <2>5 DEF ExecTag
    <3> QED
      BY <1>2, <3>1, PoolSame
  <2> QED
    BY <1>2, <2>2, <2>3, <2>4, <2>5
<1>3. CASE SimpleExec(m)
  <2>1. CASE SimpleExecDone(m)
    <3>1. ASSUME NEW r \in Outcomes \cup {"txn"}, TxnReturns(r) PROVE PoolData'
      BY <3>1, PoolReturnsPlain DEF TxnReturns, Outcomes
    <3>2. ExecResult \in Outcomes
      BY DEF ExecResult, Outcomes
    <3>3. /\ BeginResult(ExecResult, tag, m.val) \in Outcomes \cup {"txn"}
          /\ CommitResult(ExecResult, tag, m.val) \in Outcomes \cup {"txn"}
          /\ RollbackResult(ExecResult, tag, m.val) \in Outcomes \cup {"txn"}
      BY DEF BeginResult, CommitResult, RollbackResult, Outcomes
    <3>4. "error" \in Outcomes
      BY DEF Outcomes
    <3> QED
      BY <2>1, <3>1, <3>2, <3>3, <3>4, PoolReturnsPlain DEF SimpleExecDone
  <2> QED
    BY <1>2, <1>3, <2>1, PoolUnexpected DEF SimpleExec, Continue
<1>4. CASE SimpleQuery(m)
  <2>1. ASSUME NEW how \in {"none", "open", "done"}, QueryReturns(how) PROVE PoolData'
    BY <2>1, PoolReturnsRows, PoolReturnsPlain, PoolSame DEF QueryReturns, Outcomes
  <2>2. CASE SimpleQueryDone
    BY <2>1, <2>2, PoolReturnsPlain DEF SimpleQueryDone, NilRows, Outcomes
  <2>3. CASE Continue(prog) /\ tag' = tag /\ err' \in {err, TRUE} /\ res' \in {"done", "cols", "nil"}
    BY <2>3 DEF Continue, PoolData
  <2> QED
    BY <1>4, <2>1, <2>2, <2>3, PoolUnexpected DEF SimpleQuery
<1>5. CASE ReadReadyForQuery(m)
  BY <1>5, PoolUnexpected, PoolReturnsPlain, PoolSame DEF ReadReadyForQuery, Outcomes
<1>6. CASE PostExecuteWorkaround(m)
  BY <1>6, PoolUnexpected, PoolReturnsRows, PoolSame DEF PostExecuteWorkaround, Continue
<1>7. CASE ReadExecuteResponse(m)
  BY <1>2, <1>7, PoolUnexpected, PoolReturnsPlain
  DEF ReadExecuteResponse, Continue, Outcomes, ExecResult
<1>8. CASE ReadCloseComplete(m)
  BY <1>8, PoolUnexpected, PoolSame DEF ReadCloseComplete, Continue
<1>9. CASE RowsNext(m)
  <2>1. CASE NextReturns
    BY <2>1, PoolReturnsPlain DEF NextReturns, Outcomes, PoolData
  <2>2. CASE Returns(IF err THEN "error" ELSE "ok") /\ rows' = RowsAtReady
    BY <2>2, PoolReturns DEF RowsAtReady, PoolData, Outcomes
  <2>3. CASE err' = TRUE /\ UNCHANGED <<res, tag>> /\ Continue(prog)
    BY <2>3 DEF Continue, PoolData
  <2>4. ASSUME Leave("error") PROVE PoolData'
    BY <2>4, PoolReturnsPlain DEF Leave, Outcomes
  <2> QED
    BY <1>9, <2>1, <2>2, <2>3, <2>4, PoolUnexpected, PoolSame DEF RowsNext, Continue
<1>10. CASE ReadStatementDescribeResponse(m)
  BY <1>1, <1>10, PoolSame DEF ReadStatementDescribeResponse, Continue
<1> QED
  BY <1>1, <1>3, <1>4, <1>5, <1>6, <1>7, <1>8, <1>9, <1>10 DEF Reads, ReadParseResponse,
     ReadPortalDescribeResponse, ReadBindResponse

LEMMA PoolDataStep == ASSUME PoolData, [Next]_vars PROVE PoolData'
<1>1. CASE Send
  BY <1>1, PoolReturnsPlain, PoolSame DEF Send, SendFails, Sends, SameResult, WriteError, Outcomes
<1>2. ASSUME NEW how, ConnBreaks(how) PROVE PoolData'
  BY <1>2 DEF ConnBreaks, PoolData
<1>3. CASE PoolStep
  <2>1. ASSUME NEW c, Goes(c) PROVE PoolData'
    BY <2>1 DEF Goes, PoolData, SameResult
  <2>2. ASSUME NEW c, NEW r \in {"error", "ErrBadConn"}, Refuses(c, r) PROVE PoolData'
    BY <2>2 DEF Refuses, Holds, PoolData
  <2>3. ASSUME NEW c, NEW intxn, Transaction(c, intxn) PROVE PoolData'
    BY <2>1, <2>2, <2>3 DEF Transaction, RefusedWhenBad
  <2>4. ASSUME NEW c, RowsCall(c) PROVE PoolData'
    BY <2>1, <2>4 DEF RowsCall, PoolData
  <2>5. CASE Discard
    BY <2>5 DEF Discard, PoolData
  <2> QED
    BY <1>3, <2>1, <2>2, <2>3, <2>4, <2>5 DEF PoolStep, Call, Ping, Begin, Commit, Rollback,
       RefusedWhenBad
<1>4. CASE BadArguments \/ RecvFails
  BY <1>4, PoolReturnsPlain DEF BadArguments, RecvFails, ReadError, Outcomes
<1>5. CASE UNCHANGED vars
  BY <1>5 DEF vars, PoolData
<1> QED
  BY <1>1, <1>2, <1>3, <1>4, <1>5, PoolReads DEF Next, DriverStep

--------------------------------------------------------------------------------
(* Requests *)

Starts == {"complete", "empty", "begin", "commit", "rollback", "copyIn", "copyOut"}
CopySteps == {"copyIn", "copying", "copyOut", "copyData", "copyDone"}
Ends == {"complete", "empty", "begin", "commit", "rollback", "copying"}
Steps == Starts \cup CopySteps \cup
         {"header", "row", "sync", "parse", "describe", "fields", "bind", "portal", "close"}

\* What may come next in a request.
After(step) ==
    CASE step \in {"header", "row"} -> {"row", "complete"}
      [] step \in Ends -> {"header", "sync"} \cup Starts
      [] step = "copyIn" -> {"copying"}
      [] step = "copyOut" -> {"copyData"}
      [] step = "copyData" -> {"copyDone"}
      [] step = "copyDone" -> {"complete"}
      [] step = "parse" -> {"describe", "bind"}
      [] step = "describe" -> {"fields"}
      [] step = "bind" -> {"portal", "row"} \cup Starts
      [] step = "portal" -> {"row"} \cup Starts
      [] step \in {"fields", "close"} -> {"sync"}
      [] step = "sync" -> {}

Chain(s) == s \in Seq(Steps) /\ s # <<>> /\ \A k \in 1..(Len(s) - 1) : s[k + 1] \in After(s[k])

\* A request ends in its only "sync": nothing may come after one.
Batch(s) == Chain(s) /\ s[Len(s)] = "sync"

NoCopy(s) == \A k \in 1..Len(s) : s[k] \notin CopySteps

\* No COPY follows one of some steps.
NoCopyAfter(some, s) ==
    \A j, k \in 1..Len(s) : j < k /\ s[j] \in some => s[k] \notin CopySteps

\* Where a function that reads the answer to a query string finds it.
Heads == {"header", "row", "sync"} \cup Starts

\* The steps that give a statement's rows or its tag.
Results == {"header", "row"} \cup (Starts \ CopySteps)

LEMMA AfterValues ==
    /\ \A step \in {"header", "row"} : After(step) = {"row", "complete"}
    /\ \A step \in Ends : After(step) = {"header", "sync"} \cup Starts
    /\ After("copyIn") = {"copying"}
    /\ After("copyOut") = {"copyData"}
    /\ After("copyData") = {"copyDone"}
    /\ After("copyDone") = {"complete"}
    /\ After("parse") = {"describe", "bind"}
    /\ After("describe") = {"fields"}
    /\ After("bind") = {"portal", "row"} \cup Starts
    /\ After("portal") = {"row"} \cup Starts
    /\ \A step \in {"fields", "close"} : After(step) = {"sync"}
    /\ After("sync") = {}
BY DEF After, Ends

\* What a function of the chain is left with when its first step is done.
LEMMA TailOf ==
    ASSUME NEW s \in Seq(Steps), s # <<>>
    PROVE  /\ Tail(s) \in Seq(Steps) /\ Len(Tail(s)) = Len(s) - 1 /\ Len(s) \in Nat \ {0}
           /\ Head(s) = s[1] /\ Head(s) \in Steps
           /\ \A k \in 1..(Len(s) - 1) : Tail(s)[k] = s[k + 1]
OBVIOUS

LEMMA ChainTail ==
    ASSUME NEW s, Chain(s), Len(s) > 1
    PROVE  /\ Chain(Tail(s)) /\ Tail(s)[1] = s[2] /\ Head(Tail(s)) = s[2] /\ s[2] \in After(Head(s))
           /\ Tail(s)[Len(Tail(s))] = s[Len(s)]
<1>1. /\ s \in Seq(Steps) /\ Tail(s) \in Seq(Steps) /\ Len(Tail(s)) = Len(s) - 1
      /\ Head(s) = s[1] /\ Len(s) \in Nat
      /\ \A k \in 1..(Len(s) - 1) : Tail(s)[k] = s[k + 1]
  BY TailOf DEF Chain
<1>2. Tail(s) # <<>>
  <2>1. Len(Tail(s)) # 0 /\ Len(<<>>) = 0
    BY <1>1
  <2> QED
    BY <2>1
<1>3. ASSUME NEW k \in 1..(Len(Tail(s)) - 1) PROVE Tail(s)[k + 1] \in After(Tail(s)[k])
  <2>1. k + 1 \in 1..(Len(s) - 1) /\ k \in 1..(Len(s) - 1)
    BY <1>1
  <2>2. Tail(s)[k + 1] = s[(k + 1) + 1] /\ Tail(s)[k] = s[k + 1]
    BY <1>1, <2>1
  <2> QED
    BY <2>1, <2>2 DEF Chain
<1>4. Tail(s)[1] = s[2] /\ s[2] \in After(s[1]) /\ Tail(s)[Len(Tail(s))] = s[Len(s)]
  <2>1. 1 \in 1..(Len(s) - 1) /\ Len(s) - 1 \in 1..(Len(s) - 1)
    BY <1>1
  <2> QED
    BY <1>1, <2>1 DEF Chain
<1>5. Head(Tail(s)) = Tail(s)[1]
  BY <1>1, <1>2
<1> QED
  BY <1>1, <1>2, <1>3, <1>4, <1>5 DEF Chain

LEMMA BatchTail ==
    ASSUME NEW s, Batch(s)
    PROVE  /\ s # <<>> /\ Head(s) \in Steps /\ Head(s) = s[1]
           /\ Head(s) = "sync" => s = <<"sync">> /\ Tail(s) = <<>>
           /\ Head(s) # "sync" => /\ Batch(Tail(s)) /\ Tail(s) # <<>> /\ Head(Tail(s)) = s[2]
                                  /\ s[2] \in After(Head(s)) /\ Tail(s)[1] = s[2]
<1>1. /\ s \in Seq(Steps) /\ s # <<>> /\ Len(s) \in Nat \ {0} /\ Head(s) = s[1]
      /\ Head(s) \in Steps
  BY TailOf DEF Batch, Chain
<1>2. CASE Len(s) = 1
  <2>1. s = <<"sync">>
    BY <1>1, <1>2 DEF Batch
  <2>2. Tail(<<"sync">>) = <<>> /\ Head(<<"sync">>) = "sync"
    OBVIOUS
  <2> QED
    BY <1>1, <2>1, <2>2
<1>3. CASE Len(s) > 1
  <2>1. /\ Chain(Tail(s)) /\ Tail(s)[1] = s[2] /\ s[2] \in After(Head(s)) /\ Head(Tail(s)) = s[2]
        /\ Tail(s)[Len(Tail(s))] = s[Len(s)]
    BY <1>3, ChainTail DEF Batch
  <2>2. Head(s) # "sync"
    BY <2>1, AfterValues
  <2>3. Tail(s) # <<>>
    BY <2>1 DEF Chain
  <2>4. Batch(Tail(s))
    BY <2>1 DEF Batch
  <2> QED
    BY <1>1, <2>1, <2>2, <2>3, <2>4
<1>4. Len(s) = 1 \/ Len(s) > 1
  <2>1. Len(s) \in Nat \ {0}
    BY Zenon, <1>1
  <2>2. \A n \in Nat \ {0} : n = 1 \/ n > 1
    OBVIOUS
  <2> QED
    BY <2>1, <2>2, Zenon
<1> QED
  BY <1>2, <1>3, <1>4

\* The only "sync" of a batch is its last step.
LEMMA OneSync ==
    ASSUME NEW s, Batch(s), NEW k \in 1..Len(s) PROVE s[k] = "sync" <=> k = Len(s)
<1>1. Len(s) \in Nat
  BY TailOf DEF Batch, Chain
<1>2. CASE k = Len(s)
  BY <1>2 DEF Batch
<1>3. CASE k # Len(s)
  <2>1. k \in 1..(Len(s) - 1)
    BY <1>1, <1>3
  <2>2. s[k + 1] \in After(s[k])
    BY <2>1 DEF Batch, Chain
  <2> QED
    BY <1>3, <2>2, AfterValues
<1> QED
  BY <1>2, <1>3

LEMMA SyncIsBatch ==
    /\ Batch(<<"sync">>) /\ NoCopy(<<"sync">>) /\ Head(<<"sync">>) = "sync"
    /\ \A some : NoCopyAfter(some, <<"sync">>)
<1>1. <<"sync">> \in Seq(Steps) /\ <<"sync">>[1] = "sync" /\ Len(<<"sync">>) = 1
  BY DEF Steps
<1> QED
  BY <1>1 DEF Batch, Chain, NoCopy, NoCopyAfter, CopySteps

LEMMA CopyTail ==
    ASSUME NEW s, Chain(s), Len(s) > 1, NEW some
    PROVE  /\ NoCopy(s) => NoCopy(Tail(s))
           /\ NoCopyAfter(some, s) => NoCopyAfter(some, Tail(s))
           /\ NoCopyAfter(some, s) /\ Head(s) \in some => NoCopy(Tail(s))
<1>1. /\ Len(Tail(s)) = Len(s) - 1 /\ Head(s) = s[1] /\ Len(s) \in Nat
      /\ \A k \in 1..(Len(s) - 1) : Tail(s)[k] = s[k + 1]
  BY TailOf DEF Chain
<1>2. \A k \in 1..Len(Tail(s)) : k + 1 \in 1..Len(s) /\ 1 < k + 1 /\ Tail(s)[k] = s[k + 1]
  BY <1>1
<1>3. 1 \in 1..Len(s)
  BY <1>1
<1>4. ASSUME NEW j \in 1..Len(Tail(s)), NEW k \in 1..Len(Tail(s)), j < k PROVE j + 1 < k + 1
  BY <1>1, <1>4
<1>5. NoCopy(s) => NoCopy(Tail(s))
  BY <1>2 DEF NoCopy
<1>6. ASSUME NoCopyAfter(some, s) PROVE NoCopyAfter(some, Tail(s))
  <2>1. ASSUME NEW j \in 1..Len(Tail(s)), NEW k \in 1..Len(Tail(s)), j < k, Tail(s)[j] \in some
        PROVE  Tail(s)[k] \notin CopySteps
    BY <1>2, <1>4, <1>6, <2>1 DEF NoCopyAfter
  <2> QED
    BY <2>1 DEF NoCopyAfter
<1>7. NoCopyAfter(some, s) /\ Head(s) \in some => NoCopy(Tail(s))
  BY <1>1, <1>2, <1>3 DEF NoCopyAfter, NoCopy
<1> QED
  BY <1>5, <1>6, <1>7

\* Two chains that fit make one.
LEMMA JoinChains ==
    ASSUME NEW s, NEW t, Chain(s), Chain(t), t[1] \in After(s[Len(s)])
    PROVE  /\ Chain(s \o t) /\ Head(s \o t) = s[1] /\ (s \o t)[1] = s[1]
           /\ (s \o t)[Len(s \o t)] = t[Len(t)]
           /\ Len(s) = 1 => (s \o t)[2] = t[1]
<1>1. /\ s \in Seq(Steps) /\ t \in Seq(Steps) /\ Len(s) \in Nat /\ Len(t) \in Nat
      /\ Len(s) > 0 /\ Len(t) > 0
  BY DEF Chain
<1>2. /\ s \o t \in Seq(Steps) /\ Len(s \o t) = Len(s) + Len(t)
      /\ \A k \in 1..Len(s) : (s \o t)[k] = s[k]
      /\ \A k \in 1..Len(t) : (s \o t)[Len(s) + k] = t[k]
  BY <1>1
<1>3. s \o t # <<>> /\ Head(s \o t) = (s \o t)[1]
  <2>1. Len(s \o t) # 0
    BY <1>1, <1>2
  <2> QED
    BY <1>2, <2>1
<1>4. ASSUME NEW k \in 1..(Len(s \o t) - 1) PROVE (s \o t)[k + 1] \in After((s \o t)[k])
  <2>1. CASE k < Len(s)
    <3>1. k \in 1..(Len(s) - 1) /\ k \in 1..Len(s) /\ k + 1 \in 1..Len(s)
      BY <1>1, <2>1
    <3> QED
      BY <1>2, <3>1 DEF Chain
  <2>2. CASE k = Len(s)
    <3>1. k \in 1..Len(s) /\ 1 \in 1..Len(t)
      BY <1>1, <2>2
    <3> QED
      BY <1>2, <2>2, <3>1
  <2>3. CASE k > Len(s)
    <3>1. PICK j \in 1..(Len(t) - 1) : k = Len(s) + j
      <4>1. k - Len(s) \in 1..(Len(t) - 1) /\ k = Len(s) + (k - Len(s))
        BY <1>1, <1>2, <2>3
      <4> QED
        BY <4>1
    <3>2. j \in 1..Len(t) /\ j + 1 \in 1..Len(t) /\ k + 1 = Len(s) + (j + 1)
      BY <1>1, <3>1
    <3>3. (s \o t)[k] = t[j] /\ (s \o t)[k + 1] = t[j + 1]
      BY <1>2, <3>1, <3>2
    <3> QED
      BY <3>1, <3>3 DEF Chain
  <2> QED
    BY <1>1, <2>1, <2>2, <2>3
<1>5. (s \o t)[1] = s[1] /\ (s \o t)[Len(s \o t)] = t[Len(t)]
  <2>1. 1 \in 1..Len(s) /\ Len(t) \in 1..Len(t)
    BY <1>1
  <2> QED
    BY <1>2, <2>1
<1>6. Len(s) = 1 => (s \o t)[2] = t[1]
  <2>1. 1 \in 1..Len(t)
    BY <1>1
  <2> QED
    BY <1>2, <2>1
<1> QED
  BY <1>2, <1>3, <1>4, <1>5, <1>6 DEF Chain

\* What is in two chains joined.
LEMMA JoinedCopies ==
    ASSUME NEW s, NEW t, Chain(s), Chain(t), NEW some
    PROVE  /\ NoCopy(s) /\ NoCopy(t) => NoCopy(s \o t)
           /\ NoCopyAfter(some, s) /\ NoCopyAfter(some, t)
                 /\ (NoCopy(t) \/ \A k \in 1..Len(s) : s[k] \notin some)
              => NoCopyAfter(some, s \o t)
<1>1. /\ s \in Seq(Steps) /\ t \in Seq(Steps) /\ Len(s) \in Nat /\ Len(t) \in Nat
  BY DEF Chain
<1>2. /\ Len(s \o t) = Len(s) + Len(t)
      /\ \A k \in 1..Len(s) : (s \o t)[k] = s[k]
      /\ \A k \in 1..Len(t) : (s \o t)[Len(s) + k] = t[k]
  BY <1>1
<1>3. ASSUME NEW k \in 1..Len(s \o t)
      PROVE  k \in 1..Len(s) \/ \E i \in 1..Len(t) : k = Len(s) + i
  <2>1. k \in 1..Len(s) \/ (k - Len(s) \in 1..Len(t) /\ k = Len(s) + (k - Len(s)))
    BY <1>1, <1>2
  <2> QED
    BY <2>1
<1>4. ASSUME NoCopy(s), NoCopy(t) PROVE NoCopy(s \o t)
  BY <1>2, <1>3, <1>4 DEF NoCopy
<1>5. ASSUME NoCopyAfter(some, s), NoCopyAfter(some, t),
             NoCopy(t) \/ \A k \in 1..Len(s) : s[k] \notin some
      PROVE  NoCopyAfter(some, s \o t)
  <2>1. ASSUME NEW j \in 1..Len(s \o t), NEW k \in 1..Len(s \o t), j < k, (s \o t)[j] \in some
        PROVE  (s \o t)[k] \notin CopySteps
    <3>1. CASE j \in 1..Len(s) /\ k \in 1..Len(s)
      BY <1>2, <1>5, <2>1, <3>1 DEF NoCopyAfter
    <3>2. ASSUME j \in 1..Len(s), NEW i \in 1..Len(t), k = Len(s) + i
          PROVE  (s \o t)[k] \notin CopySteps
      BY <1>2, <1>5, <2>1, <3>2 DEF NoCopy
    <3>3. ASSUME NEW h \in 1..Len(t), j = Len(s) + h, NEW i \in 1..Len(t), k = Len(s) + i
          PROVE  (s \o t)[k] \notin CopySteps
      <4>1. h < i
        BY <1>1, <2>1, <3>3
      <4> QED
        BY <1>2, <1>5, <2>1, <3>3, <4>1 DEF NoCopyAfter
    <3>4. ASSUME NEW h \in 1..Len(t), j = Len(s) + h, k \in 1..Len(s) PROVE FALSE
      BY <1>1, <2>1, <3>4
    <3> QED
      BY <1>3, <3>1, <3>2, <3>3, <3>4
  <2> QED
    BY <2>1 DEF NoCopyAfter
<1> QED
  BY <1>4, <1>5

LEMMA OneStep == ASSUME NEW s \in Seq(Steps), Len(s) = 1 PROVE s = <<s[1]>>
OBVIOUS

\* The server skips to the end of the request that failed.
LEMMA SkipsToSync == ASSUME Batch(todo) PROVE SkipToSync = <<"sync">>
<1>1. todo \in Seq(Steps) /\ Len(todo) \in Nat /\ Len(todo) > 0 /\ DOMAIN todo = 1..Len(todo)
  BY DEF Batch, Chain
<1>2. \A k \in 1..Len(todo) : todo[k] = "sync" <=> k = Len(todo)
  BY OneSync
<1>3. Len(todo) \in DOMAIN todo /\ \A j \in 1..(Len(todo) - 1) : j \in 1..Len(todo) /\ j # Len(todo)
  <2>1. \A n \in Nat : n > 0 => n \in 1..n /\ \A j \in 1..(n - 1) : j \in 1..n /\ j # n
    BY SMTT(30)
  <2> QED
    BY <1>1, <2>1
<1> DEFINE First(i) == todo[i] = "sync" /\ \A j \in 1..(i - 1) : todo[j] # "sync"
<1>4. First(Len(todo))
  BY <1>1, <1>2, <1>3
<1>5. \A i \in DOMAIN todo : First(i) => i = Len(todo)
  BY <1>1, <1>2
<1>6. (CHOOSE i \in DOMAIN todo : First(i)) = Len(todo)
  BY <1>3, <1>4, <1>5
<1>7. SkipToSync = SubSeq(todo, Len(todo), Len(todo))
  BY <1>6 DEF SkipToSync
<1>8. /\ SubSeq(todo, Len(todo), Len(todo)) \in Seq(Steps)
      /\ Len(SubSeq(todo, Len(todo), Len(todo))) = 1
      /\ SubSeq(todo, Len(todo), Len(todo))[1] = todo[Len(todo)]
  BY <1>1
<1>9. SubSeq(todo, Len(todo), Len(todo))[1] = "sync"
  BY <1>8 DEF Batch
<1> QED
  BY <1>7, <1>8, <1>9, OneStep

LEMMA OneStepChain ==
    ASSUME NEW step \in Steps
    PROVE  /\ Chain(<<step>>) /\ Len(<<step>>) = 1 /\ <<step>>[1] = step /\ <<step>>[Len(<<step>>)] = step
           /\ \A some : NoCopyAfter(some, <<step>>)
           /\ step \notin CopySteps => NoCopy(<<step>>)
<1>1. <<step>> \in Seq(Steps) /\ <<step>>[1] = step /\ Len(<<step>>) = 1
  OBVIOUS
<1> QED
  BY <1>1 DEF Chain, NoCopy, NoCopyAfter

LEMMA RowStepsShape ==
    ASSUME NEW n \in Nat
    PROVE  /\ Chain(RowSteps(n)) /\ RowSteps(n)[1] \in {"row", "complete"}
           /\ RowSteps(n)[Len(RowSteps(n))] = "complete"
           /\ \A k \in 1..Len(RowSteps(n)) : RowSteps(n)[k] \in {"row", "complete"}
<1> DEFINE R == [i \in 1..n |-> "row"]
           s == RowSteps(n)
<1>1. R \in Seq(Steps) /\ Len(R) = n /\ \A k \in 1..n : R[k] = "row"
  BY DEF Steps
<1>2. /\ <<"complete">> \in Seq(Steps) /\ Len(<<"complete">>) = 1
      /\ <<"complete">>[1] = "complete"
  BY DEF Steps, Starts
<1>3. s = R \o <<"complete">>
  BY DEF RowSteps
<1> HIDE DEF R, s
<1>4. /\ s \in Seq(Steps) /\ Len(s) = n + 1
      /\ \A k \in 1..n : s[k] = R[k]
      /\ s[n + 1] = "complete"
  BY <1>1, <1>2, <1>3
<1>5. \A k \in 1..n : s[k] = "row"
  BY <1>1, <1>4
<1>6. \A k \in 1..(n + 1) : k \in 1..n \/ k = n + 1
  OBVIOUS
<1>7. \A k \in 1..Len(s) : s[k] \in {"row", "complete"}
  BY <1>4, <1>5, <1>6
<1>8. ASSUME NEW k \in 1..(Len(s) - 1) PROVE s[k + 1] \in After(s[k])
  <2>1. k \in 1..n /\ k + 1 \in 1..Len(s)
    BY <1>4
  <2>2. s[k] = "row" /\ s[k + 1] \in {"row", "complete"}
    BY <1>5, <1>7, <2>1
  <2> QED
    BY <2>2, AfterValues
<1>9. s # <<>> /\ 1 \in 1..Len(s)
  BY <1>4
<1> QED
  BY <1>4, <1>7, <1>8, <1>9 DEF Chain, s

LEMMA RunShape ==
    ASSUME NEW kind \in Kinds, NEW n \in Nat
    PROVE  /\ Chain(Run(kind, n)) /\ Run(kind, n)[1] \in {"row"} \cup Starts
           /\ Run(kind, n)[Len(Run(kind, n))] \in Ends
           /\ NoCopyAfter(Results, Run(kind, n))
           /\ kind \notin {"copyIn", "copyOut"} => NoCopy(Run(kind, n))
           /\ \A k \in 1..Len(Run(kind, n)) : Run(kind, n)[k] # "header"
           /\ kind = "select" => Run(kind, n)[1] \in {"row", "complete"}
<1>1. CASE kind = "select"
  <2>1. Run(kind, n) = RowSteps(n)
    BY <1>1 DEF Run
  <2>2. NoCopy(RowSteps(n)) /\ NoCopyAfter(Results, RowSteps(n))
    BY RowStepsShape DEF NoCopy, NoCopyAfter, CopySteps
  <2> QED
    BY <1>1, <2>1, <2>2, RowStepsShape DEF Starts, Ends
<1>2. CASE kind \in {"dml", "empty", "begin", "commit", "rollback"}
  <2>1. PICK step \in {"complete", "empty", "begin", "commit", "rollback"} : Run(kind, n) = <<step>>
    BY <1>2 DEF Run
  <2>2. step \in Steps /\ step \notin CopySteps /\ step \in Starts /\ step \in Ends
    BY DEF Steps, CopySteps, Starts, Ends
  <2>3. \A k \in 1..Len(<<step>>) : <<step>>[k] = step
    OBVIOUS
  <2> QED
    BY <1>2, <2>1, <2>2, <2>3, OneStepChain
<1>3. CASE kind = "copyIn"
  <2>1. Run(kind, n) = <<"copyIn", "copying">>
    BY <1>3 DEF Run
  <2> DEFINE s == <<"copyIn", "copying">>
  <2>2. s \in Seq(Steps) /\ Len(s) = 2 /\ s[1] = "copyIn" /\ s[2] = "copying" /\ s # <<>>
    BY DEF Steps, CopySteps
  <2> HIDE DEF s
  <2>3. \A k \in 1..Len(s) : s[k] \in {"copyIn", "copying"}
    BY <2>2
  <2>4. Chain(s)
    BY <2>2, AfterValues DEF Chain
  <2>5. NoCopyAfter(Results, s)
    BY <2>3 DEF NoCopyAfter, Results, Starts, CopySteps
  <2> QED
    BY <1>3, <2>1, <2>2, <2>3, <2>4, <2>5 DEF s, Starts, Ends
<1>4. CASE kind = "copyOut"
  <2>1. Run(kind, n) = <<"copyOut", "copyData", "copyDone", "complete">>
    BY <1>4 DEF Run
  <2> DEFINE s == <<"copyOut", "copyData", "copyDone", "complete">>
  <2>2. /\ s \in Seq(Steps) /\ Len(s) = 4 /\ s[1] = "copyOut" /\ s[2] = "copyData"
        /\ s[3] = "copyDone" /\ s[4] = "complete" /\ s # <<>>
    BY DEF Steps, CopySteps, Starts
  <2> HIDE DEF s
  <2>3. \A k \in 1..4 : k = 1 \/ k = 2 \/ k = 3 \/ k = 4
    OBVIOUS
  <2>4. \A k \in 1..(4 - 1) : k = 1 \/ k = 2 \/ k = 3
    OBVIOUS
  <2>5. Chain(s)
    BY <2>2, <2>4, AfterValues DEF Chain
  <2>6. \A j, k \in 1..4 : j < k => j # 4
    OBVIOUS
  <2>7. NoCopyAfter(Results, s)
    BY <2>2, <2>3, <2>6 DEF NoCopyAfter, Results, Starts, CopySteps
  <2>8. \A k \in 1..Len(s) : s[k] # "header"
    BY <2>2, <2>3
  <2> QED
    BY <1>4, <2>1, <2>2, <2>5, <2>7, <2>8 DEF s, Starts, Ends
<1> QED
  BY <1>1, <1>2, <1>3, <1>4 DEF Kinds

LEMMA RunSimpleShape ==
    ASSUME NEW kind \in Kinds, NEW n \in Nat
    PROVE  /\ Chain(RunSimple(kind, n)) /\ RunSimple(kind, n)[1] \in {"header"} \cup Starts
           /\ RunSimple(kind, n)[Len(RunSimple(kind, n))] \in Ends
           /\ NoCopyAfter({"header"}, RunSimple(kind, n))
           /\ kind \notin {"copyIn", "copyOut"} => NoCopy(RunSimple(kind, n))
           /\ kind # "select" =>
                 \A k \in 1..Len(RunSimple(kind, n)) : RunSimple(kind, n)[k] # "header"
<1> DEFINE s == Run(kind, n)
<1>1. /\ Chain(s) /\ s[1] \in {"row"} \cup Starts /\ s[Len(s)] \in Ends
      /\ kind \notin {"copyIn", "copyOut"} => NoCopy(s)
      /\ \A k \in 1..Len(s) : s[k] # "header"
      /\ kind = "select" => s[1] \in {"row", "complete"}
  BY RunShape
<1>2. s \in Seq(Steps)
  BY <1>1 DEF Chain
<1> HIDE DEF s
<1>3. CASE kind = "select"
  <2>1. RunSimple(kind, n) = <<"header">> \o s
    BY <1>3 DEF RunSimple, s
  <2>2. "header" \in Steps /\ "header" \notin CopySteps
    BY DEF Steps, CopySteps
  <2>3. s[1] \in After(<<"header">>[Len(<<"header">>)])
    BY <1>1, <1>3, AfterValues
  <2>4. Chain(<<"header">>) /\ NoCopy(<<"header">>)
    BY <2>2, OneStepChain
  <2>5. /\ Chain(<<"header">> \o s) /\ (<<"header">> \o s)[1] = <<"header">>[1]
        /\ (<<"header">> \o s)[Len(<<"header">> \o s)] = s[Len(s)]
    BY <1>1, <2>3, <2>4, JoinChains
  <2>6. NoCopy(<<"header">> \o s)
    BY <1>1, <1>3, <2>4, JoinedCopies
  <2>7. NoCopyAfter({"header"}, <<"header">> \o s)
    BY <2>6 DEF NoCopy, NoCopyAfter
  <2> QED
    BY <1>1, <1>3, <2>1, <2>5, <2>6, <2>7
<1>4. CASE kind # "select"
  <2>1. RunSimple(kind, n) = <<>> \o s
    BY <1>4 DEF RunSimple, s
  <2>2. <<>> \o s = s
    BY <1>2
  <2>3. s[1] # "row"
    BY <1>4 DEF s, Run, Kinds
  <2>4. NoCopyAfter({"header"}, s)
    BY <1>1 DEF NoCopyAfter
  <2> QED
    BY <1>1, <1>4, <2>1, <2>2, <2>3, <2>4
<1> QED
  BY <1>3, <1>4

LEMMA SyncChain ==
    /\ Chain(<<"sync">>) /\ <<"sync">>[1] = "sync" /\ NoCopy(<<"sync">>) /\ Len(<<"sync">>) = 1
    /\ \A some : NoCopyAfter(some, <<"sync">>)
<1>1. "sync" \in Steps /\ "sync" \notin CopySteps
  BY DEF Steps, CopySteps
<1> QED
  BY <1>1, OneStepChain

\* Steps that may be the last of a request, closed by its "sync".
LEMMA CloseBatch ==
    ASSUME NEW s, Chain(s), s[Len(s)] \in Ends \cup {"fields", "close"}
    PROVE  /\ Batch(s \o <<"sync">>) /\ (s \o <<"sync">>)[1] = s[1]
           /\ NoCopy(s) => NoCopy(s \o <<"sync">>)
           /\ \A some : NoCopyAfter(some, s) => NoCopyAfter(some, s \o <<"sync">>)
<1>1. <<"sync">>[1] \in After(s[Len(s)])
  BY AfterValues
<1>2. /\ Chain(s \o <<"sync">>) /\ (s \o <<"sync">>)[1] = s[1]
      /\ (s \o <<"sync">>)[Len(s \o <<"sync">>)] = "sync"
  BY <1>1, JoinChains, SyncChain
<1>3. /\ NoCopy(s) => NoCopy(s \o <<"sync">>)
      /\ \A some : NoCopyAfter(some, s) => NoCopyAfter(some, s \o <<"sync">>)
  BY JoinedCopies, SyncChain
<1> QED
  BY <1>2, <1>3 DEF Batch

\* A request put in front of a step.
LEMMA StepBefore ==
    ASSUME NEW step \in Steps \ CopySteps, NEW s, Batch(s), s[1] \in After(step), NEW some,
           NoCopyAfter(some, s), step \notin some
    PROVE  /\ Batch(<<step>> \o s) /\ (<<step>> \o s)[1] = step /\ (<<step>> \o s)[2] = s[1]
           /\ NoCopyAfter(some, <<step>> \o s)
<1> DEFINE p == <<step>>
<1>1. Chain(p) /\ Len(p) = 1 /\ p[1] = step /\ p[Len(p)] = step /\ NoCopyAfter(some, p)
  BY OneStepChain
<1> HIDE DEF p
<1>2. Chain(s) /\ s[1] \in After(p[Len(p)])
  BY <1>1 DEF Batch
<1>3. Chain(p \o s) /\ (p \o s)[1] = step /\ (p \o s)[2] = s[1]
  <2>1. Chain(p \o s)
    BY <1>1, <1>2, JoinChains
  <2>2. (p \o s)[1] = p[1]
    BY <1>1, <1>2, JoinChains
  <2>3. (<<step>> \o s)[2] = s[1]
    <3>1. s \in Seq(Steps) /\ Len(s) \in Nat /\ Len(s) > 0
      BY <1>2 DEF Chain
    <3>2. <<step>> \in Seq(Steps) /\ Len(<<step>>) = 1
      OBVIOUS
    <3>3. 2 \in 1..(Len(<<step>>) + Len(s))
      BY <3>1, <3>2
    <3> QED
      BY <3>1, <3>2, <3>3
  <2> QED
    BY <1>1, <2>1, <2>2, <2>3 DEF p
<1>4. (p \o s)[Len(p \o s)] = s[Len(s)]
  BY <1>1, <1>2, JoinChains
<1>5. \A k \in 1..Len(p) : p[k] \notin some
  BY <1>1
<1>6. NoCopyAfter(some, p \o s)
  BY <1>1, <1>2, <1>5, JoinedCopies
<1>7. Batch(p \o s)
  BY <1>3, <1>4 DEF Batch
<1> QED
  BY <1>3, <1>6, <1>7 DEF p

LEMMA SameSteps ==
    ASSUME NEW S, NEW s \in Seq(S), NEW t \in Seq(S), Len(s) = Len(t),
           \A k \in 1..Len(s) : s[k] = t[k]
    PROVE  s = t
BY SeqEqual
\* Sequences written out, joined.
LEMMA JoinTwo ==
    ASSUME NEW a \in Steps, NEW b \in Steps
    PROVE  <<a>> \o <<b>> = <<a, b>>
<1> DEFINE p == <<a>> \o <<b>>
           q == <<a, b>>
<1>1. p \in Seq(Steps) /\ Len(p) = 2 /\ p[1] = a /\ p[2] = b
  <2>1. <<a>> \in Seq(Steps) /\ <<b>> \in Seq(Steps) /\ Len(<<a>>) = 1 /\ Len(<<b>>) = 1 /\ <<a>>[1] = a /\ <<b>>[1] = b
    OBVIOUS
  <2> QED
    BY <2>1, ConcatProperties
<1>2. q \in Seq(Steps) /\ Len(q) = 2 /\ q[1] = a /\ q[2] = b
  OBVIOUS
<1>3. \A k \in 1..2 : k = 1 \/ k = 2
  OBVIOUS
<1> HIDE DEF p, q
<1>4. \A k \in 1..Len(p) : p[k] = q[k]
  BY <1>1, <1>2, <1>3
<1>5. p = q
  BY <1>1, <1>2, <1>4, SameSteps
<1> QED
  BY <1>5 DEF p, q

LEMMA JoinThree ==
    ASSUME NEW a \in Steps, NEW b \in Steps, NEW c \in Steps
    PROVE  <<a, b>> \o <<c>> = <<a, b, c>>
<1> DEFINE p == <<a, b>> \o <<c>>
           q == <<a, b, c>>
<1>1. p \in Seq(Steps) /\ Len(p) = 3 /\ p[1] = a /\ p[2] = b /\ p[3] = c
  <2>1. /\ <<a, b>> \in Seq(Steps) /\ <<c>> \in Seq(Steps) /\ Len(<<a, b>>) = 2 /\ Len(<<c>>) = 1 /\ <<a, b>>[1] = a
        /\ <<a, b>>[2] = b /\ <<c>>[1] = c
    OBVIOUS
  <2> QED
    BY <2>1, ConcatProperties
<1>2. q \in Seq(Steps) /\ Len(q) = 3 /\ q[1] = a /\ q[2] = b /\ q[3] = c
  OBVIOUS
<1>3. \A k \in 1..3 : k = 1 \/ k = 2 \/ k = 3
  OBVIOUS
<1> HIDE DEF p, q
<1>4. \A k \in 1..Len(p) : p[k] = q[k]
  BY <1>1, <1>2, <1>3
<1>5. p = q
  BY <1>1, <1>2, <1>4, SameSteps
<1> QED
  BY <1>5 DEF p, q

\* What each request looks like.
QueryRequest(s) ==
    Batch(s) /\ s[1] \in {"header"} \cup Starts /\ NoCopyAfter({"header"}, s)
PortalRequest(s) ==
    Batch(s) /\ s[1] \in {"row"} \cup Starts /\ NoCopyAfter(Results, s)
BindRequest(s) ==
    Batch(s) /\ s[1] = "bind" /\ s[2] \in {"row"} \cup Starts /\ NoCopyAfter(Results, s)
BinaryRequest(s) ==
    /\ Batch(s) /\ s[1] = "parse" /\ s[2] = "bind" /\ s[3] = "portal"
    /\ NoCopyAfter(Results, s)

LEMMA SimpleRequestShape ==
    ASSUME NoCopyAfterRows, NEW q \in Scripts, NEW n \in Nat
    PROVE  QueryRequest(SimpleRequest(q, n))
<1> DEFINE s == RunSimple(q[1], n)
           t == RunSimple(q[2], n)
<1>1. q \in Seq(Kinds) /\ Len(q) \in {1, 2}
  BY ScriptsAssumption
<1>2. q[1] \in Kinds
  BY <1>1
<1>3. /\ Chain(s) /\ s[1] \in {"header"} \cup Starts /\ s[Len(s)] \in Ends
      /\ NoCopyAfter({"header"}, s)
      /\ q[1] # "select" => \A k \in 1..Len(s) : s[k] # "header"
  BY <1>2, RunSimpleShape
<1>4. CASE Len(q) = 1
  <2>1. SimpleRequest(q, n) = (s \o <<>>) \o <<"sync">>
    BY <1>4 DEF SimpleRequest
  <2> HIDE DEF s, t
  <2>2. s \o <<>> = s
    BY <1>3 DEF Chain
  <2>3. s[Len(s)] \in Ends \cup {"fields", "close"}
    BY <1>3
  <2> QED
    BY <1>3, <2>1, <2>2, <2>3, CloseBatch DEF QueryRequest
<1>5. CASE Len(q) = 2
  <2>1. q[2] \in Kinds
    BY <1>1, <1>5
  <2>2. /\ Chain(t) /\ t[1] \in {"header"} \cup Starts /\ t[Len(t)] \in Ends
        /\ NoCopyAfter({"header"}, t)
        /\ q[2] \notin {"copyIn", "copyOut"} => NoCopy(t)
    BY <2>1, RunSimpleShape
  <2>3. SimpleRequest(q, n) = (s \o t) \o <<"sync">>
    BY <1>5 DEF SimpleRequest
  <2>4. q[1] = "select" => q[2] \notin {"copyIn", "copyOut"}
    BY <1>5 DEF NoCopyAfterRows
  <2> HIDE DEF s, t
  <2>5. t[1] \in After(s[Len(s)])
    BY <1>3, <2>2, AfterValues
  <2>6. /\ Chain(s \o t) /\ (s \o t)[1] = s[1]
        /\ (s \o t)[Len(s \o t)] \in Ends \cup {"fields", "close"}
    <3>1. (s \o t)[Len(s \o t)] = t[Len(t)]
      BY <1>3, <2>2, <2>5, JoinChains
    <3>2. Chain(s \o t) /\ (s \o t)[1] = s[1]
      BY <1>3, <2>2, <2>5, JoinChains
    <3> QED
      BY <2>2, <3>1, <3>2
  <2>7. NoCopyAfter({"header"}, s \o t)
    <3>1. NoCopy(t) \/ \A k \in 1..Len(s) : s[k] \notin {"header"}
      BY <1>3, <2>2, <2>4
    <3> QED
      BY <1>3, <2>2, <3>1, JoinedCopies
  <2> QED
    BY <1>3, <2>3, <2>6, <2>7, CloseBatch DEF QueryRequest
<1> QED
  BY <1>1, <1>4, <1>5

LEMMA PortalRequestShape ==
    ASSUME NEW q \in Statements, NEW n \in Nat
    PROVE  PortalRequest(Run(q, n) \o <<"sync">>)
<1> DEFINE s == Run(q, n)
<1>1. q \in Kinds
  BY ScriptsAssumption
<1>2. /\ Chain(s) /\ s[1] \in {"row"} \cup Starts /\ s[Len(s)] \in Ends
      /\ NoCopyAfter(Results, s)
  BY <1>1, RunShape
<1> HIDE DEF s
<1>3. s[Len(s)] \in Ends \cup {"fields", "close"}
  BY <1>2
<1>4. /\ Batch(s \o <<"sync">>) /\ (s \o <<"sync">>)[1] = s[1]
      /\ NoCopyAfter(Results, s \o <<"sync">>)
  BY <1>2, <1>3, CloseBatch
<1> QED
  BY <1>2, <1>4 DEF PortalRequest, s

LEMMA BindRequestShape ==
    ASSUME NEW q \in Statements, NEW n \in Nat
    PROVE  BindRequest(<<"bind">> \o Run(q, n) \o <<"sync">>)
<1> DEFINE s == Run(q, n) \o <<"sync">>
<1>1. PortalRequest(s)
  BY PortalRequestShape
<1>2. Run(q, n) \in Seq(Steps) /\ <<"bind">> \in Seq(Steps) /\ <<"sync">> \in Seq(Steps)
  <2>1. q \in Kinds
    BY ScriptsAssumption
  <2> QED
    BY <2>1, RunShape DEF Chain, Steps
<1>3. <<"bind">> \o Run(q, n) \o <<"sync">> = <<"bind">> \o s
  BY <1>2, ConcatAssociative
<1> HIDE DEF s
<1>4. "bind" \in Steps \ CopySteps /\ s[1] \in After("bind") /\ "bind" \notin Results
  BY <1>1, AfterValues DEF PortalRequest, Steps, CopySteps, Results, Starts
<1>5. /\ Batch(<<"bind">> \o s) /\ (<<"bind">> \o s)[1] = "bind" /\ (<<"bind">> \o s)[2] = s[1]
      /\ NoCopyAfter(Results, <<"bind">> \o s)
  BY <1>1, <1>4, StepBefore DEF PortalRequest
<1> QED
  BY <1>1, <1>3, <1>5 DEF PortalRequest, BindRequest

LEMMA BinaryRequestShape ==
    ASSUME NEW q \in Statements, NEW n \in Nat
    PROVE  BinaryRequest(<<"parse", "bind", "portal">> \o Run(q, n) \o <<"sync">>)
<1> DEFINE s == Run(q, n) \o <<"sync">>
           t == <<"portal">> \o s
           u == <<"bind">> \o t
<1>1. PortalRequest(s)
  BY PortalRequestShape
<1>2. Run(q, n) \in Seq(Steps) /\ <<"sync">> \in Seq(Steps) /\ <<"parse", "bind", "portal">> \in Seq(Steps)
  <2>1. q \in Kinds
    BY ScriptsAssumption
  <2> QED
    BY <2>1, RunShape DEF Chain, Steps
<1>3. <<"parse", "bind", "portal">> \o Run(q, n) \o <<"sync">> = <<"parse", "bind", "portal">> \o s
  BY <1>2, ConcatAssociative
<1>4. s \in Seq(Steps)
  BY <1>1 DEF PortalRequest, Batch, Chain
<1> HIDE DEF s
<1>5. <<"parse", "bind", "portal">> \o s = <<"parse">> \o u
  <2>0. "parse" \in Steps /\ "bind" \in Steps /\ "portal" \in Steps
    BY DEF Steps
  <2>1. <<"parse">> \in Seq(Steps) /\ <<"bind">> \in Seq(Steps) /\ <<"portal">> \in Seq(Steps)
    BY <2>0
  <2>2. /\ <<"parse">> \o (<<"bind">> \o (<<"portal">> \o s))
             = (<<"parse">> \o <<"bind">>) \o (<<"portal">> \o s)
        /\ (<<"parse">> \o <<"bind">>) \o (<<"portal">> \o s)
             = ((<<"parse">> \o <<"bind">>) \o <<"portal">>) \o s
    <3>1. <<"parse">> \o <<"bind">> \in Seq(Steps) /\ <<"portal">> \o s \in Seq(Steps)
      BY <1>4, <2>1
    <3> QED
      BY <1>4, <2>1, <3>1, ConcatAssociative
  <2>3. <<"parse">> \o <<"bind">> = <<"parse", "bind">>
    BY <2>0, JoinTwo
  <2>4. <<"parse", "bind">> \o <<"portal">> = <<"parse", "bind", "portal">>
    BY <2>0, JoinThree
  <2> QED
    BY <2>2, <2>3, <2>4 DEF u, t
<1>6. /\ {"parse", "bind", "portal"} \subseteq Steps \ CopySteps
      /\ "parse" \notin Results /\ "bind" \notin Results /\ "portal" \notin Results
  BY DEF Steps, CopySteps, Results, Starts
<1>7. Batch(t) /\ t[1] = "portal" /\ NoCopyAfter(Results, t)
  <2>1. s[1] \in After("portal")
    BY <1>1, AfterValues DEF PortalRequest
  <2> QED
    BY <1>1, <1>6, <2>1, StepBefore DEF PortalRequest
<1> HIDE DEF t
<1>8. Batch(u) /\ u[1] = "bind" /\ u[2] = "portal" /\ NoCopyAfter(Results, u)
  <2>1. t[1] \in After("bind")
    BY <1>7, AfterValues
  <2> QED
    BY <1>6, <1>7, <2>1, StepBefore
<1> HIDE DEF u
<1>9. /\ Batch(<<"parse">> \o u) /\ (<<"parse">> \o u)[1] = "parse"
      /\ (<<"parse">> \o u)[2] = "bind" /\ NoCopyAfter(Results, <<"parse">> \o u)
  <2>1. u[1] \in After("parse")
    BY <1>8, AfterValues
  <2> QED
    BY <1>6, <1>8, <2>1, StepBefore
<1>10. (<<"parse">> \o u)[3] = "portal"
  <2>1. u \in Seq(Steps) /\ <<"parse">> \in Seq(Steps) /\ Len(<<"parse">>) = 1
    BY <1>8 DEF Batch, Chain, Steps
  <2>2. 2 \in 1..Len(u)
    <3>1. Len(u) \in Nat /\ Len(u) # 0 /\ u[Len(u)] = "sync"
      BY <1>8 DEF Batch, Chain
    <3>2. Len(u) # 1
      BY <1>8, <3>1
    <3>3. \A k \in Nat : k # 0 /\ k # 1 => 2 \in 1..k
      OBVIOUS
    <3> QED
      BY <3>1, <3>2, <3>3
  <2>3. (<<"parse">> \o u)[1 + 2] = u[2]
    BY <2>1, <2>2
  <2>4. 1 + 2 = 3
    OBVIOUS
  <2> QED
    BY <1>8, <2>3, <2>4
<1> QED
  BY <1>3, <1>5, <1>9, <1>10 DEF BinaryRequest

\* The requests that are the same whatever they ask for.
LEMMA FixedRequestShapes ==
    /\ Batch(<<"parse", "describe", "fields", "sync">>)
    /\ Batch(<<"close", "sync">>)
    /\ \A step \in Starts \ CopySteps : Batch(<<step, "sync">>) /\ NoCopy(<<step, "sync">>)
<1>1. Batch(<<"parse", "describe", "fields", "sync">>)
  <2> DEFINE s == <<"parse", "describe", "fields", "sync">>
  <2>1. /\ s \in Seq(Steps) /\ s # <<>> /\ Len(s) = 4
        /\ s[1] = "parse" /\ s[2] = "describe" /\ s[3] = "fields" /\ s[4] = "sync"
    BY DEF Steps
  <2> HIDE DEF s
  <2>2. \A k \in 1..(4 - 1) : k = 1 \/ k = 2 \/ k = 3
    OBVIOUS
  <2>3. Batch(s)
    BY <2>1, <2>2, AfterValues DEF Batch, Chain
  <2> QED
    BY <2>3 DEF s
<1>2. ASSUME NEW step \in (Starts \ CopySteps) \cup {"close"}
      PROVE  Batch(<<step, "sync">>) /\ NoCopy(<<step, "sync">>)
  <2> DEFINE s == <<step, "sync">>
  <2>1. step \in Steps
    BY DEF Steps
  <2>2. s \in Seq(Steps) /\ s # <<>> /\ Len(s) = 2 /\ s[1] = step /\ s[2] = "sync"
    BY <2>1 DEF Steps
  <2>3. "sync" \in After(step) /\ step \notin CopySteps
    BY AfterValues DEF Ends, Starts, CopySteps
  <2> HIDE DEF s
  <2>4. Batch(s) /\ NoCopy(s)
    BY <2>2, <2>3 DEF Batch, Chain, NoCopy, CopySteps
  <2> QED
    BY <2>4 DEF s
<1> QED
  BY <1>1, <1>2

--------------------------------------------------------------------------------
(* The server *)

\* What a step is answered with when it does not fail.
SuccessTypes(step) ==
    CASE step \in DOMAIN Answer -> Answer[step]
      [] step \in {"complete", "begin", "commit", "rollback"} -> {"C"}
      [] step \in {"sync", "copying"} -> {}

LEMMA SuccessValues ==
    /\ SuccessTypes("parse") = {"1"} /\ SuccessTypes("describe") = {"t"}
    /\ SuccessTypes("fields") = {"T", "n"} /\ SuccessTypes("bind") = {"2"}
    /\ SuccessTypes("portal") = {"T", "n"} /\ SuccessTypes("close") = {"3"}
    /\ SuccessTypes("header") = {"T"} /\ SuccessTypes("row") = {"D"}
    /\ SuccessTypes("empty") = {"I"} /\ SuccessTypes("copyIn") = {"G"}
    /\ SuccessTypes("copyOut") = {"H"} /\ SuccessTypes("copying") = {}
    /\ SuccessTypes("copyData") = {"d"} /\ SuccessTypes("copyDone") = {"c"}
    /\ \A step \in {"complete", "begin", "commit", "rollback"} : SuccessTypes(step) = {"C"}
BY DEF SuccessTypes, Answer

\* What it may have done to the statement.
Executes(step) == step \in {"row", "complete", "begin", "commit", "rollback"}

\* One message of a server that has a request to answer.
Failed(m) ==
    /\ m.type = "E" /\ Head(todo) \notin {"sync", "copying"} /\ todo' = <<"sync">>
    /\ UNCHANGED performed
Finished(m) ==
    /\ m = Msg("Z", stxn) /\ Head(todo) = "sync" /\ todo' = <<>>
    /\ UNCHANGED <<stxn, performed>>
Succeeded(m) ==
    /\ m.type \in SuccessTypes(Head(todo)) /\ Head(todo) # "sync" /\ todo' = Tail(todo)
    /\ ~Executes(Head(todo)) \/ ~Performing => UNCHANGED performed
    /\ Head(todo) = "rollback" => m.val = "ROLLBACK"

LEMMA ServerServes ==
    ASSUME link = "up", Batch(todo), performed \in BOOLEAN, NEW m \in Messages, ServerSends(m)
    PROVE  link' = "up" /\ (Failed(m) \/ Finished(m) \/ Succeeded(m))
<1>1. link' = "up" /\ (Answers(m) \/ Completes(m) \/ Fails(m) \/ Ready(m))
  BY DEF ServerSends
<1>2. CASE Answers(m)
  <2>1. m.type \in SuccessTypes(Head(todo)) /\ Head(todo) # "sync"
    BY <1>2 DEF Answers, SuccessTypes, Answer
  <2>2. Head(todo) # "rollback"
    BY <1>2 DEF Answers, Answer
  <2>3. Head(todo) # "row" \/ ~Performing => UNCHANGED performed
    BY <1>2 DEF Answers
  <2>4. todo' = Tail(todo)
    BY <1>2 DEF Answers, Pop
  <2> QED
    BY <1>1, <2>1, <2>2, <2>3, <2>4 DEF Succeeded, Executes
<1>3. CASE Completes(m)
  <2>1. Head(todo) \in {"complete", "begin", "commit", "rollback"} /\ m.type = "C"
    BY <1>3 DEF Completes
  <2>2. m.type \in SuccessTypes(Head(todo)) /\ Head(todo) # "sync" /\ Executes(Head(todo))
    BY <2>1, SuccessValues DEF Executes
  <2>3. todo' = Tail(todo) /\ (Head(todo) = "rollback" => m.val = "ROLLBACK")
    BY <1>3 DEF Completes, Pop
  <2>4. ~Performing => UNCHANGED performed
    BY <1>3 DEF Completes
  <2> QED
    BY <1>1, <2>2, <2>3, <2>4 DEF Succeeded
<1>4. CASE Fails(m)
  <2>1. Failed(m)
    BY <1>4, SkipsToSync DEF Fails, Failed
  <2> QED
    BY <1>1, <2>1
<1>5. CASE Ready(m)
  <2>1. Tail(todo) = <<>>
    BY <1>5, BatchTail DEF Ready
  <2>2. Finished(m)
    BY <1>5, <2>1 DEF Ready, Pop, Finished
  <2> QED
    BY <1>1, <2>2
<1> QED
  BY <1>1, <1>2, <1>3, <1>4, <1>5

--------------------------------------------------------------------------------
(* The invariant *)

\* A connection that was lost has nothing left to answer.
LinkInv == link # "up" => todo = <<>>

\* A message that was read ahead is there for who reads next, before any error.
SavedInv ==
    bad = "no" =>
        \/ saved = NoMsg
        \/ /\ saved.type \in {"C", "D", "I"} /\ ~err
           /\ prog \in AtResult \cup AtNext \/ (prog = <<>> /\ rows = "open")

\* Nothing is left of the last request, and the driver knows where it stands.
Idle == todo = <<>> /\ saved = NoMsg /\ txnStatus = stxn

\* Rows go on to be read; no COPY is among them.
RowsGoOn == Batch(todo) /\ NoCopy(todo) /\ Head(todo) \in Heads

\* Where simpleQuery is in the answer to its query string.
QueryInv ==
    /\ Batch(todo) /\ Head(todo) \in Heads /\ NoCopyAfter({"header"}, todo)
    /\ err => todo = <<"sync">> /\ res = "nil"
    /\ Head(todo) = "row" => res = "cols"
    /\ res = "cols" => NoCopy(todo) /\ Head(todo) \in {"row", "complete"}
    /\ ~err /\ res = "nil" => Head(todo) # "sync"
    /\ call = "Ping" => todo \in {<<"empty", "sync">>, <<"sync">>} /\ res # "cols"

\* Rollback is told the tag and the status that it looks for.
RollbackInv ==
    \/ err /\ todo = <<"sync">>
    \/ ~err /\ res = "nil" /\ todo = <<"rollback", "sync">>
    \/ ~err /\ res = "done" /\ tag = "ROLLBACK" /\ todo = <<"sync">>

ExecInv ==
    /\ Batch(todo) /\ Head(todo) \in Heads
    /\ call \in {"Rollback", "CommitFailed"} => RollbackInv

ReadsOut == RowsGoOn /\ (err => todo = <<"sync">>)

\* What the server has still to answer is what the call has still to read.
AgreeInv ==
    bad = "no" /\ link = "up" =>
        /\ prog = <<>> /\ rows = "open" => RowsGoOn
        /\ prog = <<>> /\ rows # "open" => Idle
        /\ prog \in Sending => Idle
        /\ prog \in AtExec => ExecInv
        /\ prog \in AtQuery => QueryInv
        /\ prog \in AtParse => Batch(todo) /\ todo[1] = "parse" /\ todo[2] = "describe"
        /\ prog \in AtDescribe => Batch(todo) /\ Head(todo) \in {"describe", "fields"}
        /\ prog \in AtReady \cup AtFail => todo = <<"sync">>
        /\ prog \in AtClose => Batch(todo) /\ Head(todo) = "close"
        /\ prog \in AtBinaryParse => BinaryRequest(todo)
        /\ prog \in AtBinaryBind =>
              Batch(todo) /\ todo[1] = "bind" /\ todo[2] = "portal" /\ NoCopyAfter(Results, todo)
        /\ prog \in AtPortal => Batch(todo) /\ todo[1] = "portal" /\ NoCopyAfter(Results, todo)
        /\ prog \in AtBind => BindRequest(todo)
        /\ prog \in AtPost => PortalRequest(todo)
        /\ prog \in AtResult \cup AtNext => ReadsOut

\* Only some messages are not understood.
BadInv ==
    bad \in {"no", "io", "txn", "G", "H", "E"} /\ (ret = "panic" => bad # "no")

\* Nothing is performed before the last request of a call is sent.
RetryInv ==
    /\ call = "Ping" => ~performed
    /\ prog \in Sending => ~performed
    /\ link = "up" /\ prog \in AtParse \cup AtDescribe \cup AtReady \cup AtClose => ~performed
    /\ ret = "ErrBadConn" /\ performed => link = "eof"

BeginInv == call = "Begin" /\ prog \in Sending => txnStatus = "I"

\* Query leaves the rows to Next.
FetchInv ==
    call \in {"Query", "StmtQuery"} =>
        prog # <<>> /\ prog[Len(prog)] # "readExecuteResponse"

IInv ==
    /\ CallInv /\ PoolData /\ WireData /\ ServerData /\ LinkInv
    /\ SavedInv /\ AgreeInv /\ BadInv /\ RetryInv /\ BeginInv /\ FetchInv

--------------------------------------------------------------------------------
(* Messages that are read *)

LEMMA SuccessIsNoError ==
    ASSUME NEW step \in Steps
    PROVE  /\ "E" \notin SuccessTypes(step) /\ "Z" \notin SuccessTypes(step)
           /\ step = "sync" => SuccessTypes(step) = {}
<1>1. CASE step \in {"complete", "begin", "commit", "rollback"}
  BY <1>1, SuccessValues
<1>2. CASE step \in {"sync", "copying"}
  BY <1>2 DEF SuccessTypes, Answer
<1>3. CASE step \in {"parse", "describe", "fields", "bind", "portal", "close", "header", "row",
                     "empty", "copyIn", "copyOut", "copyData", "copyDone"}
  BY <1>3, SuccessValues
<1> QED
  BY <1>1, <1>2, <1>3 DEF Steps, Starts, CopySteps

LEMMA MessageRead ==
    ASSUME saved = NoMsg, NEW m \in Messages, RecvMessage(m), link = "up" => Batch(todo),
           performed \in BOOLEAN
    PROVE  /\ m.type = "E" => (link' = "up" => todo' = <<"sync">>) /\ UNCHANGED performed
           /\ m.type = "Z" => /\ link = "up" /\ link' = "up" /\ Head(todo) = "sync"
                              /\ todo' = <<>> /\ m.val = stxn' /\ UNCHANGED performed
           /\ m.type \notin {"E", "Z"} => link = "up" /\ link' = "up" /\ Succeeded(m)
           /\ call = "Ping" => UNCHANGED performed
<1>1. ServerSends(m)
  BY DEF RecvMessage
<1>2. CASE link = "up"
  <2>1. Head(todo) \in Steps
    BY <1>2, BatchTail
  <2>2. link' = "up"
    BY <1>1, <1>2, ServerServes
  <2>3. CASE Failed(m)
    BY <1>2, <2>2, <2>3 DEF Failed
  <2>4. CASE Finished(m)
    <3>1. m.type = "Z" /\ m.val = stxn
      BY <2>4 DEF Finished, Msg
    <3> QED
      BY <1>2, <2>2, <2>4, <3>1 DEF Finished
  <2>5. CASE Succeeded(m)
    <3>1. m.type \notin {"E", "Z"}
      BY <2>1, <2>5, SuccessIsNoError DEF Succeeded
    <3>2. call = "Ping" => UNCHANGED performed
      BY <2>5 DEF Succeeded, Performing
    <3> QED
      BY <1>2, <2>2, <2>5, <3>1, <3>2
  <2> QED
    BY <1>1, <1>2, <2>3, <2>4, <2>5, ServerServes
<1>3. CASE link = "fatal"
  <2>1. m = Msg("E", "-") /\ link' = "eof" /\ UNCHANGED performed
    BY <1>1, <1>3 DEF ServerSends
  <2>2. m.type = "E"
    BY <2>1 DEF Msg
  <2> QED
    BY <2>1, <2>2
<1> QED
  BY <1>1, <1>2, <1>3 DEF ServerSends

Kept == SavedInv /\ AgreeInv /\ BadInv /\ RetryInv

LEMMA RestAgrees ==
    ASSUME prog' = <<>>,
           bad' = "no" /\ link' = "up" => IF rows' = "open" THEN RowsGoOn' ELSE Idle'
    PROVE  AgreeInv'
BY AfterSending, AfterReading, LastOnes DEF AgreeInv, Sending

LEMMA RestRetries ==
    ASSUME prog' = <<>>, call' = "none", ret' = "ErrBadConn" /\ performed' => link' = "eof"
    PROVE  RetryInv'
BY AfterSending, AfterReading, LastOnes DEF RetryInv, Sending

LEMMA UnexpectedKeeps ==
    ASSUME NEW m, Unexpected(m), m.type \in {"G", "H", "E"}, bad = "no", call = "Ping" => ~performed'
    PROVE  Kept'
<1>1. bad' # "no" /\ bad' \in {"G", "H", "E"}
  BY DEF Unexpected, SetBad
<1>2. ret' \in {"ok", "error", "ErrBadConn"} /\ call' = "none" /\ prog' = <<>>
  BY DEF Unexpected, ReturnsPlain, Returns, Result
<1>3. ret' = "ErrBadConn" => call = "Ping"
  BY DEF Unexpected, ReturnsPlain, Returns, Result
<1> QED
  BY <1>1, <1>2, <1>3, RestRetries DEF Kept, SavedInv, AgreeInv, BadInv

LEMMA ReturnKeeps ==
    ASSUME NEW r \in {"ok", "error"}, Returns(r), bad = "no", UNCHANGED bad, call = "Ping" => ~performed',
           saved' = NoMsg \/ (saved'.type \in {"C", "D", "I"} /\ rows' = "open"),
           link' = "up" => IF rows' = "open" THEN RowsGoOn' ELSE Idle'
    PROVE  Kept'
<1>1. ret' \in {"ok", "error", "ErrBadConn"} /\ call' = "none" /\ prog' = <<>> /\ err' = FALSE
  BY DEF Returns, Result
<1>2. ret' = "ErrBadConn" => call = "Ping"
  BY DEF Returns, Result
<1> QED
  BY <1>1, <1>2, RestRetries, RestAgrees DEF Kept, SavedInv, BadInv

\* The call goes on; what remains to be shown is that it agrees with the server.
LEMMA StayKeeps ==
    ASSUME CallInv, ~AtRest, bad = "no", call = "Ping" => ~performed', UNCHANGED <<bad, call, ret>>,
           prog' \notin Sending,
           saved' = NoMsg
             \/ (saved'.type \in {"C", "D", "I"} /\ ~err' /\ prog' \in AtResult \cup AtNext),
           link' = "up" /\ prog' \in AtParse \cup AtDescribe \cup AtReady \cup AtClose => ~performed',
           AgreeInv'
    PROVE  Kept'
<1>1. ret' = "none"
  BY AtRestNoCall DEF CallInv
<1> QED
  BY <1>1 DEF Kept, SavedInv, BadInv, RetryInv

\* No program is in two places.
LEMMA ErrorKeeps ==
    ASSUME CallInv, ~AtRest, bad = "no", call # "Ping", UNCHANGED <<bad, call, ret>>,
           prog' = AfterError, saved' = NoMsg, link' = "up" => todo' = <<"sync">>
    PROVE  Kept'
<1>1. prog' \in AtFail
  BY DEF AtFail, AfterError
<1>2. AgreeInv'
  BY <1>1, AfterSending, AfterReading, LastOnes DEF AgreeInv, Sending
<1>3. prog' \notin Sending \cup AtParse \cup AtDescribe \cup AtReady \cup AtClose
  BY <1>1, AfterSending, AfterReading, LastOnes DEF Sending
<1> QED
  BY <1>2, <1>3, StayKeeps

\* Ping is nowhere but in simpleQuery and in Next.
LEMMA NotPing ==
    ASSUME CallInv, ~AtRest, prog \notin SendQuery \cup AtQuery \cup AtNext
    PROVE  bad = "no" /\ call # "Ping" /\ call # "none"
BY AtRestNoCall DEF CallInv, Stages

LEMMA BatchCopies ==
    ASSUME NEW s, Batch(s), Head(s) # "sync", NEW some
    PROVE  /\ NoCopy(s) => NoCopy(Tail(s))
           /\ NoCopyAfter(some, s) => NoCopyAfter(some, Tail(s))
           /\ NoCopyAfter(some, s) /\ Head(s) \in some => NoCopy(Tail(s))
           /\ s[2] # "sync" => Tail(s)[2] = s[3]
<1>1. s \in Seq(Steps) /\ s # <<>> /\ Len(s) \in Nat /\ Head(s) = s[1] /\ s[Len(s)] = "sync"
  BY TailOf DEF Batch, Chain
<1>2. Len(s) # 0 /\ Len(s) # 1
  BY <1>1
<1>3. \A k \in Nat : k # 0 /\ k # 1 => k > 1
  OBVIOUS
<1>4. Len(s) > 1
  BY <1>1, <1>2, <1>3
<1>5. s[2] # "sync" => Tail(s)[2] = s[3]
  <2>1. s[2] # "sync" => Len(s) # 2
    BY <1>1
  <2>2. \A k \in Nat : k > 1 /\ k # 2 => 2 \in 1..(k - 1)
    OBVIOUS
  <2>3. s[2] # "sync" => 2 \in 1..(Len(s) - 1)
    BY <1>1, <1>4, <2>1, <2>2
  <2>4. \A k \in 1..(Len(s) - 1) : Tail(s)[k] = s[k + 1]
    BY <1>1, TailOf
  <2>5. 2 + 1 = 3
    OBVIOUS
  <2> QED
    BY <2>3, <2>4, <2>5
<1> QED
  BY <1>4, <1>5, CopyTail DEF Batch

\* Where nothing was read ahead.
LEMMA NothingSaved ==
    ASSUME IInv, ~AtRest, prog \notin SendQuery \cup AtQuery \cup AtNext \cup AtResult
    PROVE  bad = "no" /\ call # "Ping" /\ saved = NoMsg /\ performed \in BOOLEAN
BY NotPing DEF IInv, SavedInv, ServerData, AtRest

LEMMA ParseKeeps ==
    ASSUME IInv, NEW m \in Messages, ReadParseResponse(m) PROVE Kept'
<1>1. ReadResponse("readParseResponse", {"1"}, m) /\ ~AtRest
  BY DEF ReadParseResponse, ReadResponse, Reading
<1>2. prog \in AtParse \cup AtBinaryParse
  BY <1>1, Where DEF IInv, ReadResponse, Reading
<1>3. bad = "no" /\ call # "Ping" /\ saved = NoMsg /\ performed \in BOOLEAN
  BY <1>1, <1>2, NothingSaved, AfterSending, AfterReading, LastOnes
<1>4. link = "up" =>
        /\ Batch(todo) /\ Head(todo) = "parse"
        /\ prog \in AtParse => todo[2] = "describe" /\ ~performed
        /\ prog \in AtBinaryParse =>
              todo[2] = "bind" /\ todo[3] = "portal" /\ NoCopyAfter(Results, todo)
  BY <1>2, <1>3, BatchTail DEF IInv, AgreeInv, RetryInv, BinaryRequest
<1>5. /\ m.type = "E" => (link' = "up" => todo' = <<"sync">>) /\ UNCHANGED performed
      /\ m.type = "Z" => link = "up" /\ Head(todo) = "sync"
      /\ m.type \notin {"E", "Z"} => link = "up" /\ link' = "up" /\ Succeeded(m)
  BY <1>1, <1>3, <1>4, MessageRead DEF ReadResponse
<1>6. m.type \in {"1", "E"}
  BY <1>4, <1>5, SuccessValues DEF Succeeded
<1>7. CASE m.type = "E"
  BY <1>1, <1>3, <1>5, <1>7, ErrorKeeps DEF IInv, ReadResponse, Continue, Forget, Unexpected
<1>8. CASE m.type = "1"
  <2>1. prog' = Tail(prog) /\ saved' = NoMsg /\ UNCHANGED <<bad, call, ret>>
    BY <1>1, <1>8 DEF ReadResponse, Continue, Forget
  <2>2. link = "up" /\ todo' = Tail(todo) /\ UNCHANGED performed
    BY <1>4, <1>5, <1>8 DEF Succeeded, Executes
  <2>3. Batch(todo') /\ todo'[1] = todo[2] /\ Head(todo') = todo[2]
    BY <1>4, <2>2, BatchTail
  <2>4. CASE prog \in AtParse
    <3>1. prog' \in AtDescribe
      BY <2>1, <2>4, AfterReading
    <3>2. AgreeInv'
      <4>1. Batch(todo') /\ Head(todo') = "describe"
        BY <1>4, <2>2, <2>3, <2>4
      <4> QED
        BY <3>1, <4>1, AfterSending, AfterReading, LastOnes DEF AgreeInv, Sending
    <3>3. prog' \notin Sending
      BY <3>1, AfterSending, AfterReading DEF Sending
    <3> QED
      BY <1>1, <1>3, <1>4, <2>1, <2>2, <2>4, <3>2, <3>3, StayKeeps DEF IInv
  <2>5. CASE prog \in AtBinaryParse
    <3>1. prog' \in AtBinaryBind
      BY <2>1, <2>5, AfterReading
    <3>2. NoCopyAfter(Results, todo') /\ todo'[2] = "portal"
      BY <1>4, <2>2, <2>5, BatchCopies
    <3>3. AgreeInv'
      <4>1. Batch(todo') /\ todo'[1] = "bind"
        BY <1>4, <2>2, <2>3, <2>5
      <4> QED
        BY <3>1, <3>2, <4>1, AfterSending, AfterReading, LastOnes DEF AgreeInv, Sending
    <3>4. prog' \notin Sending \cup AtParse \cup AtDescribe \cup AtReady \cup AtClose
      BY <3>1, AfterSending, AfterReading, LastOnes DEF Sending
    <3> QED
      BY <1>1, <1>3, <2>1, <3>3, <3>4, StayKeeps DEF IInv
  <2> QED
    BY <1>2, <2>4, <2>5
<1> QED
  BY <1>6, <1>7, <1>8

LEMMA DescribeKeeps ==
    ASSUME IInv, NEW m \in Messages, ReadStatementDescribeResponse(m) PROVE Kept'
<1>1. /\ Reading("readStatementDescribeResponse") /\ RecvMessage(m) /\ Forget /\ ~AtRest
      /\ \/ m.type = "t" /\ SameResult /\ Continue(prog)
         \/ m.type \in {"T", "n"} /\ SameResult /\ Continue(Tail(prog))
         \/ m.type = "E" /\ SameResult /\ Continue(AfterError)
         \/ m.type \notin {"t", "T", "n", "E"}
  BY DEF ReadStatementDescribeResponse, ReadResponse, Reading
<1>2. prog \in AtDescribe
  BY <1>1, Where DEF IInv, Reading
<1>3. bad = "no" /\ call # "Ping" /\ saved = NoMsg /\ performed \in BOOLEAN
  BY <1>1, <1>2, NothingSaved, AfterSending, AfterReading, LastOnes
<1>4. link = "up" => Batch(todo) /\ Head(todo) \in {"describe", "fields"} /\ ~performed
  BY <1>2, <1>3 DEF IInv, AgreeInv, RetryInv
<1>5. /\ m.type = "E" => (link' = "up" => todo' = <<"sync">>) /\ UNCHANGED performed
      /\ m.type = "Z" => link = "up" /\ Head(todo) = "sync"
      /\ m.type \notin {"E", "Z"} => link = "up" /\ link' = "up" /\ Succeeded(m)
  BY <1>1, <1>3, <1>4, MessageRead
<1>6. /\ m.type \in {"t", "T", "n", "E"}
      /\ m.type = "t" => Head(todo) = "describe"
      /\ m.type \in {"T", "n"} => Head(todo) = "fields"
  BY <1>4, <1>5, SuccessValues DEF Succeeded
<1>7. CASE m.type = "E"
  BY <1>1, <1>3, <1>5, <1>7, ErrorKeeps DEF IInv, Continue, Forget
<1>8. CASE m.type # "E"
  <2>1. /\ prog' = IF m.type = "t" THEN prog ELSE Tail(prog)
        /\ saved' = NoMsg /\ UNCHANGED <<bad, call, ret>>
    BY <1>1, <1>6, <1>8 DEF Continue, Forget
  <2>2. link = "up" /\ todo' = Tail(todo) /\ UNCHANGED performed
    BY <1>4, <1>5, <1>6, <1>8 DEF Succeeded, Executes
  <2>3. Batch(todo') /\ todo[2] \in After(Head(todo)) /\ Head(todo') = todo[2]
    BY <1>4, <2>2, BatchTail
  <2>4. CASE m.type = "t"
    <3>1. prog' \in AtDescribe /\ Head(todo') = "fields"
      BY <1>2, <1>6, <2>1, <2>3, <2>4, AfterValues
    <3>2. AgreeInv'
      BY <2>3, <3>1, AfterSending, AfterReading, LastOnes DEF AgreeInv, Sending
    <3>3. prog' \notin Sending
      BY <3>1, AfterSending, AfterReading DEF Sending
    <3> QED
      BY <1>1, <1>3, <1>4, <2>1, <2>2, <3>2, <3>3, StayKeeps DEF IInv
  <2>5. CASE m.type \in {"T", "n"}
    <3>1. prog' \in AtReady /\ todo' = <<"sync">>
      <4>1. Head(todo') = "sync"
        BY <1>6, <2>3, <2>5, AfterValues
      <4>2. prog' = Tail(prog)
        BY <2>1, <2>5
      <4> QED
        BY <1>2, <2>3, <4>1, <4>2, BatchTail, AfterReading
    <3>2. AgreeInv'
      BY <3>1, AfterSending, AfterReading, LastOnes DEF AgreeInv, Sending
    <3>3. prog' \notin Sending
      BY <3>1, AfterSending, LastOnes DEF Sending
    <3> QED
      BY <1>1, <1>3, <1>4, <2>1, <2>2, <3>2, <3>3, StayKeeps DEF IInv
  <2> QED
    BY <1>6, <1>8, <2>4, <2>5
<1> QED
  BY <1>7, <1>8

LEMMA PortalKeeps ==
    ASSUME IInv, NEW m \in Messages, ReadPortalDescribeResponse(m) PROVE Kept'
<1>1. ReadResponse("readPortalDescribeResponse", {"T", "n"}, m) /\ ~AtRest
  BY DEF ReadPortalDescribeResponse, ReadResponse, Reading
<1>2. prog \in AtPortal
  BY <1>1, Where DEF IInv, ReadResponse, Reading
<1>3. bad = "no" /\ call # "Ping" /\ saved = NoMsg /\ performed \in BOOLEAN
  BY <1>1, <1>2, NothingSaved, AfterSending, AfterReading, LastOnes
<1>4. link = "up" => Batch(todo) /\ Head(todo) = "portal" /\ NoCopyAfter(Results, todo)
  BY <1>2, <1>3, BatchTail DEF IInv, AgreeInv
<1>5. /\ m.type = "E" => (link' = "up" => todo' = <<"sync">>)
      /\ m.type = "Z" => link = "up" /\ Head(todo) = "sync"
      /\ m.type \notin {"E", "Z"} => link = "up" /\ link' = "up" /\ Succeeded(m)
  BY <1>1, <1>3, <1>4, MessageRead DEF ReadResponse
<1>6. m.type \in {"T", "n", "E"}
  BY <1>4, <1>5, SuccessValues DEF Succeeded
<1>7. CASE m.type = "E"
  BY <1>1, <1>3, <1>5, <1>7, ErrorKeeps DEF IInv, ReadResponse, Continue, Forget, Unexpected
<1>8. CASE m.type \in {"T", "n"}
  <2>1. prog' = Tail(prog) /\ saved' = NoMsg /\ UNCHANGED <<bad, call, ret>>
    BY <1>1, <1>8 DEF ReadResponse, Continue, Forget
  <2>2. link = "up" /\ todo' = Tail(todo)
    BY <1>4, <1>5, <1>8 DEF Succeeded
  <2>3. Batch(todo') /\ todo'[1] = todo[2] /\ todo[2] \in {"row"} \cup Starts
    BY <1>4, <2>2, BatchTail, AfterValues
  <2>4. NoCopyAfter(Results, todo')
    BY <1>4, <2>2, BatchCopies
  <2>5. PortalRequest(todo')
    BY <2>3, <2>4 DEF PortalRequest
  <2>6. prog' \in AtPost
    BY <1>2, <2>1, AfterReading
  <2>7. AgreeInv'
    BY <2>5, <2>6, AfterSending, AfterReading, LastOnes DEF AgreeInv, Sending
  <2>8. prog' \notin Sending \cup AtParse \cup AtDescribe \cup AtReady \cup AtClose
    BY <2>6, AfterSending, AfterReading, LastOnes DEF Sending
  <2> QED
    BY <1>1, <1>3, <2>1, <2>7, <2>8, StayKeeps DEF IInv
<1> QED
  BY <1>6, <1>7, <1>8

LEMMA BindKeeps ==
    ASSUME IInv, NEW m \in Messages, ReadBindResponse(m) PROVE Kept'
<1>1. ReadResponse("readBindResponse", {"2"}, m) /\ ~AtRest
  BY DEF ReadBindResponse, ReadResponse, Reading
<1>2. prog \in AtBinaryBind \cup AtBind
  BY <1>1, Where DEF IInv, ReadResponse, Reading
<1>3. bad = "no" /\ call # "Ping" /\ saved = NoMsg /\ performed \in BOOLEAN
  BY <1>1, <1>2, NothingSaved, AfterSending, AfterReading, LastOnes
<1>4. link = "up" =>
        /\ Batch(todo) /\ Head(todo) = "bind" /\ NoCopyAfter(Results, todo)
        /\ prog \in AtBinaryBind => todo[2] = "portal"
        /\ prog \in AtBind => todo[2] \in {"row"} \cup Starts
  BY <1>2, <1>3, BatchTail DEF IInv, AgreeInv, BindRequest
<1>5. /\ m.type = "E" => (link' = "up" => todo' = <<"sync">>)
      /\ m.type = "Z" => link = "up" /\ Head(todo) = "sync"
      /\ m.type \notin {"E", "Z"} => link = "up" /\ link' = "up" /\ Succeeded(m)
  BY <1>1, <1>3, <1>4, MessageRead DEF ReadResponse
<1>6. m.type \in {"2", "E"}
  BY <1>4, <1>5, SuccessValues DEF Succeeded
<1>7. CASE m.type = "E"
  BY <1>1, <1>3, <1>5, <1>7, ErrorKeeps DEF IInv, ReadResponse, Continue, Forget, Unexpected
<1>8. CASE m.type = "2"
  <2>1. prog' = Tail(prog) /\ saved' = NoMsg /\ UNCHANGED <<bad, call, ret>>
    BY <1>1, <1>8 DEF ReadResponse, Continue, Forget
  <2>2. link = "up" /\ todo' = Tail(todo)
    BY <1>4, <1>5, <1>8 DEF Succeeded
  <2>3. Batch(todo') /\ todo'[1] = todo[2]
    BY <1>4, <2>2, BatchTail
  <2>4. NoCopyAfter(Results, todo')
    BY <1>4, <2>2, BatchCopies
  <2>5. prog' \notin Sending \cup AtParse \cup AtDescribe \cup AtReady \cup AtClose /\ AgreeInv'
    <3>1. CASE prog \in AtBinaryBind
      <4>1. prog' \in AtPortal
        BY <2>1, <3>1, AfterReading
      <4>2. todo'[1] = "portal"
        BY <1>4, <2>2, <2>3, <3>1
      <4> QED
        BY <2>3, <2>4, <4>1, <4>2, AfterSending, AfterReading, LastOnes DEF AgreeInv, Sending
    <3>2. CASE prog \in AtBind
      <4>1. prog' \in AtPost
        BY <2>1, <3>2, AfterReading
      <4>2. PortalRequest(todo')
        BY <1>4, <2>2, <2>3, <2>4, <3>2 DEF PortalRequest
      <4> QED
        BY <4>1, <4>2, AfterSending, AfterReading, LastOnes DEF AgreeInv, Sending
    <3> QED
      BY <1>2, <3>1, <3>2
  <2> QED
    BY <1>1, <1>3, <2>1, <2>5, StayKeeps DEF IInv
<1> QED
  BY <1>6, <1>7, <1>8

LEMMA CloseCompleteKeeps ==
    ASSUME IInv, NEW m \in Messages, ReadCloseComplete(m) PROVE Kept'
<1>1. ~AtRest /\ RecvMessage(m)
  BY DEF ReadCloseComplete, Reading
<1>2. prog \in AtClose
  BY <1>1, Where DEF IInv, ReadCloseComplete, Reading
<1>3. bad = "no" /\ call # "Ping" /\ saved = NoMsg /\ performed \in BOOLEAN
  BY <1>1, <1>2, NothingSaved, AfterSending, AfterReading, LastOnes
<1>4. link = "up" => Batch(todo) /\ Head(todo) = "close" /\ ~performed
  BY <1>2, <1>3 DEF IInv, AgreeInv, RetryInv
<1>5. /\ m.type = "Z" => link = "up" /\ Head(todo) = "sync"
      /\ m.type \notin {"E", "Z"} => link = "up" /\ link' = "up" /\ Succeeded(m)
  BY <1>1, <1>3, <1>4, MessageRead
<1>6. m.type \in {"3", "E"}
  BY <1>4, <1>5, SuccessValues DEF Succeeded
<1>7. CASE m.type = "E"
  BY <1>3, <1>7, UnexpectedKeeps DEF ReadCloseComplete
<1>8. CASE m.type = "3"
  <2>1. prog' = Tail(prog) /\ saved' = NoMsg /\ UNCHANGED <<bad, call, ret>>
    BY <1>8 DEF ReadCloseComplete, Continue, Forget
  <2>2. link = "up" /\ todo' = Tail(todo) /\ UNCHANGED performed
    BY <1>4, <1>5, <1>8 DEF Succeeded, Executes
  <2>3. Batch(todo') /\ Head(todo') = "sync"
    BY <1>4, <2>2, BatchTail, AfterValues
  <2>4. todo' = <<"sync">>
    BY <2>3, BatchTail
  <2>5. prog' \in AtReady
    BY <1>2, <2>1, AfterReading
  <2>6. AgreeInv' /\ prog' \notin Sending
    BY <2>4, <2>5, AfterSending, AfterReading, LastOnes DEF AgreeInv, Sending
  <2> QED
    BY <1>1, <1>3, <1>4, <2>1, <2>2, <2>6, StayKeeps DEF IInv
<1> QED
  BY <1>6, <1>7, <1>8

\* Where no rows are open, none are left when the call returns.
LEMMA NoRows ==
    ASSUME CallInv, ~AtRest, prog \notin AtNext
    PROVE  rows = "none" /\ call \notin {"Next", "Close"}
BY AtRestNoCall DEF CallInv, Stages

LEMMA ReadyKeeps ==
    ASSUME IInv, NEW m \in Messages, ReadReadyForQuery(m) PROVE Kept'
<1>1. ~AtRest /\ RecvMessage(m) /\ saved' = NoMsg
  BY DEF ReadReadyForQuery, Reading, Forget
<1>2. prog \in AtReady \cup AtFail
  BY <1>1, Where DEF IInv, ReadReadyForQuery, Reading
<1>3. /\ bad = "no" /\ call # "Ping" /\ saved = NoMsg /\ performed \in BOOLEAN
      /\ rows = "none" /\ call \notin {"Next", "Close"}
  BY <1>1, <1>2, NothingSaved, NoRows, AfterSending, AfterReading, LastOnes DEF IInv
<1>4. link = "up" => todo = <<"sync">> /\ Head(todo) = "sync" /\ Batch(todo)
  BY <1>2, <1>3, SyncIsBatch DEF IInv, AgreeInv
<1>5. /\ m.type = "Z" => /\ link = "up" /\ link' = "up" /\ todo' = <<>> /\ m.val = stxn'
                         /\ UNCHANGED performed
      /\ m.type \notin {"E", "Z"} => link = "up" /\ Succeeded(m)
  BY <1>1, <1>3, <1>4, MessageRead
<1>6. m.type \in {"E", "Z"}
  BY <1>4, <1>5, SuccessIsNoError, BatchTail DEF Succeeded
<1>7. CASE m.type = "E"
  BY <1>3, <1>7, UnexpectedKeeps DEF ReadReadyForQuery
<1>8. CASE m.type = "Z"
  <2>1. Idle' /\ UNCHANGED bad
    BY <1>1, <1>5, <1>8 DEF ReadReadyForQuery, ProcessReady, Idle
  <2>2. ASSUME NEW r \in {"ok", "error"}, ReturnsPlain(r) PROVE Kept'
    <3>1. Returns(r) /\ rows' = "none"
      BY <1>3, <2>2 DEF ReturnsPlain
    <3> QED
      BY <1>1, <1>3, <2>1, <3>1, ReturnKeeps
  <2>3. CASE /\ Reading("readReadyForQuery") /\ Len(prog) > 1
             /\ prog' = Tail(prog) /\ UNCHANGED <<call, poolVars>>
    <3>1. prog \in AtReady
      BY <1>1, <2>3, Where DEF IInv, Reading
    <3>2. prog' \in SendBind
      BY <2>3, <3>1, AfterReady
    <3>3. ~performed'
      BY <1>5, <1>8, <3>1 DEF IInv, RetryInv
    <3>4. AgreeInv'
      BY <2>1, <3>2, AfterSending, AfterReading, LastOnes DEF AgreeInv, Sending
    <3>5. ret' = "none"
      BY <1>1, <2>3, AtRestNoCall DEF IInv, CallInv
    <3> QED
      BY <1>1, <1>3, <2>1, <3>3, <3>4, <3>5 DEF Kept, SavedInv, BadInv, RetryInv
  <2> QED
    BY <1>8, <2>2, <2>3 DEF ReadReadyForQuery
<1> QED
  BY <1>6, <1>7, <1>8

LEMMA HeadsGoOn ==
    ASSUME NEW s, Batch(s), Head(s) \in Heads \ {"sync", "copyIn", "copyOut"}
    PROVE  Head(Tail(s)) \in Heads
<1>1. Head(Tail(s)) = s[2] /\ s[2] \in After(Head(s))
  BY BatchTail
<1>2. Head(s) \in {"header", "row"} \/ Head(s) \in Ends
  BY DEF Heads, Starts, Ends
<1>3. CASE Head(s) \in {"header", "row"}
  <2>1. After(Head(s)) = {"row", "complete"}
    BY <1>3, AfterValues
  <2> QED
    BY <1>1, <2>1 DEF Heads, Starts
<1>4. CASE Head(s) \in Ends
  <2>1. After(Head(s)) = {"header", "sync"} \cup Starts
    BY <1>4, AfterValues
  <2> QED
    BY <1>1, <2>1 DEF Heads
<1> QED
  BY <1>2, <1>3, <1>4

\* What the heads are answered with.
LEMMA HeadTypes ==
    ASSUME NEW step \in Heads
    PROVE  /\ SuccessTypes(step) \subseteq {"T", "D", "C", "I", "G", "H"}
           /\ "T" \in SuccessTypes(step) <=> step = "header"
           /\ "D" \in SuccessTypes(step) <=> step = "row"
           /\ "C" \in SuccessTypes(step) <=> step \in {"complete", "begin", "commit", "rollback"}
           /\ "I" \in SuccessTypes(step) <=> step = "empty"
           /\ "G" \in SuccessTypes(step) <=> step = "copyIn"
           /\ "H" \in SuccessTypes(step) <=> step = "copyOut"
<1>1. CASE step \in {"complete", "begin", "commit", "rollback"}
  BY <1>1, SuccessValues
<1>2. CASE step = "sync"
  BY <1>2, SuccessIsNoError DEF Steps
<1>3. CASE step \in {"header", "row", "empty", "copyIn", "copyOut"}
  BY <1>3, SuccessValues
<1> QED
  BY <1>1, <1>2, <1>3 DEF Heads, Starts

LEMMA RowsRead ==
    ASSUME RowsGoOn, NEW m, Succeeded(m)
    PROVE  m.type \in {"T", "D", "C", "I"} /\ RowsGoOn'
<1>1. Batch(todo) /\ NoCopy(todo) /\ Head(todo) \in Heads /\ Head(todo) # "sync"
  BY DEF RowsGoOn, Succeeded
<1>2. Head(todo) \notin {"copyIn", "copyOut"}
  <2>1. Head(todo) = todo[1] /\ 1 \in 1..Len(todo)
    BY <1>1, TailOf DEF Batch, Chain
  <2> QED
    BY <1>1, <2>1 DEF NoCopy, CopySteps
<1>3. m.type \in {"T", "D", "C", "I"}
  BY <1>1, <1>2, HeadTypes DEF Succeeded
<1>4. Batch(Tail(todo)) /\ NoCopy(Tail(todo)) /\ Head(Tail(todo)) \in Heads
  BY <1>1, <1>2, BatchTail, BatchCopies, HeadsGoOn
<1> QED
  BY <1>3, <1>4 DEF Succeeded, RowsGoOn

LEMMA PostExecuteKeeps ==
    ASSUME IInv, NEW m \in Messages, PostExecuteWorkaround(m) PROVE Kept'
<1>1. ~AtRest /\ RecvMessage(m)
  BY DEF PostExecuteWorkaround, Reading
<1>2. prog \in AtPost
  BY <1>1, Where DEF IInv, PostExecuteWorkaround, Reading
<1>3. bad = "no" /\ call # "Ping" /\ saved = NoMsg /\ performed \in BOOLEAN /\ ~err
  BY <1>1, <1>2, NothingSaved, AfterSending, AfterReading, LastOnes DEF IInv, CallInv
<1>4. link = "up" =>
        /\ Batch(todo) /\ Head(todo) \in {"row"} \cup Starts /\ Head(todo) # "sync"
        /\ NoCopyAfter(Results, todo)
  BY <1>2, <1>3, BatchTail DEF IInv, AgreeInv, PortalRequest, Starts
<1>5. /\ m.type = "E" => (link' = "up" => todo' = <<"sync">>)
      /\ m.type = "Z" => link = "up" /\ Head(todo) = "sync"
      /\ m.type \notin {"E", "Z"} => link = "up" /\ link' = "up" /\ Succeeded(m)
  BY <1>1, <1>3, <1>4, MessageRead
<1>6. m.type # "E" =>
        /\ link = "up" /\ link' = "up" /\ Succeeded(m) /\ m.type \in {"D", "C", "I", "G", "H"}
        /\ m.type \in {"D", "C", "I"} => Head(todo) \in Results /\ Head(todo) \in Heads
        /\ m.type \in {"D", "C", "I"} => Head(todo) \notin {"sync", "copyIn", "copyOut"}
  BY <1>4, <1>5, HeadTypes DEF Succeeded, Heads, Results, Starts, CopySteps
<1>7. CASE m.type = "E"
  BY <1>1, <1>3, <1>5, <1>7, ErrorKeeps DEF IInv, PostExecuteWorkaround, Continue, Forget
<1>8. CASE m.type \in {"G", "H"}
  BY <1>3, <1>8, UnexpectedKeeps DEF PostExecuteWorkaround
<1>9. CASE m.type \in {"C", "D", "I"}
  <2>1. Batch(todo') /\ NoCopy(todo') /\ Head(todo') \in Heads
    BY <1>4, <1>6, <1>9, BatchTail, BatchCopies, HeadsGoOn DEF Succeeded
  <2>2. RowsGoOn' /\ saved' = m /\ UNCHANGED bad
    BY <1>9, <2>1 DEF RowsGoOn, PostExecuteWorkaround, SaveMessage, Continue, Unexpected
  <2>3. CASE Len(prog) > 1 /\ SameResult /\ Continue(Tail(prog))
    <3>1. prog' \in AtResult /\ ~err'
      BY <1>2, <1>3, <2>3, AfterPost DEF Continue, SameResult
    <3>2. AgreeInv'
      BY <2>2, <3>1, AfterSending, AfterReading, LastOnes DEF AgreeInv, Sending, ReadsOut
    <3>3. prog' \notin Sending \cup AtParse \cup AtDescribe \cup AtReady \cup AtClose
      BY <3>1, AfterSending, AfterReading, LastOnes DEF Sending
    <3> QED
      BY <1>1, <1>3, <1>9, <2>2, <2>3, <3>1, <3>2, <3>3, StayKeeps DEF IInv, Continue
  <2>4. CASE ReturnsRows("open")
    BY <1>3, <1>9, <2>2, <2>4, ReturnKeeps DEF ReturnsRows
  <2> QED
    BY <1>9, <2>3, <2>4 DEF PostExecuteWorkaround
<1> QED
  BY <1>6, <1>7, <1>8, <1>9

LEMMA ExecuteKeeps ==
    ASSUME IInv, NEW m \in Messages, ReadExecuteResponse(m) PROVE Kept'
<1>1. ~AtRest /\ RecvMessage(m) /\ saved' = NoMsg
  BY DEF ReadExecuteResponse, Reading, Forget
<1>2. prog \in AtResult
  BY <1>1, Where DEF IInv, ReadExecuteResponse, Reading
<1>3. /\ bad = "no" /\ call # "Ping" /\ performed \in BOOLEAN
      /\ rows = "none" /\ call \notin {"Next", "Close"} /\ err \in BOOLEAN
  BY <1>1, <1>2, NotPing, NoRows, AfterSending, AfterReading, LastOnes
  DEF IInv, ServerData, PoolData
<1>4. link = "up" => RowsGoOn /\ (err => todo = <<"sync">>)
  BY <1>2, <1>3 DEF IInv, AgreeInv, ReadsOut
<1>5. saved = NoMsg \/ (saved.type \in {"C", "D", "I"} /\ ~err)
  BY <1>3 DEF IInv, SavedInv
<1>6. ASSUME Continue(prog), link' = "up" => RowsGoOn' /\ (err' => todo' = <<"sync">>)
      PROVE  Kept'
  <2>1. prog' \in AtResult /\ UNCHANGED <<bad, call, ret>>
    BY <1>2, <1>6 DEF Continue
  <2>2. AgreeInv'
    BY <1>6, <2>1, AfterSending, AfterReading, LastOnes DEF AgreeInv, Sending, ReadsOut
  <2>3. prog' \notin Sending \cup AtParse \cup AtDescribe \cup AtReady \cup AtClose
    BY <2>1, AfterSending, AfterReading, LastOnes DEF Sending
  <2> QED
    BY <1>1, <1>3, <2>1, <2>2, <2>3, StayKeeps DEF IInv
<1>7. CASE saved # NoMsg
  <2>1. m.type \in {"C", "D", "I"} /\ ~err /\ UNCHANGED serverVars
    BY <1>1, <1>5, <1>7 DEF RecvMessage
  <2>2. Continue(prog) /\ UNCHANGED err
    BY <2>1 DEF ReadExecuteResponse, ExecTag, SameResult
  <2>3. UNCHANGED <<link, todo>>
    BY <2>1 DEF serverVars
  <2> QED
    BY <1>4, <1>6, <2>1, <2>2, <2>3 DEF RowsGoOn
<1>8. CASE saved = NoMsg
  <2>1. /\ m.type = "E" => (link' = "up" => todo' = <<"sync">>)
        /\ m.type = "Z" => /\ link = "up" /\ link' = "up" /\ Head(todo) = "sync"
                           /\ todo' = <<>> /\ m.val = stxn'
        /\ m.type \notin {"E", "Z"} => link = "up" /\ link' = "up" /\ Succeeded(m)
    BY <1>1, <1>3, <1>4, <1>8, MessageRead DEF RowsGoOn
  <2>2. CASE m.type = "E"
    <3>1. Continue(prog)
      BY <2>2 DEF ReadExecuteResponse
    <3> QED
      BY <1>6, <2>1, <2>2, <3>1, SyncIsBatch DEF RowsGoOn, Heads
  <2>3. CASE m.type = "Z"
    <3>1. Idle' /\ UNCHANGED bad /\ ReturnsPlain(ExecResult)
      BY <1>1, <2>1, <2>3 DEF ReadExecuteResponse, ProcessReady, Idle
    <3>2. Returns(ExecResult) /\ rows' = "none" /\ ExecResult \in {"ok", "error"}
      BY <1>3, <3>1 DEF ReturnsPlain, ExecResult
    <3> QED
      BY <1>1, <1>3, <3>1, <3>2, ReturnKeeps
  <2>4. CASE m.type \notin {"E", "Z"}
    <3>1. m.type \in {"T", "D", "C", "I"} /\ RowsGoOn' /\ Head(todo) # "sync"
      BY <1>4, <2>1, <2>4, RowsRead DEF Succeeded
    <3>2. ~err
      BY <1>4, <2>1, <2>4, <3>1, SyncIsBatch
    <3>3. Continue(prog) /\ UNCHANGED err
      BY <3>1, <3>2 DEF ReadExecuteResponse, ExecTag, SameResult
    <3> QED
      BY <1>6, <3>1, <3>2, <3>3
  <2> QED
    BY <2>2, <2>3, <2>4
<1> QED
  BY <1>7, <1>8

\* What Exec, Begin, Commit and Rollback read through.
LEMMA ExecKeeps ==
    ASSUME IInv, NEW m \in Messages, SimpleExec(m) PROVE Kept'
<1>1. ~AtRest /\ RecvMessage(m) /\ saved' = NoMsg
  BY DEF SimpleExec, Reading, Forget
<1>2. prog \in AtExec
  BY <1>1, Where DEF IInv, SimpleExec, Reading
<1>3. /\ bad = "no" /\ call # "Ping" /\ saved = NoMsg /\ performed \in BOOLEAN
      /\ rows = "none" /\ call \notin {"Next", "Close"} /\ err \in BOOLEAN
  BY <1>1, <1>2, NothingSaved, NoRows, AfterSending, AfterReading, LastOnes DEF IInv, PoolData
<1>4. link = "up" => Batch(todo) /\ Head(todo) \in Heads
        /\ (call \in {"Rollback", "CommitFailed"} => RollbackInv)
  BY <1>2, <1>3 DEF IInv, AgreeInv, ExecInv
<1>5. /\ m.type = "E" => (link' = "up" => todo' = <<"sync">>)
      /\ m.type = "Z" => /\ link = "up" /\ link' = "up" /\ Head(todo) = "sync"
                         /\ todo' = <<>> /\ m.val = stxn'
      /\ m.type \notin {"E", "Z"} => link = "up" /\ link' = "up" /\ Succeeded(m)
  BY <1>1, <1>3, <1>4, MessageRead
<1>6. ASSUME Continue(prog), link' = "up" => Batch(todo') /\ Head(todo') \in Heads
             /\ (call \in {"Rollback", "CommitFailed"} => RollbackInv')
      PROVE  Kept'
  <2>1. prog' \in AtExec /\ UNCHANGED <<bad, call, ret>>
    BY <1>2, <1>6 DEF Continue
  <2>2. AgreeInv'
    BY <1>6, <2>1, AfterSending, AfterReading, LastOnes DEF AgreeInv, Sending, ExecInv
  <2>3. prog' \notin Sending \cup AtParse \cup AtDescribe \cup AtReady \cup AtClose
    BY <2>1, AfterSending, AfterReading, LastOnes DEF Sending
  <2> QED
    BY <1>1, <1>3, <2>1, <2>2, <2>3, StayKeeps DEF IInv
<1>7. CASE m.type = "E"
  <2>1. Continue(prog) /\ err' = TRUE
    BY <1>7 DEF SimpleExec, ExecTag
  <2>2. link' = "up" => Batch(todo') /\ Head(todo') \in Heads /\ RollbackInv'
    BY <1>5, <1>7, <2>1, SyncIsBatch DEF RollbackInv, Heads
  <2> QED
    BY <1>6, <2>1, <2>2
<1>8. CASE m.type = "Z"
  <2>1. Idle' /\ SimpleExecDone(m)
    BY <1>1, <1>5, <1>8 DEF SimpleExec, SimpleExecDone, ProcessReady, Idle
  <2>2. ASSUME NEW r \in {"ok", "error"}, ReturnsPlain(r), UNCHANGED bad PROVE Kept'
    <3>1. Returns(r) /\ rows' = "none"
      BY <1>3, <2>2 DEF ReturnsPlain
    <3> QED
      BY <1>1, <1>3, <2>1, <2>2, <3>1, ReturnKeeps
  <2>3. ASSUME NEW r \in {"ok", "error", "txn"}, TxnReturns(r) PROVE Kept'
    <3>1. CASE r # "txn"
      BY <2>2, <2>3, <3>1 DEF TxnReturns
    <3>2. CASE r = "txn"
      <4>1. bad' = "txn" /\ ReturnsPlain("error")
        BY <1>3, <2>3, <3>2 DEF TxnReturns, SetBad
      <4>2. ret' = "error" /\ call' = "none" /\ prog' = <<>>
        BY <1>3, <4>1 DEF ReturnsPlain, Returns, Result
      <4> QED
        BY <4>1, <4>2, RestRetries DEF Kept, SavedInv, AgreeInv, BadInv
    <3> QED
      BY <3>1, <3>2
  <2>4. ExecResult \in {"ok", "error"}
    BY DEF ExecResult
  <2>5. /\ BeginResult(ExecResult, tag, m.val) \in {"ok", "error", "txn"}
        /\ CommitResult(ExecResult, tag, m.val) \in {"ok", "error", "txn"}
        /\ RollbackResult(ExecResult, tag, m.val) \in {"ok", "error", "txn"}
    BY DEF BeginResult, CommitResult, RollbackResult
  <2>6. CASE call \in {"Begin", "Commit", "Rollback"}
    BY <2>1, <2>3, <2>5, <2>6 DEF SimpleExecDone
  <2>7. CASE call = "CommitFailed"
    BY <2>1, <2>3, <2>5, <2>7 DEF SimpleExecDone
  <2>8. CASE call \notin {"Begin", "Commit", "Rollback", "CommitFailed"}
    BY <2>1, <2>2, <2>4, <2>8 DEF SimpleExecDone
  <2> QED
    BY <2>6, <2>7, <2>8
<1>9. CASE m.type \notin {"E", "Z"}
  <2>1. Head(todo) # "sync" /\ todo' = Tail(todo) /\ m.type \in SuccessTypes(Head(todo))
    BY <1>5, <1>9 DEF Succeeded
  <2>2. m.type \in {"T", "D", "C", "I", "G", "H"}
    BY <1>4, <1>5, <1>9, <2>1, HeadTypes
  <2>3. CASE m.type \in {"G", "H"}
    BY <1>3, <2>3, UnexpectedKeeps DEF SimpleExec
  <2>4. CASE m.type \in {"T", "D", "C", "I"}
    <3>1. Head(todo) \notin {"copyIn", "copyOut"}
      BY <1>4, <1>5, <1>9, <2>1, <2>4, HeadTypes, SuccessValues
    <3>2. Batch(todo') /\ Head(todo') \in Heads
      BY <1>4, <1>5, <1>9, <2>1, <3>1, BatchTail, HeadsGoOn
    <3>3. Continue(prog) /\ UNCHANGED err
      BY <2>4 DEF SimpleExec, ExecTag, SameResult
    <3>4. ASSUME call \in {"Rollback", "CommitFailed"} PROVE RollbackInv'
      <4>1. RollbackInv /\ <<"rollback", "sync">> # <<>>
        BY <1>4, <1>5, <1>9, <3>4
      <4>2. todo = <<"rollback", "sync">> /\ ~err /\ res = "nil"
        BY <2>1, <4>1, SyncIsBatch DEF RollbackInv
      <4>3. Head(todo) = "rollback" /\ todo' = <<"sync">>
        BY <2>1, <4>2
      <4>4. m.type = "C" /\ m.val = "ROLLBACK"
        BY <1>5, <1>9, <2>1, <4>3, SuccessValues DEF Succeeded
      <4>5. res' = "done" /\ tag' = "ROLLBACK"
        BY <4>4 DEF SimpleExec, ExecTag
      <4> QED
        BY <3>3, <4>2, <4>3, <4>5 DEF RollbackInv
    <3> QED
      BY <1>6, <3>2, <3>3, <3>4
  <2> QED
    BY <2>2, <2>3, <2>4
<1> QED
  BY <1>7, <1>8, <1>9

\* Ping has the server run nothing, and is all that a bad connection is used for.
LEMMA PingPerforms ==
    ASSUME call = "Ping", performed \in BOOLEAN, NEW m, RecvMessage(m) PROVE UNCHANGED performed
<1>1. CASE ServerSends(m)
  <2>1. ~Performing
    BY DEF Performing
  <2> QED
    BY <1>1, <2>1 DEF ServerSends, Answers, Completes, Fails, Ready
<1>2. CASE UNCHANGED serverVars
  BY <1>2 DEF serverVars
<1> QED
  BY <1>1, <1>2 DEF RecvMessage

LEMMA StaysBad ==
    ASSUME IInv, ~AtRest, bad # "no", NEW m, SimpleQuery(m) \/ RowsNext(m) PROVE Kept'
<1>1. call = "Ping" /\ performed \in BOOLEAN /\ ~performed /\ RecvMessage(m)
  BY AtRestNoCall DEF IInv, CallInv, ServerData, RetryInv, SimpleQuery, RowsNext
<1>2. ~performed'
  BY <1>1, PingPerforms
<1>3. UNCHANGED bad
  <2>1. CASE SimpleQuery(m)
    BY <2>1 DEF SimpleQuery, Continue, Unexpected, SetBad
  <2>2. CASE RowsNext(m)
    BY <2>2 DEF RowsNext, Continue, Leave, Unexpected, SetBad
  <2> QED
    BY <2>1, <2>2
<1> QED
  BY <1>2, <1>3 DEF IInv, Kept, SavedInv, AgreeInv, BadInv, RetryInv

LEMMA QueryKeeps ==
    ASSUME IInv, bad = "no", NEW m \in Messages, SimpleQuery(m) PROVE Kept'
<1>1. ~AtRest /\ RecvMessage(m)
  BY DEF SimpleQuery, Reading
<1>2. prog \in AtQuery
  BY <1>1, Where DEF IInv, SimpleQuery, Reading
<1>3. /\ saved = NoMsg /\ performed \in BOOLEAN /\ err \in BOOLEAN /\ res \in {"nil", "cols", "done"}
      /\ rows = "none" /\ call \notin {"Next", "Close"}
  BY <1>1, <1>2, NoRows, AfterSending, AfterReading, LastOnes
  DEF IInv, SavedInv, ServerData, PoolData, AtRest
<1>4. call = "Ping" => ~performed'
  BY <1>1, <1>3, PingPerforms DEF IInv, RetryInv
<1>5. link = "up" => QueryInv
  BY <1>2 DEF IInv, AgreeInv
<1>6. /\ m.type = "E" => (link' = "up" => todo' = <<"sync">>)
      /\ m.type = "Z" => /\ link = "up" /\ link' = "up" /\ Head(todo) = "sync"
                         /\ todo' = <<>> /\ m.val = stxn'
      /\ m.type \notin {"E", "Z"} => link = "up" /\ link' = "up" /\ Succeeded(m)
  BY <1>1, <1>3, <1>5, MessageRead DEF QueryInv
<1>7. ASSUME Continue(prog), saved' = NoMsg, link' = "up" => QueryInv' PROVE Kept'
  <2>1. prog' \in AtQuery /\ UNCHANGED <<bad, call, ret>>
    BY <1>2, <1>7 DEF Continue
  <2>2. AgreeInv'
    BY <1>7, <2>1, AfterSending, AfterReading, LastOnes DEF AgreeInv, Sending
  <2>3. prog' \notin Sending \cup AtParse \cup AtDescribe \cup AtReady \cup AtClose
    BY <2>1, AfterSending, AfterReading, LastOnes DEF Sending
  <2> QED
    BY <1>1, <1>4, <1>7, <2>1, <2>2, <2>3, StayKeeps DEF IInv
<1>8. CASE m.type = "E"
  <2>1. Continue(prog) /\ saved' = NoMsg /\ err' = TRUE /\ res' = "nil"
    BY <1>8 DEF SimpleQuery, Forget
  <2>2. link' = "up" => QueryInv'
    BY <1>6, <1>8, <2>1, SyncIsBatch DEF QueryInv, Heads
  <2> QED
    BY <1>7, <2>1, <2>2
<1>9. CASE m.type = "Z"
  <2>1. Idle' /\ UNCHANGED bad /\ SimpleQueryDone /\ saved' = NoMsg
    BY <1>6, <1>9 DEF SimpleQuery, ProcessReady, Idle, Forget
  <2>2. ~err => res = "done"
    BY <1>3, <1>5, <1>6, <1>9 DEF QueryInv
  <2>3. ASSUME NEW r \in {"ok", "error"}, Returns(r), rows' # "open" PROVE Kept'
    BY <1>4, <2>1, <2>3, ReturnKeeps
  <2>4. CASE err
    <3>1. Returns("error") /\ rows' = "none"
      BY <1>3, <2>1, <2>4 DEF SimpleQueryDone, ReturnsPlain
    <3> QED
      BY <2>3, <3>1
  <2>5. CASE ~err
    <3>1. QueryReturns("done")
      BY <2>1, <2>2, <2>5 DEF SimpleQueryDone
    <3>2. Returns("ok") /\ rows' # "open"
      BY <1>3, <3>1 DEF QueryReturns, ReturnsRows, ReturnsPlain
    <3> QED
      BY <2>3, <3>2
  <2> QED
    BY <2>4, <2>5
<1>10. CASE m.type \notin {"E", "Z"}
  <2>1. /\ link = "up" /\ link' = "up" /\ QueryInv /\ Succeeded(m) /\ Head(todo) # "sync"
        /\ todo' = Tail(todo) /\ m.type \in SuccessTypes(Head(todo))
    BY <1>5, <1>6, <1>10 DEF Succeeded
  <2>2. /\ Batch(todo) /\ Head(todo) \in Heads /\ m.type \in {"T", "D", "C", "I", "G", "H"}
        /\ Batch(todo') /\ NoCopyAfter({"header"}, todo')
        /\ Head(todo') = todo[2] /\ todo[2] \in After(Head(todo))
    BY <2>1, HeadTypes, BatchTail, BatchCopies DEF QueryInv
  <2>3. ~err
    BY <2>1, SyncIsBatch DEF QueryInv
  <2>4. CASE m.type \in {"G", "H"}
    BY <1>4, <2>4, UnexpectedKeeps DEF SimpleQuery
  <2>5. ASSUME m.type \in {"C", "D", "I"}, saved' \in {NoMsg, m}, res = "cols", QueryReturns("open"),
               UNCHANGED bad
        PROVE  Kept'
    <3>1. RowsGoOn /\ call # "Ping"
      BY <2>1, <2>5 DEF QueryInv, RowsGoOn
    <3>2. RowsGoOn'
      BY <2>1, <3>1, RowsRead
    <3>3. Returns("ok") /\ rows' = "open"
      BY <2>5, <3>1 DEF QueryReturns, ReturnsRows
    <3> QED
      BY <1>4, <2>5, <3>2, <3>3, ReturnKeeps
  <2>6. CASE m.type = "T"
    <3>1. Continue(prog) /\ saved' = NoMsg /\ res' = "cols" /\ ~err'
      BY <2>3, <2>6 DEF SimpleQuery, Forget
    <3>2. Head(todo) = "header"
      BY <2>1, <2>2, <2>6, HeadTypes
    <3>3. Head(todo') \in {"row", "complete"} /\ NoCopy(todo')
      <4>1. After("header") = {"row", "complete"}
        BY AfterValues
      <4>2. NoCopy(Tail(todo))
        BY <2>1, <2>2, <3>2, BatchCopies DEF QueryInv
      <4> QED
        BY <2>1, <2>2, <3>2, <4>1, <4>2
    <3>4. call # "Ping"
      BY <2>1, <3>2 DEF QueryInv
    <3>5. QueryInv'
      <4>1. call' # "Ping"
        BY <3>1, <3>4 DEF Continue
      <4> QED
        BY <2>2, <3>1, <3>3, <4>1 DEF QueryInv, Heads, Starts
    <3> QED
      BY <1>7, <3>1, <3>5
  <2>7. CASE m.type = "D"
    <3>1. Head(todo) = "row"
      BY <2>1, <2>2, <2>7, HeadTypes
    <3>2. res = "cols"
      BY <2>1, <3>1 DEF QueryInv
    <3>3. saved' = m /\ QueryReturns("open") /\ UNCHANGED bad
      BY <2>7, <3>2 DEF SimpleQuery, SaveMessage
    <3> QED
      BY <2>5, <2>7, <3>2, <3>3
  <2>8. CASE m.type \in {"C", "I"}
    <3>1. saved' = NoMsg
      BY <2>3, <2>8 DEF SimpleQuery, Forget
    <3>2. CASE m.type = "C" /\ res = "cols" /\ QueryReturns("open") /\ UNCHANGED <<bad, txnStatus>>
      BY <2>5, <3>1, <3>2
    <3>3. CASE res' = "done" /\ UNCHANGED err /\ Continue(prog)
      <4>1. Head(todo) \in Ends
        BY <2>1, <2>2, <2>8, HeadTypes DEF Ends
      <4>2. Head(todo') \in Heads /\ Head(todo') # "row"
        BY <2>2, <4>1, AfterValues DEF Heads, Starts
      <4>3. ASSUME call = "Ping" PROVE todo' = <<"sync">>
        <5>1. todo = <<"empty", "sync">>
          BY <2>1, <4>3, SyncIsBatch DEF QueryInv
        <5> QED
          BY <2>1, <5>1
      <4>4. QueryInv'
        <5>1. call' = call /\ ~err' /\ res' = "done"
          BY <2>3, <3>3 DEF Continue
        <5> QED
          BY <2>2, <4>2, <4>3, <5>1 DEF QueryInv
      <4> QED
        BY <1>7, <3>1, <3>3, <4>4
    <3> QED
      BY <2>3, <2>8, <3>2, <3>3 DEF SimpleQuery
  <2> QED
    BY <2>2, <2>4, <2>6, <2>7, <2>8
<1> QED
  BY <1>8, <1>9, <1>10

LEMMA NextKeeps ==
    ASSUME IInv, bad = "no", NEW m \in Messages, RowsNext(m) PROVE Kept'
<1>1. ~AtRest /\ RecvMessage(m) /\ saved' = NoMsg
  BY DEF RowsNext, Reading, Forget
<1>2. prog \in AtNext
  BY <1>1, Where DEF IInv, RowsNext, Reading
<1>3. /\ performed \in BOOLEAN /\ err \in BOOLEAN
      /\ call \in {"Next", "Close"} => rows = "open"
      /\ call \notin {"Next", "Close"} => rows = "none"
  BY <1>1, AtRestNoCall DEF IInv, CallInv, ServerData, PoolData
<1>4. call = "Ping" => ~performed'
  BY <1>1, <1>3, PingPerforms DEF IInv, RetryInv
<1>5. link = "up" => RowsGoOn /\ (err => todo = <<"sync">>)
  BY <1>2 DEF IInv, AgreeInv, ReadsOut
<1>6. saved = NoMsg \/ (saved.type \in {"C", "D", "I"} /\ ~err)
  BY <1>1 DEF IInv, SavedInv, AtRest
<1>7. /\ m.type = "E" => (link' = "up" => todo' = <<"sync">>)
      /\ m.type = "Z" => link' = "up" /\ todo' = <<>> /\ m.val = stxn'
      /\ m.type \notin {"E", "Z"} =>
            m.type \in {"T", "D", "C", "I"} /\ ~err /\ (link' = "up" => RowsGoOn')
  <2>1. CASE saved # NoMsg
    <3>1. m.type \in {"C", "D", "I"} /\ ~err /\ UNCHANGED <<todo, link>>
      BY <1>1, <1>6, <2>1 DEF RecvMessage, serverVars
    <3> QED
      BY <1>5, <3>1 DEF RowsGoOn
  <2>2. CASE saved = NoMsg
    <3>1. /\ m.type = "E" => (link' = "up" => todo' = <<"sync">>)
          /\ m.type = "Z" => link' = "up" /\ todo' = <<>> /\ m.val = stxn'
          /\ m.type \notin {"E", "Z"} => link = "up" /\ link' = "up" /\ Succeeded(m)
      BY <1>1, <1>3, <1>5, <2>2, MessageRead DEF RowsGoOn
    <3>2. ASSUME link = "up", Succeeded(m)
          PROVE  m.type \in {"T", "D", "C", "I"} /\ ~err /\ RowsGoOn'
      BY <1>5, <3>2, RowsRead, SyncIsBatch DEF Succeeded
    <3> QED
      BY <3>1, <3>2
  <2> QED
    BY <2>1, <2>2
<1>8. ASSUME UNCHANGED <<bad, call, prog, ret>>, link' = "up" => RowsGoOn' /\ (err' => todo' = <<"sync">>)
      PROVE  Kept'
  <2>1. prog' \in AtNext
    BY <1>2, <1>8
  <2>2. AgreeInv'
    BY <1>8, <2>1, AfterSending, AfterReading, LastOnes DEF AgreeInv, Sending, ReadsOut
  <2>3. prog' \notin Sending \cup AtParse \cup AtDescribe \cup AtReady \cup AtClose
    BY <2>1, AfterSending, AfterReading, LastOnes DEF Sending
  <2> QED
    BY <1>1, <1>4, <1>8, <2>1, <2>2, <2>3, StayKeeps DEF IInv
<1>9. ASSUME NEW r \in {"ok", "error"}, Returns(r), UNCHANGED bad,
             link' = "up" => IF rows' = "open" THEN RowsGoOn' ELSE Idle'
      PROVE  Kept'
  BY <1>1, <1>4, <1>9, ReturnKeeps
<1>10. CASE m.type = "E"
  <2>1. Continue(prog)
    BY <1>10 DEF RowsNext
  <2>2. link' = "up" => RowsGoOn' /\ todo' = <<"sync">>
    BY <1>7, <1>10, SyncIsBatch DEF RowsGoOn, Heads
  <2> QED
    BY <1>8, <2>1, <2>2 DEF Continue
<1>11. CASE m.type = "Z"
  <2>1. UNCHANGED bad /\ Returns(IF err THEN "error" ELSE "ok") /\ rows' = RowsAtReady /\ Idle'
    BY <1>1, <1>7, <1>11 DEF RowsNext, ProcessReady, Idle
  <2>2. rows' # "open"
    BY <1>3, <2>1 DEF RowsAtReady
  <2> QED
    BY <1>9, <2>1, <2>2
<1>12. CASE m.type \in {"C", "I"}
  <2>1. Continue(prog) /\ UNCHANGED err
    BY <1>12 DEF RowsNext, SameResult
  <2> QED
    BY <1>7, <1>8, <1>12, <2>1 DEF Continue
<1>13. CASE m.type \in {"D", "T"}
  <2>1. ~err /\ (link' = "up" => RowsGoOn')
    BY <1>7, <1>13
  <2>2. ASSUME NEW r \in {"ok", "error"}, call = "Next", ReturnsPlain(r), UNCHANGED bad PROVE Kept'
    <3>1. Returns(r) /\ rows' = "open"
      BY <1>3, <2>2 DEF ReturnsPlain
    <3> QED
      BY <1>9, <2>1, <2>2, <3>1
  <2>3. CASE NextReturns /\ UNCHANGED <<bad, txnStatus>>
    <3>1. CASE call = "Next"
      BY <2>2, <2>3, <3>1 DEF NextReturns
    <3>2. CASE call # "Next"
      BY <1>8, <2>1, <2>3, <3>2 DEF NextReturns, poolVars
    <3> QED
      BY <3>1, <3>2
  <2>4. CASE call = "Next" /\ Leave("error")
    BY <2>2, <2>4 DEF Leave
  <2> QED
    BY <1>13, <2>1, <2>3, <2>4 DEF RowsNext
<1> QED
  BY <1>7, <1>10, <1>11, <1>12, <1>13

\* Every message that is read leaves the call and the server in step.
LEMMA ReadKeeps == ASSUME IInv, NEW m \in Messages, Reads(m) PROVE Kept'
<1>1. CASE SimpleExec(m)
  BY <1>1, ExecKeeps
<1>2. CASE SimpleQuery(m)
  BY <1>2, QueryKeeps, StaysBad DEF SimpleQuery, Reading
<1>3. CASE RowsNext(m)
  BY <1>3, NextKeeps, StaysBad DEF RowsNext, Reading
<1>4. CASE ReadParseResponse(m)
  BY <1>4, ParseKeeps
<1>5. CASE ReadStatementDescribeResponse(m)
  BY <1>5, DescribeKeeps
<1>6. CASE ReadPortalDescribeResponse(m)
  BY <1>6, PortalKeeps
<1>7. CASE ReadBindResponse(m)
  BY <1>7, BindKeeps
<1>8. CASE PostExecuteWorkaround(m)
  BY <1>8, PostExecuteKeeps
<1>9. CASE ReadExecuteResponse(m)
  BY <1>9, ExecuteKeeps
<1>10. CASE ReadReadyForQuery(m)
  BY <1>10, ReadyKeeps
<1>11. CASE ReadCloseComplete(m)
  BY <1>11, CloseCompleteKeeps
<1> QED
  BY <1>1, <1>2, <1>3, <1>4, <1>5, <1>6, <1>7, <1>8, <1>9, <1>10, <1>11 DEF Reads

--------------------------------------------------------------------------------
(* Requests that are sent, and connections that are lost *)

LEMMA SendingPlaces ==
    ASSUME CallInv, ~AtRest, Head(prog) \in SendSteps
    PROVE  prog \in Sending
BY Where DEF SendSteps, Sending

LEMMA EmptyFirst == ASSUME NEW s, Batch(s) PROVE <<>> \o s = s
BY DEF Batch, Chain

\* A request arrives at a server that has nothing else to answer.
LEMMA RequestArrives ==
    ASSUME Idle, NEW request, Batch(request), Receives(request) PROVE todo' = request
BY EmptyFirst DEF Idle, Receives

\* What is sent is what the functions that read will look for.
LEMMA SendAgrees ==
    ASSUME NoCopyAfterRows, IInv, ~AtRest, bad = "no", link = "up", Head(prog) \in SendSteps,
           NEW request \in Requests, Sends(request)
    PROVE  AgreeInv'
<1>1. prog \in Sending /\ Idle /\ ~err /\ res = "nil" /\ Receives(request)
  BY SendingPlaces, AfterSending, LastOnes
  DEF IInv, CallInv, AgreeInv, Sending, Sends
<1>2. prog' = Tail(prog) /\ UNCHANGED <<call, err, res, tag, rows>>
  BY DEF Sends, poolVars
<1>3. MaxRows \in Nat /\ \A n \in 0..MaxRows : n \in Nat
  BY RowsAssumption
<1>4. CASE prog \in SendTxn
  <2>1. request = <<TxnStatement, "sync">> /\ TxnStatement \in Starts \ CopySteps
    BY <1>4, AfterSending DEF Requests, TxnStatement, Starts, CopySteps
  <2>2. todo' = request /\ Batch(request) /\ Head(request) = TxnStatement
    BY <1>1, <2>1, FixedRequestShapes, RequestArrives
  <2>3. prog' \in AtExec
    BY <1>2, <1>4, AfterSending
  <2>4. call' \in {"Rollback", "CommitFailed"} => RollbackInv'
    BY <1>1, <1>2, <2>1, <2>2 DEF TxnStatement, RollbackInv
  <2>5. ExecInv'
    BY <2>1, <2>2, <2>4 DEF ExecInv, Heads
  <2> QED
    BY <2>3, <2>5, AfterSending, AfterReading, LastOnes DEF AgreeInv, Sending
<1>5. CASE prog \in SendExec \cup SendQuery /\ call # "Ping"
  <2>1. \E q \in Scripts, n \in 0..MaxRows : request = SimpleRequest(q, n)
    BY <1>5, AfterSending DEF Requests
  <2>2. QueryRequest(request)
    BY <1>3, <2>1, SimpleRequestShape
  <2>3. todo' = request /\ Batch(request) /\ Head(request) \in {"header"} \cup Starts
    BY <1>1, <2>2, RequestArrives, BatchTail DEF QueryRequest
  <2>4. CASE prog \in SendExec
    <3>1. prog' \in AtExec
      BY <1>2, <2>4, AfterSending
    <3>2. call' \notin {"Rollback", "CommitFailed"}
      BY <1>2, <2>4, AfterSending, AfterReading, LastOnes
      DEF IInv, CallInv, Stages
    <3>3. ExecInv'
      BY <2>3, <3>2 DEF ExecInv, Heads
    <3> QED
      BY <3>1, <3>3, AfterSending, AfterReading, LastOnes DEF AgreeInv, Sending
  <2>5. CASE prog \in SendQuery
    <3>1. prog' \in AtQuery
      BY <1>2, <2>5, AfterSending
    <3>2. Head(todo') \notin {"row", "sync"} /\ NoCopyAfter({"header"}, todo')
      BY <2>2, <2>3 DEF Starts, QueryRequest
    <3>3. QueryInv'
      BY <1>1, <1>2, <1>5, <2>3, <3>2 DEF QueryInv, Heads
    <3> QED
      BY <3>1, <3>3, AfterSending, AfterReading, LastOnes DEF AgreeInv, Sending
  <2> QED
    BY <1>5, <2>4, <2>5
<1>6. CASE prog \in SendExec \cup SendQuery /\ call = "Ping"
  <2>1. request = <<"empty", "sync">> /\ "empty" \in Starts \ CopySteps
    BY <1>6, AfterSending DEF Requests, Starts, CopySteps
  <2>2. todo' = request /\ Batch(request) /\ NoCopy(request) /\ Head(request) = "empty"
    BY <1>1, <2>1, FixedRequestShapes, RequestArrives
  <2>3. prog \notin SendExec
    BY <1>6, AfterSending, LastOnes DEF IInv, CallInv, Stages, SendExec, SendQuery
  <2>4. prog' \in AtQuery
    BY <1>2, <1>6, <2>3, AfterSending
  <2>5. NoCopyAfter({"header"}, request)
    BY <2>2 DEF NoCopy, NoCopyAfter
  <2>6. QueryInv'
    BY <1>1, <1>2, <2>1, <2>2, <2>5 DEF QueryInv, Heads
  <2> QED
    BY <2>4, <2>6, AfterSending, AfterReading, LastOnes DEF AgreeInv, Sending
<1>7. CASE prog \in SendParse
  <2>1. request = <<"parse", "describe", "fields", "sync">>
    BY <1>7, AfterSending DEF Requests
  <2>2. todo' = request /\ Batch(request) /\ request[1] = "parse" /\ request[2] = "describe"
    BY <1>1, <2>1, FixedRequestShapes, RequestArrives
  <2>3. prog' \in AtParse
    BY <1>2, <1>7, AfterSending
  <2> QED
    BY <2>2, <2>3, AfterSending, AfterReading, LastOnes DEF AgreeInv, Sending
<1>8. CASE prog \in SendBinary
  <2>1. \E q \in Statements, n \in 0..MaxRows :
            request = <<"parse", "bind", "portal">> \o Run(q, n) \o <<"sync">>
    BY <1>8, AfterSending DEF Requests
  <2>2. BinaryRequest(request)
    BY <1>3, <2>1, BinaryRequestShape
  <2>3. todo' = request
    BY <1>1, <2>2, RequestArrives DEF BinaryRequest
  <2>4. prog' \in AtBinaryParse
    BY <1>2, <1>8, AfterSending
  <2> QED
    BY <2>2, <2>3, <2>4, AfterSending, AfterReading, LastOnes DEF AgreeInv, Sending
<1>9. CASE prog \in SendBind
  <2>1. \E q \in Statements, n \in 0..MaxRows :
            request = <<"bind">> \o Run(q, n) \o <<"sync">>
    <3>1. Head(prog) = "sendBind"
      BY <1>9, AfterSending
    <3> QED
      BY <3>1 DEF Requests
  <2>2. BindRequest(request)
    BY <1>3, <2>1, BindRequestShape
  <2>3. todo' = request
    BY <1>1, <2>2, RequestArrives DEF BindRequest
  <2>4. prog' \in AtBind
    BY <1>2, <1>9, AfterSending
  <2> QED
    BY <2>2, <2>3, <2>4, AfterSending, AfterReading, LastOnes DEF AgreeInv, Sending
<1>10. CASE prog \in SendClose
  <2>1. request = <<"close", "sync">>
    BY <1>10, AfterSending DEF Requests
  <2>2. todo' = request /\ Batch(request) /\ Head(request) = "close"
    BY <1>1, <2>1, FixedRequestShapes, RequestArrives
  <2>3. prog' \in AtClose
    BY <1>2, <1>10, AfterSending
  <2> QED
    BY <2>2, <2>3, AfterSending, AfterReading, LastOnes DEF AgreeInv, Sending
<1> QED
  BY <1>1, <1>4, <1>5, <1>6, <1>7, <1>8, <1>9, <1>10 DEF Sending

LEMMA SendKeeps == ASSUME NoCopyAfterRows, IInv, Send PROVE Kept'
<1>1. ~AtRest /\ Head(prog) \in SendSteps /\ prog \in Sending
  BY SendingPlaces DEF Send, IInv
<1>2. ~performed /\ performed \in BOOLEAN /\ ret = "none"
  BY <1>1, AtRestNoCall DEF IInv, RetryInv, ServerData, CallInv
<1>3. CASE SendFails
  <2>1. bad' # "no" /\ bad' \in {"no", "io", "txn", "G", "H", "E"}
    BY <1>3 DEF SendFails, SetBad, IInv, BadInv
  <2>2. PICK n \in {0, 1} : ReturnsPlain(WriteError(n)) /\ (n = 0 => UNCHANGED performed)
                            /\ performed' \in {performed, performed \/ Performing}
    BY <1>3 DEF SendFails
  <2>3. /\ prog' = <<>> /\ call' = "none" /\ ret' \in {"ok", "error", "ErrBadConn"}
        /\ ret' = "ErrBadConn" => n = 0 \/ call = "Ping"
    BY <2>2 DEF ReturnsPlain, Returns, Result, WriteError
  <2>4. ret' = "ErrBadConn" => ~performed'
    BY <1>2, <2>2, <2>3 DEF Performing
  <2> QED
    BY <2>1, <2>3, <2>4, RestRetries DEF Kept, SavedInv, AgreeInv, BadInv
<1>4. ASSUME NEW request \in Requests, Sends(request) PROVE Kept'
  <2>1. UNCHANGED <<bad, saved, link, ret, performed>>
    BY <1>4 DEF Sends, connVars, poolVars
  <2>2. AgreeInv'
    BY <1>1, <1>4, <2>1, SendAgrees DEF AgreeInv
  <2>3. bad = "no" => saved = NoMsg
    BY <1>1, AfterSending, AfterReading, LastOnes DEF IInv, SavedInv, Sending
  <2> QED
    BY <1>2, <2>1, <2>2, <2>3 DEF IInv, Kept, SavedInv, BadInv, RetryInv
<1> QED
  BY <1>3, <1>4 DEF Send

LEMMA BadArgumentsKeep == ASSUME IInv, BadArguments PROVE Kept'
<1>1. /\ ~AtRest /\ prog \in SendBinary \cup SendBind /\ prog \in Sending
      /\ UNCHANGED <<bad, saved, txnStatus, todo, stxn, link, performed>>
  BY Where DEF IInv, BadArguments, Sending, connVars, serverVars
<1>2. /\ bad = "no" /\ call # "Ping" /\ saved = NoMsg
      /\ rows = "none" /\ call \notin {"Next", "Close"}
  BY <1>1, NothingSaved, NoRows, AfterSending, AfterReading, LastOnes DEF IInv
<1>3. link' = "up" => Idle'
  BY <1>1, <1>2 DEF IInv, AgreeInv, Idle
<1>4. Returns("error") /\ rows' = "none"
  BY <1>2 DEF BadArguments, ReturnsPlain
<1> QED
  BY <1>1, <1>2, <1>3, <1>4, ReturnKeeps

LEMMA RecvFailsKeeps == ASSUME IInv, RecvFails PROVE Kept'
<1>1. saved' = NoMsg /\ link' = link /\ link # "up" /\ UNCHANGED performed
  BY DEF RecvFails, serverVars
<1>2. bad' \in {"no", "io", "txn", "G", "H", "E"}
  BY DEF RecvFails, ReadError, SetBad, IInv, BadInv
<1>3. \/ link = "eof" /\ ReturnsPlain("ErrBadConn")
      \/ ReturnsPlain("error")
  BY DEF RecvFails, ReadError
<1>4. /\ prog' = <<>> /\ call' = "none" /\ ret' \in {"ok", "error", "ErrBadConn"}
      /\ ret' = "ErrBadConn" => link = "eof" \/ call = "Ping"
  BY <1>3 DEF ReturnsPlain, Returns, Result
<1>5. ret' = "ErrBadConn" /\ performed' => link' = "eof"
  BY <1>1, <1>4 DEF IInv, RetryInv
<1> QED
  BY <1>1, <1>2, <1>4, <1>5, RestRetries DEF Kept, SavedInv, AgreeInv, BadInv

LEMMA BreakKeeps == ASSUME IInv, NEW how \in Losses, ConnBreaks(how) PROVE Kept'
<1>1. link' # "up" /\ link = "up" /\ UNCHANGED <<bad, saved, err, prog, rows, ret, call>>
  BY DEF ConnBreaks, Losses, connVars, callVars, poolVars
<1>2. performed \in BOOLEAN /\ performed' \in {performed, performed \/ (todo # <<>> /\ Performing)}
  BY DEF ConnBreaks, IInv, ServerData
<1>3. call = "Ping" => ~performed'
  BY <1>2 DEF IInv, RetryInv, Performing
<1>4. prog \in Sending => ~performed'
  <2>1. ASSUME prog \in Sending, call # "Ping" PROVE ~performed'
    <3>1. ~AtRest
      BY <2>1, AfterSending DEF Sending, AtRest
    <3>2. bad = "no"
      BY <2>1, <3>1, AtRestNoCall DEF IInv, CallInv
    <3>3. todo = <<>> /\ ~performed
      BY <1>1, <2>1, <3>2 DEF IInv, AgreeInv, Idle, RetryInv
    <3> QED
      BY <1>2, <3>3
  <2> QED
    BY <1>3, <2>1
<1>5. ret = "ErrBadConn" => ~performed'
  <2>1. ASSUME ret = "ErrBadConn" PROVE ~performed'
    <3>1. call = "none" /\ ~performed
      BY <1>1, <2>1 DEF IInv, CallInv, RetryInv
    <3> QED
      BY <1>2, <3>1 DEF Performing
  <2> QED
    BY <2>1
<1> QED
  BY <1>1, <1>3, <1>4, <1>5 DEF IInv, Kept, SavedInv, AgreeInv, BadInv, RetryInv

--------------------------------------------------------------------------------
(* Calls that begin *)

LEMMA CallsSend ==
    ASSUME NEW c \in CallNames \ {"Next", "Close"} PROVE Programs(c) \subseteq Sending
<1>1. CASE c = "CommitFailed"
  BY <1>1 DEF Programs, Sending, SendTxn
<1>2. CASE c # "CommitFailed"
  BY <1>2 DEF CallNames, Programs, Sending, SendTxn, SendExec, SendQuery, SendParse, SendBinary,
     SendBind, SendClose
<1> QED
  BY <1>1, <1>2

LEMMA GoesKeeps ==
    ASSUME IInv, AtRest, NEW c \in CallNames, Goes(c),
           IF c \in {"Next", "Close"} THEN rows = "open" ELSE rows = "none"
    PROVE  Kept'
<1>1. /\ call' = c /\ prog' \in Programs(c) /\ ret' = "none" /\ performed' = FALSE
      /\ UNCHANGED <<bad, saved, txnStatus, err, rows, todo, stxn, link>>
  BY DEF Goes, connVars, SameResult
<1>2. prog = <<>> /\ ~err
  BY AtRestNoCall, AfterSending, AfterReading, LastOnes DEF IInv, CallInv, AtRest
<1>3. CASE c \in {"Next", "Close"}
  <2>1. prog' = <<"next">> /\ prog' \in AtNext
    BY <1>1, <1>3 DEF Programs, AtNext
  <2>2. AgreeInv'
    BY <1>1, <1>2, <1>3, <2>1, AfterSending, AfterReading, LastOnes
    DEF IInv, AgreeInv, Sending, ReadsOut, RowsGoOn
  <2> QED
    BY <1>1, <1>2, <2>1, <2>2 DEF IInv, Kept, SavedInv, BadInv, RetryInv
<1>4. CASE c \notin {"Next", "Close"}
  <2>1. prog' \in Sending
    BY <1>1, <1>4, CallsSend
  <2>2. AgreeInv'
    BY <1>1, <1>2, <1>4, <2>1, AfterSending, AfterReading, LastOnes
    DEF IInv, AgreeInv, Sending, Idle
  <2>3. bad' = "no" => saved' = NoMsg
    BY <1>1, <1>2, <1>4, AfterReading, LastOnes DEF IInv, SavedInv
  <2> QED
    BY <1>1, <2>2, <2>3 DEF IInv, Kept, SavedInv, BadInv, RetryInv
<1> QED
  BY <1>3, <1>4

LEMMA RefusesKeeps ==
    ASSUME IInv, AtRest, NEW c, NEW r \in {"error", "ErrBadConn"}, Refuses(c, r),
           bad' \in {"io", "txn", "G", "H", "E"}
    PROVE  Kept'
<1>1. prog' = <<>> /\ call' = "none" /\ ~performed' /\ ret' = r
  BY AtRestNoCall DEF IInv, Refuses, callVars, AtRest
<1> QED
  BY <1>1, RestRetries DEF Kept, SavedInv, AgreeInv, BadInv

LEMMA PoolKeeps == ASSUME IInv, PoolStep PROVE Kept' /\ BeginInv'
<1>1. ASSUME NEW c \in CallNames, c # "Begin", AtRest, Goes(c),
             IF c \in {"Next", "Close"} THEN rows = "open" ELSE rows = "none"
      PROVE  Kept' /\ BeginInv'
  BY <1>1, GoesKeeps DEF Goes, BeginInv
<1>2. ASSUME NEW c, RefusedWhenBad(c), AtRest PROVE Kept' /\ BeginInv'
  <2>1. Refuses(c, "ErrBadConn") /\ bad' \in {"io", "txn", "G", "H", "E"}
    BY <1>2 DEF RefusedWhenBad, IInv, BadInv
  <2>2. call' = "none"
    BY <1>2, <2>1, AtRestNoCall DEF Refuses, callVars, IInv
  <2> QED
    BY <1>2, <2>1, <2>2, RefusesKeeps DEF BeginInv
<1>3. ASSUME NEW c \in {"Begin", "Commit", "Rollback"}, NEW intxn \in BOOLEAN, Transaction(c, intxn),
             c = "Begin" => ~intxn
      PROVE  Kept' /\ BeginInv'
  <2>1. AtRest /\ rows = "none"
    BY <1>3 DEF Transaction, Available
  <2>2. CASE RefusedWhenBad(c)
    BY <1>2, <2>1, <2>2
  <2>3. CASE bad = "no" /\ SetBad("txn") /\ Refuses(c, "error")
    <3>1. bad' = "txn" /\ call' = "none"
      BY <2>1, <2>3, AtRestNoCall DEF SetBad, Refuses, callVars, IInv
    <3> QED
      BY <2>1, <2>3, <3>1, RefusesKeeps DEF BeginInv
  <2>4. CASE ~WrongStatus(intxn) /\ Goes(IF c = "Commit" /\ txnStatus = "E" THEN "CommitFailed" ELSE c)
    <3>1. CASE c = "Begin"
      <4>1. Goes("Begin") /\ txnStatus' = txnStatus
        BY <2>4, <3>1 DEF Goes, connVars
      <4>2. txnStatus = "I"
        BY <1>3, <2>4, <3>1 DEF WrongStatus, InTxn, IInv, WireData, TxnStatuses
      <4> QED
        BY <2>1, <4>1, <4>2, GoesKeeps DEF BeginInv, CallNames
    <3>2. CASE c # "Begin"
      <4>1. PICK d \in {"Commit", "CommitFailed", "Rollback"} : Goes(d)
        BY <2>4, <3>2
      <4> QED
        BY <1>1, <2>1, <4>1 DEF CallNames
    <3> QED
      BY <3>1, <3>2
  <2> QED
    BY <1>3, <2>2, <2>3, <2>4 DEF Transaction
<1>4. ASSUME NEW c \in {"Exec", "Query", "Prepare", "StmtExec", "StmtQuery", "StmtClose"}, Call(c)
      PROVE  Kept' /\ BeginInv'
  <2>1. AtRest /\ rows = "none" /\ c \in CallNames \ {"Next", "Close", "Begin"}
    BY <1>4 DEF Call, Available, CallNames
  <2> QED
    BY <1>1, <1>2, <1>4, <2>1 DEF Call
<1>5. CASE Ping
  BY <1>1, <1>5 DEF Ping, Available, CallNames
<1>6. CASE Begin \/ Commit \/ Rollback
  BY <1>3, <1>6 DEF Begin, Commit, Rollback
<1>7. ASSUME NEW c \in {"Next", "Close"}, RowsCall(c) PROVE Kept' /\ BeginInv'
  <2>1. AtRest /\ rows # "none" /\ c \in CallNames
    BY <1>7 DEF RowsCall, CallNames
  <2>2. CASE rows = "open" /\ bad = "no"
    BY <1>1, <1>7, <2>1, <2>2 DEF RowsCall
  <2>3. CASE ~(rows = "open" /\ bad = "no")
    <3>1. /\ ret' \in {"ok", "ErrBadConn"} /\ ~performed' /\ rows' \in {"none", rows}
          /\ UNCHANGED <<bad, saved, txnStatus, call, prog, todo, stxn, link>>
      BY <1>7, <2>3 DEF RowsCall, connVars, callVars
    <3>2. call = "none" /\ prog = <<>>
      BY <2>1, AtRestNoCall DEF IInv, AtRest
    <3>3. bad = "no" => saved = NoMsg
      BY <2>3, <3>2, AfterReading, LastOnes DEF IInv, SavedInv
    <3>4. bad' = "no" /\ link' = "up" => Idle' /\ rows' # "open"
      BY <2>3, <3>1, <3>2 DEF IInv, AgreeInv, Idle
    <3> QED
      BY <3>1, <3>2, <3>3, <3>4, RestAgrees, RestRetries
      DEF IInv, Kept, SavedInv, BadInv, BeginInv
  <2> QED
    BY <2>2, <2>3
<1>8. CASE Discard
  <2>1. /\ prog' = <<>> /\ call' = "none" /\ saved' = NoMsg /\ bad' = "no" /\ ret' = "none"
        /\ Idle' /\ rows' = "none"
    BY <1>8, AtRestNoCall DEF Discard, IInv, Idle, callVars, AtRest
  <2> QED
    BY <2>1, RestAgrees, RestRetries DEF Kept, SavedInv, BadInv, BeginInv
<1> QED
  BY <1>4, <1>5, <1>6, <1>7, <1>8 DEF PoolStep

--------------------------------------------------------------------------------
(* The other parts of the invariant *)

LEMMA LinkStep == ASSUME LinkInv, [Next]_vars PROVE LinkInv'
<1>1. ASSUME NEW m, ServerSends(m) PROVE LinkInv'
  <2>1. CASE link = "up" /\ UNCHANGED link
    BY <2>1 DEF LinkInv
  <2>2. CASE link = "fatal" /\ UNCHANGED todo
    BY <2>2 DEF LinkInv
  <2> QED
    BY <1>1, <2>1, <2>2 DEF ServerSends
<1>2. ASSUME NEW m, RecvMessage(m) PROVE LinkInv'
  BY <1>1, <1>2 DEF RecvMessage, serverVars, LinkInv
<1>3. ASSUME NEW m \in Messages, Reads(m) PROVE LinkInv'
  <2>1. RecvMessage(m)
    BY <1>3 DEF Reads, SimpleExec, SimpleQuery, ReadParseResponse, ReadStatementDescribeResponse,
       ReadPortalDescribeResponse, ReadBindResponse, ReadResponse, PostExecuteWorkaround,
       ReadExecuteResponse, ReadReadyForQuery, ReadCloseComplete, RowsNext
  <2> QED
    BY <1>2, <2>1
<1>4. CASE Send
  <2>1. CASE SendFails
    BY <2>1 DEF SendFails, LinkInv
  <2>2. ASSUME NEW request \in Requests, Sends(request) PROVE LinkInv'
    BY <2>2 DEF Sends, LinkInv
  <2> QED
    BY <1>4, <2>1, <2>2 DEF Send
<1>5. CASE BadArguments \/ RecvFails
  BY <1>5 DEF BadArguments, RecvFails, serverVars, LinkInv
<1>6. CASE PoolStep
  <2>1. CASE UNCHANGED <<todo, link>>
    BY <2>1 DEF LinkInv
  <2>2. CASE Discard
    BY <2>2 DEF Discard, LinkInv
  <2> QED
    BY <1>6, <2>1, <2>2 DEF PoolStep, Call, Ping, Begin, Commit, Rollback, Transaction, RowsCall,
       RefusedWhenBad, Refuses, Goes
<1>7. ASSUME NEW how \in Losses, ConnBreaks(how) PROVE LinkInv'
  BY <1>7 DEF ConnBreaks, LinkInv
<1>8. CASE UNCHANGED vars
  BY <1>8 DEF vars, serverVars, LinkInv
<1> QED
  BY <1>3, <1>4, <1>5, <1>6, <1>7, <1>8 DEF Next, DriverStep

\* How a call moves on.
Moves ==
    \/ call' = "none"
    \/ /\ call' = call
       /\ \/ prog' = prog /\ Head(prog) \notin SendSteps
          \/ prog' \in {Tail(prog), AfterError}
          \/ call = "Ping"

LEMMA CallsMove == ASSUME ~AtRest, DriverStep PROVE Moves
<1>1. ASSUME NEW r, Returns(r) PROVE call' = "none"
  BY <1>1 DEF Returns
<1>2. /\ \A r : ReturnsPlain(r) => call' = "none"
      /\ \A m : Unexpected(m) => call' = "none"
      /\ \A how : ReturnsRows(how) => call' = "none"
      /\ \A r : TxnReturns(r) => call' = "none"
      /\ \A how : QueryReturns(how) => call' = "none" \/ (call' = call /\ call = "Ping")
  BY <1>1 DEF ReturnsPlain, Unexpected, ReturnsRows, TxnReturns, QueryReturns
<1>3. \A p : Continue(p) => call' = call /\ prog' = p
  BY DEF Continue
<1>4. CASE Send \/ BadArguments \/ RecvFails
  BY <1>2, <1>4 DEF Send, SendFails, Sends, BadArguments, RecvFails, ReadError, Moves
<1>5. ASSUME NEW m \in Messages, Reads(m) PROVE Moves
  <2>1. CASE SimpleExec(m)
    BY <1>2, <1>3, <2>1 DEF SimpleExec, SimpleExecDone, Reading, SendSteps, Moves
  <2>2. CASE SimpleQuery(m)
    BY <1>2, <1>3, <2>2 DEF SimpleQuery, SimpleQueryDone, NilRows, Reading, SendSteps, Moves
  <2>3. ASSUME NEW step, NEW types, ReadResponse(step, types, m) PROVE Moves
    BY <1>2, <1>3, <2>3 DEF ReadResponse, Moves
  <2>4. CASE ReadStatementDescribeResponse(m)
    BY <1>3, <2>3, <2>4 DEF ReadStatementDescribeResponse, Reading, SendSteps, Moves
  <2>5. CASE ReadParseResponse(m) \/ ReadPortalDescribeResponse(m) \/ ReadBindResponse(m)
    BY <2>3, <2>5 DEF ReadParseResponse, ReadPortalDescribeResponse, ReadBindResponse
  <2>6. CASE PostExecuteWorkaround(m)
    BY <1>2, <1>3, <2>6 DEF PostExecuteWorkaround, Moves
  <2>7. CASE ReadExecuteResponse(m)
    BY <1>2, <1>3, <2>7 DEF ReadExecuteResponse, Reading, SendSteps, Moves
  <2>8. CASE ReadReadyForQuery(m)
    BY <1>2, <2>8 DEF ReadReadyForQuery, Moves
  <2>9. CASE ReadCloseComplete(m)
    BY <1>2, <1>3, <2>9 DEF ReadCloseComplete, Moves
  <2>10. CASE RowsNext(m)
    BY <1>1, <1>2, <1>3, <2>10
    DEF RowsNext, NextReturns, Leave, Reading, SendSteps, Moves
  <2> QED
    BY <1>5, <2>1, <2>2, <2>4, <2>5, <2>6, <2>7, <2>8, <2>9, <2>10 DEF Reads
<1> QED
  BY <1>4, <1>5 DEF DriverStep

LEMMA BeginMoves == ASSUME IInv, CallInv', ~AtRest, DriverStep PROVE BeginInv'
<1> SUFFICES ASSUME call' = "Begin", prog' \in Sending PROVE FALSE
  BY DEF BeginInv
<1>1. /\ call = "Begin"
      /\ \/ prog' = prog /\ Head(prog) \notin SendSteps
         \/ prog' \in {Tail(prog), AfterError}
  BY CallsMove DEF Moves
<1>2. prog \in SendTxn \cup AtExec
  BY <1>1 DEF IInv, CallInv, Stages
<1>3. AfterError \in AtFail
  BY DEF AfterError, AtFail
<1>4. prog' \notin AtFail \cup AtExec /\ prog' # <<>>
  BY AfterSending, LastOnes DEF Sending
<1>5. CASE prog \in SendTxn
  BY <1>1, <1>3, <1>4, <1>5, AfterSending DEF SendSteps
<1>6. CASE prog \in AtExec
  <2>1. prog = <<"simpleExec">> /\ Tail(<<"simpleExec">>) = <<>>
    BY <1>6, LastOnes
  <2>2. Tail(prog) = <<>>
    BY <2>1
  <2> QED
    BY <1>1, <1>3, <1>4, <1>6, <2>2
<1> QED
  BY <1>2, <1>5, <1>6

\* The programs are sequences, and lose their steps from the front.
ProgramSteps ==
    SendSteps \cup
    {"simpleExec", "simpleQuery", "readParseResponse", "readStatementDescribeResponse",
     "readPortalDescribeResponse", "readBindResponse", "postExecuteWorkaround",
     "readExecuteResponse", "readReadyForQuery", "readCloseComplete", "failAtReady"}

LEMMA ProgramsAreSeqs ==
    ASSUME NEW c \in {"Query", "StmtQuery"} PROVE Stages(c) \subseteq Seq(ProgramSteps)
<1>1. SendQuery \subseteq Seq(ProgramSteps) /\ AtQuery \subseteq Seq(ProgramSteps)
  BY DEF ProgramSteps, SendSteps, SendQuery, AtQuery
<1>2. SendParse \subseteq Seq(ProgramSteps) /\ SendBinary \subseteq Seq(ProgramSteps)
  BY DEF ProgramSteps, SendSteps, SendParse, SendBinary
<1>3. SendBind \subseteq Seq(ProgramSteps) /\ SendClose \subseteq Seq(ProgramSteps)
  BY DEF ProgramSteps, SendSteps, SendBind, SendClose
<1>4. AtParse \subseteq Seq(ProgramSteps) /\ AtDescribe \subseteq Seq(ProgramSteps)
  BY DEF ProgramSteps, SendSteps, AtParse, AtDescribe
<1>5. AtReady \subseteq Seq(ProgramSteps) /\ AtBinaryParse \subseteq Seq(ProgramSteps)
  BY DEF ProgramSteps, SendSteps, AtReady, AtBinaryParse
<1>6. AtBinaryBind \subseteq Seq(ProgramSteps) /\ AtPortal \subseteq Seq(ProgramSteps) /\ AtBind \subseteq Seq(ProgramSteps)
  BY DEF ProgramSteps, SendSteps, AtBinaryBind, AtPortal, AtBind
<1>7. AtPost \subseteq Seq(ProgramSteps) /\ AtResult \subseteq Seq(ProgramSteps)
  BY DEF ProgramSteps, SendSteps, AtPost, AtResult
<1>8. AtClose \subseteq Seq(ProgramSteps) /\ AtFail \subseteq Seq(ProgramSteps)
  BY DEF ProgramSteps, SendSteps, AtClose, AtFail
<1>9. Extended \subseteq Seq(ProgramSteps)
  BY <1>2, <1>3, <1>4, <1>5, <1>6, <1>7, <1>8 DEF Extended
<1> QED
  BY <1>1, <1>9 DEF Stages

LEMMA LastStays ==
    ASSUME NEW p \in Seq(ProgramSteps), p # <<>>, Tail(p) # <<>>
    PROVE  Tail(p)[Len(Tail(p))] = p[Len(p)]
OBVIOUS

LEMMA QueriesFetch ==
    ASSUME NEW c \in {"Query", "StmtQuery"}, NEW p \in Programs(c)
    PROVE  p # <<>> /\ p[Len(p)] # "readExecuteResponse"
<1>1. CASE c = "Query"
  <2>1. CASE p = <<"sendQuery", "simpleQuery">>
    BY <2>1
  <2>2. CASE p = <<"sendParse", "readParseResponse", "readStatementDescribeResponse",
                   "readReadyForQuery", "sendBind", "readBindResponse", "postExecuteWorkaround">>
    BY <2>2
  <2>3. CASE p = <<"sendBinary", "readParseResponse", "readBindResponse",
                   "readPortalDescribeResponse", "postExecuteWorkaround">>
    BY <2>3
  <2> QED
    BY <1>1, <2>1, <2>2, <2>3 DEF Programs
<1>2. CASE c = "StmtQuery"
  BY <1>2 DEF Programs
<1> QED
  BY <1>1, <1>2

LEMMA PoolCalls ==
    ASSUME CallInv, PoolStep PROVE call' = "none" \/ prog' \in Programs(call')
<1>1. \A c : Goes(c) => prog' \in Programs(call')
  BY DEF Goes
<1>2. AtRest /\ UNCHANGED call => call' = "none"
  BY AtRestNoCall
<1>3. \A c, r : Refuses(c, r) => UNCHANGED call
  BY DEF Refuses, callVars
<1>4. \A c : RefusedWhenBad(c) => UNCHANGED call
  BY <1>3 DEF RefusedWhenBad
<1>5. ASSUME NEW c, Call(c) PROVE call' = "none" \/ prog' \in Programs(call')
  BY <1>1, <1>2, <1>4, <1>5 DEF Call, Available
<1>6. CASE Ping
  BY <1>1, <1>6 DEF Ping
<1>7. ASSUME NEW c, NEW intxn, Transaction(c, intxn) PROVE call' = "none" \/ prog' \in Programs(call')
  <2>1. AtRest
    BY <1>7 DEF Transaction, Available
  <2> QED
    BY <1>1, <1>2, <1>3, <1>4, <1>7, <2>1 DEF Transaction
<1>8. ASSUME NEW c, RowsCall(c) PROVE call' = "none" \/ prog' \in Programs(call')
  BY <1>1, <1>2, <1>8 DEF RowsCall, callVars
<1>9. CASE Discard
  BY <1>2, <1>9 DEF Discard, callVars
<1> QED
  BY <1>5, <1>6, <1>7, <1>8, <1>9 DEF PoolStep, Begin, Commit, Rollback

LEMMA FetchStep == ASSUME CallInv, FetchInv, CallInv', [Next]_vars PROVE FetchInv'
<1> SUFFICES ASSUME call' \in {"Query", "StmtQuery"}
             PROVE  prog' # <<>> /\ prog'[Len(prog')] # "readExecuteResponse"
  BY DEF FetchInv
<1>1. prog' # <<>> /\ call' # "none" /\ call' # "Ping"
  <2>1. call' \in CallNames /\ prog' \in Stages(call')
    BY DEF CallInv, CallNames, Stages
  <2> QED
    BY <2>1, StagesGoOn
<1>2. CASE PoolStep
  BY <1>1, <1>2, PoolCalls, QueriesFetch
<1>3. CASE DriverStep
  <2>1. ~AtRest
    BY <1>3 DEF DriverStep, Send, BadArguments, RecvFails, Reads, SimpleExec, SimpleQuery,
       ReadParseResponse, ReadStatementDescribeResponse, ReadPortalDescribeResponse,
       ReadBindResponse, ReadResponse, PostExecuteWorkaround, ReadExecuteResponse,
       ReadReadyForQuery, ReadCloseComplete, RowsNext, Reading
  <2>2. call' = call /\ prog' \in {prog, Tail(prog), AfterError}
    BY <1>1, <1>3, <2>1, CallsMove DEF Moves
  <2>3. prog \in Seq(ProgramSteps) /\ prog # <<>> /\ prog[Len(prog)] # "readExecuteResponse"
    BY <2>2, ProgramsAreSeqs DEF CallInv, FetchInv
  <2>4. CASE prog' = AfterError
    BY <2>4 DEF AfterError
  <2>5. CASE prog' = prog
    BY <2>3, <2>5
  <2>6. CASE prog' = Tail(prog)
    BY <1>1, <2>3, <2>6, LastStays
  <2> QED
    BY <2>2, <2>4, <2>5, <2>6
<1>4. CASE UNCHANGED <<call, prog>>
  BY <1>4 DEF FetchInv
<1> QED
  BY <1>2, <1>3, <1>4 DEF Next, ConnBreaks, vars, callVars

--------------------------------------------------------------------------------
(* The invariant *)

LEMMA IInvInit == Init => IInv
<1> SUFFICES ASSUME Init PROVE IInv
  OBVIOUS
<1>1. prog = <<>>
  BY DEF Init
<1>2. prog \notin Sending \cup AtExec \cup AtQuery \cup AtParse \cup AtDescribe \cup AtReady
                 \cup AtFail \cup AtClose \cup AtBinaryParse \cup AtBinaryBind \cup AtPortal
                 \cup AtBind \cup AtPost \cup AtResult \cup AtNext
  BY <1>1, AfterSending, AfterReading, LastOnes DEF Sending
<1>3. CallInv
  BY DEF Init, CallInv, Stages
<1>4. PoolData /\ WireData /\ ServerData
  BY DEF Init, PoolData, WireData, ServerData, TxnStatuses
<1>5. AgreeInv /\ SavedInv
  BY <1>2 DEF Init, AgreeInv, SavedInv, Idle
<1> QED
  BY <1>2, <1>3, <1>4, <1>5 DEF Init, IInv, LinkInv, BadInv, RetryInv, BeginInv, FetchInv

LEMMA IInvStep == ASSUME NoCopyAfterRows, IInv, [Next]_vars PROVE IInv'
<1>1. CallInv' /\ PoolData' /\ WireData' /\ ServerData' /\ LinkInv'
  BY CallStep, PoolDataStep, WireDataStep, ServerDataStep, LinkStep DEF IInv
<1>2. FetchInv'
  BY <1>1, FetchStep DEF IInv
<1>3. CASE PoolStep
  BY <1>1, <1>2, <1>3, PoolKeeps DEF IInv, Kept
<1>4. CASE DriverStep
  <2>1. ~AtRest
    BY <1>4 DEF DriverStep, Send, BadArguments, RecvFails, Reads, SimpleExec, SimpleQuery,
       ReadParseResponse, ReadStatementDescribeResponse, ReadPortalDescribeResponse,
       ReadBindResponse, ReadResponse, PostExecuteWorkaround, ReadExecuteResponse,
       ReadReadyForQuery, ReadCloseComplete, RowsNext, Reading
  <2>2. BeginInv'
    BY <1>1, <1>4, <2>1, BeginMoves
  <2>3. Kept'
    BY <1>4, SendKeeps, BadArgumentsKeep, RecvFailsKeeps, ReadKeeps DEF DriverStep
  <2> QED
    BY <1>1, <1>2, <2>2, <2>3 DEF IInv, Kept
<1>5. ASSUME NEW how \in Losses, ConnBreaks(how) PROVE IInv'
  <2>1. BeginInv'
    BY <1>5 DEF ConnBreaks, connVars, callVars, IInv, BeginInv
  <2> QED
    BY <1>1, <1>2, <1>5, <2>1, BreakKeeps DEF IInv, Kept
<1>6. CASE UNCHANGED vars
  BY <1>6 DEF vars, connVars, callVars, poolVars, serverVars, IInv, CallInv, PoolData, WireData,
     ServerData, LinkInv, SavedInv, AgreeInv, BadInv, RetryInv, BeginInv, FetchInv, Idle, RowsGoOn,
     QueryInv, RollbackInv, ExecInv, ReadsOut
<1> QED
  BY <1>3, <1>4, <1>5, <1>6 DEF Next

--------------------------------------------------------------------------------
(* What a run of the connection keeps *)

THEOREM InvariantHolds == ASSUME NoCopyAfterRows PROVE Spec => []IInv
<1>1. Init => IInv
  BY IInvInit
<1>2. IInv /\ [Next]_vars => IInv'
  BY IInvStep
<1> QED
  BY <1>1, <1>2, PTL DEF Spec

\* Every variable has its type, whatever the query strings: a connection is bad only
\* for the reasons that TypeOK names, and only Ping of a bad one panics.
THEOREM TypeCorrect == ASSUME NoCopyAfterRows PROVE Spec => []TypeOK
<1>1. IInv => TypeOK
  BY DEF IInv, CallInv, PoolData, WireData, ServerData, BadInv, TypeOK
<1> QED
  BY <1>1, InvariantHolds, PTL

\* Between two calls a connection that is to be used again is in step with its server.
THEOREM StaysInStep == ASSUME NoCopyAfterRows PROVE Spec => []InStep
<1>1. IInv => InStep
  <2> SUFFICES ASSUME IInv, AtRest, bad = "no", link = "up"
               PROVE  IF rows = "open" THEN todo # <<>>
                      ELSE todo = <<>> /\ saved = NoMsg /\ txnStatus = stxn
    BY DEF InStep
  <2>1. CASE rows = "open"
    BY <2>1 DEF IInv, AgreeInv, AtRest, RowsGoOn, Batch, Chain
  <2>2. CASE rows # "open"
    BY <2>2 DEF IInv, AgreeInv, AtRest, Idle
  <2> QED
    BY <2>1, <2>2
<1> QED
  BY <1>1, InvariantHolds, PTL

\* A call that returns ErrBadConn, and that database/sql makes again, has performed
\* nothing, unless the server closed the connection while it was at it; in a
\* transaction as well, where the call is not made again.
THEOREM RetriesAreSafe == ASSUME NoCopyAfterRows PROVE Spec => []RetryIsSafe
<1>1. IInv => RetryIsSafe
  BY DEF IInv, RetryInv, RetryIsSafe
<1> QED
  BY <1>1, InvariantHolds, PTL

--------------------------------------------------------------------------------
(* Transactions *)

\* Only signs of success are read ahead.
AheadInv == saved = NoMsg \/ saved.type \in {"C", "D", "I"}

LEMMA AheadStep == ASSUME AheadInv, [Next]_vars PROVE AheadInv'
<1>1. UNCHANGED saved => AheadInv'
  BY DEF AheadInv
<1>2. Forget => AheadInv'
  BY DEF Forget, AheadInv
<1>3. ASSUME NEW m \in Messages, Reads(m) PROVE AheadInv'
  <2>1. CASE SimpleQuery(m)
    BY <1>2, <2>1 DEF SimpleQuery, SaveMessage, AheadInv
  <2>2. CASE PostExecuteWorkaround(m)
    BY <1>2, <2>2 DEF PostExecuteWorkaround, SaveMessage, AheadInv
  <2> QED
    BY <1>2, <1>3, <2>1, <2>2 DEF Reads, SimpleExec, ReadParseResponse,
       ReadStatementDescribeResponse, ReadPortalDescribeResponse, ReadBindResponse,
       ReadResponse, ReadExecuteResponse, ReadReadyForQuery, ReadCloseComplete, RowsNext
<1>4. CASE Send \/ BadArguments \/ RecvFails
  BY <1>1, <1>4 DEF Send, SendFails, Sends, BadArguments, RecvFails, connVars
<1>5. CASE PoolStep
  <2>1. CASE Discard
    BY <2>1 DEF Discard, AheadInv
  <2> QED
    BY <1>1, <1>5, <2>1 DEF PoolStep, Call, Ping, Begin, Commit, Rollback, Transaction, RowsCall,
       RefusedWhenBad, Refuses, Goes, connVars
<1>6. CASE \E how \in Losses : ConnBreaks(how)
  BY <1>1, <1>6 DEF ConnBreaks, connVars
<1>7. CASE UNCHANGED vars
  BY <1>1, <1>7 DEF vars, connVars
<1> QED
  BY <1>3, <1>4, <1>5, <1>6, <1>7 DEF Next, DriverStep

\* ReadyForQuery tells the status that the server has.
LEMMA ReadyTells ==
    ASSUME AheadInv, NEW m, m.type = "Z", RecvMessage(m) PROVE m.val = stxn'
<1>1. ServerSends(m)
  BY DEF AheadInv, RecvMessage
<1>2. Ready(m)
  <2>1. m # Msg("E", "-")
    BY DEF Msg
  <2>2. ~Answers(m)
    BY DEF Answers, Answer
  <2>3. ~Completes(m) /\ ~Fails(m)
    BY DEF Completes, Fails
  <2> QED
    BY <1>1, <2>1, <2>2, <2>3 DEF ServerSends
<1> QED
  BY <1>2 DEF Ready, Msg

\* Commit returns nil only when the server has just committed the transaction; with any
\* query strings, those that put the connection out of step included.
THEOREM CommitsAreTrue == Spec => CommitIsTrue
<1> DEFINE Inv == CallInv /\ AheadInv
           Told == call = "Commit" /\ ret' = "ok" => tag = "COMMIT" /\ stxn' = "I"
<1>1. Init => Inv
  BY DEF Init, CallInv, Stages, AheadInv, Sending, AtExec, AtQuery, AtResult, AtNext
<1>2. Inv /\ [Next]_vars => Inv'
  BY CallStep, AheadStep
<1>3. Inv /\ [Next]_vars => [Told]_vars
  <2> SUFFICES ASSUME Inv, Next, call = "Commit", ret' = "ok" PROVE tag = "COMMIT" /\ stxn' = "I"
    OBVIOUS
  <2>1. ~AtRest /\ ret = "none" /\ prog \in SendTxn \cup AtExec
    BY AtRestNoCall DEF CallInv, Stages
  <2>2. Head(prog) \in {"sendTxn", "simpleExec"}
    BY <2>1, AfterSending, LastOnes
  <2>3. ~PoolStep
    BY <2>1 DEF PoolStep, Call, Ping, Begin, Commit, Rollback, Transaction, RowsCall, Available,
       Discard
  <2>4. ~\E how \in Losses : ConnBreaks(how)
    BY <2>1 DEF ConnBreaks, poolVars
  <2>5. ~Send /\ ~BadArguments /\ ~RecvFails
    <3>1. ~Send
      BY <2>1 DEF Send, SendFails, Sends, ReturnsPlain, Returns, Result, WriteError, poolVars
    <3>2. ~BadArguments
      BY <2>2 DEF BadArguments
    <3>3. ~RecvFails
      BY DEF RecvFails, ReadError, ReturnsPlain, Returns, Result
    <3> QED
      BY <3>1, <3>2, <3>3
  <2>6. PICK m \in Messages : SimpleExec(m)
    BY <2>2, <2>3, <2>4, <2>5 DEF Next, DriverStep, Reads, SimpleQuery, ReadParseResponse,
       ReadStatementDescribeResponse, ReadPortalDescribeResponse, ReadBindResponse, ReadResponse,
       PostExecuteWorkaround, ReadExecuteResponse, ReadReadyForQuery, ReadCloseComplete, RowsNext,
       Reading
  <2>7. m.type = "Z" /\ SimpleExecDone(m) /\ RecvMessage(m)
    BY <2>1, <2>6 DEF SimpleExec, Continue, poolVars, Unexpected, ReturnsPlain, Returns, Result
  <2>8. TxnReturns(CommitResult(ExecResult, tag, m.val))
    BY <2>7 DEF SimpleExecDone
  <2>9. CommitResult(ExecResult, tag, m.val) = "ok"
    BY <2>8 DEF TxnReturns, ReturnsPlain, Returns, Result
  <2>10. tag = "COMMIT" /\ ~InTxn(m.val)
    BY <2>9 DEF CommitResult
  <2>11. m.val \in TxnStatuses
    BY <2>7, MessageTypes
  <2> QED
    BY <2>7, <2>10, <2>11, ReadyTells DEF InTxn, TxnStatuses
<1> QED
  BY <1>1, <1>2, <1>3, PTL DEF Spec, CommitIsTrue

\* Only the end of a transaction's own calls has the Tx let go of the connection.
LEMMA OthersHold ==
    ASSUME DriverStep, call \notin {"Begin", "Commit", "CommitFailed", "Rollback"}
    PROVE  UNCHANGED inTx
<1>1. \A r : Returns(r) => UNCHANGED inTx
  BY DEF Returns, Holds
<1>2. /\ \A r : ReturnsPlain(r) => UNCHANGED inTx
      /\ \A m : Unexpected(m) => UNCHANGED inTx
      /\ \A how : ReturnsRows(how) => UNCHANGED inTx
      /\ \A how : QueryReturns(how) => UNCHANGED inTx
  BY <1>1 DEF ReturnsPlain, Unexpected, ReturnsRows, QueryReturns, poolVars
<1>3. \A p : Continue(p) => UNCHANGED inTx
  BY DEF Continue, poolVars
<1>4. CASE Send \/ BadArguments \/ RecvFails
  BY <1>2, <1>4 DEF Send, SendFails, Sends, BadArguments, RecvFails, ReadError, poolVars
<1>5. ASSUME NEW m \in Messages, Reads(m) PROVE UNCHANGED inTx
  <2>1. CASE SimpleExec(m)
    BY <1>2, <1>3, <2>1 DEF SimpleExec, SimpleExecDone
  <2>2. CASE SimpleQuery(m)
    BY <1>2, <1>3, <2>2 DEF SimpleQuery, SimpleQueryDone, NilRows
  <2>3. ASSUME NEW step, NEW types, ReadResponse(step, types, m) PROVE UNCHANGED inTx
    BY <1>2, <1>3, <2>3 DEF ReadResponse
  <2>4. CASE \/ ReadStatementDescribeResponse(m) \/ ReadParseResponse(m)
             \/ ReadPortalDescribeResponse(m) \/ ReadBindResponse(m)
    BY <1>3, <2>3, <2>4 DEF ReadStatementDescribeResponse, ReadParseResponse,
       ReadPortalDescribeResponse, ReadBindResponse
  <2>5. CASE PostExecuteWorkaround(m)
    BY <1>2, <1>3, <2>5 DEF PostExecuteWorkaround
  <2>6. CASE ReadExecuteResponse(m)
    BY <1>2, <1>3, <2>6 DEF ReadExecuteResponse
  <2>7. CASE ReadReadyForQuery(m)
    BY <1>2, <2>7 DEF ReadReadyForQuery, poolVars
  <2>8. CASE ReadCloseComplete(m)
    BY <1>2, <1>3, <2>8 DEF ReadCloseComplete
  <2>9. CASE RowsNext(m)
    BY <1>1, <1>2, <1>3, <2>9 DEF RowsNext, NextReturns, Leave, poolVars
  <2> QED
    BY <1>5, <2>1, <2>2, <2>4, <2>5, <2>6, <2>7, <2>8, <2>9 DEF Reads
<1> QED
  BY <1>4, <1>5 DEF DriverStep

\* Before a call has been sent, or refused, the Tx keeps the connection, or it is bad.
LEMMA PoolHolds == ASSUME PoolStep, inTx, ~inTx' PROVE bad' # "no"
<1>1. \A c : Goes(c) => UNCHANGED inTx
  BY DEF Goes
<1>2. \A c : RefusedWhenBad(c) => bad' # "no"
  BY DEF RefusedWhenBad
<1>3. \A c, intxn : Transaction(c, intxn) => UNCHANGED inTx \/ bad' # "no"
  BY <1>1, <1>2 DEF Transaction, SetBad
<1>4. \A c : Call(c) => UNCHANGED inTx \/ bad' # "no"
  BY <1>1, <1>2 DEF Call
<1>5. \A c : RowsCall(c) => UNCHANGED inTx
  BY <1>1 DEF RowsCall
<1>6. Ping \/ Discard => UNCHANGED inTx
  BY <1>1 DEF Ping, Discard
<1> QED
  BY <1>3, <1>4, <1>5, <1>6 DEF PoolStep, Begin, Commit, Rollback

LEMMA TxnEnds ==
    ASSUME IInv, Next, inTx, ~inTx', bad' = "no", link' = "up" PROVE stxn' = "I"
<1>1. DriverStep
  BY PoolHolds DEF Next, ConnBreaks, poolVars
<1>2. call \in {"Commit", "CommitFailed", "Rollback"}
  BY <1>1, OthersHold DEF IInv, CallInv
<1>3. prog \in SendTxn \cup AtExec /\ bad = "no"
  BY <1>2 DEF IInv, CallInv, Stages
<1>4. Head(prog) \in {"sendTxn", "simpleExec"}
  BY <1>3, AfterSending, LastOnes
<1>5. ~Send /\ ~BadArguments /\ ~RecvFails
  <2>1. ~Send
    BY <1>3 DEF Send, SendFails, Sends, SetBad, poolVars
  <2>2. ~BadArguments
    BY <1>4 DEF BadArguments
  <2>3. ~RecvFails
    BY DEF RecvFails, serverVars
  <2> QED
    BY <2>1, <2>2, <2>3
<1>6. PICK m \in Messages : SimpleExec(m)
  BY <1>1, <1>4, <1>5 DEF DriverStep, Reads, SimpleQuery, ReadParseResponse,
     ReadStatementDescribeResponse, ReadPortalDescribeResponse, ReadBindResponse, ReadResponse,
     PostExecuteWorkaround, ReadExecuteResponse, ReadReadyForQuery, ReadCloseComplete, RowsNext,
     Reading
<1>7. ~Unexpected(m)
  <2>1. m.type # "no"
    BY MessageTypes DEF PlainTypes
  <2> QED
    BY <1>3, <2>1 DEF Unexpected, SetBad
<1>8. m.type = "Z" /\ SimpleExecDone(m) /\ RecvMessage(m)
  BY <1>6, <1>7 DEF SimpleExec, Continue, poolVars
<1>9. prog \in AtExec
  BY <1>6, Where DEF IInv, SimpleExec, Reading
<1>10. saved = NoMsg
  BY <1>3, <1>9, AfterReading, LastOnes DEF IInv, SavedInv
<1>11. /\ link = "up" /\ Head(todo) = "sync" /\ m.val = stxn' /\ Batch(todo)
       /\ call \in {"Rollback", "CommitFailed"} => RollbackInv
  <2>1. link = "up" => ExecInv
    BY <1>3, <1>9 DEF IInv, AgreeInv
  <2>2. performed \in BOOLEAN
    BY DEF IInv, ServerData
  <2>3. link = "up" /\ Head(todo) = "sync" /\ m.val = stxn'
    BY <1>8, <1>10, <2>1, <2>2, MessageRead DEF ExecInv
  <2> QED
    BY <2>1, <2>3 DEF ExecInv
<1>12. m.val \in TxnStatuses
  BY <1>8, MessageTypes
<1>13. ~InTxn(m.val) => stxn' = "I"
  BY <1>11, <1>12 DEF InTxn, TxnStatuses
<1>14. bad' = bad
  BY <1>3, <1>8 DEF SimpleExecDone, TxnReturns, SetBad
<1>15. \A r : TxnReturns(r) => r # "txn"
  BY <1>3, <1>14 DEF TxnReturns, SetBad
<1>16. CASE call = "Commit"
  <2>1. CommitResult(ExecResult, tag, m.val) # "txn"
    BY <1>8, <1>15, <1>16 DEF SimpleExecDone
  <2> QED
    BY <1>13, <2>1 DEF CommitResult
<1>17. CASE call \in {"Rollback", "CommitFailed"}
  <2>1. RollbackResult(ExecResult, tag, m.val) # "txn"
    BY <1>8, <1>15, <1>17 DEF SimpleExecDone
  <2>2. ExecResult = "error" \/ tag = "ROLLBACK"
    BY <1>11, <1>17 DEF RollbackInv, ExecResult
  <2> QED
    BY <1>13, <2>1, <2>2 DEF RollbackResult
<1> QED
  BY <1>2, <1>16, <1>17

\* A transaction is the caller's own: Begin finds none on its connection, and one that
\* ended leaves none behind on a connection that is used again.
THEOREM TxnsAreOwn == ASSUME NoCopyAfterRows PROVE Spec => TxnIsOwn
<1> DEFINE Own == /\ call = "Begin" /\ Reading("sendTxn") /\ link = "up" => stxn = "I"
                  /\ inTx /\ ~inTx' /\ bad' = "no" /\ link' = "up" => stxn' = "I"
<1>1. IInv => (call = "Begin" /\ Reading("sendTxn") /\ link = "up" => stxn = "I")
  <2> SUFFICES ASSUME IInv, call = "Begin", Reading("sendTxn"), link = "up" PROVE stxn = "I"
    OBVIOUS
  <2>1. prog \in Sending
    BY SendingPlaces DEF IInv, Reading, SendSteps
  <2>2. bad = "no" /\ txnStatus = "I"
    BY <2>1 DEF IInv, CallInv, BeginInv
  <2> QED
    BY <2>1, <2>2 DEF IInv, AgreeInv, Idle
<1>2. IInv /\ [Next]_vars => [Own]_vars
  BY <1>1, TxnEnds
<1> QED
  BY <1>2, InvariantHolds, PTL DEF Spec, TxnIsOwn

--------------------------------------------------------------------------------
(* Rows *)

LEMMA RowAt ==
    ASSUME IInv, call \in {"Query", "StmtQuery", "Next"}, todo # <<>>, Head(todo) = "row"
    PROVE  prog \in AtQuery \cup AtPost \cup AtNext /\ link = "up" /\ Batch(todo)
<1>1. bad = "no" /\ link = "up"
  BY DEF IInv, CallInv, LinkInv
<1>2. prog \notin Sending \cup AtReady \cup AtFail
  <2>1. todo # <<"sync">>
    BY SyncIsBatch
  <2> QED
    BY <1>1, <2>1 DEF IInv, AgreeInv, Idle
<1>3. prog \notin AtParse \cup AtDescribe \cup AtClose \cup AtBinaryParse \cup AtBinaryBind
                    \cup AtPortal \cup AtBind
  BY <1>1, BatchTail DEF IInv, AgreeInv, BinaryRequest, BindRequest
<1>4. prog \notin AtResult
  <2>1. ASSUME prog \in AtResult PROVE FALSE
    <3>1. prog = <<"readExecuteResponse">> /\ call # "Next"
      BY <2>1, LastOnes DEF AtResult, IInv, CallInv, Stages
    <3>2. prog[Len(prog)] = "readExecuteResponse"
      BY <3>1
    <3> QED
      BY <3>1, <3>2 DEF IInv, FetchInv
  <2> QED
    BY <2>1
<1>5. prog \in AtQuery \cup AtPost \cup AtNext
  BY <1>2, <1>3, <1>4 DEF IInv, CallInv, Stages, Extended, Sending
<1> QED
  BY <1>1, <1>5 DEF IInv, AgreeInv, QueryInv, PortalRequest, ReadsOut, RowsGoOn

\* The row that the server sends is a DataRow.
LEMMA RowSent ==
    ASSUME link = "up", Batch(todo), Head(todo) = "row", todo' = Tail(todo),
           performed \in BOOLEAN, NEW m \in Messages, RecvMessage(m)
    PROVE  saved = NoMsg /\ m.type = "D"
<1>1. Tail(todo) # todo /\ Head(Tail(todo)) \in {"row", "complete"}
  <2>1. Len(Tail(todo)) = Len(todo) - 1 /\ Len(todo) \in Nat
    BY TailOf DEF Batch, Chain
  <2>2. Head(Tail(todo)) = todo[2] /\ todo[2] \in After("row")
    BY BatchTail
  <2>3. After("row") = {"row", "complete"}
    BY AfterValues
  <2>4. Tail(todo) # todo
    BY <2>1
  <2> QED
    BY <2>2, <2>3, <2>4
<1>2. saved = NoMsg
  BY <1>1 DEF RecvMessage, serverVars
<1>3. todo' # <<"sync">>
  BY <1>1, SyncIsBatch
<1>4. Succeeded(m)
  <2>1. ServerSends(m)
    BY <1>2 DEF RecvMessage
  <2> QED
    BY <1>3, <2>1, ServerServes DEF Failed, Finished
<1> QED
  BY <1>2, <1>4, SuccessValues DEF Succeeded

\* No row is lost between Query and Next.
LEMMA RowKept ==
    ASSUME IInv, Next, RowTaken, call \in {"Query", "StmtQuery", "Next"}, bad' = "no"
    PROVE  saved'.type = "D" \/ (call = "Next" /\ prog' = <<>>)
<1>1. ~AtRest /\ bad = "no" /\ performed \in BOOLEAN
  BY AtRestNoCall DEF IInv, CallInv, ServerData
<1>2. ~PoolStep
  BY <1>1 DEF PoolStep, Call, Ping, Begin, Commit, Rollback, Transaction, RowsCall, Available,
     Discard
<1>3. \A m : m.type = "D" => ~Unexpected(m)
  BY <1>1 DEF Unexpected, SetBad
<1>4. \A r : ReturnsPlain(r) => prog' = <<>>
  BY DEF ReturnsPlain, Returns
<1>5. ASSUME NEW m \in Messages, m.type = "D", RowsNext(m), call = "Next" PROVE prog' = <<>>
  BY <1>3, <1>4, <1>5 DEF RowsNext, NextReturns, Leave
<1>6. CASE todo # <<>> /\ Head(todo) = "row" /\ todo' = Tail(todo)
  <2>1. prog \in AtQuery \cup AtPost \cup AtNext /\ link = "up" /\ Batch(todo)
    BY <1>6, RowAt
  <2>2. Head(prog) \in {"simpleQuery", "postExecuteWorkaround", "next"}
    BY <2>1, LastOnes
  <2>3. Tail(todo) # <<>>
    BY <1>6, <2>1, BatchTail
  <2>4. ~(\E how \in Losses : ConnBreaks(how)) /\ ~Send /\ ~BadArguments /\ ~RecvFails
    BY <1>6, <2>1, <2>2, <2>3 DEF ConnBreaks, Send, BadArguments, RecvFails, SendSteps
  <2>5. PICK m \in Messages : Reads(m)
    BY <1>2, <2>4 DEF Next, DriverStep
  <2>6. SimpleQuery(m) \/ PostExecuteWorkaround(m) \/ RowsNext(m)
    BY <2>2, <2>5 DEF Reads, SimpleExec, ReadParseResponse, ReadStatementDescribeResponse,
       ReadPortalDescribeResponse, ReadBindResponse, ReadResponse, ReadExecuteResponse,
       ReadReadyForQuery, ReadCloseComplete, Reading
  <2>7. RecvMessage(m)
    BY <2>6 DEF SimpleQuery, PostExecuteWorkaround, RowsNext
  <2>8. m.type = "D"
    BY <1>1, <1>6, <2>1, <2>7, RowSent
  <2>9. CASE SimpleQuery(m)
    BY <1>3, <2>8, <2>9 DEF SimpleQuery, SaveMessage
  <2>10. CASE PostExecuteWorkaround(m)
    BY <2>8, <2>10 DEF PostExecuteWorkaround, SaveMessage
  <2>11. CASE RowsNext(m)
    <3>1. prog \in AtNext
      BY <1>1, <2>11, Where DEF IInv, RowsNext, Reading
    <3>2. call = "Next"
      BY <3>1, AfterSending, AfterReading, LastOnes DEF IInv, CallInv, Stages, Extended
    <3> QED
      BY <1>5, <2>8, <2>11, <3>2
  <2> QED
    BY <2>6, <2>9, <2>10, <2>11
<1>7. CASE saved.type = "D" /\ saved' = NoMsg
  <2>1. saved # NoMsg
    BY <1>7, MessageTypes
  <2>2. prog \in AtResult \cup AtNext
    BY <1>1, <2>1 DEF IInv, SavedInv, AtRest
  <2>3. prog \notin AtResult
    <3>1. ASSUME prog \in AtResult PROVE FALSE
      <4>1. prog = <<"readExecuteResponse">> /\ call # "Next"
        BY <3>1, LastOnes DEF AtResult, IInv, CallInv, Stages
      <4>2. prog[Len(prog)] = "readExecuteResponse"
        BY <4>1
      <4> QED
        BY <4>1, <4>2 DEF IInv, FetchInv
    <3> QED
      BY <3>1
  <2>4. prog \in AtNext /\ Head(prog) = "next"
    BY <2>2, <2>3, LastOnes
  <2>5. call = "Next"
    BY <2>4, AfterSending, AfterReading, LastOnes DEF IInv, CallInv, Stages, Extended
  <2>6. ~(\E how \in Losses : ConnBreaks(how)) /\ ~Send /\ ~BadArguments /\ ~RecvFails
    BY <1>7, <2>1, <2>4 DEF ConnBreaks, connVars, Send, BadArguments, RecvFails, SendSteps
  <2>7. PICK m \in Messages : RowsNext(m)
    BY <1>2, <2>4, <2>6 DEF Next, DriverStep, Reads, SimpleExec, SimpleQuery, ReadParseResponse,
       ReadStatementDescribeResponse, ReadPortalDescribeResponse, ReadBindResponse, ReadResponse,
       PostExecuteWorkaround, ReadExecuteResponse, ReadReadyForQuery, ReadCloseComplete, Reading
  <2>8. m = saved
    BY <2>1, <2>7 DEF RowsNext, RecvMessage
  <2> QED
    BY <1>5, <1>7, <2>5, <2>7, <2>8
<1> QED
  BY <1>6, <1>7 DEF RowTaken

\* A row that Query has the server send, to see whether the query fails, is given to
\* Next and not dropped; nor does Next drop one.
THEOREM NoRowsLost == ASSUME NoCopyAfterRows PROVE Spec => NoRowLost
<1> DEFINE RowIsKept == RowTaken /\ call \in {"Query", "StmtQuery", "Next"} /\ bad' = "no"
                      => saved'.type = "D" \/ (call = "Next" /\ prog' = <<>>)
<1>1. IInv /\ [Next]_vars => [RowIsKept]_vars
  BY RowKept
<1> QED
  BY <1>1, InvariantHolds, PTL DEF Spec, NoRowLost

================================================================================
