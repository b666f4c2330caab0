--------------------------------- MODULE MCConn ---------------------------------
(* Small instances of Conn: which query strings the application sends.       *)
EXTENDS Conn

MCSingle == {<<k>> : k \in Kinds}
MCDouble == {<<"select", "dml">>, <<"dml", "select">>, <<"select", "select">>,
             <<"begin", "dml">>, <<"dml", "commit">>, <<"dml", "copyIn">>}
MCScripts == MCSingle \cup MCDouble
MCStatements == Kinds

ASSUME NoCopyAfterRows
================================================================================
