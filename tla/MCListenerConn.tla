----------------------------- MODULE MCListenerConn -----------------------------
(* Small instances of ListenerConn for TLC. *)
EXTENDS ListenerConn

\* A command after a notice, an error, two commands in one query string, and
\* COPY, which listenerConnLoop does not know.
MCExecReplies == {<<"S", "C">>, <<"E">>, <<"C", "C">>, <<"X">>}
MCPingReplies == {<<"C">>}
================================================================================
