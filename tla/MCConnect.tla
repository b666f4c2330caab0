------------------------------- MODULE MCConnect -------------------------------
(* Small instances of Connect for TLC. *)
EXTENDS Connect, TLC

Good == [listens |-> TRUE, answers |-> TRUE, tls |-> TRUE, clear |-> TRUE, trusted |-> TRUE,
         refuses |-> "no", auth |-> "sha256", knows |-> TRUE, queries |-> "ok",
         recovery |-> FALSE, readOnly |-> FALSE]

\* One server for each way an attempt can go.
MCServers == {Good,
    [Good EXCEPT !.listens = FALSE],
    [Good EXCEPT !.tls = FALSE],
    [Good EXCEPT !.trusted = FALSE],
    [Good EXCEPT !.clear = FALSE],
    [Good EXCEPT !.refuses = "53300"],
    [Good EXCEPT !.knows = FALSE],
    [Good EXCEPT !.recovery = TRUE, !.readOnly = TRUE],
    [Good EXCEPT !.queries = "fails"],
    [Good EXCEPT !.queries = "breaksOff"],
    [Good EXCEPT !.auth = "gss"],
    [Good EXCEPT !.auth = "md5sha256", !.tls = FALSE],
    [Good EXCEPT !.auth = "ok", !.readOnly = TRUE],
    [Good EXCEPT !.auth = "sha256-other", !.refuses = "28000"]}

Plain == [hosts |-> <<"h">>, sslmode |-> "disable", tsa |-> "any", rootcert |-> FALSE,
          password |-> TRUE, krb |-> TRUE]

MCSettings ==
    {[Plain EXCEPT !.sslmode = m, !.tsa = "read-write"] : m \in SslModes}
    \cup {[Plain EXCEPT !.hosts = <<"h", "g">>, !.sslmode = "require", !.rootcert = TRUE, !.tsa = a]
          : a \in SessionAttrs}
    \cup {[Plain EXCEPT !.hosts = <<"/s", "h">>, !.sslmode = "verify-full", !.password = FALSE],
          [Plain EXCEPT !.hosts = <<"g", "h">>, !.krb = FALSE]}

MCDNS == {("h" :> <<"a">>) @@ ("g" :> <<"b">>) @@ ("/s" :> <<"b">>),
          ("h" :> <<"a", "b">>) @@ ("/s" :> <<"b">>)}
================================================================================
