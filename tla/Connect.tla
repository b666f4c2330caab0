-------------------------------- MODULE Connect --------------------------------
(***************************************************************************)
(* Opening a connection (connector.go, and the parts of conn.go, ssl.go,   *)
(* conn_validate.go and error.go it runs through).  A connection string    *)
(* may name several hosts, each may have several addresses, and sslmode    *)
(* allow and prefer try each address twice, so one call of Connect is a    *)
(* search: dial, ask for TLS, start up, authenticate, ask the server for   *)
(* its role, and go on with the next target when one of these fails.  What *)
(* is hard is what each of the many ways to fail leaves behind: an open    *)
(* socket, a panic that ends the search, an answer still to be read.       *)
(*                                                                         *)
(* The servers, their network and their configuration are the environment: *)
(* they are chosen in the initial state, and links may break at any time.  *)
(***************************************************************************)
EXTENDS Naturals, Sequences, SequencesExt

CONSTANTS
    Settings,       \* the connection strings (see SettingsType)
    DNS,            \* where hosts are: functions from hosts to sequences of
                    \* addresses; for a directory with a socket, of one
    UnixHosts,      \* the hosts that are such directories
    Addresses,      \* where servers can be
    Servers,        \* what they can be like (see ServerType)
    MaxLosses,      \* bound: links that break
    MaxTokens       \* bound: GSSAPI tokens a server asks for

SslModes == {"", "disable", "allow", "prefer", "require", "verify-ca", "verify-full"}
SessionAttrs == {"any", "prefer-standby", "read-write", "read-only", "primary", "standby"}
AuthCodes == {"ok", "password", "md5", "sha256", "sha256-md5", "sha256-other", "md5sha256",
              "sm3", "sm3-other", "gss", "unknown"}

SettingsType(s) ==
    /\ s.hosts \in Seq(Range(s.hosts)) \ {<<>>}
    /\ s.sslmode \in SslModes /\ s.tsa \in SessionAttrs
    /\ s.rootcert \in BOOLEAN           \* sslrootcert is given
    /\ s.password \in BOOLEAN           \* there is a password
    /\ s.krb \in BOOLEAN                \* a GSSAPI provider is registered

ServerType(v) ==
    /\ v.listens \in BOOLEAN            \* it takes connections
    /\ v.answers \in BOOLEAN            \* and then says something
    /\ v.tls \in BOOLEAN                \* it can do TLS
    /\ v.clear \in BOOLEAN              \* and pg_hba.conf allows to do without
    /\ v.trusted \in BOOLEAN            \* its certificate is signed by the root
    /\ v.refuses \in {"no", "53300", "28000"}   \* the session, whoever asks
    /\ v.auth \in AuthCodes
    /\ v.knows \in BOOLEAN              \* the user and the password
    /\ v.queries \in {"ok", "fails", "breaksOff"}
    /\ v.recovery \in BOOLEAN /\ v.readOnly \in BOOLEAN

ASSUME SettingsAssumption == \A s \in Settings : SettingsType(s)
ASSUME ServersAssumption == \A v \in Servers : ServerType(v)
ASSUME DNSAssumption == \A d \in DNS : \A h \in DOMAIN d : d[h] \in Seq(Addresses)
ASSUME UnixAssumption == \A d \in DNS : \A h \in UnixHosts \cap DOMAIN d : Len(d[h]) = 1
ASSUME BoundsAssumption == MaxLosses \in Nat /\ MaxTokens \in Nat

VARIABLES
    settings, dns, world,   \* the connection string; who is where
    \* connect
    targets,                \* fallbackConfigs, once they have addresses
    i,                      \* the one that is tried
    pc,                     \* where the call is
    err,                    \* the last error
    \* struct conn of this attempt
    tls,                    \* cn.c is a TLS connection
    gss,                    \* cn.gss is set
    suits,                  \* what ValidateConnect has found out
    open,                   \* the attempts whose socket is open
    \* the network and the server
    link,                   \* "none", "up" or "down"
    toServer, toClient,
    losses, tokens          \* bounds: broken links, tokens asked for

searchVars == <<targets, i, pc, err>>
connVars == <<tls, gss, suits, open>>
netVars == <<link, toServer, toClient, losses, tokens>>
choiceVars == <<settings, dns, world>>
vars == <<choiceVars, searchVars, connVars, netVars>>

(* Mistakes the code could have made, as mutated forms for the properties.   *)
AnyByte(m) == TRUE                      \* startTLS does not look at the answer
NotDrained == pc' = "connected"         \* the rows of the validation stay open
AnyServerError(e) == e \notin {"dial", "tls", "io", "auth"}  \* the code is not looked at
Same == i                               \* the loop does not go on
LeftOpen == UNCHANGED open              \* the socket is not closed when startTLS fails

--------------------------------------------------------------------------------
(* The targets *)

\* configTLS: "any" is TLS with whoever answers, "ca" wants a certificate of the
\* root, "full" one that also names the host.
TLSConfigs(s) ==
    CASE s.sslmode = "disable" -> <<"no">>
      [] s.sslmode = "allow" -> <<"no", "any">>
      [] s.sslmode \in {"", "prefer"} -> <<"any", "no">>
      [] s.sslmode = "require" -> IF s.rootcert THEN <<"ca">> ELSE <<"any">>
      [] s.sslmode = "verify-ca" -> <<"ca">>
      [] s.sslmode = "verify-full" -> <<"full">>

\* The hosts in order, each with the ways to use TLS; none on a Unix socket.
FallbackConfigs(s) ==
    FlattenSeq([n \in DOMAIN s.hosts |->
        LET h == s.hosts[n]
            ways == IF h \in UnixHosts THEN <<"no">> ELSE TLSConfigs(s)
        IN  [k \in DOMAIN ways |-> [host |-> h, tls |-> ways[k]]]])

\* expandWithIPs: one target for each address of the host.
ExpandWithIPs(d, fbs) ==
    FlattenSeq([n \in DOMAIN fbs |->
        LET fb == fbs[n]
            ips == d[fb.host]
        IN  [k \in DOMAIN ips |-> [host |-> fb.host, addr |-> ips[k], tls |-> fb.tls]]])

Resolves(d, s) == \A n \in DOMAIN s.hosts : s.hosts[n] \in DOMAIN d

Server == world[targets[i].addr]

\* The peer is verified in the handshake.  ServerName is the setting "host": with
\* several hosts it is their list, and no certificate names that.
PeerOk(t, v) ==
    CASE t = "any" -> TRUE
      [] t = "ca" -> v.trusted
      [] t = "full" -> v.trusted /\ Len(settings.hosts) = 1

--------------------------------------------------------------------------------
(* Messages *)

Msg(type, val) == [type |-> type, val |-> val]
Burst == <<Msg("R", "ok"), Msg("S", "-"), Msg("N", "-"), Msg("K", "-"), Msg("Z", "-")>>

Arrived == toClient # <<>>
Broken == toClient = <<>> /\ link = "down"
Reads == toClient' = Tail(toClient) /\ UNCHANGED <<link, toServer, losses, tokens>>
Sends(m) ==
    /\ link = "up"
    /\ toServer' = <<m>> /\ toClient' = IF Arrived THEN Tail(toClient) ELSE <<>>
    /\ UNCHANGED <<link, losses, tokens>>
SendFails == link = "down"

--------------------------------------------------------------------------------
(* The ways an attempt ends *)

\* The server error codes that break the loop over the targets.
EndsSearch(e) == e \in {"28P01", "28000"}

AtLast == i = Len(targets)
NextTarget == i + 1

CloseSocket == open' = open \ {i}
CloseAfterTLS == open' = open \ {i}

Closed ==
    /\ link' = "none" /\ toServer' = <<>> /\ toClient' = <<>>
    /\ tls' = FALSE /\ gss' = FALSE /\ suits' = FALSE
    /\ UNCHANGED <<losses, tokens, targets, choiceVars>>

\* connectFallbackConfig returns an error, and connect goes on or not.
Fails(e) ==
    /\ err' = e
    /\ IF EndsSearch(e) \/ AtLast
       THEN pc' = "failed" /\ UNCHANGED i
       ELSE pc' = "dial" /\ i' = NextTarget
    /\ Closed

\* The errors of startup are panics: errRecover, then the deferred Close.
Panics(e) == CloseSocket /\ Fails(e)

\* startTLS failed: connectFallbackConfig closes the socket.
TLSFails(e) == CloseAfterTLS /\ Fails(e)

\* errRecover passes a runtime error on; only connect's own recover stops it.
RuntimeError ==
    /\ pc' = "failed" /\ err' = "runtime"
    /\ CloseSocket /\ Closed
    /\ UNCHANGED i

--------------------------------------------------------------------------------
(* connect *)

Lookup ==
    /\ pc = "lookup"
    /\ LET ts == IF Resolves(dns, settings)
                 THEN ExpandWithIPs(dns, FallbackConfigs(settings)) ELSE <<>>
       IN  IF ts = <<>>
           THEN pc' = "failed" /\ err' = "lookup" /\ UNCHANGED <<targets, i>>
           ELSE pc' = "dial" /\ targets' = ts /\ i' = 1 /\ UNCHANGED err
    /\ UNCHANGED <<choiceVars, connVars, netVars>>

\* Refused, or given up after connect_timeout or what the system allows.
DialFails ==
    /\ pc = "dial"
    /\ ~Server.listens
    /\ Fails("dial")
    /\ UNCHANGED open

Dial ==
    /\ pc = "dial"
    /\ Server.listens
    /\ open' = open \cup {i} /\ link' = "up"
    /\ IF targets[i].tls = "no"
       THEN pc' = "hello" /\ toServer' = <<>>
       ELSE pc' = "sslAnswer" /\ toServer' = <<Msg("SSLRequest", "-")>>
    /\ UNCHANGED <<choiceVars, targets, i, err, tls, gss, suits, toClient, losses, tokens>>

IsS(m) == m.type = "S"

StartTLS ==
    /\ pc = "sslAnswer" /\ Arrived
    /\ IsS(Head(toClient))
    /\ tls' = (Head(toClient).type = "S") /\ pc' = "hello"
    /\ Reads
    /\ UNCHANGED <<choiceVars, targets, i, err, gss, suits, open>>

StartTLSFails ==
    /\ pc = "sslAnswer"
    /\ \/ Arrived /\ ~IsS(Head(toClient))
       \/ Broken
    /\ TLSFails("tls")

--------------------------------------------------------------------------------
(* startup and auth *)

\* sendStartupPacket; its first byte makes the TLS handshake happen.
Hello ==
    /\ pc = "hello"
    /\ tls => PeerOk(targets[i].tls, Server)
    /\ Sends(Msg("startup", "-")) /\ pc' = "startup"
    /\ UNCHANGED <<choiceVars, targets, i, err, connVars>>

HelloFails ==
    /\ pc = "hello"
    /\ SendFails \/ (tls /\ ~PeerOk(targets[i].tls, Server))
    /\ Panics("io")

\* The codes that auth answers with a password message, and those it answers the
\* way the server expects: the others carry a second length field.
Answered ==
    {"password", "md5", "md5sha256", "sm3"} \cup
        IF settings.password THEN {"sha256", "sha256-md5"} ELSE {}
WellFormed(code) == code \in {"password", "md5", "sha256", "sm3"}

Skipped == {"K", "S", "N"}
StartupSkips ==
    /\ pc = "startup" /\ Arrived
    /\ \/ Head(toClient).type \in Skipped
       \/ Head(toClient) = Msg("R", "ok")
    /\ Reads
    /\ UNCHANGED <<choiceVars, searchVars, connVars>>

AuthAnswers ==
    /\ pc = "startup" /\ Arrived
    /\ Head(toClient).type = "R" /\ Head(toClient).val \in Answered
    /\ Sends(Msg("password", WellFormed(Head(toClient).val) /\ settings.password))
    /\ pc' = "authAnswer"
    /\ UNCHANGED <<choiceVars, targets, i, err, connVars>>

\* GSSAPI: a token, and more of them.  Continue may fail, or be done: then there
\* is nothing to send, and its error is not looked at.
AuthGss ==
    /\ pc = "startup" /\ Arrived
    /\ \/ /\ Head(toClient) = Msg("R", "gss") /\ settings.krb
          /\ Sends(Msg("token", "-"))
       \/ /\ Head(toClient) = Msg("R", "gssContinue") /\ gss
          /\ Sends(Msg("token", "-")) \/ Reads
    /\ gss' = TRUE
    /\ UNCHANGED <<choiceVars, searchVars, tls, suits, open>>

AuthRefuses ==
    /\ pc = "startup" /\ Arrived
    /\ Head(toClient).type = "R"
    /\ \/ Head(toClient).val \notin Answered \cup {"ok", "gss", "gssContinue"}
       \/ Head(toClient).val = "gss" /\ ~settings.krb
       \/ Head(toClient).val \in Answered \cup {"gss", "gssContinue"} /\ SendFails
    /\ Panics("auth")

AuthAccepted ==
    /\ pc = "authAnswer" /\ Arrived
    /\ Head(toClient) = Msg("R", "ok")
    /\ Reads /\ pc' = "startup"
    /\ UNCHANGED <<choiceVars, targets, i, err, connVars>>

\* recv panics with the server's error, or with that of the read.
StartupFails ==
    /\ pc \in {"startup", "authAnswer"}
    /\ \/ Arrived /\ Head(toClient).type = "E" /\ Panics(Head(toClient).val)
       \/ Broken /\ Panics("io")

--------------------------------------------------------------------------------
(* ValidateConnect *)

Validates == settings.tsa \notin {"any", "prefer-standby"}

\* The server is ready: this is the connection, or it is asked for its role.
\* Left out: with connect_timeout, connectFallbackConfig resets the deadline once startup
\* is over, and an error of SetDeadline would leave the socket open.  A connection of
\* package net gives one only when it has been closed, and nobody has closed this one.
Ready ==
    /\ pc = "startup" /\ Arrived
    /\ Head(toClient).type = "Z"
    /\ IF Validates
       THEN Sends(Msg("query", "-")) /\ pc' = "query"
       ELSE Reads /\ pc' = "connected"
    /\ UNCHANGED <<choiceVars, targets, i, err, connVars>>

\* query returns with the first row: having read the header it reads on.  Upon an
\* error, before the header or after it, it returns no rows, and Next is called on the
\* rows that are not there, and Close after it.
Query ==
    /\ Arrived
    /\ \/ pc = "query" /\ Head(toClient).type = "T" /\ pc' = "row"
       \/ pc \in {"query", "row"} /\ Head(toClient).type = "E" /\ pc' = "noRows"
    /\ Reads
    /\ UNCHANGED <<choiceVars, targets, i, err, connVars>>

NilRows ==
    /\ \/ pc = "startup" /\ Arrived /\ Head(toClient).type = "Z" /\ Validates /\ SendFails
       \/ pc = "noRows" /\ Arrived
       \/ pc \in {"query", "noRows"} /\ Broken
    /\ RuntimeError

Suits(role) ==
    CASE settings.tsa = "read-write" -> ~role.readOnly
      [] settings.tsa = "read-only" -> role.readOnly
      [] settings.tsa = "primary" -> ~role.recovery
      [] settings.tsa = "standby" -> role.recovery

Drains == pc' = "drain"

\* The one row of the answer ends query, and Next gives it out.  The deferred Close
\* reads the rest.
Row ==
    /\ pc = "row" /\ Arrived
    /\ Head(toClient).type = "D"
    /\ suits' = Suits(Head(toClient).val)
    /\ Drains
    /\ Reads
    /\ UNCHANGED <<choiceVars, targets, i, err, tls, gss, open>>

\* A link that breaks after the header: query returns the rows with the error, and it
\* is Next that fails.
RowFails == pc = "row" /\ Broken /\ Panics("io")

RowsClose ==
    /\ pc = "drain" /\ Arrived
    /\ IF Head(toClient).type # "Z"
       THEN Reads /\ UNCHANGED <<choiceVars, searchVars, connVars>>
       ELSE IF suits
       THEN Reads /\ pc' = "connected" /\ UNCHANGED <<choiceVars, targets, i, err, connVars>>
       ELSE Panics("role")

\* The error of Close is not looked at.
RowsCloseFails ==
    /\ pc = "drain" /\ Broken
    /\ IF suits
       THEN pc' = "connected" /\ UNCHANGED <<choiceVars, targets, i, err, connVars, netVars>>
       ELSE Panics("role")

--------------------------------------------------------------------------------
(* The environment *)

Says(msgs) ==
    /\ toClient' = toClient \o msgs
    /\ toServer' = <<>>
    /\ UNCHANGED <<choiceVars, searchVars, connVars, link, losses>>

ServerAnswersSSL ==
    /\ Head(toServer).type = "SSLRequest"
    /\ Says(<<Msg(IF Server.tls THEN "S" ELSE "N", "-")>>)
    /\ UNCHANGED tokens

\* No session, not without TLS, no need to authenticate, or a question.
ServerStartsUp ==
    /\ Head(toServer).type = "startup"
    /\ CASE Server.refuses # "no" -> Says(<<Msg("E", Server.refuses)>>)
         [] Server.refuses = "no" /\ ~tls /\ ~Server.clear -> Says(<<Msg("E", "28000")>>)
         [] OTHER -> IF Server.auth = "ok" THEN Says(Burst)
                                           ELSE Says(<<Msg("R", Server.auth)>>)
    /\ UNCHANGED tokens

ServerAuthenticates ==
    /\ \/ /\ Head(toServer).type = "password"
          /\ IF Head(toServer).val /\ Server.knows
             THEN Says(Burst) ELSE Says(<<Msg("E", "28P01")>>)
          /\ UNCHANGED tokens
       \/ /\ Head(toServer).type = "token"
          /\ IF Server.knows THEN Says(Burst) ELSE Says(<<Msg("E", "28000")>>)
          /\ UNCHANGED tokens
       \/ /\ Head(toServer).type = "token" /\ tokens < MaxTokens
          /\ Says(<<Msg("R", "gssContinue")>>)
          /\ tokens' = tokens + 1

ServerShowsRole ==
    /\ Head(toServer).type = "query"
    /\ LET row == Msg("D", [recovery |-> Server.recovery, readOnly |-> Server.readOnly])
       IN  CASE Server.queries = "ok" ->
                    Says(<<Msg("T", "-"), row, Msg("C", "-"), Msg("Z", "-")>>)
             [] Server.queries = "fails" ->
                    Says(<<Msg("E", "57014"), Msg("Z", "-")>>)
             [] OTHER ->
                    Says(<<Msg("T", "-"), Msg("E", "57014"), Msg("Z", "-")>>)
    /\ UNCHANGED tokens

ServerActs ==
    /\ link = "up" /\ toServer # <<>> /\ Server.answers
    /\ ServerAnswersSSL \/ ServerStartsUp \/ ServerAuthenticates \/ ServerShowsRole

\* The token it waits for does not come: authentication_timeout.
ServerGivesUp ==
    /\ link = "up" /\ pc = "startup" /\ gss /\ toServer = <<>> /\ toClient = <<>>
    /\ Server.answers
    /\ toClient' = <<Msg("E", "timeout")>>
    /\ UNCHANGED <<choiceVars, searchVars, connVars, link, toServer, losses, tokens>>

\* A link breaks; what was on its way may be lost with it.
ConnBreaks ==
    /\ link = "up" /\ losses < MaxLosses
    /\ link' = "down" /\ losses' = losses + 1
    /\ \E n \in 0..Len(toClient) : toClient' = SubSeq(toClient, 1, n)
    /\ UNCHANGED <<choiceVars, searchVars, connVars, toServer, tokens>>

--------------------------------------------------------------------------------

Init ==
    /\ settings \in Settings /\ dns \in DNS /\ world \in [Addresses -> Servers]
    /\ targets = <<>> /\ i = 0 /\ pc = "lookup" /\ err = "none"
    /\ tls = FALSE /\ gss = FALSE /\ suits = FALSE /\ open = {}
    /\ link = "none" /\ toServer = <<>> /\ toClient = <<>>
    /\ losses = 0 /\ tokens = 0

\* What connect does next.
Continues ==
    \/ Lookup \/ DialFails \/ Dial \/ StartTLS \/ StartTLSFails
    \/ Hello \/ HelloFails
    \/ StartupSkips \/ AuthAnswers \/ AuthGss \/ AuthRefuses \/ AuthAccepted \/ StartupFails
    \/ Ready \/ Query \/ NilRows \/ Row \/ RowFails \/ RowsClose \/ RowsCloseFails

ServerSteps == ServerActs \/ ServerGivesUp

Next == Continues \/ ServerSteps \/ ConnBreaks

Spec == Init /\ [][Next]_vars

\* connect goes on while it can, and so does a server that answers at all.
FairSpec == Spec /\ WF_vars(Continues) /\ WF_vars(ServerSteps)

--------------------------------------------------------------------------------
(* Properties *)

Finished == pc \in {"connected", "failed"}
ServerMessageTypes == {"S", "N", "R", "E", "K", "Z", "T", "D", "C"}

\* The types of the variables; the link is that of the open socket.
TypeOK ==
    /\ settings \in Settings /\ dns \in DNS /\ world \in [Addresses -> Servers]
    /\ targets \in Seq([host : Range(settings.hosts), addr : Addresses, tls : {"no", "any", "ca", "full"}])
    /\ i \in Nat /\ (pc \notin {"lookup", "failed"} => i \in DOMAIN targets)
    /\ pc \in {"lookup", "dial", "sslAnswer", "hello", "startup", "authAnswer", "query",
               "noRows", "row", "drain", "connected", "failed"}
    /\ tls \in BOOLEAN /\ gss \in BOOLEAN /\ suits \in BOOLEAN
    /\ open \subseteq DOMAIN targets
    /\ link \in {"none", "up", "down"}
    /\ Len(toServer) <= 1
    /\ \A k \in DOMAIN toClient : toClient[k].type \in ServerMessageTypes
    /\ losses \in 0..MaxLosses /\ tokens \in 0..MaxTokens

\* However an attempt ends - refused, without TLS, with an error of the server, a
\* panic, a server of the wrong role - its socket is closed before the next one is
\* opened; when Connect fails none is left, and when it succeeds just the one that
\* it returns.
NoSocketLeft ==
    IF pc \in {"lookup", "dial", "failed"} THEN open = {} ELSE open = {i}

\* Neither the startup packet nor the password is sent in the clear, or to a peer
\* that was not verified, unless sslmode allows to (or the socket is a local one).
Secret(m) == m.type \in {"startup", "password", "token"}
MayBeClear == settings.sslmode \in {"", "disable", "allow", "prefer"}
MustVerify ==
    \/ settings.sslmode \in {"verify-ca", "verify-full"}
    \/ settings.sslmode = "require" /\ settings.rootcert
SecretsGuarded ==
    (\E k \in DOMAIN toServer : Secret(toServer[k])) =>
        \/ targets[i].host \in UnixHosts
        \/ /\ ~tls => MayBeClear
           /\ MustVerify => Server.trusted

\* The connection that is returned is in step: nothing is left to read, in
\* particular not the rows of the question for the role, so the first answer the
\* application reads is the one to its first query.
ReturnedInStep ==
    pc = "connected" => toServer = <<>> /\ toClient = <<>>

\* What the servers promise, seen from outside.
LogsIn(v) ==
    \/ v.auth = "ok"
    \/ v.auth \in {"password", "md5", "sha256", "sm3"} /\ settings.password /\ v.knows
    \/ v.auth = "gss" /\ settings.krb /\ v.knows

Accepts(t) ==
    LET v == world[t.addr]
    IN  /\ v.listens
        /\ IF t.tls = "no" THEN v.clear ELSE v.tls /\ PeerOk(t.tls, v)
        /\ v.refuses = "no" /\ LogsIn(v)
        /\ Validates => v.queries = "ok" /\ Suits(v)

\* The login is refused, or the question for the role fails, whether before the header
\* of the answer or after it: this ends the search.
IsFinal(t) ==
    LET v == world[t.addr]
    IN  /\ v.listens /\ (t.tls = "no" \/ (v.tls /\ PeerOk(t.tls, v)))
        /\ \/ v.refuses = "28000"
           \/ /\ v.refuses = "no"
              /\ \/ t.tls = "no" /\ ~v.clear
                 \/ v.auth # "ok" /\ ~LogsIn(v)
                 \/ Validates /\ v.queries # "ok"

\* As long as no link breaks, Connect returns a connection to the first target, in
\* the order of the connection string, that accepts it.  It fails only when there is
\* none, or when one before it has refused the login for good or failed the question
\* for its role.
FirstAcceptable ==
    Finished /\ targets # <<>> /\ losses = 0 /\ tokens = 0 =>
        IF pc = "connected"
        THEN Accepts(targets[i]) /\ \A j \in 1..(i - 1) : ~Accepts(targets[j])
        ELSE \A k \in DOMAIN targets :
                 Accepts(targets[k]) => \E j \in 1..(k - 1) : IsFinal(targets[j])

\* Connect returns if the servers that take a connection answer: each target is tried at
\* most once, and no attempt waits for an answer that will not come.
Terminates == <>Finished
================================================================================
