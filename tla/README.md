# TLA+ models of openGauss-connector-go-pq

Specifications, model-checking configurations and machine-checked proofs for the
concurrent core of the openGauss driver for Go (package `pq`). Paths such as
`notify.go:342` refer to the repository's sources.

To use them: `tlc -config ListenerSafety.cfg MCListener` checks a run (its module is the
`MC` module of the component where there is one, else the component's own),
`tlapm ListenerConn_proofs.tla` checks proofs.

## 1. The system

The driver connects `database/sql` (or a caller's own goroutines) to an openGauss or
PostgreSQL server over one socket per connection. Its parts:

| part | state it keeps | operations | hard behaviour |
|---|---|---|---|
| `ListenerConn` (notify.go) | `connState` (atomic), `err`, two mutexes, `replyChan` (2 places), `notificationChan`, the socket | `Listen`, `Unlisten`, `UnlistenAll`, `Ping`, `ExecSimpleQuery`, `Close`; goroutine `listenerConnMain` | many goroutines and one reader; errors from either side; loss and close at any moment |
| `Listener` (notify.go) | `lock`, `isClosed`, `cn`, `channels`, condition variable, `Notify` (32 places) | `Listen`, `Unlisten`, `UnlistenAll`, `Ping`, `Close`; goroutine `listenerMain` | reconnection, resync, waits with a lock held, wake-ups, events |
| context cancellation (conn_go18.go) | channel `finished`, `txnFinish`, `conn.err` | `watchCancel` and its finish function, `cancel` | the end of the context races the end of the query; a cancel request on another socket |
| COPY FROM (copy.go) | `inCopy`, buffer, `done`, result and error under a mutex | `prepareCopyIn`, `Exec`, `CopyData`, `Close`; goroutine `resploop` | two goroutines on one connection, errors that arrive later |
| connection protocol (conn.go, rows.go, error.go) | transaction status, `err`, scratch buffers, open rows | simple and extended query, prepare, begin, commit, rollback, close | staying in step with the server after errors; which errors make a connection unfit for reuse |
| startup and authentication (conn.go, ssl.go, scram/, rfcdigest.go, krb) | TLS or not, the GSSAPI provider, the server's settings | `ssl`, `startTLS`, `startup`, `auth` | what goes out depends on the answer before it; every error is a panic |
| connector and failover (connector.go, conn_validate.go) | list of targets, the last error | `connect`, `expandWithIPs`, `connectFallbackConfig`, validation of `target_session_attrs` | one step of several failing, and whether the search goes on |
| arrays (array.go) | position, depth, dimensions and elements of the parser | `Value` and `Scan` of each array type | indexes and a division by what was counted on the way |
| encoding (encode.go, buf.go) | none | COPY's text format, bytea, timestamps, quoting | texts inside texts; boundary values |
| configuration (config.go, url.go, pgpassfile/, pgservicefile/) | settings | parsing of DSNs, URLs, files; expansion into hosts and TLS modes | escaping; a writer and a reader apart |
| parallel search (parallel.go) | a pool per goroutine, result channel, wait group | `ExecuteMultiSearch` | dividing the work, closing the channel, failing pools |
| oids, error codes, hstore, uuid, logging | none, or tables | conversions | none for a model checker |

`Listener` owns one `ListenerConn` at a time and calls it with `Listener.lock` held; the
`ListenerConn` owns a connection. All talk to the server through it. `database/sql`
calls the connection, its rows, statements and COPYs from one goroutine at a time;
cancellation is what brings a second one in.

What makes each part correct: for `ListenerConn`, that answers reach the query they
belong to, that failure is reported once, finally and with its reason, and that loss or
`Close` releases everybody; for `Listener`, that the server listens on what the Listener
says it does whatever failed in between, that gaps are marked, that nobody waits for
ever; for cancellation and COPY, that two goroutines never both believe they own the
connection and that a connection goes back to the pool only when it is in step with the
server; for failover, that the first server that would do is the one connected to, that
no attempt leaves a socket behind and that no secret goes out unprotected; for the
formats, that what one end writes is what the other end reads; for the parallel search,
that every list of arguments gets its own answer and that the search ends.

## 2. Modules

| module | models | uses |
|---|---|---|
| `ListenerConnAPI` | what a `ListenerConn` promises its callers | |
| `ListenerConn` | `ListenerConn` | instantiates `ListenerConnAPI` as refinement |
| `ListenerConn_proofs` | theorems about `ListenerConn` | |
| `Listener` | `Listener`, over what `ListenerConnAPI` promises | |
| `Listener_proofs` | theorems about `Listener` | |
| `Conn` | `conn`, `stmt`, `rows` and transactions of one pooled connection, message by message | |
| `Conn_proofs` | theorems about `Conn` | |
| `CancelWatch` | `watchCancel`, `cancel` and the calls of one pooled connection, goroutine by goroutine | |
| `CancelWatch_proofs` | theorems about `CancelWatch` | |
| `CopyIn` | a COPY FROM: the caller's goroutine, `resploop`, both directions of the connection | |
| `CopyIn_proofs` | theorems about `CopyIn` | |
| `Connect` | one call of `connect`: targets, dialling, TLS, startup, authentication, validation | |
| `Connect_proofs` | theorems about `Connect` | |
| `Text` | the formats that are functions of a text: bytea, COPY rows, quoted SQL, connection strings, password file, timestamps | |
| `ArrayText` | `parseArray`, as the state machine it is | extends `Text` |
| `Arrays` | `Value` and `Scan` of the array types | extends `ArrayText` |
| `Formats` | each format as a conversation of its writer and its reader | extends `Arrays` |
| `Formats_proofs` | theorems about `ArrayText` and `Formats` | |
| `ParallelSearch` | `ExecuteMultiSearch` | |
| `ParallelSearch_proofs` | theorems about `ParallelSearch` | |
| `MCListenerConn`, `MCListener`, `MCConn`, `MCConnect`, `MCFormats` | small instances | |

`Conn` and `CancelWatch` are two views of the same connection. `Conn` has one goroutine
and every message; `CancelWatch` has every goroutine and one request per call. They meet
in `conn.err`: whatever sets it, `Conn` says that a connection which has it set is not
given to another call except `Ping`. `CopyIn` has two goroutines and every message of a
COPY, and `Connect` ends where `Conn` begins: `ReturnedInStep` of the one is the initial state
of the other.

### ListenerConn

State. `connState` and `err` are the fields; `senderLock` is its holder. `connectionLock`
is not a variable: only `listenerConnMain` holds it across two steps (setting `err`,
closing the connection), which is the reader position `"closing"`, and whoever needs the
lock waits for that to pass. `replyChan` is the channel's contents, `notifs` the number
of notifications in `notificationChan`. `wire` holds messages sent by the server and not
yet received, `todo` those it has still to send. A message is a type and the query it
answers; the type stands for what `listenerConnLoop` does with it. `rpc`/`pc` say where
the reader and each sender are.

Actions. A sender runs `ExecSimpleQuery(s)` or `Ping(s)` (the call), then
`AcquireSenderLock`, `CheckErr` (both in `acquireSenderLock`), `SetExpectResponse`,
`WriteQuery` or `WriteFails` (`sendSimpleQuery`), `FailSetErr` and `FailClose` (its error
path), or `RecvReply`, `RecvReplyClosed`, `ReadErr` (the wait loop). Steps are split
exactly where another goroutine can come in between: at locks, channel operations, the
socket, and between the release of a lock and the next effect. The reader has one action
per case of `listenerConnLoop`'s switch, one per blocking channel send, and four for the
end of `listenerConnMain`. The server answers in order, may send a notification at any
time, a fatal error, or vanish.

Left out: what a query says, the text of errors (four kinds are told apart), the 'X'
message of `conn.Close` (nothing depends on its arrival).

### Listener

State. `lock` is the holder of `l.lock` when it is held across steps: by a client whose
query is on the connection, or by `Main` in `connect` (resync). Sections that take and
release it with nothing blocking in between are one step, guarded by `LockFree`. A waiter
on `reconnectCond` is at `"waiting"`; `Broadcast` moves all to `"relock"`. `link` is the
current connection: `"up"`, `"lost"` (abandoned; its reader still has to end) or
`"ended"` (its notification channel is closed). `session` is what the server listens on
for this connection. `answer` is the outcome of the query in progress. `sent` is a
history of what was sent on `Notify`.

Why a `ListenerConn` may be reduced to that: `Listener` holds its lock around every query,
so there is one at a time; `ListenerConn` implements `ListenerConnAPI` (checked and
proved), which says that a query is admitted only while the connection is usable, that
one not executed fails only after it was abandoned, and that abandonment is final; and
`AbandonedIsCleanedUp` says that an abandoned connection's notification channel is closed
in the end.

Actions are named after the methods and the steps of `connect`, `resync`,
`listenerConnLoop` and `disconnectCleanup`. `resync`'s own goroutine and the loop that
drains notifications are `ResyncListen`/`ResyncReturns`/`ResyncLost` and `ResyncIgnores`.
`connChan` counts the notifications in the channel and the one in the hands of a reader that
finds it full (`ReaderBlocked`): until somebody receives, that reader passes on no answer and no
further notification, and does not end if the connection is lost. Notifications may come ahead of the
answer to the first `LISTEN` of a connection.

Left out: durations of sleeps, doubling of the interval, error values.

### Conn

State. `bad` is `conn.err`, with the reason for which it was set; `txnStatus` the field;
`saved` the message of `saveMessage`. `prog` is what the call in progress has still to do,
as a sequence of steps named after the functions of conn.go: requests to send
(`"sendQuery"`, `"sendParse"`, `"sendBind"`, ...) and functions that read
(`"readParseResponse"`, `"simpleExec"`, `"postExecuteWorkaround"`, `"next"`, ...). `todo`
is what the server has still to answer, in steps of its own. `err`, `res` and `tag` are
the local variables of the function that reads. `ret`, `inTx`, `rows` and `prepared` are
what `database/sql` knows and holds. `link` is the state of the socket: up, or with a last
ErrorResponse to come, or how reading fails, in the three ways `errRecover` tells apart
(`io.EOF`, a `net.Error`, any other).

Actions. One per function that reads (`SimpleExec`, `SimpleQuery`, `ReadParseResponse`,
..., `RowsNext`), taking one message each, chosen among those the server may send next;
`Send` for the requests, which on a broken connection fails in `send` with or without bytes
written (`safeRetryError`); `RecvFails` for `errRecover` on an error of reading. `Call`,
`Begin`, `Commit`, `Rollback`, `Ping` and `RowsCall` are the entry of each method with its
checks and early returns; `Discard` is the pool's replacement of a connection that returned
`ErrBadConn`.

The server is modelled from how the driver uses it: it queues the steps of a request,
answers them in order, may fail each, and after an error skips to Sync; it keeps a
transaction status which a statement of the application may change as well.

Left out: columns, formats and values; what COPY does after its first message (`CopyIn`,
with `inCopy`); several statements prepared at the same time;
calls made while rows are open on the same connection, which `database/sql` allows in a
transaction and the protocol does not.

### CancelWatch

State. For each call `k` with a context: `app[k]`, where its own goroutine is; `watcher[k]`,
where the goroutine that `watchCancel` started is; `token[k]`, whether `finished` holds a
token (the channel of `stmt.watchCancel` has no buffer and needs no variable);
`ctxDone[k]`. `bad` is `conn.err`, `main` the socket, with `"garbled"` for one that somebody
else has read from or written to. `executing` is the call whose request the server is
executing, `requests` the cancel requests on their way, `hits` a history of which
request cancelled which call.

Actions. `Start`, `BeginTx`, `EndTx` begin a method; `Send`, `Refused`, `Ends` are its
request; `ConnFinish` and `StmtFinish` the two finish functions. `Fires`, `TakesToken`,
`Marks` and the steps of `cancel` (`DialFails`, `DialSucceeds`, `StartsTLS`, `SeesEOF`,
`LosesCancel`) are the watcher. Each channel operation, the setting of `conn.err` and each
use of a socket is a step.

Left out: what a call sends and reads, and the 10 seconds for dialling (a dial may fail
at any time).

### CopyIn

State. `bad`, `inCopy` and `txnStatus` are the connection's; `stmt`, `buffer`, `copyErr`,
`result` and `done` the statement's (`done` is the number of values in the channel). `pc` is
where the caller's goroutine is, `"rest"` between two calls, and `resp` where `resploop` is.
`toServer` and `toClient` are the messages on the connection; `mode`, `received` and `stxn`
belong to the server. `given` is a history of the rows that `Exec` and `CopyData` accepted.

Actions. `Prepare`, `CopyInStarts`, `CopyInPanics`, `CopyAborted`, `PrepareReads` are
`prepareCopyIn`; `Exec` and `CopyData` (both `PutRow`, with the capacity of their buffer),
`ExecRefused`, `Sync` (`Exec` without values), `Close` and its steps `CloseFlushes`,
`CloseSendsDone`, `CloseReturns` are the statement; `Resploop`, `ResploopReadFails` and
`Signal` the goroutine. `Query`, `ConnExec`, `ExtendedRequest` (`Exec` with arguments,
`Prepare` and the methods of other statements) and `EndTx` are the other users of the
connection, as far as they touch `inCopy`, the messages and the transaction. The server may
start the COPY as asked, as COPY TO or as a COPY of a file, fail at any row, send notices, and
vanish.

All of these may be called while a COPY is open, a second `Prepare` too, since only `Query`
looks at `inCopy`. `database/sql` itself does so when it rolls back a transaction whose context is
cancelled, and an application does with a `tx.Exec` between two rows. Two goroutines then wait for
answers of which the first may get the other's, so nothing can be promised from there on. The
history variable `beside` says that it has happened, and the properties are about what everybody
relies on up to that moment: `OneReader` says that nothing else leads there. Behind it the model goes
on with the newest statement and the goroutine of the oldest; nothing is checked there.

Left out: values and their encoding (module `Text`), the schema and table names.

### Connect

State. `settings`, `dns` and `world` are the connection string, what host names resolve to
and the server at each address; they are chosen in the initial state and never change.
`targets`, `i` and `err` are the local variables of `connect`. `tls`, `gss` and `open` belong
to the attempt: whether `cn.c` is a TLS connection, whether `cn.gss` is set, and the attempts
whose socket is open. `suits` is what the validation has found out.

Operators. `TLSConfigs`, `FallbackConfigs` and `ExpandWithIPs` make the list of targets as
`configTLS`, `ParseConfig` and `expandWithIPs` do.

Actions. `Lookup`; `Dial`, `DialFails`; `StartTLS`, `StartTLSFails`; `Hello`, `HelloFails`;
one per case of `startup` and `auth`; `Ready`, which returns or asks for the server's role;
`Query`, `Row`, `RowsClose` and how each of them fails. What an attempt ends with is one of
three: `TLSFails` (closed by `connectFallbackConfig`), `Panics` (closed by a `defer`, after
`errRecover`), `RuntimeError` (passed on by `errRecover`, so that it ends the whole search).
`Fails` is what `connect` does next. `Query` is `simpleQuery` up to the first row: an error before
the header or after it leaves the validation without rows, which is the runtime error (`NilRows`).

Left out: digests and tickets (a credential is right or wrong, an answer is well formed or
not), the certificates' files, environment and defaults (they are settings by then), how
long a dial takes, and an error of resetting the deadline after startup (connector.go:253-256), which
would leave its socket open: package net reports one for a closed connection only, and this one
nobody else has yet.

### Text, ArrayText, Arrays and Formats

Bytes are their codes, a text a sequence of them. `Text` holds the formats that are functions
of a text, each beside the reader or writer at its other end: `CopyRow` and the server's
`ReadRows`, `EncodeBytea` and `ParseBytea`, `QuoteIdentifier`, `QuoteLiteral` and the server's
lexer, `Accrue` (`ParseURL`, from the parts of the URL on) and `ParseDSN`, `ParseLine`,
`FindPassword` and libpq's way to write an entry, `FormatTimestamp`, `ParseTimestamp` and
the server's timestamps. They are recursive functions and folds.

`ArrayText` has the four loops of `parseArray` as values of `pc`: `"open"`, `"element"` (with
`"quoted"` and `"plain"`), `"after"`, `"close"`. `i`, `depth`, `dims` and `elems` are the local
variables (positions count from 1). `Arrays` adds what each array type writes and what it
makes of the elements; numbers are what the constant `Numbers` lists, since strconv's
conversions are not the repository's.

`Formats` composes them: the initial state picks a value of some kind and its writer makes
the text `src`; arrays are then parsed step by step and scanned, the others read in one. NULL
is scanned without being parsed, into a nil slice; into a Go array it is an error, as is
an array of another length. A zero byte ends the query string, so that a literal that holds one
has no closing quote.

Left out: the digits of numbers, dates without a time and times of day, the bounds of
arrays with explicit dimensions (refused by the parser), the URL's own syntax (package
net/url), the merging of settings.

### ParallelSearch

State. `main` is where the caller's goroutine is, `worker[w]` where goroutine `w` is,
`pool[w]` its pool, `next[w]` its next list of arguments; `wg` is the WaitGroup, `chan` and
`closed` the channel, `results` what is returned. `answer` is a history of what each query
gave.

Actions. `Connect` makes a pool and tries it, or fails and closes those made before; `Spawn`
starts a goroutine for the next chunk (`ChunkSize`, `StartOf`, `EndOf`) or stops; `Settings`,
`Query`, `Close`, `Done` are a goroutine, with the deferred calls in their order;
`CloseChannel` is the goroutine that waits for the WaitGroup; `Collect` and `Return` the end.
A send on the closed channel is a panic, `main = "panicked"`.

Left out: the pools' own connections, and what the settings do to the queries.

## 3. Runs

All pass unless the last column says otherwise.

| run | instance | shows |
|---|---|---|
| `ListenerConn` | 2 senders, 1 query each, 1 notification, channel of 1, replies `SC`, `E`, `CC`, `X` and `C` for `Ping`; 208 000 states | the inductive `AnswerInv`, `ReplyIsOwn`, `PingNeverPanics`, refinement of `ListenerConnAPI`, `CallsReturn`, `AbandonedIsCleanedUp` |
| `ListenerSafety` | 2 clients, 2 channels (symmetric), all methods, channels of capacity 1; 611 000 states; deadlock checked | the inductive `IInv`, `SessionInSync`, `GapMarked` |
| `ListenerLive` | 2 clients, 1 channel, `Listen`, `Close`; 84 000 states; deadlock checked | `CallsReturnOnceClosed`, `LossIsHandled` |
| `ListenerCloseRace` | 1 client, `Close` | violated: `CloseShutsDown` |
| `Conn` | 14 query strings of one and two statements, every kind of statement extended, up to 2 rows; 13 000 states | `TypeOK`, `InStep`, `RetryIsSafe`, `CommitIsTrue`, `TxnIsOwn`, `NoRowLost`, `CallReturns` |
| `CancelWatch` | 2 calls or transactions, with and without TLS; 58 000 states | `FinishSettles`, `CancelHitsOwn`, `FinishReturns`, `WatchersEnd` |
| `CancelWatchTLS` | 1 call, TLS | violated: `StmtKeepsConn` |
| `CopyIn` | 2 COPYs of 0, 1 and 2 columns, 2 rows, buffers of 1 row and of none, 1 unasked message, all other calls at any time; 1 083 000 states | `OneReader`, `InStep`, `OutcomeIsTrue`, `CallReturns`, `ResploopIsOver` |
| `CopyInBeside` | the same | violated: `SoleReader` |
| `Connect` | 15 connection strings (every sslmode, every `target_session_attrs`, one and two hosts, a Unix socket), 2 resolutions, every pair of 14 servers, 1 lost link; 343 000 states | `NoSocketLeft`, `SecretsGuarded`, `ReturnedInStep`, `FirstAcceptable`, `Terminates` |
| `Formats` | short values and texts over the bytes each format treats specially; see `MCFormats` | `NoFault`, `ArrayRoundTrip`, `TextRoundTrip`, `ConfigRoundTrip`, `TimeRoundTrip` |
| `ParallelSearch` | up to 5 lists of arguments, 4 goroutines, 1 failing query, any settings and pools failing; 472 000 states | `InPlace`, `PoolsClosed`, `Returns` |

The comment above each property in its module says which code it is about. Some properties
are in no run because they are proved for every instance (section 4): `NoTwoQueries`,
`ReplyNeverBlocks`, `NotExecutedHasErr`, `AbandonedForGood`, `ErrStable`, `ErrBeforeClose`,
`NoLostWakeup`, `NilNeverSet`, `DimIsLength`, and `TypeOK` of every module but `Conn` (its run
checks it as well) and `Connect` (neither checked by a run nor proved as it stands; `SearchInv`
of the proofs types what the search depends on).

Bounds. Two senders are enough for one to hold `senderLock` and one to wait for it, and
the second query meets what the first left behind. A notification channel of capacity 1 is
full after one notification, so blocking happens; `replyChan` keeps its 2 places. In
`Listener` nothing is counted: connections may fail and be made again without bound, so all
reachable states of two clients and two channels are explored. `Conn` counts nothing
either: calls follow each other without bound on a connection that is replaced whenever it
has to be. Two rows make a row that was read ahead differ from the ones read after it; a
string of two statements lets the second fail after the first returned rows, begin or end
a transaction behind `Begin` and `Commit`, or start a COPY. In `CancelWatch` two calls are a
cancelled one and one that a late cancel could hit, or a transaction and a call in it. In
`CopyIn` a buffer of one row is flushed by the second, `CopyData` flushes each row and a row that
`Exec` puts after it is left for `Close`, and a second COPY meets what the first left. In
`ListenerLive`, `Ping` would only repeat the path of `Listen`'s query; `ListenerSafety` has it.
In `Connect` two addresses let one fail before and one
after the server that would do; two addresses in two TLS modes make four targets; one link
may break at every message. Five lists of arguments for four goroutines make chunks of two, the
last goroutine but one gets a short one and the last none; that is the least instance in
which a pool stays open. `Formats` takes every text of up to five bytes after the opening
bracket over brackets, quote, comma and a letter, which reaches every place of the parser
and every way to fail there.

`CHECK_DEADLOCK FALSE`: with all queries or COPYs made, all arguments answered, the search
for a server over or the text read, those systems rightly stop; in `Conn` a panic ends the
program.

Fairness. Goroutines that can run do (weak). A goroutine that waits for a mutex gets it
in the end (strong: Go's mutexes hand over to a waiter that starves). The server answers
a query or the connection breaks: fairness of the server's answer, which a break
disables. In `Listener` it is strong, since the answer cannot be received while the reader is blocked:
the server answers after finitely many notifications, and if each time somebody makes room,
the answer comes; if nobody does, it does not, and that is what `ListenerLive` would find. The application receives from `Notify`. Nobody has to call a method, no dial has
to succeed, no notification has to come. `Conn` assumes that the goroutine in the call runs
and that the server answers a request or the connection breaks, which is one condition: a
read step is enabled exactly when there is something to read. `CancelWatch` assumes that
goroutines run and that the server ends what it executes and sees to cancel requests,
unless their connection breaks; no context has to end. `CopyIn` assumes that both goroutines
run and that the server takes the messages it gets; nobody has to close a COPY. `Connect`
assumes that the call goes on while it can and that a server that takes connections answers:
the code bounds the dial only, and a silent server does hold it up (below). `ParallelSearch`
assumes that goroutines run and that queries return.

Disagreements between the code and its documentation or comments:

- `CloseShutsDown` (notify.go:750): `Close` while `listenerMain` dials or sleeps closes
  nothing; `connect` does not look at `isClosed`, so the connection it then makes is kept and
  the goroutine waits on it. Line 773 says that `Close` shuts the Listener down.
- `StmtKeepsConn` (conn_go18.go:162): `cancel` calls `startTLS` on the connection to be
  cancelled (`cn`) instead of the new one (`can`).
- `SoleReader` (conn.go:589): only `query` looks at `inCopy`; `conn.Exec`, `Prepare`, the methods
  of other statements, `Commit` and `Rollback` read the connection while `resploop` does. copy.go:348
  takes care that this does not happen in `Close`.

Exceptions that properties make because the code has them: `RetryIsSafe` (`io.EOF` during an
answer becomes `ErrBadConn`, and `database/sql` repeats a statement that may have been
performed); `CancelHitsOwn` (a cancel request whose connection broke before the server saw it
may hit a later call of a statement's connection); `PoolsClosed` and `TimeRoundTrip` name
theirs.

Seen on the way, where no document says otherwise:

- Listener: after `Close` no `Disconnected` event is emitted (notify.go:846); `Listen` whose
  query is cut off by a lost connection returns nil at once, not after the resync (583).
- Connection: `Ping` sends its query on a connection marked bad (conn_go18.go:95). After
  rows, an unexpected message (a COPY as second statement) is returned as an error without
  marking the connection bad (rows.go:194), and the COPY stays open: with the query string
  `<<"select", "copyIn">>` TLC finds `InStep` violated. `NoCopyAfterRows` leaves such strings
  out, in the run and as the hypothesis of the theorems.
- COPY: the byte taken for the format is not it when the number of columns is even, so a
  binary COPY is refused for odd ones only (copy.go:147-154); a COPY without columns is a
  runtime error; COPY TO that sends rows marks the connection bad; a `Close` that cannot send
  leaves `inCopy` set. After a request beside an open COPY not only may a call hang: if
  the request takes the error and the 'Z' of the COPY and `resploop` the 'Z' of the request, `Close`
  returns nil for a COPY that has failed (without `~beside`, TLC finds `OutcomeIsTrue` violated).
- Connect: only dialling is bounded by `connect_timeout` (connector.go:149). Codes 28000 and
  28P01 end the search, so `allow` and `prefer` do not try the other mode when pg_hba.conf
  refuses the first. `verify-full` with several hosts never connects, since the server name is
  their list. An error of the validation query, before or after the header of its rows, or a
  connection lost before it is a nil dereference that ends the search (conn_validate.go:27). `"prefer-standby"` validates nothing. The answers to md5sha256
  and to sha256 with md5 carry a second length field. The error of a GSSAPI `Continue` is not
  looked at. One host that cannot be resolved fails all.
- Formats: a DSN that ends in a backslash within a quoted value is indexed beyond its end
  (config.go:583). `FormatTimestamp` is wrong for 29
  February BC and for zones of less than a minute west. An array of empty arrays is
  written without them; a nil element of a `ByteaArray` reads back empty; ragged arrays are
  accepted if their lengths divide the number of elements. Spaces at the ends of a line of
  the password file are trimmed. `serverVersion` is never set (conn.go:1363), so bytea is
  written in the escape format.
- Parallel search: the pools that no goroutine was started for stay open, and so does the
  one whose `Ping` fails; settings are lost when a pool replaces its connection.

## 4. Proofs

Each holds for every value of the constants that satisfies the named assumptions of its
module, which the runs evaluate on their instances.

`ListenerConn`, for every set of senders, every set of replies and every bound:

| theorem | says |
|---|---|
| `TypeCorrect` | `TypeOK` |
| `Invariance` | `IInv` |
| `ReaderNeverBlocks` | `ReplyNeverBlocks` |
| `OneQueryAtATime` | `NoTwoQueries` |
| `FailureHasReason` | `NotExecutedHasErr` |
| `FailureIsFinal` | `AbandonedForGood` |
| `ErrorBeforeClose`, `FirstErrorStays` | `ErrBeforeClose` and `ErrStable` |
| `Refinement` | `Spec => ImplementsAPI` |
| `AnswersInvariance` | `AnswerInv` |
| `RepliesAreOwn` | `ReplyIsOwn` |
| `PingDoesNotPanic` | `PingNeverPanics` |

None of the properties is inductive. `IInv` adds what the argument turns on. `LockInv`:
who is between acquiring and releasing `senderLock` is its holder. `PendingInv`: the
protocol state bounds the replies accepted and not yet taken (none while a response is
expected, at most one while `ReadyForQuery` is expected, at most two ever), and a 'Z' is
the last of them and leaves the protocol idle. So a reply never finds the channel full.
`QuietInv`: while the connection is usable and nobody holds the lock, the protocol is idle
and nothing is pending; so the next query starts idle. `ErrInv` and `ErrBeforeClose`: where
`err` is known to be set; a query that ends without 'Z' leaves the connection abandoned,
which is what makes `QuietInv` hold. All this holds whatever the server sends.

Whose reply a sender gets does depend on the server, and `AnswerInv` adds what is on the wire.
`WireInv`: as long as the reader can accept a reply, all that is sent or still to be sent is for
the query that is waited for, and its 'Z' comes last (`OneReadyAssumption`, what the protocol
promises). `IdleInv`: once the protocol is idle nothing is owed. So the next query finds
neither replies nor messages of the last. A fatal error, which the server sends unasked, is
taken for a reply; `FatalInv` says that nothing comes after it, so that a `Ping` whose answer it
is has no other and does not go on to the `panic`; a `Ping` gets no error of its own
(`PingRepliesAssumption`: an empty query does not fail, `PingInv`). The step of `WriteQuery` is where
the parts meet: the answer that is queued there is for the sender that starts to wait.

`Conn`, for every set of query strings of one or two statements and every number of rows:

| theorem | says |
|---|---|
| `TypeCorrect` | `TypeOK` |
| `InvariantHolds` | `IInv` |
| `StaysInStep` | `InStep` |
| `RetriesAreSafe` | `RetryIsSafe` |
| `TxnsAreOwn` | `TxnIsOwn` |
| `NoRowsLost` | `NoRowLost` |
| `CommitsAreTrue` | `CommitIsTrue` |

All but the last assume `NoCopyAfterRows`; without it `InStep` is violated (see above).

A call is a program, `prog`, of which requests and reading functions are taken off one by one,
and the server has a program of its own, `todo`. `CallInv` lists the programs that each call
runs through (`Stages`). `AgreeInv` is the core: for every place in a program it says what `todo`
can be there, as long as the connection is up and not marked bad. Before a request is sent and
between calls nothing is owed (`Idle`); after it what is owed begins with the answer that the
next function reads and ends in the only `"sync"` (`Batch`); while rows are open what is owed is
rows and their end, without a COPY among them (`RowsGoOn`; `QueryInv` and `ExecInv` for the simple
protocol, where the statements' results follow each other). The proof has a lemma for each of the
server's steps, which take from the front of `todo`, and for each function of the driver, with one
case per message type in the order of its switch: each message that the program does not
understand marks the connection bad, and with the ones that it does both programs move on
together. An error is the delicate case, since the server drops all up to `"sync"` and the driver
has to be at a function that reads up to it. `SavedInv` says that a message read ahead
(`saveMessage`) is there for who reads next, and never 'Z' or an error. `RetryInv`: up to the
last request of a call nothing has been performed, so `ErrBadConn` of a send may be retried;
after it only an `io.EOF` says `ErrBadConn`, which is the exception `RetryIsSafe` makes. `BeginInv`
is the check of the transaction status at the start of `Begin`, which by `Idle` is the server's;
`FetchInv` that `Query` stops at the first row, which `SavedInv` keeps for `Next`. `CommitIsTrue`
needs neither agreement nor hypothesis: only which programs a Commit runs through and that a 'Z'
is never read ahead, so that tag and status come from one answer.

`Listener`, for every set of clients and channels, every subset of the methods and every
capacity:

| theorem | says |
|---|---|
| `TypeCorrect` | `TypeOK` |
| `Invariance` | `IInv` |
| `SessionAgrees` | `SessionInSync` |
| `WaitersAreWoken` | `NoLostWakeup` |
| `GapsAreMarked` | `GapMarked` |

`IInv` of `Listener`: `LockInv` says who holds `l.lock` from one step to the next
(`listenerMain` exactly from the start of `resync` to its end, a client exactly while its
query is on the connection) and that `l.cn` is set exactly from the end of `resync` to
`disconnectCleanup`, so nobody changes `channels` behind a query or a resync. `SyncInv`
accounts for the session at every point in between: during `resync`, what was listened on,
is being listened on and has still to be adds up to `channels`; during a query, the
session is `channels` before the server has executed it and the query's effect on
`channels` after. It speaks of a usable connection only: a lost one is replaced, and its
session with it. `GapInv` says that a gap in what was forwarded exists only where the nil
is still to come. The proof has one step per action; only the holder of the lock and the
server disturb `SyncInv`, and the frames of the other actions give the rest.

`CancelWatch`, for every number of calls, with or without TLS:

| theorem | says |
|---|---|
| `TypeCorrect` | `TypeOK` |
| `Invariance` | `IInv` |
| `CallsAreSettled` | `FinishSettles` |
| `CancelsHitTheirOwn` | `CancelHitsOwn` |
| `NilIsNeverSet` | `NilNeverSet` |

`IInv` of `CancelWatch`: `UseInv` says that the connection is used by one call at a time,
within the transaction it was made in. `TokenInv` says who put a token in `finished`: while
the call goes on only its watcher can have, and exactly when it has gone past its `select`
because the context ended; so a finish that finds a token knows that the watcher may cancel
and that `ctx.Err()` is not nil. `RequestInv` says that a cancel whose call is over finds the
connection closed and unused, unless the call was of a statement; for a statement, finish
and the watcher have met, so the watcher is done and a request still on its way has been
lost from sight. `CancelHitsOwn` needs all three: the call that is hit is the one that uses
the connection, and so is, or is in the transaction of, the one whose cancel is pending.

`CopyIn`, for every number of COPYs, rows and columns and every size of the buffers:

| theorem | says |
|---|---|
| `TypeCorrect` | `TypeOK` |
| `SignalNeverBlocks` | when `resploop` ends, `done` has room |
| `OneReaderHolds` | `OneReader` |
| `StaysInStep` | `InStep` |
| `OutcomesAreTrue` | `OutcomeIsTrue` |

`DoneInv` says that the value in `done` is `resploop`'s last act, so at its end there is none;
a statement gets a new channel. `ReadingInv` says that while `resploop` runs `inCopy` is set,
which keeps queries away, and that a statement that is closed while it runs leaves the
connection marked bad or broken, which keeps everything else away. So only what does not look at
`inCopy` and comes while the statement is open gets to read beside `resploop`, and `beside` is set by
the same step: all the invariants below hold up to there, and `beside` stays (`BesideStays`,
`LastingInv`). The run `CopyInBeside` shows such a step. `TypeCorrect` needs that a buffer exceeds its
capacity only if a flush failed, and then the connection is bad and takes no further row.

`InStep` rests on `StepInv`, about a connection that is up and not marked bad. `RequestInv`: a
request is the last message sent, and the caller is at the place that waits for its answer.
`ReadyInv`: a 'Z' is the last message to come, and its status is the server's. `PhaseInv`: the
server is in the COPY only while the driver is. `SettledInv`: between calls, and once `resploop`
has ended, everything sent has been read. `OutcomeIsTrue` rests on `FlowInv` and `TruthInv`.
`FlowInv` cuts the rows given into what the server has, what each message on the way carries and
what is in the buffer, by a function `cut` from the messages to the rows: it exists at the start
of a COPY, a flush extends it and a message received shortens it, so an end of data that arrives
finds the server with all rows. `TruthInv` follows the verdict: a 'C', on its way or seen, is that
of a complete COPY, an error leaves the transaction aborted or the link down, and `resploop`
does not end at a 'Z' without one of the two.

`Connect`, for every set of connection strings, resolutions and servers:

| theorem | says |
|---|---|
| `SocketsClosed` | `NoSocketLeft` |
| `InStepWhenReturned` | `ReturnedInStep` |
| `SecretsAreGuarded` | `SecretsGuarded` |
| `FirstAcceptableIsFound` | `FirstAcceptable` |

`NoSocketLeft` is inductive: each of the ways an attempt ends removes its own socket.
`ReturnedInStep` is not. `StepInv` adds the shape of what can be on the connection: nothing is
sent before the answer to what was sent last has been read, a 'Z' is the last message of an
answer, and a request of the authentication is alone in its; so whoever has read a 'Z' has
read everything, whichever messages were skipped, refused or cut off.

`SecretsGuarded` needs to know what the targets can be: `TargetsAllowed` says that each comes from
the settings, with one of the TLS modes that `sslmode` allows. The targets are a concatenation of
concatenations, so its type (`FlattenType`) is by induction on the number of parts, through the
least number for which it would fail. `GuardInv` says that whatever is past the TLS handshake
is a TLS connection exactly if the target says so, and then with the peer it asks for.
`FirstAcceptable` is about connections that nothing breaks (`Quiet`). `HonestInv` says for each place
of an attempt what the server may have sent and whether it will accept (`AttemptInv`: `InStartup`,
`InAuthAnswer`, `InQuery`, ...), and that each target left behind was not acceptable
(`OutcomeInv`). A search that fails has tried all targets, or met a final error, which is the
exception that the property names.

`ArrayText`, for every text and all delimiters of which none begins with `{` (`NoBracket`):

| theorem | says |
|---|---|
| `TypeCorrect` | `TypeOK` |
| `NeverFaults` | `NoFault`: no index out of range, no division by zero |
| `LengthIsTrue` | `DimIsLength`: an array of one dimension has as many elements as counted |

`DepthInv` says that every open bracket has its place in `dims` and that every place of a
closed one, or of one not opened yet since, has counted something; the text can only be
accepted with all brackets closed, so nothing in `dims` is zero by then. `LengthInv` says that
counting lags behind by the element just read, until its delimiter or bracket; a text that
ends in between, or opens one bracket too many, is refused.

`Formats`, for every set of texts, of byte sequences and of rows for a COPY:

| theorem | says |
|---|---|
| `TextArrives` | `TextRoundTrip`: COPY's fields, bytea in both formats, quoted identifiers and literals |
| `ArraysArrive` | `ArrayRoundTrip` for arrays of one dimension (`IsLinear`) and NULL, if no delimiter begins with a bracket or a byte of NULL (`PlainDelimiters`) |
| `EveryArrayArrives` | `ArrayRoundTrip` in full, if besides arrays of arrays are rectangular and no row is empty (`RectangularArrays`) |
| `ReadersNeverFault` | `NoFault`, for every text and every array that `Value` writes, arrays of arrays too, if no delimiter begins with `{` (`NoBracket`) |

The assumptions are what the code guarantees or Go's types do: bytes are 0 to 255, no row of
a COPY is empty, since `Exec` without values ends the COPY (copy.go:270-276), and an array's
elements are of its type (`ArraysAssumption`). Of strconv it is assumed that it writes a number in
one way, and without commas, quotes and braces (`NumbersAssumption`). The lengths are
any; the run has texts of up to four bytes. `RectangularArrays` is a hypothesis of one theorem only,
since it is not always so: of rows of other lengths, `parseArray` refuses some and takes others
with the length of the last, and of empty rows `Value` writes nothing. The run has arrays
of one or two elements in each of two rows.

For text the argument is the same in each format. A writer makes one *part* of
text for each byte (`Doubled`, `HexParts`, `EscapeParts`, `TextParts`) or field (`RowParts`) and
concatenates them. `FlattenParts` says where each part begins in the whole. A reader
is an automaton that folds over the bytes; `RunExists` makes of the fold a function from positions
to states. For each part there is a lemma of what it does to the state wherever it begins
(`DoubledInside`, `BackslashesInside`, `HexSteps`, `ByteaOne`, `CopyOne`, `FieldRead`), which is
where a wrong escape would show; and `ReadParts` puts them together: if after `k - 1` parts the
state stands for `k - 1` bytes of the value and the next part takes it to `k`, then the end of the
text is read as the value. Both are inductions over positions for a given text, by the
least number for which they would fail (`UpTo`). For COPY the state keeps both what was unescaped
and the raw field, since NULL is told by the raw text `\N`; `NotNull` says that an escaped text never
looks so. A row is read within the relation of being anywhere between its first field and
its last (`ReadPartsIn`), and its newline ends it. A `[]byte` goes through both: `ValueArrives`
composes COPY's escape with bytea's. For a literal with backslashes the space and the `E` before
the quote choose the server's other lexer, and for text without, no backslash is read as an escape
(`NoEscape`). Quoting neither adds nor hides a zero byte (`LiteralHolds`), so the server meets the end
of the query string within the literal just when the text has one.

For an array the reader is `parseArray`, which takes a step for each element, so the invariant
is about where it is. `Layout` says where in the text of an array its elements are. `TextOf` relates
the text of one element to what it is read as: in quotes, byte by byte, or without, where no byte
may be a bracket, a quote or the beginning of the delimiter. `ListAt` says that the text is a list of such
elements from given positions to given positions, and `Place` that `parseArray` is at one of them, or at
the separator after it, with exactly the elements before it collected and `dims` counting them. For each
type `ReadsBack` says that the text of an element is read as the text from which `Scan` makes that
element again (`BoolReadsBack`, `GenericReadsBack`, `ByteaReadsBack`, ...); for a bytea that is the hex format inside
quotes inside the array, with its backslash escaped. An element of an array that happens
to be the string `NULL` is in quotes, and only an unquoted one is NULL (`WordOf`). A
delimiter that begins like a byte of NULL would end an unquoted NULL early, hence `PlainDelimiters`.

For arrays of arrays `ListWritten` is used twice: each row is the text of an array, and what is at a
place of a row is at a place of the whole, further on (`ElementMoves`, `RowIn`); and the rows
themselves are separated parts (`Separations`, `GridWritten`). The step within an element is the same as in
an array of one dimension (`ElementStep`). `GridPlace` says of the rest that between brackets and
delimiters two lengths are counted, the first by the rows that are behind and the second anew in each
row, and that the elements collected are the rows before and the elements of this row so far. Where
the rows are in the flattened array is `Packed`: row after row at multiples of their length, so that both
lengths divide the number of elements, as `parseArray` asks at the end. The delimiter cannot be a
bracket that closes, or a row would not end.

`ReadersNeverFault` is the invariant of `ArrayText` again, with the texts of `Value` among its texts (`FaultInv`).

`ParallelSearch`, for every number of lists of arguments, goroutines and errors:

| theorem | says |
|---|---|
| `TypeCorrect` | `TypeOK` |
| `Invariance` | `IInv` |
| `ResultsInPlace` | `InPlace` |
| `PoolsAreClosed` | `PoolsClosed` |

The lemmas `ChunksCover`, `ChunksApart` and `ChunksOwn` are the arithmetic of rounding up:
the chunks together reach the end, and no argument is in two. `CountInv` of `IInv` says that
the WaitGroup is the number of goroutines that run, so when it is zero and all are started
(`StartInv`) each has gone through its chunk (`ChunkInv`): nobody is left to send on the closed
channel, and every argument has an answer (`AnswerInv`), which is in the channel or in its
place (`ResultInv`). A pool is closed by its own goroutine (`PoolInv`).

`AnswerInv` of `ListenerConn` and `IInv` of `Listener` are properties of the runs as well; the other
inductive invariants are stated beside their proofs.

Only model-checked:

- Liveness (`CallsReturn`, `AbandonedIsCleanedUp`, `CallsReturnOnceClosed`, `LossIsHandled`,
  `CallReturns`, `FinishReturns`, `WatchersEnd`, `ResploopIsOver`, `Terminates`, `Returns`): the
  prover does not reason about fairness and enabledness.
- `ConfigRoundTrip` and `TimeRoundTrip`. The reader of a connection string goes from one place it
  searches for to the next, and the settings come in an order that is not the text's; a timestamp is
  digits and divisions at computed places. The library's induction theorems, which would shorten such
  proofs, take the statement as an operator, which the installed provers cannot instantiate.

## 5. Not modelled

- hstore, uuid, numbers and times of day: conversions of single values.
- The service file, defaults, the environment and the merging of settings: assignments in
  a fixed order that keep no state.
- Certificate and key files, their permissions, the cryptography of SCRAM, of the digests
  of rfcdigest.go and of Kerberos: an answer is right or wrong in `Connect`.
- The tables of oids and of error codes, logging, notices, the examples.
- `NotificationHandlerConnector`: it sets one field.
- The event callback of a `Listener` and what it may call; the reader of a connection
  whose resync failed with 32 notifications unread; the silent server of `Connect`; a COPY
  after rows in `Conn`; what the settings of a parallel search do to its queries. These are
  listed as hazards with the reason.
