# gocubrid: TLA+ models and proofs

gocubrid is a pure Go driver for CUBRID. This directory holds TLA+ models of
its core, the TLC configurations that check them on small instances, and
TLAPS proofs of the most important properties. The reference is always the Go
source; file names below are relative to the repository.

## 1. The system

```
 goroutines ── database/sql pool ── root package (conn, stmt, rows, tx, value)   SqlPool
                                          │ native API
   Exec, transactions   Stmt / Rows   OUT params  batches   schema      Session, Params, Rows,
   savepoints, params                                       LOBs        OutParams, Batch, Schema, Lob
                                          │ codec: values, replies      Values, Replies
                                          │ roundTrip
                        cubrid.Conn: socket, guard(ctx), poisoning      Conn, Rpc
                                          │ Connect / handshake, DSN    Connect, Dsn
                              broker ── CAS process (one per connection)   external
```

| component | state | operations | modelled in |
|---|---|---|---|
| `cubrid.Conn` (conn.go, frame.go) | socket, buffered reader, `bad`, `closed`, socket deadline | `roundTrip`, `guard`, `Close`, `Valid` | `Conn`, abstract `Rpc` |
| `cubrid.Connect` (conn.go) | hosts left, current socket, guards, errors so far | sweep, dial, greeting, redirect, TLS, auth | `Connect` |
| configuration (config.go) | the `Config` | `ParseDSN`, `splitAltHost`, Connect's second parse | `Dsn` |
| `cubrid.Stmt`, `cubrid.Rows` (stmt.go, rows.go) | server handle, `outRow`; buffered tuples, `pos`, `nextIndex`, `fetchedAll` | `execute`, `Query`, `Next`, `fetchNext`, `consumeFetch`, both `Close` | `Rows` |
| OUT parameters (stmt.go) | `outParams`, `outRow`, `paramCount` | `PrepareCall`, `RegisterOutParam`, `paramModes`, `OutValues` | `OutParams` |
| native session (conn.go, tx.go) | `autoCommit`, the open transaction, savepoints, statement handles | `Conn.Exec`, `Commit`, `Rollback`, `Savepoint`, `RollbackToSavepoint`, `SetAutoCommit` | `Session` |
| session parameters (cubrid/tx.go) | isolation level, lock timeout | `SetIsolationLevel`, `IsolationLevel`, `SetLockTimeout`, `Ping`, `ServerVersion` | `Params` |
| `database/sql` adapter (conn.go, tx.go, stmt.go, rows.go, value.go) | the native connection's `bad` and `autoCommit` | `ExecContext`, `QueryContext`, `BeginTx`, `Commit`, `Rollback`, `ResetSession`, `IsValid`, `mapErr`, `toDriverValue`, scan types | `SqlPool`, `Values`, `Lob` |
| LOBs (lob.go) | locator: size and packed handle | `NewBlob`/`NewClob`, `Append`, `ReadAt`, `ReadAll`, binding, materialising | `Lob` |
| batches (batch.go) | none | `ExecBatch`, `ExecBatchSQL` | `Batch`, `Replies` |
| schema (schema.go) | an internal statement owned by the Rows | `SchemaInfo`, `Tables`, `Columns`, `PrimaryKey`, `Indexes`, `ImportedKeys`, `ExportedKeys` | `Schema` |
| codec (internal/protocol) | none | `Reader`, `ReadStatus`, reply parsers, `EncodeParam`, `DecodeValue` | `Replies`, `Values` |
| numeric.go | none | binding and decoding in `Values`; `Scan`, `Float64` not modelled | `Values` |
| frame capture, recording proxy, fake broker | | | not modelled |

Components interact by plain calls downwards. There is one goroutine per
connection at a time; concurrency comes from the `AfterFunc` callback of
`guard`, which touches the socket from a goroutine of its own, from the CAS,
which carries out a request whether or not its caller still waits, and from the
clients that share connections through the pool one after the other.

What is hard, and what makes each part correct:

* **Pairing.** The wire protocol has no request numbers. A response belongs to
  a request only by its place in the stream, so a call that gives up early must
  make the connection unusable. Correct: a reply is always the caller's own.
* **Retry.** `database/sql` runs an operation again on `driver.ErrBadConn`.
  Correct: that error is returned only for requests that were never sent.
* **Cancellation.** A blocked read wakes up only through the socket deadline.
  Correct: every call whose context is done returns; `Close` returns.
* **Connecting.** Sockets are replaced in the middle of a handshake, attempts
  are bounded by a derived context. Correct: no socket is lost, no host is
  skipped, `Connect` returns.
* **Result blocks.** The server chooses the block sizes and tells the end in
  three different ways. Correct: each row exactly once and in order before EOF.
* **Pool neutrality.** A connection's next borrower must not see the
  transaction, handles, flags or late requests of the previous one.
* **Failed calls on a good connection.** A reply that cannot be parsed fails the
  call although the server has carried it out. Correct: what the calls told the
  application of its work is true, and only the handle such a reply carried,
  or one the server refused to close, stays behind.
* **Partial progress.** WRITE_LOB and READ_LOB move as few bytes as the server
  likes, and the locator keeps the size in two places. Correct: no byte is
  lost, repeated or misplaced; a short reply is not the end.
* **Shapes that are not announced.** Replies have version-dependent layouts and
  optional tails, batches no row boundaries, CALL rows more columns than
  PREPARE described, types two encodings, schema names wildcards. Correct:
  what is read is what was sent, for the row, marker, column or table meant.
* **Numbers at the edge.** Counts from the wire size allocations, a duration is
  narrowed to an int32, nesting is capped. Correct: never negative, never
  oversized, the cap exact.

`PROJECT.json` lists the hazards one by one, at the line where they bite, with
the properties that would catch each going wrong.

## 2. The modules

### Rpc and Conn

`Rpc` is the abstract promise: calls are numbered; an admitted call is executed
at most once; a reply is returned only after the call's own execution; after a
failure every later call is refused and never executed, and only the failed
call itself may still be executed late.

`Conn` is the implementation. The client's control points are `pc`: `"write"`
(in `WriteRequest`), `"hdr"` and `"body"` (the two `io.ReadFull` of
`ReadResponse`). `BeginCall` is the entry of `roundTrip` with the `closed`/`bad`
check and `guard`; `Fail` the two error branches; `Finish` the deferred guard
exit together with the end of `Close`. The AfterFunc callback of call `o` is
`cb[o]` (`armed`, `started`, `ran`, `stopped`): `stop()` acts on an armed one
only, as in package `context`. The socket deadline is `"none"`, `"past"` or a
context's deadline; `due[c]` (the instant has passed) and `ctx[c]` (the context
has noticed) are separate because the poller and the context's timer are. A
response is two cells, header and payload, that travel from the CAS to the
kernel buffer and from there into `Conn.br`, where they stay readable after the
deadline.

External: the CAS (executes, answers in two parts, may stop answering or send a
corrupt length), the network (a reset at any moment), contexts and the clock.

### Connect

The sweep (`Start`, `Fails`, `host`, `errs`) around one attempt (`DialOK`,
`GreetOK`, `GreetRedirect`, `RedialOK`, `Swap`, `TlsOK`, `AuthOK`). `Refused` is
any failure caused by the broker, `TimedOut` any failure of a wait whose
context ended. The callback acts on what `Conn.nc` is when it runs, so it may
hit the socket a redirect has just closed; the assignment of the new socket is
a step of its own. `handshake` replaces `c.nc` without synchronising with the
callback; the model lets the callback see the old or the new socket, not a torn
value.

### Rows

One prepared statement, executed up to `MaxExec` times; row `<<e, i>>` is row
`i` of execution `e`. `ConsumeFetch` is `consumeFetch`: the index advances
before a row is decoded, a row that cannot be decoded ends the block with an
error and leaves the rows before it buffered, `fetchedAll` follows the flag
(V5 on) or an empty block. `FetchReply` is what `Next` does with the block. A
request is open between its `Send` and its reply, which is where the query's
context can end. What `roundTrip` promises is taken from `Rpc`: a request gets
its own reply or the connection is poisoned. The sizes of blocks, the moment at
which the server sets the flag, and which rows cannot be decoded are the
server's choice.

### SqlPool

Clients run one-shot statements and queries (prepare, execute, rows, close) and
transactions over connections of a pool; each connection has a CAS with its
open transaction (`pending`), statement handles, isolation level and possibly
one abandoned request that will be carried out later (`late`). A round trip is
one step with all outcomes `Conn` allows: answered, rejected by the server,
carried out with a reply the driver cannot parse, or failed in transport with the
request lost, executed, or still to be executed. All but the last leave the
connection good, so what they leave on the server goes back to the pool with it:
a PREPARE reply that carries a handle but cannot be parsed (`PrepareUnparsable`)
and a rejected CLOSE_REQ_HANDLE (`CloseError`) each leave a handle nobody will
close, an `orphan`; `HandedOutNeutral` says that nothing else is left behind. An
END_TRAN whose reply is too short for its status has ended the transaction
though `Commit` or `Rollback` returned an error (`EndTranError`).
`Release` and the acquisition are `database/sql`'s (`putConn`, `conn`, retry on
`ErrBadConn` at most twice, no retry inside a transaction). `Abandon` is a
transaction begun on the raw driver connection (`sql.Conn.Raw`) and never ended,
the case `ResetSession` exists for.

### Session and Params

`Session` is the native connection with its transaction. `Conn.Exec` is three
steps (`PrepareReply`, `ExecuteReply`, `CloseReply`), each with its failures: the
server refuses (`PrepareError`, `ExecuteError`, `CloseError`), the reply cannot be
parsed (`ExecuteUnparsable`: it has run), or the connection is lost (`ExecFails`), in
which case the server drops the transaction. Savepoints are one-shot statements
too. The application's `ledger` is what it may conclude from the results;
`OutcomeAsTold` and `LedgerIsLog` compare it with the server's `log` and
`durable`. After an unparsable EXECUTE reply the application is in `doubt`, and
concludes nothing until the transaction ends; so it is after an END_TRAN whose
reply is too short for its status (`EndTransactionUnparsable`). As in `SqlPool`,
the handles of unparsable PREPARE replies and of rejected closes stay open
(`orphans`).

`Params` has the isolation level and the lock timeout on the server, with
`LockTimeoutMs` as the code computes it (integer division, clamp, conversion to
a signed integer of `MaxMs`'s width). `asked` is what the last successful call
wanted.

### OutParams and Batch

`OutParams`: markers are registered before or between executions, `Mode` is
`paramModes`, `Width` the padding `prepare` does for a stored procedure, a
value is `<<mode, marker, execution>>`. `Batch`: the arguments are sent without
row boundaries and the server takes them `paramCount` at a time, as the batch
request is built.

### Schema

`Call` picks one of the six lookups, `SchemaInfo` opens a server handle for one
request, `NextRow` pulls a row, `EndRows` maps the rows and `RowsClose` releases
the handle, unless the server rejects the close; `Indexes` makes two requests (`Grouped`, then `OwnRows` and
`MergePrimaryKey`). The catalogue is any small one, rows arrive in any order,
and `Siblings` says which tables a name matches when it is taken as a pattern.

### Lob

A LOB on the server (`content`), the writable locator `"new"` and the read-only
one `"row"` made from a column. `AppendReply`, `ReadReply` are one round of the
loops of `Append` and `ReadAt` with a reply of any size; `ReadAllNext` the loop
around `ReadAt`. `AppendBadReply` is a reply too short for its status, or with a
count no write can have: the call fails on a good connection, and the bytes may
be on the server (`garbled`); as the locator keeps its size, the server refuses
the next write, so they are not written twice. `SetSize` writes the size to the struct and to the packed
handle; `EncodeParam` sends the latter. `MaterializeBegin` is the adapter's cap
check in `toDriverValue`.

### Replies and Values

`Replies` reads replies byte by byte. A parser is a `plan`, the fields still to
be read; a count puts the fields of its items in front of the rest after the
guard (`CountFits`, `Refuses`), and `alloc` is the largest slice made for one
(`SliceLen`: for the parameter count one item more, the padding of a CALL). The layouts the server writes are stated apart
from the plans, per protocol version. A reply arrives whole, cut at any byte, or
with one count wrong.

`Values` follows a value from binding (`Encode`) or from a server column through
the column's type field (`ReadColumnType`) and `Decode` to the adapter
(`ToDriverValue`, `ScanType`). Integers are scaled down (2, 4 and 8 bits) but keep
two's complement. NULL has size 0 in requests and collections and -1 in rows; as
a zero-length argument means NULL, an empty `[]byte` binds as NULL. The recursion
of the decoder over nested collections is a function of the depth, up to
`MaxDepth`.

### Dsn

Parameters come out of a map in any order (`ParseNumber`, `ParseAltHosts`), then
`Resolve` is Connect's second parse of what the first stored. `SplitAltHost`
works on the characters of an entry; `Meant` is the reference it is checked
against.

## 3. The runs

| run | bounds | checks | result |
|---|---|---|---|
| `conn` | 3 calls; contexts: one cancellable, one with deadline, Close's, Background | pairing, quiet wire, ErrBadConn never sent, poison final, the inductive invariant, `Conn` implements `Rpc`; a cancelled call and `Close` return | holds |
| `conn_guard` | 2 calls | a call fails only for a reason of its own | violated |
| `connect` | 1 to 3 hosts, timeout and TLS on and off | no socket leak, sweep order, `Connect` returns | holds |
| `rows` | 2 executions, 3 rows together, FetchSize 2 | order, completeness at EOF, reading to the end terminates | holds |
| `rows_shared` | 2 executions, statement shared | rows belong to their own execution | violated |
| `rows_cancel` | 1 execution | an operation whose query context is done returns | violated |
| `pool` | 2 clients, 2 connections, 3 statements, 1 transaction, 2 levels, 1 orphaned handle at a time | executed once, transaction outcome, durability, neutral hand-out | holds |
| `pool_rejected` | 1 connection | the connection returns neutral | violated |
| `native` | `Session`: 3 statements, 3 items in a transaction, 2 savepoints; `Params`: an int32 of 3 bits, durations -3 to 17; `OutParams`: 3 markers, 2 executions; `Batch`: 3 rows of up to 3 values; `Schema`: 2 tables, 2 columns; in both 1 orphaned handle | what the application was told is what the server did, handles released, parameters as asked, OUT values and batch results their own, `Indexes` and `Columns` exact | holds |
| `schema_pk` | as `Schema` above | PrimaryKey is of its own table | violated |
| `data` | `Lob`: 3 bytes in chunks of 2, cap 2; `Replies`: 2 items per count; `Values`: depth 2; `Dsn`: 5 characters, ports up to 3 | streams whole, reads exact, calls end; replies read as sent, cut ones noticed, allocations bounded; values round-trip; DSN as meant | holds |

`native` and `data` each check several independent models in one run: `MC_Native`
and `MC_Data` choose in the initial state which of them a behaviour is of and
keep the variables of the others fixed, so that the state spaces add up instead
of multiplying. The models do not share state in the program either, beyond the
connection, whose part (answered, or failed and poisoned) is in each of them.

The bounds are enough for the interesting cases: three calls are an abandoned
one, one that could read its late response, and one after that (two calls
suffice for a late callback); three hosts have a first, a middle and a last
one, each with a redirect; three rows in blocks of at most two have an
inline block, full and short blocks and an empty one, and the second execution follows
one that has left rows behind; three statements are two of a transaction and one
of whoever gets the connection next (the two levels are the default and one that
is set; no property reads which), or one before, one after a
savepoint and one after the rollback to it; three items are two savepoints, of
the same name or not, with a statement before, between or after them. Durations run from
below zero past the clamp, by more than the width of the integer they would wrap
in. Three markers and three rows distinguish a shift from a swap. Two tables,
one of which matches the other as a pattern, with indexes whose rows interleave,
are what the grouping and the filter are for. A LOB of three bytes in chunks of
two has a full chunk, a partial one and a short reply to each. Two items per
count show whether one item's reading ends where the next begins; nesting is
tried up to, at and past the cap; five characters hold every form of an entry
(`[h]:1`). `CHECK_DEADLOCK` is off in the runs of `Conn`, `Connect`, `Rows` and
`SqlPool` because these models stop when their bound on calls, executions or
statements is used up, or when `Connect` has returned; `native` and `data` check
for deadlock, with an explicit `Stop` for the parts that end.

Every property of a passing run has a mutant in `PROJECT.json`: a small change
to a mapped definition, as a plausible bug would make it, under which the run
fails.

### What the violated properties show

1. `conn_guard`: `guard`'s exit does not wait for a callback that has already
   started. Its `SetDeadline(1970)` can land in the middle of the next call,
   which fails with a network error and poisons a healthy connection, although
   conn.go:203 says guard applies "for the duration of one operation". No data
   is lost (`conn` includes these behaviours).
2. `rows_shared`: FETCH names only the statement handle. Rows left open while
   their `Stmt` runs `Query` again return rows of the new result.
3. `rows_cancel`: `Rows.Next` fetches under `context.Background()`, so the
   README's "cancellation on every network operation" does not cover FETCH.
4. `pool_rejected`: `tx.Commit` and `tx.Rollback` turn autocommit on also when
   the server rejected END_TRAN; `ResetSession` then sees nothing to roll back.
   In `pool` the property `OnlyCommitCommits` makes an exception for a
   transaction whose END_TRAN returned an error: the next borrower's autocommit
   statement may commit the work.
5. `schema_pk`: `PrimaryKey` sends its table name flagged as a pattern and returns
   the rows as they come, so `PrimaryKey("go_t")` also lists the key of `goxt`.
   `Indexes` makes the same request and filters. `ImportedKeys` and
   `ExportedKeys` return pattern matches, too.

One behaviour of the pool is worth knowing though it contradicts nothing: the
isolation level `BeginTx` sets stays on the session when the connection goes back
to the pool, so a later transaction that asks for the default level runs at the
level of an earlier one. conn.go:108 documents the default as "leave the session
level alone", and `ResetSession` restores the transaction state and autocommit
only, as its comment says. `Params` checks that the server has the level that was
last asked for; no property says that it is put back.

### Fairness

`Conn` and `Connect` assume weak fairness of the steps of the goroutine that
runs the call where nothing blocks it (a read with data or a deadline in the
past returns, so does a write with its deadline in the past), of started
callback goroutines and of timers: the Go runtime gives all of these. A write
that could succeed is not fair (the kernel buffer may be full), and nothing is
assumed of the CAS, the brokers, the network or the caller. `Drains` of `rows` assumes
in addition that the caller keeps calling `Next` and that the CAS answers FETCH,
which is what the property is about, and `CallsEnd` of `data` that each LOB request
is answered or fails, and that a call on a poisoned connection returns, which
`Conn` shows for a call whose context ends. `rows_cancel` assumes only that the driver
reacts to a done context where the request runs under it.

## 4. The proofs

`Conn_proofs` proves, for any number of calls and any set of contexts, from
`MaxCallsAssumption` and `CtxAssumption`:
`Spec => []ConnInv`, and from it `TypeOK`, `ReplyIsOwn`, `QuietWhenValid`,
`BadConnNeverSent` and the action property `PoisonIsFinal`.

`ReplyIsOwn` alone is not inductive: it says nothing of the cells on the wire.
`ConnInv` adds `LockStep`, the heart of the argument: as long as the connection
is not poisoned, the one request in progress is in exactly one place (unsent,
under way, being executed, being answered, answered, or lost with the peer), and
between calls there is none. Every step of the client or the CAS moves it to the
next place; a failing step sets `bad`, after which `LockStep` claims nothing and
`InProgress` keeps further calls out. `OnlyAdmittedSent` and `Unmade` carry
`BadConnNeverSent`: a refused call gets a number nobody used before.

It also proves `Spec => RefinesRpc`. `ConnInv` says nothing of a request
whose caller gave up, so the step "the CAS executes it late" could not be matched
with the abstract `ExecuteCall`. `RequestPending` closes the gap: at most one
request is under way, it has not been executed, and every call made after it was
refused. With it each action maps to one abstract action (`BeginCall` to `Admit`,
`RoundTripBadConn` to `RefuseCall`, `CasExecute` to `ExecuteCall`, `ReadPayload`
to `ReplyCall`, `WriteFail` and `ReadFail` to `FailCall`) or to a stutter.

`Connect_proofs` proves, for any number of hosts, `Spec => []ConnectInv`, and
from it `NoSocketLeak` and `SweepInOrder`. `SocketsAt` says which sockets are
open at each point of an attempt, `SweepAt` that exactly the hosts before the
current one have failed; every failure, at whatever point, goes through one
lemma (`FailsInv`).

`Native_proofs` proves, of the session by itself, `TypeOK`, `OutcomeAsTold`,
`LedgerIsLog` and `StatementsClosed` from `SessionInv`. `OutcomeAsTold` is not inductive: a commit
makes the server's `log` durable, so the proof needs `LedgerIsLog`; and an
unparsable reply makes that one void, so `PendingOpen` and `CallIsFresh` say
what holds even in `doubt`: nothing the application was told is undone is in the
server's open transaction, and a statement that has not been executed yet is known
nowhere. `OneHandle`
says whose handle is open at each of the three steps of `Conn.Exec`, besides the
orphans.

It goes on to prove five properties as the run `native` states them, of the
composed specification `NativeSpec`, from `NativeConstants`. `NativeInv` is
`SessionInv` and, for the part that a behaviour is of:

* parameters: `TypeOK` and `ParamsAsAsked`, which together are inductive. The
  argument is the arithmetic of `LockTimeoutMs`: division and clamp stay within the
  signed integer for every width `MaxMs`, and only a negative duration becomes the
  endless wait.
* batches (`BatchInv`): what `ResultsAreRows` says of a batch that is done, `RanRows`
  says before its reply. The heart is `FlattenUniform`: rows of one length, put one
  after another, are found again by cutting every `paramCount` values; it is where
  `EveryRowFits` is needed.
* OUT parameters (`OutInv`): every row, on its way or in `outRow`, is an `OwnRow`.
  `late` is what makes it inductive: a marker registered after the execution was
  sent as IN. `RegisteredFacts` says that the loop of `OutValues` meets each
  registered marker once.
* schema lookups (`SchemaInv`): `OneSchemaHandle`, a handle is open while the rows
  of a request are pulled and only then, which `Indexes` passes through twice.

`FlattenSeq` and `Registered` are recursive functions. `FlattenDef` and
`RegisteredDef` show that they satisfy their own equations, and `SetInduction`, from
the well-foundedness of the numbers, takes the place of the library's induction
theorems: it speaks of a set, so the provers can instantiate it.

`Data_proofs` and `Replies_proofs`, which extends it, prove four properties as the
run `data` states them, of its specification `DataSpec`, for every value of the
constants: `RoundTrip`, `ScanTypeAgrees` and `AllocBounded` in the first,
`ReadAsSent` in the second.

* Values (`ValueInv`): by the phase a value is in, it is the given one, encoded,
  in a column of its type (`StoredOK`), or has the type the column announced and is
  the value that was bound (`DeliveredOK`). Most of the work is in the decoder: what
  `Decode` makes of what the encoder wrote, at every depth, and that a collection
  nested deeper than `MaxDepth` is refused.
* Bounds (`ReaderInv`): the reader's offset is within the payload and the largest
  slice within `AllocBounded`. It is proved first of `AnySpec`, the parsers on any
  sequence of bytes and with any plan, which is more than the replies, cuts and wrong
  counts of the run; `ReplyInit` then shows that every payload of `Init` is a
  sequence of bytes.
* Replies (`ReadInv`): the server's layouts and the parsers' plans, which the model
  states apart, are related by `Parses(k, p, fs)`: the plan `p` reads exactly the
  fields `fs`, whatever else follows them. It is a greatest fixed point (there is a
  relation `Q` that every step of the plan stays in), so it needs no induction over
  data, and it composes: `ParsesConcat`, `ParsesCount` (a count and its items, for any
  number of them). `Rest` adds the parts that may be absent. With it, for each kind of
  reply and every version, the plan reads what the server sends (`PrepareStarts`,
  `ExecuteStarts`, ...). `ParserInv` says that the parser stands between the fields
  `rd`, whose values are `vals` and whose width is `off`, and the fields `left`, which
  the plan still reads. For a reply that was cut there are two more cases: only
  fields that may be absent are left, or the plan is `Doomed`. The latter is what makes
  it inductive: with fewer bytes left than the count announces items, `Repeat` stops at
  one item more than there are bytes, so the plan is not the one the server's fields
  need; it has more entries than bytes, each takes one at least, and the parse cannot
  end in success. A server error has an invariant of its own (`ErrorInv`): its code
  is where `ReadStatus` looks for it.

The recursions are recursive functions here too (`PartsDef`, `DecodeDef` and their
like show that they exist), with `SetInduction` as above.

`Rows_proofs` proves `TypeOK` and `InOrder` from `OrderInv` (rows handed out, rows
buffered and `nextIndex` follow each other), for shared statements too.
`CompleteAtEOF` is false when an open `Rows` shares its statement (run
`rows_shared`), so `EOFIsTheEnd` has the hypothesis `SharedStmt = FALSE`. Its
invariant `CompleteInv` adds `OneCursor` (the server's cursor is on the result
that is being read) and `Accounted`: every row before `nextIndex` was handed out,
is buffered, or was undecodable and reported; `fetchedAll` only when none is left.

`Lob_proofs` proves `TypeOK`, `WholeStream`, `ReadsExact` and the action property
`BoundWhole` from `LobInv`, for every chunk size. `GatheredOK` says what the loops
in progress have moved so far (`buf` of `ReadAt` is the stretch of `content` from
the offset on, `all` of `ReadAll` around it the stretch from the first byte),
`CallOK` that a call in progress has something left to move, and `LocatorsOK` that
a locator's two sizes agree. All failures of a call go through one lemma
(`CallFails`): bytes the call does not report can be on the server only if the
write was at its end, which is where the next byte of the stream belongs.

`SqlPool_proofs` proves, from `PoolConstants`, for any number of clients,
connections, statements and transactions, all six invariants that `pool` checks.
The inductive invariant has three layers.

* `HoldInv`: no two clients hold the same connection, statement or transaction,
  and a late request exists only on a connection that is bad. Gives `TypeOK`.
* `OnceInv`: a statement that may still be sent was not executed, and waits at no
  server; a late one waits at one server only and was not executed. `ErrOK` is
  the driver's part of it: `ErrBadConn` is never the error of a statement that was
  sent. Gives `ExecutedOnce`.
* `TxInv`: whatever a server holds `pending` and may still make durable is something
  that may become durable (`PendingOK`, by the connection's mode and its late
  request); a running transaction's successful statements are pending at its own
  connection, with nothing of anyone else's but what the server refused to end
  (`TxOK`); a usable connection has only its client's handles and the orphans
  (`ConnOK`); one in the pool is usable and has only the latter (`PoolOK`). Gives `TxOutcome`,
  `OnlyCommitCommits`, `AutocommitDurable` and `HandedOutNeutral`.

The step for "the server carries out an abandoned request" (`CasLate`) is why the
last layer speaks of late requests: it may commit what is pending long after the
client has gone. Each action is first reduced to what it does (lemmas `...Does`),
which the three layers share.

TLC checked the three layers as invariants of `pool`'s instance before they were
proved, and the other inductive invariants likewise, but for `ReadInv`: it
quantifies over relations between plans and fields, which TLC cannot enumerate.

`TypeOK` and `RequestPending` of `Conn`, `ConnectInv` and `InBounds` of the reader
are proved for every value of the constants and have no run of their own; `TypeOK`
and `StatementsClosed` of `Session` are parts of properties of `native`.
`OutcomeAsTold` and `LedgerIsLog` are proved of `Session`'s own specification, of
whose invariant `NativeInv` has a copy.

Model-checked only:

* Liveness (`Drains`, `CallsEnd`, `ConnectReturns` and the like): the provers do
  not handle fairness.
* `LookupsExact`: `Schema` sorts with the library's `SortSeq`, which has no
  definition the provers can open.
* `DsnAsMeant`: it compares strings, character by character, with the numbers they
  stand for (`Itoa`, `Atoi`), for entries that are put together from both.

Those that are not liveness are compared with a reference over all small inputs.

## 5. Not modelled

* Frame capture, the recording proxy and the fake broker: I/O and test support.
* Prepared `sql.Stmt` objects: `database/sql` prepares them again on every
  connection they run on; `SqlPool` has the one-shot statements, which take the
  same driver path in one call.
* `Numeric.Scan` and `Float64`: number formatting by `strconv`.
* The check of savepoint names (a regular expression) and the reading of host,
  port, user and path (`net/url`).
* The contents of the greeting and of `dbInfo`, which are constants; scalar
  fields of schema rows (scale, default, rules).
* The element count of a collection and the short-buffer checks inside a value
  (codec.go): `Values` takes a value's bytes as they were encoded. Replies cut
  short are tried in `Replies`, down to the length of a value but not inside it.

## 6. Plan

Done: every component above with a module, and the proofs of section 4. Next:

1. `Dsn`: `DsnAsMeant`, from a lemma that `Atoi` undoes `Itoa`.
2. `Schema`: a definition of the sorted columns of an index that the provers can
   open, and with it `ColumnsExact` and `IndexesExact`.
