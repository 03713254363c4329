# A verification project for dqlited

dqlited runs dqlite, a SQLite database replicated with Raft, as a server with
a web interface, and as a command line that loads, queries and administers a
cluster. The consensus and the database itself are libraries (go-dqlite,
dqlite, database/sql, net/http); what this repository adds is the code between
them, and that code is the subject here. The modules in this directory are
translated from it, and the libraries appear only as the environment the code
runs in.

## 1. Inventory

| Component | Code | State | Operations | Interacts with |
|---|---|---|---|---|
| Web API | `web.go`, `db.go:818-888` | one context variable per endpoint, shared by its requests; per request an open `sql.DB`, the reply | `/db/execute/`, `/db/query/`, `/status` | the application (`dq.Open`, `dq.Leader`), net/http (contexts, hang-ups) |
| Server life cycle | `cluster.go:290-380` | the application, the listener, the channel `ch` | start, wait for a signal or a `/shutdown`, drain, close | the web API, signals |
| Statement execution | `db.go:137-213, 285-343` | the circuit breaker, attempts | `DBX.exec`, and the loops around it and `DBX.query`: `Eval`, `queryFile`, `Batch` | database/sql's pool of one connection |
| Transactional load | `db.go:588-699` | a transaction, a channel of lines, the file | `loadFile` with the batch flag, `liner`, `transact` | two goroutines, the database |
| Batch interpreter | `db.go:702-810` | the statement being collected, the trigger flag, a transaction | `DBX.Batch`, `CleanText` | `DBX.exec`, `DBX.query`, the pool |
| Connection cache | `db.go:235-283, 366-381` | `dbxDB`, the registered driver | `getDB`, `NewConnection`, `Close` | every command, once per process |
| Cluster membership | `cluster.go:45-113, 261-286`, `main.go:195-338`, `client.go:62-106` | none of its own; the members and their roles live in the cluster | add, assign, transfer, remove, show | the leader of the cluster |
| Hammer | `hammer.go` | counters `good`, `fails`, `last` | a loop of inserts | the database |
| Dump | `db.go:527-585` | the files of a dump | `dbDumper`, `FileWriter` | the leader, the file system |
| Output, logging | `db.go:60-213`, `client.go:20-60`, `log.go` | none | formatting | |
| Command line | `main.go`, `solo.go`, `unit.go` | flags | wiring | everything |
| Build and deployment | `Makefile`, `docker/`, `scripts/` | | | |

What is hard about it, and what makes each part correct:

* **Web API.** Goroutines share a context that is stored in one step and read
  in a later one, so a request may open its database under the context of a
  peer that has hung up or finished. The statements of a request are not a
  transaction. Correct means: what Open gets is the context of a request for
  the same endpoint, and requests never depend on each other in a circle; what
  a reply says is true; every database opened is closed on every path.
* **Server life cycle.** The `/shutdown` handlers and the main goroutine meet
  on a channel without a buffer, from which main receives once, and the drain
  waits for all handlers, and with them for their clients: nothing bounds the
  time a client takes to send a body or to read an answer. Correct means: the
  application outlives its handlers; a stop is clean; a stop that has begun
  ends, unless a handler is left blocked or a client does not keep pace.
* **Statement execution.** A statement whose answer is lost is sent again,
  by database/sql and by `exec`, and may be applied by either send, or later.
  Correct means: sends are bounded, effects are no more than sends, results
  are true of the statement, every call returns. Where a command executes
  several statements, each takes effect only when those before it have, what
  comes late is a repeat, no statement waits for a connection that the command
  itself keeps, and every command ends.
* **Transactional load.** Two goroutines, one of which may return while the
  other is blocked on a send. Correct means: lines in order, all or nothing,
  no open transaction left, nothing left running after a success.
* **Batch.** A long sequence of lines decides where statements and
  transactions begin and end, after comments have been taken out of the text.
  Correct means: statements and triggers reach the database whole, as SQL
  understands them, transactions take effect whole, no deadlock on the pool, and comments are
  all that is taken out.
* **Membership.** Commands check the members, then change them, in several
  requests, while other commands run and the leader changes. Correct means: a
  success is what it says, and a failure leaves the steps before it and no
  others.
* **Hammer.** Inserts whose answers are lost. Correct means: the counters stay
  between what was acknowledged and what is stored, also when a late insert
  comes between a row and its answer.
* **Dump.** Files of an earlier dump are overwritten one by one. Correct means:
  nothing is touched before there is something to write, and a dump that
  succeeds is of one moment.

`PROJECT.json` lists the hazards one by one, each at its line, with the
properties that cover it.

## 2. The modules

| Module | Models | Extended by |
|---|---|---|
| `Web` | the handlers of `web.go` | `Server`, `MCWeb` |
| `Server` | `StartServer`, composed with the handlers of `Web` | `MCServer`, `ServerProofs` |
| `AtLeastOnce` | what `DBX.exec` promises (abstract) | instantiated by `Exec` |
| `Exec` | `DBX.exec` | `Session` |
| `Session` | `Eval`, `queryFile` and `Batch` around `exec` and `query`; instantiates `Batch` | `MCExec`, `ExecProofs` |
| `Database` | what a statement does to a connection (the libraries) | `Transact`, `Batch`, `DatabaseProofs` |
| `Transact` | `loadFile`, `liner`, `transact` | `MCTransact`, `TransactProofs` |
| `Batch` | `DBX.Batch`; instantiated by `Session` | `MCBatch`, `BatchProofs` |
| `Comments` | `CleanText` (operators, no state) | `MCBatch`, with it `CommentsProofs` |
| `Hammer` | `hammerPrep`, `hammerTime` | `MCHammer`, `HammerProofs` |
| `Membership` | what the commands promise (abstract) | instantiated by `Commands` |
| `Commands` | the commands add, assign, transfer, remove and dump | `MCCommands`, `CommandsProofs` |

The `MC` modules hold what only TLC needs. Definitions named in a comment
"Mutation of ..." are faulty variants of the action before which they stand;
no specification uses them. They show that a property can fail.

### Web

`pc[r]` is where the handler of request `r` is, one step per call that another
goroutine can be interleaved with. In `makeHandleExec` and `makeHandleQuery`
the parameter `ctx` of the enclosing function is assigned by every request
(`web.go:165, 221`): `Store` is that assignment and `CallOpen` the read by
`dq.Open(ctx, dbname)`. The race on the variable is the interleaving of the
two: all contexts stored after the first have the same dynamic type, so no
torn value can be read, and a store that becomes visible late is a store made
late. `Opened` and `OpenCancelled` are what Open answers; `Cancelled` is what
net/http does with the context of a request, which ends when its client hangs
up and when its handler returns.

The client of a request acts on its own. `coming` holds the requests whose
client has announced a body and not sent it yet: `ReadBody` waits for
`SendBody`, or for the `HangUp` that makes reading fail. An answer to a query
is written while the handler goes on (`writing`): `TakeAnswer` is the client
reading it, and when the client has hung up, `WriteFails` drops the error of
`Encode` as the code does. The other replies are short and fit the buffers of a
connection. net/http notices that a client has hung up only when no body is due
(`Cancelled`), and reads the rest of a body after the handler has returned
(`Busy`). `AwaitsClient` is a handler, or a connection, that goes on only when
its client does.

A request carries `items`: the statements of `/db/execute/`, which go to the
database as one text (`web.go:194-195`), or the queries of `/db/query/`, run
and answered one by one. `did` counts those applied, each once however often
it was applied: what repetition does is the subject of `Exec`. `Apply` may
happen after the handler has given up, since a statement that was sent is not
recalled. Not modelled here: the branches on `ctx.Deadline()`, which no
context of net/http has, and the circuit breaker, which nothing in the server
sets. `/status` opens a client of the leader and never closes it: `leaders`
only grows. The home page, favicon and pprof handlers keep no state.

### Server

`main` is where `StartServer` is: application, listener, `signal.Notify`,
the receive from `ch`, and the three calls that stop it. `HandOver` is the
rendezvous on `ch`. A signal that arrives while main does not receive is
dropped by package signal and is therefore no step; one that arrives before
`signal.Notify`, a SIGKILL, or the SIGHUP of `scripts/start.sh` is `Kill`.
`Drained` follows the documentation of `http.Server.Shutdown`: connections
accepted before may still send a request until all are idle, and one whose body
is still coming is not.

### Exec, AtLeastOnce and Session

One attempt of `exec` is one `db.Exec`; database/sql sends it up to `MaxSend`
times (two cached connections and a new one, 3 in reality) when the driver
reports a bad connection, and `exec` makes `RetryLimit` attempts (10) with a
sleep after each, also after the last one; how long it sleeps is left out. An
error with `Code > 0` is returned at once. The pool of one connection is the
condition that at most one call is in `OnConnection`. A send that was given up
joins `stray` and may be applied any time later. `Exec` by itself lets calls overlap, as `sql.DB`
provides for; `Session` makes one after another, as the commands do. Nothing in
the program calls `EnableDatabase`; the models let the breaker change at any
time, as the mutex around it provides for, and so say what it would do.

`AtLeastOnce` is the promise to the caller: effects may be repeated and may
come late, but no more often than `MaxEffect`, success implies an effect, a
refused call has none, every call returns. `Exec` implements it with
`phase` from `pc`, `effects` from `rows`, `outcome` from `result`.

`Session` is a command that opens the database and goes through `script`: one
statement for adhoc, which `Eval` sends to `exec` or `query` by its first word
(and an equals sign, for a pragma), the text of the file for query, the
statements of the file for a load without the batch flag. `at` is the next
statement; the call of `exec` with that number is the one in progress, and
`query` is where `dx.query` is. Open rows keep the connection, so `Send` waits
for them. `status` is what the command's function returns, an error of any
statement ending it, except that `Batch` drops that of a query (`db.go:790`);
a statement of blanks has no first field, and `Eval` panics (`db.go:298`). Late
effects may come after the command has ended: that is why `Outside` goes on.

A load implements `Batch` (`AsBatch`): `line` is the number of statements read,
`ran` and `durable` those that were acknowledged, `pc` the `status`. All
attempts of a statement are hidden behind the one step in which `Batch` executes
it, and what `Batch` treats as a success is an acknowledged statement. The text
is one line per statement, outside transactions; `Batch` itself has the others.

### Database, Transact, Batch and Comments

`Database` is the connection the two loaders rely on: whether a transaction is
open, what is pending in it, what is durable. It is not code of this
repository; it says what SQLite does with BEGIN, COMMIT, ROLLBACK and anything
else, and that a broken connection loses its transaction.

`Transact` has a consumer (`loadFile` and `transact`) and a producer (the
goroutine of `liner`); `Receive` is their rendezvous. `file` holds what each
line does to the database, up to the end of the file or a read error, which
the code treats alike (`db.go:632-635`). Lines that themselves begin or end a
transaction are allowed: a dump made by sqlite has them.

`Batch` reads `text`, whose lines are modelled by the branch they take in the
switch at `db.go:751`. The buffer is the interval from `first` to `line`,
since it is always made of consecutive lines. Each action is one line with all
that follows from it; a line is named for how it begins and whether it has a
semicolon. What the lines mean is defined apart from that, as SQL has it: a
trigger goes on to its END, wherever on a line that stands (`InTrigger`,
`Closes`, `IsStatement`). The two agree when triggers are written plainly
(`PlainTriggers`), that is on one line, or with `END;` on a line of its own and
no semicolon on that of CREATE TRIGGER. Other triggers are in the texts, too:
"short_trigger" has statements of its body on its first line, "change_end"
its END on the last line of its body. Of them the run `triggers` shows what
becomes; what Batch then hands over is part of a statement, which the database
rejects (`CutOff`), or several, of which it executes some (`Several`). A
trigger that begins otherwise (CREATE TEMP TRIGGER) is no trigger to Batch, and
none is in the texts. `dx.exec` and `dx.query` run on the pool, `tx.Exec` on
the connection of the transaction; what waits for a connection that Batch
itself holds ends in `blocked`, a COMMIT of a nil transaction in `panicked`.
Lines are trimmed and free of comments.

`Comments` is how they come to be free of them: two regular expressions, one
after the other, on a text made of tokens (a word, a quote, the marks of
comments, a space, the end of a line). `CleanText(s)` is the set of positions
that are kept. `Reader` and `Code` say what SQL makes of the same text, and
`Cleaned` compares the two: the same words are left, and they stand to each
other as in SQL, joined, apart or on two lines. It is claimed of texts that are
`Simple`: no marks of comments in a string, no C comment that begins in a SQL
comment, has no end, or alone keeps two words apart. On the others `CleanText`
does differ from SQL, in the way the definition says, and no doc promises
otherwise: it "allows for simpler parsing" (`db.go:713`).

### Hammer

The loop of `hammerTime` with its counters (`good`, `fails`, `last`), against
the table it fills. `rows` is the number of rows, which is also the id of the
last, since the table is new and nobody else writes to it: one hammer at a
time. An insert is sent up to `MaxSend` times by database/sql; of the sends
without an answer some are applied and some join `late`, to be applied any
time, also between `Execute`, in which the row gets its `id`, and `Succeed`, in
which the answer arrives and is counted. `Eof` and `OtherError` are the two branches of the error path; the
second leaves `err` nil for `err.Error()` and ends in `panicked`. The driver
never returns an error from `LastInsertId`, so that branch is left out, and
the two statements of `hammerPrep` are taken to be settled when answered.

### Commands and Membership

Each element of `Op` is one command, run by some operator. All of them find
the leader (`FindLeader`) and then make one request after another over that
connection: `add` reads the members and, if the node is not among them, calls
`client.Add`; `assign` finds the leader again for every id; `transfer` asks who
leads first; `dump` fetches the files and overwrites those of an earlier dump.
`Fail` is every error path at once: a timeout, an interrupt, a refusal, a full
disk; all of them end the process, so that only what has been done remains.

The cluster is external. It carries out a request only when the node asked
leads; the leader changes by `Elect`, and a leader that is removed or is no
voter any more steps down. A request nobody waits for may still be carried out
(`late`). `client.Add` is two requests, a new spare and then its role. A node
that was deposed may answer with the members `known` to it when the command
connected, and may dump an earlier version of the database. Versions are
numbers: `Cut` for a truncated file, `Old` for one of an earlier dump, then
those of the database.

`Membership` is the same without connections, lookups and lost answers: a
command is the list of its requests (`Requests`), each of which is an `Effect`
on the members or the leader. They take effect in order and once, all of them
before the command succeeds, and at most the next one after it has failed. An
add may succeed with none when its node has been a member meanwhile (`Look`,
`found`), which is as much as a stale answer allows. The refinement mapping is
at the end of `Commands`: `Todo` is what a command still has to ask, by where
it is and what it left behind in `late`; `Found` is what it was told when it
connected. A dump has no request and only ends.

## 3. What is checked

| Run | Instance | Shows |
|---|---|---|
| `web` | 3 requests of up to 2 items, one client that stalls, one that hangs up | Open gets the context of a peer of the same endpoint and no circle of requests arises; databases are closed; what a reply says of its request is true |
| `rows` (violation) | 2 requests | a query is answered without all its rows |
| `server` | 2 requests, 1 item | stops are clean, and end unless a shutdown handler is blocked or a client does not keep pace |
| `shutdown` (violation) | 2 requests | a server that said "shutting down" need not stop |
| `exec` | every adhoc, query and load of up to 2 statements, 2 attempts of 2 sends | bounds, truth of results, no effect before its turn and only repeats after it; `Exec` implements `AtLeastOnce`, a load implements `Batch`; every command ends |
| `transact` | every file of up to 5 lines | order, all or nothing, no transaction and, on success, no goroutine left |
| `commit` (violation) | the same | nil is returned though the commit failed |
| `batch` | every text of up to 5 lines of 13 kinds; every text of up to 6 tokens of 7 kinds | statements, plain triggers and transactions whole; no deadlock for a disciplined text; `CleanText` takes out the comments and nothing else |
| `query` (violation) | up to 3 lines | a query inside a transaction waits for ever |
| `triggers` (violation) | up to 3 lines | a trigger with a semicolon on its first line is handed over cut off |
| `hammer` | 5 inserts of up to 3 sends | counters between acknowledged and stored, good never falls and reaches the id of a row with its answer |
| `commands` | any 3 of 9 commands, 3 nodes and a new one, 2 versions | an add is not misled by a peer or a deposed leader, assign goes in order, a dump is whole; `Commands` implements `Membership` |

Why the bounds are enough: a request needs at most one peer to be disturbed by
the shared context and a third to overwrite it again, or to close a circle;
one client that stalls and one that hangs up meet in each step of a handler; two
items distinguish none, some and all; two shutdown requests compete for one receive; with two
attempts and two sends the last of each differs from the first; five lines
hold a transaction around a multi-line trigger, and two show both ways to write
a trigger that Batch does not follow; two statements are one that is sent
again and one that must not overtake it; six tokens hold a comment between two
words with blanks around it, two comments with a word between them, or a
comment of one kind inside the other; five inserts let the counters
drift and meet again more than once, with the three sends database/sql really
makes; three commands are two that meet and a third that disturbs them (a
transfer, say), and an assign of three nodes has a first, a middle (which takes
the role of a voter away) and a last. `FewDisturbances` (in
`MCWeb`), `MaxItem`, `MaxStatement`, `MaxLine`, `MaxToken`, `RetryLimit`, `MaxSend`,
`Count` and `MaxVersion` are the only bounds. `RetryLimit`,
`MaxSend` and `Count` exist in the code or its libraries, the others are
artificial; the theorems below hold for any value of them.

Requests are interchangeable, and so are commands: `web` and `commands` use that
symmetry; they have invariants and a property of single steps each, which
symmetry preserves. The runs with
liveness use none. Deadlock is not checked: every system here really stops,
when its requests are served, its process has ended or its text is read.

Fairness. `Server`: weak fairness of the main goroutine and of each handler.
The Go scheduler runs them, and the calls they make on the database and the
cluster return: `dq.Open`, the statements and `leader.Cluster` take the
request's context or fail with the connection. Reading a body and writing an
answer are no such calls. They wait for the client, the `http.Server`
(`cluster.go:341`) has no timeouts, and no fairness is assumed of clients: none
has to send a body, read an answer or hang up. `ReadBody` is enabled once the
body has been sent, and `StopEnds` and `HandlersEnd` allow for a client that
does not keep pace (`AwaitsClient`). No signal is assumed to arrive. `Exec`: an
attempt gets on, since a dead connection is broken by TCP or by dqlite, and a
sleep ends. `Session`: the same, as weak fairness of all the steps of its one
goroutine together; what was given up need never be applied. `Transact`: both goroutines run and calls to the database return.
`Web`, `Batch`, `Hammer` and
`Commands` have safety properties only.

## 4. What the code does otherwise

* `shutdown`: after a signal, or a second DELETE, the handler that has written
  "shutting down" blocks on `ch` for ever, the drain waits for it, and the
  process ignores further signals. A client that stalls its body, or does not
  read its answer, holds the drain up in the same way.
* `rows`: `rows.Err()` is not consulted, so a connection that breaks halfway
  gives a shorter table and status 200.
* `commit`: the error of `tx.Commit()` is dropped, so a load that stored
  nothing reports success.
* `query`: `Batch` runs a query on the pool while its own transaction holds the
  only connection.
* `triggers`: a CREATE TRIGGER line with a semicolon in it is executed as it
  is, its END on a later line or not; and only a line that begins with `END;`
  ends a trigger, so after `UPDATE ..; END;` everything up to the next such
  line stays in the buffer, and `Batch` returns nil without having executed it.
* Without a run, as it is the single action `OtherError` of `Hammer`: the loop
  that prints a wrapped error leaves `err` nil, and `err.Error()` panics
  (`hammer.go:86-97`), so the load test survives io.EOF and no other error.

## 5. What is proved

TLAPS checks the theorems below for every value of the constants; each proof
module begins with the invariant it needs and why.

* `ServerProofs`, from `WebAssumption` (the server's own context is not a
  request's). First the handlers by themselves. `OpensUnderPeer` is not
  inductive: `ContextStored` adds that a
  closure holds the context of a request of its endpoint whenever someone is
  about to read it, `PathPlace` that the endpoint decides where a handler can
  be. `ReplyInv` ties the reply to the place of the handler and to `did`.
  Proved: `WebTypeOK`, `OpensUnderPeer`, `HandlesInFlight`,
  `ReplyTellsEffect`, and `NoCircleOfContexts`: a
  request whose context is held by the closure, and that has called Open, got its
  own (`HeldIsOwn`), so that whoever reads it next closes no circle. Then the composed
  system: nothing is in flight before the server serves nor after the drain, and,
  for finite sets of requests, a second shutdown request cannot be
  answered because main has left `waiting`. Proved: `TypeOK`,
  `AppOutlivesHandlers`, `CleanReturn`, `OneShutdownAnswered`, and that all of
  the above stays true of the handlers when the server stops, or is killed,
  under them (`ServerKeepsWeb`).
* `ExecProofs`, from `ExecAssumption` (both limits are positive).
  `SendsBounded` follows from `BudgetKept`: a failed attempt stands for at
  most `MaxSend` sends. Proved: `TypeOK`, `EffectsAccounted`, `SendsBounded`,
  `ResultTellsEffect`, and that every step of `Exec` is a step of
  `AtLeastOnce` or leaves it alone. For `Session`, from `SessionAssumption`, the
  invariant adds that statements after the next have not begun and those before
  it were acknowledged (`InTurn`), and that a load that failed did so at a
  statement it executed (`FailedAt`). Proved: `SessionTypeOK`, `OnlyRepeatsComeLate`,
  that what holds of `Exec` holds of a command's calls (`SessionKeepsExec`), and
  `ImplementsBatch`, for scripts of any length.
* `DatabaseProofs` holds what a statement may add to a connection, for the two
  modules that follow.
* `TransactProofs`, from `TransactAssumption`. The lines scanned are those
  applied, the one being executed and the one on the channel
  (`LinesAccounted`); if no line ends the transaction, all applied lines are
  pending in it (`ConnectionPlace`). Proved: `TypeOK`, `InFileOrder`,
  `AllOrNothing`, `NothingLeftPending`, `LeftBehindOnlyOnError`.
* `BatchProofs`, from `BatchAssumption`. The trigger flag, when triggers are
  written plainly, and `tx`, always, are what the text says of the next line
  (`FlagsTell`), and the buffer begins after the last line that ended something
  (`BufferBegins`). For `TransactionsWhole` the
  connection has to be tied to the text: what has run is durable once its
  transaction was committed, pending while it is open, and neither after a
  failure (`ConnectionTells`, `Standing`). Proved: `TypeOK`, `DisciplinedGoesOn`,
  for texts of any length, and `StatementsWhole` and `TransactionsWhole`, for
  those among them whose triggers are written plainly.
* `CommentsProofs`, for a text of any length. Both expressions of `CleanText`
  are compared with `Reader`, position by position: in a simple text `InBlock`
  is true exactly where the reader is in a C comment (`BlockSame`), and dashes
  that are left begin a comment exactly where the reader does (`AfterIsLine`).
  What differs is blanks before dashes; if they hold the end of a line, another
  one follows the comment and stays (`LineEnds`). Proved: `Cleaned(s)` for
  every `s`, hence `CleanTextRemovesComments`. This is induction over data,
  which the library's theorems offer only for a predicate given as parameter.
  Here the predicate is a set of positions (`Induct`, from the well-foundedness
  of `<` on `Nat`), and that a recursive function has the values its definition
  says follows from the existence of such a function (`Recursion`).
* `HammerProofs`, from `HammerAssumption`. `CountsBetween` is inductive once it
  is known that nothing has been counted before the table is made
  (`NothingYet`), and that the id on its way to the hammer is beyond what it
  has counted and no more than the rows there are. Proved: `TypeOK`, `CountsBetween`, `GoodCatchesUp`.
* `CommandsProofs`, from `CommandsAssumption`, for any commands, any cluster and
  any number of versions. All of it needs to know where a command can be
  (`InPlace`) and which steps change the record of a node. Then each property
  has a part about the state half way: `RolesStand` for the add that has the
  role still to assign, `AddsStand` for the one that relies on members it was
  told, `AssignsStand` for each id of an assign, `DumpsStand` for the files
  between the first and the last. Proved: `TypeOK`, `AddedIsMember`,
  `RoleSettled`, `AssignedInOrder`, `DumpWhole`; and `ImplementsMembership`,
  for which it must also be known that whoever asks has found a leader
  (`Connected`).

So every invariant and every property of single steps of every passing run is
proved. Of the liveness properties (`StopEnds`, `HandlersEnd`, `LoadReturns`,
`LinerEnds`, `SessionEnds`, `CallsReturn` of `AtLeastOnce`) the half that needs
no fairness is proved too, by counting steps: `CallSteps` and `SessionSteps`
(`ExecProofs`), `StepsLeft` (`TransactProofs`), `HandlerSteps` and `MainSteps`
(`ServerProofs`) are natural numbers that each step of the goroutine in
question makes smaller and no other step makes larger. So no retry, however
answers are lost and repeated, goes on for ever, and a goroutine that keeps
taking steps ends. Where it waits for another one the theorems say what it may
wait for: in a load `liner` is never gone while it is received from, and no
statement of a command waits for the connection of a query of the same command
(`QueryInTurn`). Two things are left to TLC: the fairness itself, and that some
step is possible until the end (`ENABLED`), which the provers here cannot
express.

## 6. What is not modelled

Formatting and logging (`DBTW`, `queryColumn`, `log.go`), parsing of flags and
parameters, TLS configuration, and the pages without state, because no property
depends on them. The commands that only read the cluster (show, leader, status)
change nothing, and `omit`, which takes the server's own address out of the
list it is given, is a function of that list. `getDB` keeps a map of open
databases, but a command opens one and ends with it; of it the models keep the
pool of one connection. `dbFile` closes its handle twice, and `Close` takes it
out of the map, but no process opens a database again afterwards. `exists`,
`nodeStart`, `statusFunc`, `lister`, `hammerExec` and `_dbDump` are not called.
`load` and `query` ignore the error of the function they run (`main.go:413,
440`), so that the
properties of `Transact`, `Batch` and `Session` about errors describe what is
logged at best. Raft, replication and elections belong to dqlite.

## 7. Plan

What could still be added, none of it needed by the above:

1. Transactions inside the load of `Session`: today `Batch` has them with
   statements that are executed once, as `tx.Exec` does, and `Session` has the
   retries outside them.
2. Two hammers on one table, each dropping that of the other.
