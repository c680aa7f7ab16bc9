# A TLA+ model of the social network service

The service (`src/service`, C++20) answers an HTTP API for users of a social
network: log in, register, read a profile, search by name.  httplib accepts
connections and hands each one to a thread pool of this repository; the
handlers run there, borrow a PostgreSQL connection from a connection pool that
knows one master and any number of replicas, and count what they do in
Prometheus metrics.  This directory specifies that program in TLA+, checks small
instances with TLC and proves the central invariants for every value of the
constants with TLAPS.

## Inventory

| Component (source) | State | Operations | Hard behaviour | Module | Status |
|---|---|---|---|---|---|
| `ThreadPool`, `ThreadPoolAdaptor` (`helpers/thread_pool.*`, `app.h`) | task queue, three counters, stop flag, two condition variables | `add_task`/`enqueue`, `run`, `wait_all`/`shutdown`, destructor | lost and spurious wakeups, full queue, shutdown with work left | `ThreadPool`, `TaskService` | modelled, invariants and refinement proved |
| `ConnectionPool`, `ScopedConnection` (`app_connection_pool.h`) | a queue of connections per node, Round Robin positions | `get_connection`, `release_connection`, RAII | exhaustion, connection lost or doubled, routing | `ConnectionPool` | modelled, proved |
| `App` handlers, `Metrics` (`app.cpp`, `app_metrics.h`) | request and response of each thread, counters | four API handlers, probes, routing, error and exception handlers | exceptions that skip metrics, dead connections, commits in doubt, replication lag, scrapes while threads count | `RequestService`, `Scrape` | modelled, proved |
| `LoggerFile` (`logger/logger_file.*`) | stream, mutex, time of the last reopening | constructor, `log`, `reopen`, destructor | unlocked test, reopening race, failing file system | `FileLogger` | modelled, proved |
| Configuration and start-up (`configuration/*`, `App::run`, `db_start`, `http_start`) | configuration, database pool, HTTP server | defaults, environment, command line, `validate`, start | a host that does not resolve, one bad node, numbers out of range | `Startup` | modelled, proved |
| Response and log dates (`app.cpp:24-45`) | buffer of `std::localtime`, shared by all threads | format a date | data race | `ResponseDate` | modelled, proved |
| Other loggers, factory, macros | a registry, filled before `main` | write a line | none | - | not modelled: a line is one `<<` to `std::cout` |
| `App`: HTTP server and shutdown (`http_start`, `~App`, `ThreadPoolAdaptor`) | open sockets, queue, the connection each thread serves | accept, `enqueue`, serve, keep-alive, `stop`, `shutdown` | quiet clients that keep a thread, a full queue, shutdown with requests in flight | `Server` | modelled, proved |
| URL and address helpers (`helpers/url`, `ip_address`, `socket_address`, `dns_address`) | a `Url`, an `IpAddress` | parse, print, resolve, change | round trips, byte order, escapes, carries | `Url`, `UrlObject`, `Addresses`, `IpObject`, `Endpoints` | partly: see Not modelled; proved, but for where `normalize()` leads |
| Number, string, environment, random, thread helpers | none | pure | numeric edges | - | not modelled, but `try_parse_int` and `trim` in `Url` and `Addresses` |
| `FilePath` | none | paths | none | - | not modelled: nothing in the service uses it but an unused constructor of `Url` |
| Table and index set-up (`app.cpp:703-805`) | the database | DDL | none | - | not modelled: the calls are commented out (`app.cpp:170-180`) |
| k6 tests, user generator, Docker, Prometheus, Grafana | | | | - | not modelled: no logic of the service |

How they interact.  `Startup` produces what the others take as constants: the
number of threads (`Workers`, `Threads`, and `PoolSize` at once), the capacity
of the queue, the number of replicas, and whether `db_pool_` is null.
httplib's accept thread calls `enqueue` and `shutdown` of the thread pool; a
task of that pool is one HTTP connection, on which a thread handles one request
after the other; the handlers call the connection pool.  The modules follow:
`RequestService` EXTENDS `ConnectionPool`, `Scrape` and `Server` EXTEND
`RequestService`, and `Server` takes the pool of threads as an instance of `TaskService`, which `ThreadPool` is
proved to implement.  The loggers are called from everywhere
and share nothing with the rest.

## Modules

**ThreadPool** - `thread_pool.{h,cpp}` and the adaptor in `app.h`.  A step is
what other threads can see as one: a critical section under `tasks_mutex_`, an
access to an atomic, a notify.  `condition_variable::wait(lock, pred)` is
spelled out: `Doze` (the predicate was false) and `Block` (blocks, releases the
mutex) are two steps with the mutex held in between, so that a notify without
the mutex can fall into the gap.  Likewise `WaitTest` and `WaitBlock` in
`wait_all()`.  `SpuriousWorker` and `SpuriousOwner` end a wait without a
notify; no fairness makes them happen.  A lock is part of the step that needs it
(`MutexFree`); the threads that keep `tasks_mutex_` over a step are those in
"block" and "skip".  `acked` and `turnedAway` are history variables: what
`add_task` returned, and what it did.

**TaskService** - what the pool promises, without threads or locks: a task is
refused when `Capacity` tasks wait, accepted ones run in order, to their end,
at most `Servers` at a time, and the service closes when nothing is left.
`MCThreadPool` has the refinement mapping (`TaskStatus` reads the state of every
task off the pool) and the property `ImplementsTaskService`, liveness included.

**ConnectionPool** - `app_connection_pool.h`.  Each of `Get`, `GetThrows` and
`Release` is one critical section.  `last_used` is the function-local static of
each kind of node.  A thread asks only if it holds nothing (`NeedsOne`), as
every handler does with its one `ScopedConnection`.  `preferred` and `exhausted`
are history: what was asked for, and whether anybody was told "No connections
available".

**RequestService** - the handlers in `app.cpp`, on `Threads`, with
`ConnectionPool` and PostgreSQL.  Every step that touches something shared is
an action: `Connect`, `CountHost`, the query, `Commit`, `GiveBack` (the
destructor), `CountTotal`, `CountOutcome`, `Respond`; what happens on the
thread alone is merged.  A request is abstracted to its endpoint and one of four inputs:
JSON that does not parse (the exception leaves the handler), data the handler
rejects, data only PostgreSQL rejects, and good data.  PostgreSQL is external:
commits are numbered, replicas replay them in order at any later time
(`Replicate`), a node may stop and its connections are dead for ever, because
nothing in the code reconnects them, and a connection may die while COMMIT is on
its way (`CommitInDoubt`).  A request that no handler sees is "unrouted": another
method, no id (404), or a body above the limit of `app.cpp:230` (413).

**Scrape** - Prometheus reads the metrics through the Exposer's own thread, which
collects the families in the order in which `Metrics` registers them
(`app_metrics.h:26-51`) and holds up nobody: `ReadTotal`, `ReadFailed` and
`ReadTimed` of one endpoint are three steps, and any steps of `RequestService` fall in
between.  `between` is history: the requests that were between their two
increments at the first of them.

**Server** - the whole program behind its socket.  `Accept` is httplib's accept
loop with `enqueue()`: it always returns true (`Enqueued`), so the socket of a
refused connection stays open.  A thread of the pool takes the oldest connection
(`Serve`), carries up to `KeepAliveMax` requests on it (`ReceiveNext`, then the
steps of `RequestService`), and drops it between two requests (`Finish`): spent,
closed by the client, or quiet for longer than the timeouts of `app.cpp:222-224`.
`StopListening` ends the loop at any moment, and `Shutdown` is its thread in
`wait_all()`: it returns when every connection that was accepted has ended
(`WaitReturns`), or tests (`WaitTest`) and blocks (`WaitBlock`).  `Finish` notifies
without the mutex and wakes only a thread that is blocked, so that the last wakeup can
be lost here as in `ThreadPool` (`WaitHung`).  httplib is external, modelled from
how `App::http_start` sets it up.  The state: what became of each connection
(`status`, of `TaskService`), which one each thread `carries` with how many
requests `left`, the descriptors that are open (`sockets`), and where the accept
thread is in `wait_all()` (`waiting`).

**FileLogger** - `logger_file.*`.  The test `is_open()` is made without the
mutex, so `Test` is a step of its own and reads what another thread's
`CloseFile` and `OpenFile` leave.  The reading itself is a data race; the
values it can deliver are open and closed, and both are reached in the model.
Time is a flag, `due`: the interval has elapsed.  The file system fails and
recovers at any moment, `MaxFaults` times.

**Startup** - `configuration.cpp`, `configuration_data.cpp`, `App::db_start`,
`App::http_start`: one thread, but every lookup of a name may succeed or fail
each time it is made, so may the connections and the binding.  A URL is
abstracted to what `validate()` and `db_start()` branch on.  Parameters are
sequences, empty when not set, so "set" is concatenation.

**ResponseDate** - the date in the header of a response and in the access log:
`std::localtime` writes one static buffer and `put_time` reads it, on every
worker at once.

**Url** - `Url::parse`, `to_string`, `encode`, `decode`, `get_port` and
`get_path_segments` as operators.  A text is a sequence of symbols: delimiters,
escapes, numerals, and words for any characters that need no escape; the case of
letters is left out.  An exception is the result `Thrown`.

**UrlObject** - a `Url` in the hands of a caller: every call that changes it,
with the exceptions that leave it half changed (`operator=` and `set_authority`
clear first and parse then), the parameters of its query, `normalize()`, and
printing and parsing it again (`Reprint`).

**Addresses** - what an `IpAddress` holds (`data_`, as bytes) after it is read
from a text or taken from a `sockaddr`, and how it is printed.  `inet_pton` and
`getaddrinfo` are external, and defined from what they accept.  IPv6 texts are
groups of digits, so that zeros and blanks, which the code adds and takes off,
are digits too.  `ntohl` turns four bytes around: the processor is
little-endian, as x86-64 and arm64 are.

**IpObject** - an `IpAddress` in the hands of a caller: the order and the bit
operators, `increment`, `inverse`, `mask`, the mapping of IPv4 into IPv6 and
back, and the tests of its class (`is_multicast` and the others), which compare
32-bit words of `data_` with constants in the order of the processor.  What
`is_loopback()` finds when it reads behind `data_` is left open (`behind`).  The
operators of C++ on bytes are constants: TLC takes those of `Bitwise`, and the
theorems know of them only that they give bytes (`BitsAssumption`) and what a mask
of leading ones leaves (`MasksAssumption`).

**Endpoints** - the same endpoint in the hands of two components.  A node:
`ValidateNode` (`configuration_data.cpp:61-121`) reads, changes, prints and
stores the URL, or keeps it when DNS fails, or puts the default in its place;
`DbStart` reads what was stored.  The listening address: `ValidateListening`
(183-197) and `HttpStart` (`app.cpp:206-207`).  DNS may fail each time.
`Startup` has the same code from the other side: which node ends up with which
credentials, with the URL itself abstracted.

The modules `MC*` give sets that a cfg cannot write and the refinement mapping;
`MCEndpoints` also composes the three modules about URLs and addresses, of which
one exists at a time, in one run.  The modules `*Proofs` hold the theorems: those
of the pool of connections, the handlers and the server are in `ServerProofs`, those
of `Endpoints` and the objects in `AddressesProofs`, `UrlProofs` and `QueryProofs`.

## Runs

| Run | What it asks | Bounds | Distinct states |
|---|---|---|---|
| `pool` | nothing lost, repeated, overtaken or forgotten; drained before the stop; implements `TaskService`; shutdown ends but for two lost wakeups | 3 workers, capacity 2, 4 tasks, with and without callback | 34 129 |
| `pool_enqueue` | (violation) `enqueue` tells the truth | 2 workers, capacity 1, 3 tasks | |
| `service` | metrics, what a scrape shows of them, answers, connections and commits fit each other; reads need no master and are shared evenly; every request is answered | 2 threads, all endpoints but `user/get`, 1+2 nodes with one connection each, 2 requests, 1 user, 1 failure, scrapes of `login` at any time | 334 794 |
| `service_counted` | (violation) see Findings | 1 thread, 2 requests | |
| `server` | connections to the database are conserved, exclusive and enough; handlers run on the pool only; queued connections are served and closed; `wait_all()` returns but for a lost wakeup and leaves nothing half done | 2 threads, a queue of 1, 3 connections of up to 2 requests, 2 registrations in all (malformed or good), 1 master with 2 connections, 1 failure | 145 692 |
| `logger_main` | tested lines are written, the file is closed for a cause, reopened once per interval; every call of `log` returns | 3 threads, 4 lines, 2 intervals, 2 faults | 110 704 |
| `logger_lost` | (violation) see Findings | 2 threads | |
| `startup` | the whole cluster or none; credentials of the URLs; one connection per worker for any input | master and up to 3 replicas, 4 kinds of URL, numbers at the edges of their ranges | 154 498 |
| `startup_authorize` | (violation) see Findings | as above | |
| `dates_main` | a date is wrong only if another thread converts in between | 3 threads, 3 dates, clock to 3 | 277 105 |
| `endpoints` | what `validate()` stores is what `db_start()` connects to, without credentials; how addresses are turned, read and printed; parameters of a query come back, `normalize()` leads to the same place; `increment`, `mask` and the mapping agree with the operators, and the tests of the class are right exactly for turned words | nodes of 4 schemes, 4 users, 10 hosts, 9 paths, 4 ends; 4 IPv4 and 265 IPv6 addresses in all their notations, 5 answers of DNS; 2 calls on each of the URLs and addresses of `MCEndpoints` | 197 987 |
| `endpoints_listening` | (violation) see Findings | one listening address, the literal 127.0.0.1 with a port | |

Why the bounds suffice.  Three workers are the fewest with one asleep, one
busy and one on its way to the queue; four tasks fill a queue of two twice and
make a refusal and a reuse of the freed place possible.  Two threads are enough
for any two accesses to interleave, and the counters and connections are
symmetric in the threads; the second request runs beside the first or after it,
and two replicas are needed for turns.  One connection per node is less than the
program opens, so that the exception of `get_connection` is reached as well.
One failure suffices for `RequestService`, since nothing recovers: a second one
adds nodes that behave like the first.  Its run leaves out `user/get`, which takes the
way of `login` without the password, and looks for the first user only (`Users`): on
each replica it is found or not.  The metrics of the endpoints are counted alike, so
the scrape looks at one of them (`Observed`); two requests, one before the first
read and one between the others, or both on the way, are what it can mix up.  The logger needs a third thread for one
to test while a second writes and a third reopens.  Start-up handles nodes one
after the other, so three replicas show any interaction between neighbours.
The server needs one connection more than threads and queue hold together with
one refusal: of three connections one is served, one waits and one is refused,
or two are served while the third waits.  One master with as many connections as
threads is the configuration that `NeverExhausted` is about, and registrations
are the requests with the longest way through a handler; with `Payloads` one that throws
and one that is good are enough for the ways out of it.
The URLs of `Endpoints` are all products of parts in which each branch of the
parser has a text (also the malformed ones), the IPv6 addresses all patterns of
zero and non-zero groups, which is what printing and trimming look at, and the
special ones (loopback, mapped, compatible).  Two calls of an object are enough
for one to leave what the next one trips over; the addresses of `IpObject` are
those at both ends of every block, in both orders of bytes.
Where a constant is not a bound of the model but a parameter of the program,
the theorems below hold for all its values.

Deadlock is checked for `ThreadPool`, `Startup` and `MCEndpoints_listening` (their
final states stutter); it is not for the models whose bounds, or whose callers,
end a behaviour (`Scrape`, `Server`, `FileLogger`, `ResponseDate`,
`MCEndpoints`).  That nobody waits for ever is what their liveness properties say.

## Fairness

Weak fairness of each thread's own steps, and nothing else.  The operating
system runs a thread that can run, std::mutex sections end, and the tasks end
because httplib has read and write timeouts (`app.cpp:223-224`) and every
statement ends with a result or an exception.  No fairness is assumed for
clients, spurious wakeups, replication, failures or time, nor for the moment at
which the accept loop ends.  In `Server` the pool has the fairness of
`TaskService`, a thread that has a connection goes on with it (`Work`: the timeouts
of httplib end a quiet one, and the keep-alive count a busy one), and once the
loop has ended its thread goes on in `wait_all()` (`Shutdown`): that is fairness of
its own steps, and a thread that is blocked has none until it is woken, so that a
lost wakeup leaves it there (`WaitHung`, which `ShutdownDrains` excepts).
`TaskService` assumes that some queued task is started when a server is free
and that each running task ends, and `ImplementsTaskService` shows that the pool
delivers this from the fairness of its threads.

`ShutdownEnds` does not hold without its two exceptions.  `~ThreadPool` sets the
flag and notifies without `tasks_mutex_`, and the workers notify `wait_all()`
without its mutex, so a wakeup that falls between a false predicate and the
block is lost.  `LostOnlyInTheGap` shows that this is the only way to hang.  The second
of the two is `WaitHung` of `Server`; the first, `JoinHung`, comes behind `wait_all()`
and is not in `Server`, whose shutdown ends where the destructor begins.

## Proofs

tlapm checks, for every set of workers, every capacity and every bound:

* `TypeCorrect`: `TypeOK` is inductive as it stands, since it includes that a
  worker has a task exactly while it is busy.
* `CountersAddUp`: `Accounting` is inductive together with `TypeOK`.  Each
  action either keeps the number of busy workers or changes it by one worker
  (`FS_AddElement`, `FS_RemoveElement`).
* `NothingAbandoned`: `DrainedBeforeStop` is not inductive.  It follows from
  `StaysCounted` (once `wait_all()` has returned, the counters are balanced)
  and `Accounting`: completed + refused = last leaves `Len(tasks) +
  Cardinality(busy) = 0` (`CountedIsDrained`).  `StaysCounted` is preserved
  because only the accept thread adds tasks, and a worker finishes none when
  none is busy.
* `StartedInOrder`: `FirstInFirstOut` needs `IdsBelowLast` (all ids that are
  queued or held are below `tasks_last_id`), so that the appended id is the
  youngest.
* `WakeupsLostOnlyInTheGap`: a wakeup of the shutdown is lost only in the gap
  between a false predicate and the block.  A blocked `wait_all()` is missed by
  nobody: the worker whose task is the last to be counted is then on its way to
  the announcement, and stays one that the owner waits for.
* `NoCircle`: the accept thread and the workers never wait for one another in a
  circle (`NobodyWaitsInACircle`), but for those lost wakeups.  A worker waits
  only for the mutex, whose holder can step, or sleeps; `EndsWhenTold` says that
  none ends before the destructor.  It is the part of `ShutdownEnds` that is a
  safety property; what is left to TLC is the fairness.
* `NobodySleepsOverATask`: `NoTaskForgotten` needs `DozesOnEmpty`: a worker that
  has found the queue empty holds the mutex until it blocks, so it falls asleep
  over an empty queue.  From then on every task that is added wakes a worker, and
  each one that leaves the way to the queue takes a task along.
* `PoolImplementsService`: every step of the pool is one of `TaskService` or a
  stutter, through the mapping of `MCThreadPool`.  It rests on all of the above
  (`MapInvariant`) and on `RefusedForGood`: a refused id is never queued or run,
  so that the status of a task is unambiguous.  The room of the service is that
  of the queue because ids are queued once (a bijection), and at most
  `Cardinality(Workers)` tasks run because each has its worker (a surjection).

and for every number of threads, masters, replicas and connections:

* `ConnectionsConserved`: idle and lent connections of a node add up to
  `PoolSize`.
* `NobodyIsTurnedAway`: with a master and `PoolSize >= Cardinality(Threads)`,
  `get_connection` never throws: a thread that asks holds nothing, so at most
  `Cardinality(Threads) - 1` connections are lent, and `Conserved` leaves one.
  That is the assumption `App::db_start` establishes by opening
  `http_threads_count` connections to each node.
* `ConnectionsExclusive`: no connection is in two hands, in a queue and a hand,
  twice in a queue, or at another node.  It is a conjunction of four parts that
  are inductive only together.
* `RolesRespected`: writes go to a master, and reads leave it alone as soon as
  there is a replica.
* `ThrowsForCause`: with any `PoolSize`, `get_connection` throws only while all
  connections of the chosen node are lent.

and of the handlers, for every number of threads, requests and failures:

* `ServiceUsesPool`: the handlers use the pool only through `ScopedConnection`, so
  what is proved of the pool holds here (`ServiceKeepsConnections`,
  `NoHandlerIsTurnedAway`).
* `ServiceTypeCorrect` needs `PhaseFits` (which requests can be where), and
  `ConnectionsHeldInTryOnly` follows from it.
* `SamplesAgree` says what a scrape shows.  At one moment, the total is what has
  failed, what was timed and the threads between the two increments (`MetricsAgree`,
  by moving one thread at a time: `Moves`, `NoOutcome`).  A scrape is not of one moment,
  but counters only grow (`CountersGrow`): `SampleKeepsUp` says, step by step, that the
  total it began with is covered by what it has read and by what is still to be
  read.  `ScrapeOnlyReads`: it changes nothing, so that every theorem on the service
  holds beside it.
* `FailuresAgree` counts the threads between the outcome and the answer (`Arrives`,
  `Leaves`).
* `AckedAreCommitted`: `AckedIsCommitted` is not inductive.  `Accounted` adds that
  the users on the way to two clients are different ones, and that nobody is on
  the way who has been told.
* `ReadsNeedNoMaster` needs `Asked` (a thread that holds a connection asked for
  the kind its endpoint prefers), with `RoutedByRole`.
* `ReplicasShareReads`: `InTurn` says exactly by how much: replicas 1 to
  `last_used` are one request ahead of replica 0, the others even with it.

and of the server, for every capacity and number of connections:

* `ServerIsService`: the server refines `RequestService`, whose theorems therefore
  hold in it (`ServerNeverExhausted`, `ServerKeepsConnections`).
* `ServerUsesPool`: every step of the server is one of `TaskService` or leaves its
  queue and tasks alone: what `PoolImplementsService` shows of the pool is all
  that the server relies on.
* `DescriptorsBounded`: what queue, threads and open sockets hold is bounded by
  `Capacity + Cardinality(Threads)`, but for the sockets that were refused.
* `ServedByThePool`: `ServesWithinPool`, a bijection between running connections
  and the threads that carry them.
* `ShutdownIsQuiet`: with `Drained` (nobody is served or waits once the pool is
  gone) every thread is idle, and then all counters and connections of
  `RequestService` are at rest (`IdleIsQuiet`).

and of the logger, for every number of threads, lines, intervals and faults:

* `TestedLinesAreWritten`, `ClosedOnlyForCause`, `ReopenedOncePerInterval` follow
  from `LoggerInv`: the mutex is held exactly by the thread that is reopening
  (`Holds`), there is a stream while anybody logs (`Alive`), a closed stream has
  its cause (`Closed`), and an elapsed interval has not been used yet (`Spent`).

and of the start, for inputs of any length:

* `AllNodesOrNone`, `ResolvedNodesAuthorize` and `ConnectionPerWorker` follow from
  `StartInv`: until `validate()` the replicas are those that have been read, in
  their order (`Taken`); within it, those up to `checked` match their URLs and the
  others are as they were given (`Compared`); behind it the numbers are in range
  and the pool is made of this configuration (`Pools`).

and for any number of threads, any time zone and any clock:

* `DatesWrongOnlyByOthers`: `WrongOnlyByOthers` is not inductive; `ReadSoFar`
  adds what the buffer and the text hold while a date is being read.

of endpoints, for all URLs and listening addresses:

* `NodesSurvive` and `CredentialsNeverStored` rest on `NodeOnItsWay`: a stored URL
  is the printed text of the repacked reading of the configured one, and what is
  used is read from it.  The rest is about operators: `Parse(UrlText(u))` is
  followed part by part.  A printed text begins with its scheme, behind which
  come two slashes, a host, bracketed if it holds a colon, a port and the path;
  where `Parse` cuts, there is the delimiter that was printed, and none before it
  (`Before` and `Rest` of a concatenation), and `Decode` gives back what `Encode`
  took (`EncodedAndDecoded`).  For the credentials: what `Parse` calls host, path,
  query and port lies behind the last "@" of the authority, and every secret in
  front of one (`SecretsInFront`).
* `ReadingsTurn` rests on `OnItsWay`: the stored listening address is the
  configured one, or what a socket prints of it.  Each reading reverses four
  octets, and reversing them twice gives them back (`ReversedTwice`).  Which of the
  answers of DNS is taken is a minimum (`MinOfNaturals`, by the well-foundedness of
  the order).
* `SixBound`: what an IPv6 text says is the place and the length of its gap and the
  numbers of its groups (`Says`), and two texts that say the same are the same
  address (`DataOfText`).  Taking zeros, blanks and colons away keeps what is said
  (`Stripped`, `SqueezedCounts`, `WalkAligns`: the gap shrinks, nothing else moves), so
  each way in which the code reads a text gives the configured address
  (`SocketOfSix`).  Printing shortens exactly one run of zeros, and a group below
  0x1000 is padded with a blank (`RunIsPrinted`, `WidthIs`); a text with a blank is
  no address (`BlankIsNone`), and one without any says what the address holds
  (`CleanComesBack`).  The values of the folds (`Number`, `Squeezed`) are found by a
  table that is extended by one entry (`FoldTable`), and what holds of every entry
  by the least one for which it does not (`ByInduction`, `UpTo`): the induction
  is over a set, which the provers can do, not over an operator.

of a URL in the hands of a caller, for texts, names and values of any length:

* `ParametersKept`: `ParametersComeBack` is not inductive: `UrlReads` adds that the
  parts of the object are texts and that there is no "#" in its query, without
  which printing and parsing would lose what is behind.  Cutting at "&", adding
  parameters and joining segments are folds; the values that a fold goes through
  are a function (`Folds`), extended by one symbol at a time (`FoldsAppended`), and
  what holds of no symbol and of one more holds of all (`ByAppending`, over a set).
  To cut an encoded text is to encode the pieces (`BetweenEncoded`), and a piece is
  read back as its name and its value (`DecodedAsQuery`, `PieceIs`), since no "&",
  "=" or "+" is left in either.  A parameter that is added adds its own piece
  (`AddedIs`), and what is printed in front of the query holds no "?" or "#", so
  that parsing finds the same query again (`PrintedBefore`, `ParsedQuery`,
  `ReprintedQuery`).

and of an address in the hands of a caller, for all addresses, masks and operands:

* `AddressesStayAddresses`: `IpOk` is inductive: every call gives a family and as
  many bytes as it has.
* `CallsAgree`: `IncrementedIs` says what `increment()` leaves: the last byte that
  is not 255 grows by one, and those behind it are 0.  `NextIs`: an address in
  between would differ from both at that byte.  `MappedBack` and `UnmappedBack`
  compare the sixteen bytes.  TLC compares with a few addresses, the theorem with
  all.
* `ClassesAreOfTurnedWords`: the tests of the program are masks on words (`Hit`), those
  of the network ranges of octets (`InRange`); block by block both come to the same
  condition on octets (`Octets4`, `Octets6`, `PrivateIs`), given what a mask of
  leading ones does to an octet (`OctetMasks`).

Assumptions are the named ASSUMEs of the modules (finite, non-empty sets,
natural bounds), which TLC evaluates on every run.  Those of `Endpoints` say what
is configured: texts are sequences of symbols of any length (`NodesAssumption`);
the words for a user and a password are where a URL has its user information
(`SecretsAssumption`: a secret that was put into a path would stay there);
literals have four octets and DNS answers with addresses (`ListeningsAssumption`);
groups have digits, of any number, and end in four octets if they end in any;
a listening address with port 0 is IPv4 (`PrintedAssumption`, see Limits).  Those of
`UrlObject` say what callers give: texts (`UrlTextsAssumption`), ports that have a
numeral in the model (`PortsAssumption`), what is to be encoded character by
character, so that an escape in it is a "%" and what follows (`PlainAssumption`),
and an encoded query without "#", which would end it (`EncodedAssumption`: the code
takes a raw query as it is).

Only model-checked: liveness and everything with ENABLED (`ShutdownEnds`,
`Answered`, `LogReturns`, `QueuedIsClosed`, `ShutdownDrains`, and the fairness that
is part of `ImplementsTaskService`), and `NormalizedLeadsThere`, which also needs that
cutting a path that was built of segments gives them back.

## Findings

Each is the counterexample of a run marked "violation"; `PROJECT.json` quotes the
line that promises otherwise.

1. `pool_enqueue`: a refused task has no callback here, so `add_task` returns
   its id and `enqueue()` returns true (`thread_pool.h:105`); httplib neither
   serves nor closes that socket.
2. `service_counted`: a body that is not JSON throws out of the handler before
   its metrics are counted (`app.cpp:304`).
3. `logger_lost`: a line whose test falls into another thread's reopening is
   dropped (`logger_file.cpp:60`).
4. `startup_authorize`: a node whose host did not resolve during `validate()`
   is opened with the default credentials (`configuration_data.cpp:110`).
5. `endpoints_listening`: an IPv4 literal is listened on backwards, 127.0.0.1
   as 1.0.0.127 (`ip_address.cpp:163`: the octets were never turned before); the run
   has that address only.  `TurnedByEachReading` says exactly when this happens: if
   literals are read an odd number of times on the way.  The default 0.0.0.0 is its own
   reverse.  A literal with port 0 comes out right: `validate()` prints it with the
   default port, and it is read twice.  A name comes out right if it has a port; with
   port 0 `validate()` puts the literal of its address in its place, and that is bound
   backwards.

Further divergences between the code and its documents, read off the source
while modelling and not the subject of a run:

* data that only PostgreSQL rejects, or JSON that does not parse, is answered
  with 500 (`app.cpp:384`), where `misc/openapi.json:115-116` promises 400;
* `error_handler` replaces the JSON body of a 500 or 503 by HTML
  (`app.cpp:656`; `misc/openapi.json:626-639` describes JSON);
* the configuration documented for the file logger makes its constructor throw
  (`logger_file.cpp:32`, `86-88`; `logger_file.h:12`);
* replicas of the command line are appended to those of the environment, while
  the log says "replaced" (`configuration.cpp:221-224`);
* a listening port above 65535 is kept (`configuration_data.cpp:189`;
  `README.md:1081`);
* the queue capacity defaults to 1024 and may be up to 4096, where
  `README.md:1082` has 10 and `[1 .. 1024]`;
* an IPv6 address with a group below 0x1000 that is not in the run of zeros is
  printed with blanks, which nothing can read, and one that is taken to embed an
  IPv4 address without it (`ip_address.cpp:424-445`): the service listens nowhere,
  or on another address (`SixListening` says when);
* of a node whose host is an IPv6 address in brackets, `validate()` looks up the
  text before the first colon, since it puts "host:port" together without the
  brackets (`configuration_data.cpp:78`).  The port it finds is the text behind that
  colon: where a 0 is there, as in "[a:0]:6543", 5432 takes the place of the
  configured port (`socket_address.cpp:373-400`, `dns_address.cpp:217-231`;
  `NodeSurvives` excepts it);
* of credentials with an '@' in the password only what is between the last two
  '@' is read, as the login (`url.cpp:626-628`); a URL that begins with "://" is printed without its
  authority (`url.cpp:213`);
* the Date header is local time and says GMT (`app.cpp:43`; comment at line 42);
* the tests of the class of an address are right only for IPv4 taken from a
  `sockaddr`: the masks of the IPv6 classes are written in network order and compared
  with words in the order of the processor (`ip_address.cpp:498-672`), and a text
  is kept in network order; `is_loopback()` of a mapped address reads behind
  `data_` (`ip_address.cpp:521-548`);
* `normalize()` of a relative "a/../" gives "/", and of "/.." it gives an empty path
  (`url.cpp:180-208`, `732-754`); `to_string()` prints user and host as they are,
  so a '?' or '#' in them begins the query (`url.cpp:210-238`);
* `operator==` of two socket addresses throws if the first is IPv4 and the second a
  UNIX path, and not the other way round (`socket_address.cpp:135-142`, `225-229`);
* `resolve_service_to_port()` reads a port into 32 bits, so 4294973296 is 6000
  (`number_parser.cpp:169-178`), and a number with anything behind it is one, too.

Three behaviours of the model that no document contradicts: a date may mix two
instants when two workers format at once (`WrongOnlyByOthers` is exact about
when), a user who was just
registered is not found on a replica that lags (`NotFound`), and a connection
to a node that has stopped stays in the pool for the life of the process.

## Limits

Bodies, headers, passwords and SQL are abstracted; a request is an endpoint and
a kind of input.  Of httplib there is what `App` configures: the accept loop, the
queue, keep-alive with its count and its timeouts; a socket that breaks while a
request is read or answered is a connection that ends, between two requests.  The
clock of the logger is a flag; a system clock that is set back only delays it.
Memory: the data races are modelled as reads of either value, at the level of the
words that the properties tell apart.  Addresses are those of a little-endian
processor; brackets inside an IPv6 literal, and an IPv6 listening address with
port 0 (`PrintedAssumption`), are not followed.

## Not modelled

* `FilePath` (`filepath.cpp`): nothing in the service uses it but a constructor of
  `Url` that nobody calls.  Read beside the model: copying a directory without
  `recursive` returns true and copies nothing of it.
* `host_by_address`, the scope of an IPv6 text, the comparison of socket addresses
  and sockets of the UNIX domain: called by nothing.
* The number parsers other than `try_parse_int`, the string, environment, random and
  thread helpers: wrappers of the standard library without state.
* The other loggers: formatting, and one write under a mutex.
* Tables and indexes: their calls are commented out (`app.cpp:170-180`).
* Load tests, user generator, Docker, Prometheus and Grafana: no logic of the
  service.

## Plan

Done, in this order: `ThreadPool`, `TaskService`, `ConnectionPool`,
`RequestService`, `FileLogger`, `Startup`, `ResponseDate`, `Url`, `Addresses`,
`Endpoints`, `Server`, `UrlObject`, `IpObject`; and the proofs, those of
`Endpoints` and `IpObject` last.  Next:

1. read-your-writes: a session of one client over `RequestService`, once a document
   says what a client may expect of the replicas;
2. the table and index set-up, once its calls are enabled: it runs on the pool,
   before the server listens;
3. a proof of `NormalizedLeadsThere`: that the segments of a built path are those it
   was built of, and that each step of `NormalizedSegments` keeps where they lead.
