# Statika in TLA+

TLA+ models of Statika, the static file server of this repository, with the TLC
runs that check them on small instances and TLAPS proofs for instances of any
size. File and line references are relative to the repository root.

## The system

Statika is one process. The main thread (`run`, `src/server.rs:51`) accepts TCP
connections and pushes them into a bounded queue; a fixed number of worker
threads pop them. A worker reads one request, answers it with one response,
closes the connection and pops again. There is no keep-alive and no state
between requests other than the files of the document root, which somebody else
may change at any time. SIGINT and SIGTERM set a flag; the main thread sees it,
closes the queue and joins the workers for at most the shutdown timeout.

| component | state | operations | meets the others through |
|---|---|---|---|
| work queue, `src/server.rs:720-835` | deque of connections with deadlines, `closed`, mutex, condvars `not_empty`, `not_full` | `push`, `pop`, `close`, `discard_expired` | the acceptor pushes and closes, workers pop |
| acceptor, workers, shutdown, `src/server.rs:51-179, 837-871` | `SHUTDOWN` flag, channel of finished worker ids, `completed` | `accept_loop`, `worker_loop`, `handle_connection`, `join_workers`, the signal handler | queue, channel, thread joins |
| response transfer, `src/net.rs` | offset and count of `send_file`, buffer of the fallback | `write_all`, `send_file`, `send_file_fallback`, `wait_fd` | called by the worker for head and body |
| static file selection, `src/server.rs:356-633` | none of its own; the files | `serve_static`, `open_representation`, `cache_control`, `is_not_modified`, `if_none_match_matches` | opens through `RootDir`, writes through `net` |
| document root walk, `src/fs.rs` | a directory descriptor | `open_file` with `O_NOFOLLOW` per component | called per file tried |
| request reader, `src/http.rs:110-139` | bytes read so far | `read_request` | reads the socket, waits through `net` |
| request parser, `src/http.rs:141-274, 441-511` | what the lines so far said | `parse_request`, `accepted_encodings`, `parse_quality`, `decode_target` | between reader and file selection |
| HTTP dates, `src/http.rs:371-660` | none | `http_date`, `parse_http_date` and the calendar functions | validators of requests and responses |
| response heads, `src/http.rs:285-311`, `src/server.rs:458-718` | the outcome to be logged | `response_head`, `simple_error`, `simple_response`, the end of `serve_static` | writes through `net`, log |
| configuration, `src/config.rs` | read once | `from_env` and a parser per kind of setting | all others |
| program entry, `src/main.rs`, `src/server.rs:51-74, 869-887` | exit code, signal handlers | `main`, the start of `run` | configuration, server |
| log, `src/server.rs:582-585, 889-962` | none | `log_request`, `escape_json`, `request_path_for_log` | stderr |
| content types, `src/http.rs:313-369` | none | a table | response heads |

What is hard in it:

* **Interleavings.** `pop` waits on `not_empty` without a timeout, `push` and
  `close` notify. A woken worker may find its item taken, and a wait may end
  for nothing.
* **Time.** A connection has one deadline from its acceptance on, and it is read
  at many places: by the queue, before the request is read, before each `poll`.
  Between any two of them it may pass. An error reply gets more time.
* **Partial failure.** Accepting may fail for good while workers are busy, the
  last worker may end at the moment the shutdown timeout passes, and a response
  may fail in its head or its body. `eprintln!` panics when stderr cannot be
  written; what that means depends on the build, see below.
* **Files that change.** Up to six files are opened one after the other for one
  request, and the file that is sent may be truncated after its length was
  announced.
* **Limits.** A full queue, a socket that takes a byte at a time, a chunk limit,
  a header that just fits, settings next to their bounds.
* **Untrusted text.** A header in any split, a path with escapes, dots and
  slashes, dates that do not exist, quality values in odd spellings, quotes in
  what is logged: each is decided by a scan whose order of steps matters.

### Panics and builds

`Cargo.toml:19` sets `panic = "abort"` for the release profile, and that is the
build that is shipped (`Dockerfile:7`, which `release.yml` uses too). There a log
line that cannot be written ends the process and closes all connections:
`StderrFails` of `Server`, and `Exit("panic")` of `Startup`. Builds of the dev
and test profile unwind: the panicking thread is lost, with the mutex held if it
was in `pop`, the others go on with the poisoned mutex, and `run` may return
`WorkerPanic`. The constant `Fragile` is the set of workers to which that may
happen. It is empty for the release build. The runs give it one worker and leave
the others to `StderrFails`. Since at most one panic ends the process, and workers
differ in nothing else, the runs have, up to the names of workers, all behaviours
of the release build and those of an unwinding one besides. The theorems hold
for every `Fragile`. No finding depends on unwinding.

## Modules

| module | models | extends |
|---|---|---|
| `ConnectionLine` | abstract specification: what the queue promises to a connection | |
| `WorkQueue` | the queue, with its threads as far as the queue sees them | |
| `Server` | acceptor, workers and shutdown around the queue | `WorkQueue` |
| `ServerFairness` | the same with workers that run, or hang for ever, and its liveness | `Server` |
| `Transfer` | one response written to a nonblocking socket | |
| `StaticFiles` | which file a request gets, with which headers | |
| `AtomicOpen` | abstract specification: opening a file is one look at the tree | |
| `RootWalk` | the walk from directory to directory | |
| `RequestReader` | reading a header and cutting it into lines | |
| `Splits` | `slice::split` and a filter, as the parsers use them | |
| `RequestParser` | the lines of a header, and the items of Accept-Encoding | `EntityTags` |
| `TargetDecoder` | from a target to the components of a path | `Splits` |
| `EntityTags` | the comparison of If-None-Match with an ETag | `Splits` |
| `LogLine` | the text of a request's log record | `Splits` |
| `Request` | one request from its header to its log record: the composition of the four above | `RequestParser`, `TargetDecoder`, `LogLine` |
| `HttpDate` | the dates of HTTP, beside a calendar that is counted | |
| `Config` | what each setting makes of its variable | `Splits` |
| `Startup` | from `main` to the first accept, and the exit codes | `Config` |
| `Response` | heads, bodies and log outcomes of all answers, under the settings the start came to | `Startup` |
| `MC...` | constants for TLC | the module they check |
| `WorkQueueProofs`, `ServerProofs`, `TransferProofs` | theorems about queue, process and transfer | the module they prove about |
| `FilesProofs` | theorems about the file selection and the walk | `StaticFiles`, `RootWalk` |
| `HttpProofs` | theorems about dates and the reader | `HttpDate`, `RequestReader` |
| `RequestProofs` | theorems about parser, decoder, matching and log of one request | `Request` |
| `ResponseProofs` | theorems about settings, heads and outcomes | `Response` |
| `DataInduction` | induction over sequences, and what the folds and splits of the models compute | `Splits` |

How they fit together: a worker of `Server` is one step "reads the request" and
one step "replies". `RequestReader` is the first; `Request` goes on from the
complete header to the record in the log, with the parser, the decoder, the
comparison of tags and the text of the log working on one request.
`StaticFiles` (with `RootWalk` where it opens a file and `HttpDate` where it
compares dates), `Response` and `Transfer` are the reply; `Startup` comes before
all, and `Response` is composed with it, since the heads depend on the settings.
What one assumes another shows:

* `QueueAssumption` of `WorkQueue` (at least one worker, one place, one unit of
  time) is what `SafeToServe` of `Startup` says of the settings.
* The `Paths` of `RootWalk` and the `Targets` of `StaticFiles` have names
  without slashes and dot segments: `TargetIsRead` of `TargetDecoder` for those of
  a request, `SafeToServe` of `Startup` for the index.
* `StaticFiles` opens a file in one step. `OpensAtomically` of `RootWalk` shows
  that this is so as long as only entries of the root itself are replaced while
  one path is walked; if directories deeper down change, the walk may answer
  with a file that no single tree had at that path, and `Confined` still holds.
* `Server` lets every read and every write of a worker end by its deadline:
  `ReadingEnds` of `RequestReader` and `TransferEnds` of `Transfer`.
* `Response` has no header twice as long as no extra header is reserved, which
  is what `ParseExtraHeaders` of `Config` refuses: `HeadIsRight` is checked with
  the settings of `Startup`.

Operators named `Bad...` stand right before the operator
they are a mutant of. No specification uses them. Each is a mistake one could
make at that place of the code; with it in place of the original, a property of
a run fails. `PROJECT.json` says which.

### WorkQueue

`streams` and `closed` are the fields of `QueueState`. `pusher` and `work` say
where the one pushing thread is in `push` and with which connection; `popper`
and `item` say where each worker is and which connection its `pop` returned.
A critical section is one step. The exception is `push`, which looks at the
clock twice under the mutex and at the flag, which no mutex protects, twice as
well: `PushScan` is a round of its loop, and `PushRefuses`, `PushDropsExpired`
and `PushEnqueues` are what follows it. Between them the mutex is held
(`pusher = "admit"`), so no worker can pop, but time and signals go on.
`PopTakes`, `PopFindsNone` and `PopPanics` are the outcomes of one round of
`pop`'s loop. Every wait on a condition variable may end spuriously, and the
wait on `not_full` ends by its timeout as well.

Deadlines are countdowns: `left[c]` is the time from now to the deadline of `c`,
zero if it has passed. That is how the code uses an `Instant`
(`saturating_duration_since`), and it keeps the state finite without a bound on
time. A connection may come back after it was closed: it stands for a new one.

`Fragile` are the workers that a failed write to stderr unwinds (`PopPanics`,
`WorkerPanics`), see "Panics and builds". In the release build there are none.

`WorkQueue` is checked to implement `ConnectionLine` under the refinement
mapping of `Promise`: the line is the queue with the connection still in `push`
at its end, `serving` is what the workers have.

### Server

`main` is where the main thread is, one value per place where it calls or
decides something: the loop condition of `accept_loop`, `accept`, the wait on
the listener, the backoff, `push`, `close`, and the steps of `join_workers`.
`phase` is where each worker is outside of `pop`: `handle_connection` up to its
reply, the reply or error reply, and `log_request`. `grace` is the deadline of
an error reply (`simple_error` takes the later of the connection's deadline and
now + 250 ms). `channel` and `completed` are the channel of finished ids and the
vector of `join_workers`. The actions of the queue are conjoined with the
process's own steps, so what holds of the queue holds in the process.

`StderrFails` is a panic that ends the process, with the result "abort". It may
come wherever a thread is about to log: `MainLogs` are the places of the main
thread, `WorkerLogs` those of a worker; the last log of all, `log_stopped`, is in
`Exit`.

What a peer sends or takes is up to it: a read ends with a request, a bad
request, an error, or by the deadline. What a request is, and how the reply is
written, is the subject of the other modules.

The shutdown timeout has a clock of its own (`JoinExpires`), so that it may be
shorter or longer than any request.

`ServerFairness` adds one variable, `hung`: whether the workers run or hang for
ever. It changes nothing a process can do, only what it can rely on.

### Transfer

One system call per step. `wire` collects what the socket took, each byte as its
position in the response, so that order, loss and repetition show. `FileChanges`
gives the file another length between any two calls. `sent` is both the count
and the file offset of `send_file`, which the code advances together; the
fallback goes on at `sent`. Interrupted calls are repeated by the code and are
left out, except in `wait_fd`, where repeating means to look at the deadline
again (`PollAgain`).

### StaticFiles

One open per step: `tries` are the encodings `open_representation` has yet to
try, `opening` the components it was called with, `fallback` whether these are
the index in place of a missing path. A file is what opening it yields: a
version of a content, `Missing` (any error `is_not_found` accepts) or `Broken`
(any other error). `ChangeFile` replaces, removes or breaks a file between two
opens. A client keeps the ETag of a 200 (`cached`) and may revalidate with it,
with the Last-Modified that belongs to it, or with both.

Abstractions: names are atoms; a request names no sidecar directly (`/app.js.br`
is then an ordinary file of the same content); the ETag, made of inode, length
and nanosecond time of modification, is taken to identify file and version; a
client revalidates with one strong ETag of its own (`EntityTags` has lists, `*`
and weak tags).

### RootWalk and AtomicOpen

A tree maps the names in each directory to inodes: directories, files, links,
fifos, and those that may not be opened. `StepDown` is an `openat` with
`O_DIRECTORY`, `OpenLast` the last one with the `fstat` after it, and `Replace`
an entry that is replaced between two of them. In which directories entries are
replaced (`changing`: in the root only, or deeper down as well) is settled at the
start, so that one run covers both.
`BadLedTo` is the walk without `O_NOFOLLOW`. A directory is never moved across
the border of the document root: `..` is not used by the code, but a descriptor
of a directory that is moved outside would lead there. A directory has one parent,
so no entry leads back to the root itself (`IsTree`): with one that did, an entry
of the root could change after the walk passed it and be looked at again.

`AtomicOpen` is a call that looks once; `OpensAtomically` claims it where only
entries of the root are replaced. The refinement mapping `Atomic` says when
`open_file` has looked: when it opened the first component, since what lies below
no longer changes then, or with its answer.

### RequestReader

A header is a sequence of `CR`, `LF` and `x`, so that the terminator may be split
over any reads. `pc` is the place in the loop of `read_request` and in
`wait_fd`. `Lines` are the pieces between line feeds of which `parse_request`
strips a carriage return; all other reasons to refuse a line are a choice of
`Parse`. A read may fail, or be timed out by the kernel, which `map_io` turns
into the same 408 as the deadline. A 431 does not say that the header is too
large: a complete header within the limit is refused too if bytes behind it came
in the same read and all together exceed the limit (`src/http.rs:125`). The
properties are stated so that they allow for that.

### Request, RequestParser, TargetDecoder, EntityTags, LogLine

`Request` is `handle_connection` after `read_request`: its actions are the early
returns of that function and the calls it makes. `serve_static` is reduced to
what concerns the request: there is a file or there is none, and a file is
answered with 200 or 304 (`IsNotModified`). `Returns` is a `RequestOutcome`
without bytes and error, which `Response` has.

`RequestParser` takes the lines by their meaning, one at a time, in every order,
then the items of all Accept-Encoding lines. Quality values are spelled out in
digits, since their scaling is where an error would sit. Not modelled are sizes
of a line or of the target, and the bytes a token may have: each is one more way
for a line to be "malformed".

`TargetDecoder` decodes byte by byte, then splits component by component. It is
checked against `Reading`, a definition that finds all escapes at once.

`EntityTags` is a pure comparison. `MatchIsRight` compares the answer with the
grammar of RFC 9110, which knows tags in quotes and not commas. They disagree
for a list with a foreign tag that contains `,*,`: it is taken for a star. The
property leaves tags with commas out; Statika writes none.

`LogLine` escapes character by character, and `RecordIsTrue` reads the result
back with a reader of JSON strings (`Strings`). Of the control characters only
NEL and its like get past the parser; the others are in `Escape` as they are in
`escape_json`, which also serves settings and error texts.

### HttpDate

The functions of `src/http.rs` as operators. Beside them `NextDay` and
`NextYear` walk through a calendar in the way a person counts it, so that every
state is a day with a date that nobody computed. The seconds of the code are
pairs of a day and a second of it, because TLC's integers have 32 bits.

### Config, Startup, Response

`Config` has one operator per parser of `src/config.rs`; a raw value is what the
parser tells apart. `Startup` reads the variables in the order of `from_env`,
which decides which error is reported, and makes the calls of `run` with signals
between any two. `Response` answers one request once the process serves, with
every kind of answer and every method, under the settings it came to; a head is
the sequence of its header names. `RawValues` is what a run has in the
environment; of a variable that is none of its kind (`Raw`) nothing is read. `ServiceSpec` is both together: the process
may be told to stop at any step of a response.

## Runs

| run | question | instance | states |
|---|---|---|---|
| `queue` | Is the queue a bounded, ordered line that loses no wakeup, and does it implement `ConnectionLine`? | 4 connections, 3 workers (1 fragile), capacity 2, timeout 2 | 12 thousand (symmetric) |
| `server` | Is `Ok` told after a clean stop only, and can a join without a timeout block? | 3 connections, 2 workers (1 fragile), capacity 1, timeout 2, grace 1 | 267 thousand (symmetric) |
| `fairness` | Does a signal end the process even if all workers hang? If they run, do all leave after `close`, and is every connection released, whatever peers do? | 2 connections, 2 workers (1 fragile), capacity 1, workers that run or hang | 191 thousand |
| `transfer` | Does a response arrive in order and once, is success complete, does it end? | head 2, body 4, chunk limit 3, buffer 2, file up to 5, lifetime 2 | 2.3 thousand |
| `static_files` | Which file, which caching, and are fallback, 304 and 404 right? | 8 targets, 4 preferences, 6 files, 2 versions | 1.3 million |
| `root_walk` | Does the walk stay inside and end, whatever is replaced, and is it one look if only the root's own entries are? | 4 directories, 3 files, 2 links, 1 fifo, 6 paths, 3 replacements in the root only or below as well | 96 thousand |
| `request_reader` | What is parsed and what refused, however it is split, and does it end? | limit 8, reads of 1 to 4 bytes of 3 kinds, lifetime 1 | 88 thousand |
| `request` | What is accepted, what is made of its headers and target, when is it answered 304, and does its record tell the truth? | slices, see below | 928 thousand |
| `http_date` | Do the closed formulas agree with counting? | each day of 1968-2104, 2396-2404, 9996-10001, each 1 January in between | 63 thousand |
| `startup` | Which settings are served with, is a signal lost while starting, and do head, body and log of a response agree? | any two settings next to their limits, all paths of up to 4 bytes, up to 2 extra headers of 7 kinds, 2 lengths | 614 thousand |
| `late_send` | (expected violation) Does `send_file` stop at the deadline? | as `transfer` | |
| `listen_addr` | (expected violation) Is the address served on the default or the one given? | as `startup` | |

Most properties of a run are conjunctions of named parts (`AcceptedIsRight` is
`ValidatorsAreTheLast` and `EncodingsAreRight`, `LimitIsExact` is
`CompleteIsParsed` and `TooLargeIsTrue`, and so on), which the modules define one
by one. The type invariants `QueueTypeOK`, `ServerTypeOK`, `TransferTypeOK`,
`FilesTypeOK`, `ReaderTypeOK` and `WalkTypeOK`, and `SingleOwner`,
`DeadlinesOrdered`, `Accounting` and `Counted`, are theorems, and no run repeats
them. All other safety properties are both checked by a run and theorems, except
the two that are expected to be violated.

Why these bounds are enough for the interesting cases:

* `queue`: four connections fill the queue of two, one more is in `push` and one
  with a worker. Three workers let a woken one be overtaken while another is
  blocked, which is what a lost wakeup takes; the fragile one may also die then,
  where panics unwind.
  Two ticks tell "expires while it waits" from "expires before its neighbour".
* `server`: a shutdown may find one worker ended and one busy, and the last id may
  come just before or after the timeout. One worker that unwinds and one that
  does not tell a disconnected channel from an empty one. Three connections are
  one with each worker, or one queued and one in `push`.
* `fairness`: two connections fill the queue while the main thread pushes, or
  give each worker one while it stops. No symmetry, which is unsound here.
* `transfer`: the body takes more than one chunk of either kind, neither divides
  it evenly, and the file may be shorter, equal or longer than announced.
* `static_files`: the index lies among the assets and has a fingerprint in its
  name, the configuration allows that; both versions share their Last-Modified.
  The initial states range over all sets of existing files.
* `root_walk`: three replacements are enough to exchange every component of the
  longest path after it was looked at; the links lead to a directory and to a
  file outside.
* `request_reader`: the limit of eight is the shortest header with a line before
  the empty one, plus the three ways to be just below, at and above it with a
  read of at most four bytes. The constants of the code, 16384 and 1024, have the
  same proportion to a terminator of four bytes as far as the tests at the limit
  go: what matters is whether it straddles a read and the limit. The theorems do
  without these numbers.
* `request` is checked in slices, each of which exercises one part of a request
  and has little else (`MCRequest`): all sequences of up to four of thirteen
  header lines under eight request lines (a third line of a name shows nothing
  that a second does not; four leave two for another name in between); all
  qualities of up to five bytes; all lists of up to five pieces of entity tags;
  all targets of up to four pieces, which hold escaped dots and slashes on either
  side of each other and `%252e`; all methods and paths of up to three characters
  that mean something to a reader of the log.
* `http_date`: an era of 400 years repeats, and its seams (leap days, century
  years, 2400) are counted day by day. The theorems have no such bound.
* `startup`: each number is unset, not UTF-8, no number, and at or past either
  end of its range. Only the default of the queue size depends on another
  setting, so two that deviate from the default are enough; gzip, brotli and
  the extra headers, which a head depends on together, deviate all three.

Deadlock is checked in `queue`, `server`, `fairness`, `transfer`, `static_files`,
`request_reader` and `root_walk`; `Exited`, `Ended` and `Done` are the stuttering
of a process, a response or a call that is over. It is not checked where a
request is over when it is logged (`request`), a calendar ends with `LastYear`
(`http_date`), or the process may exit (`startup`).

### Fairness

* `MainRuns`: the kernel runs the main thread, so it does not stop at a step it
  can take. The condition to get out of `push` is not assumed: it follows from
  the clock.
* `ClockRuns`: time passes while a deadline lies ahead. In `FairServerSpec` the
  shutdown timeout (`JoinExpires`) is sure to pass only if the workers hang; if
  they run it may never come, so that leaving owes nothing to it.
* `WorkerIsFair`: a worker that does not hang goes on with what does not depend on its peer: it looks
  at the deadline before reading, it gives up a read or write whose deadline has
  passed, it logs, it returns. Taking the mutex has strong fairness: a worker in
  `lock` competes with the acceptor and the others for it, and the mutex of
  the standard library is not fair by contract but does not starve a thread.
* Nothing is assumed of peers, signals, spurious wakeups or failures of stderr.
* `FairTransferSpec`: the worker goes on, time passes, and `poll` returns once
  its timeout has passed. `PollReady` is not fair.
* `FairReaderSpec`: the same for `read_request`; a read may go on finding one more
  byte, and the limit ends that.
* `FairWalkSpec`: `openat` returns, except from a fifo that is opened without
  `O_NONBLOCK` (`Blocks`, which only a mutant makes true).
* `ServiceSpec`: the main thread runs, and `accept_loop` sees a flag that is set.
  That it then gets out is `ShutdownCompletes` of `Server`.

## Findings

* `late_send`: `README.md:22` says that each connection has a bounded total
  lifetime from acceptance. The deadline is looked at only before a `poll`
  (`src/net.rs:140`), that is when the socket would block. To a peer that keeps
  taking data `send_file` (`src/net.rs:48-73`) sends chunk after chunk after the
  deadline; only the length of the file bounds it.
* `listen_addr`: `README.md:48` gives `STATIKA_LISTEN_ADDR` as a socket address with
  the default `0.0.0.0:8080`. It is read with `env::var(...).unwrap_or_else(...)`
  (`src/config.rs:67-68`), which drops the error of a value that is not UTF-8 like
  that of a missing one: the server does not refuse it but listens on every
  interface. All other variables with such a value are refused or read as bytes.

Other observations, which no run is about:

* `X-Content-Type-Options` and `Allow` are written by Statika but not reserved,
  so that `STATIKA_EXTRA_HEADERS` can double them.
* A request that is refused before its method is known gets a body even if it
  was a HEAD request.
* A header within the limit may get a 431 if bytes after it come in the same read
  and together exceed the limit (`TooLargeIsTrue` says so much and no more).
* An If-Modified-Since that cannot be read takes back an earlier one
  (`ValidatorsAreTheLast`).

## Proofs

TLC checks small instances. TLAPS proves every safety property of the passing
runs, and both refinements of an abstract specification, for all constants that
satisfy the assumptions of the modules.
What these assume of the code:

* `QueueAssumption`: finitely many workers, capacity and timeout at least one,
  which is `SafeToServe`; connections may be infinitely many. `GraceAssumption`,
  `TransferAssumption`, `ReaderAssumption`, `FilesAssumption`, `DateAssumption`,
  `ResponseAssumption`, `RequestAssumption`: the constants are numbers, names and
  sizes of their kinds.
* `RootAssumption`: inodes are of one kind each, and every initial tree is a tree.
* `ConfigAssumption`: there is a processor, and `Invalid` is no setting.
* `ParserAssumption`: a request line that is well-formed has a target that begins
  with a slash (`src/http.rs:155-161`), and no date is `None`.
* `TagsAssumption`: the opaque part of Statika's own ETag is no quote, comma,
  star or blank; it is made of digits and dashes.
* `DecoderAssumption`, `LogAssumption`: what bytes are hexadecimal digits, what is
  forbidden and what is a control character overlap as in ASCII; two control
  characters have two codes.

Headers, targets, tags, environments, trees, reads, sites and years are not
bounded.

| theorem | property | along which argument |
|---|---|---|
| `QueueTypeCorrect` | `QueueTypeOK` | inductive as it stands |
| `QueueStaysBounded` | `QueueBounded` | see 1 |
| `NothingBehindClose` | `ClosedStaysEmpty` | see 1 |
| `OneOwnerEach` | `SingleOwner` | see 2 |
| `DeadlinesStayOrdered` | `DeadlinesOrdered` | see 3 |
| `PopDiscardsAll` | `PopLeavesNoneExpired` | from 3 |
| `NoWakeupLost` | `NoLostWakeup` | see 4 |
| `QueueIsALine` | `ImplementsLine` | see 5 |
| `ServerTypeCorrect` | `ServerTypeOK` | inductive as it stands |
| `EveryWorkerCounted` | `Accounting` | see 7 |
| `JoinsNeverBlock` | `JoinNeverBlocks` | see 7 |
| `OkMeansCleanStop` | `CleanStop` | see 7 |
| `TransferTypeCorrect`, `ResponseInOrder`, `SuccessIsComplete`, `CountIsRight` | `TransferTypeOK`, `InOrder`, `OkIsComplete`, `Counted` | see 8 |
| `FilesTypeCorrect`, `DotfilesAlwaysDenied`, `AssetsNeverReplaced`, `AlwaysCachedSafely`, `NotModifiedAlwaysTrue`, `AlwaysBestServed`, `NotFoundAlwaysTrue`, `FallbackAlwaysRight` | `FilesTypeOK`, `DotfilesDenied`, `AssetsNeverFallBack`, `CachedSafely`, `NotModifiedIsTrue`, `BestServed`, `NotFoundIsTrue`, `FallbackIsRight` | see 9 |
| `ReaderTypeCorrect`, `CompleteIsAlwaysParsed`, `TooLargeIsAlwaysTrue`, `LimitAlwaysExact`, `LinesAlwaysTheHeader` | `ReaderTypeOK`, `CompleteIsParsed`, `TooLargeIsTrue`, `LimitIsExact`, `LinesAreTheHeader` | see 10 |
| `WalkTypeCorrect`, `AlwaysConfined`, `OpeningIsAtomic` | `WalkTypeOK`, `Confined`, `OpensAtomically` | see 11 |
| `DaysCounted`, `DateAlwaysRight`, `CalendarAlwaysAgrees`, `RoundTripKeepsTime`, `EchoIsHonest`, `LastModifiedAlwaysEchoes`, `AcceptedExists` | `DaysAreCounted`, `DateIsRight`, `CalendarAgrees`, `RoundTrip`, `EchoedDateIsHonest`, `LastModifiedEchoes`, `AcceptedDateExists` | see 12 |
| `ParserInvariant`, `VerdictsAreRight` | `VerdictIsRight` | see 14 |
| `AcceptedInvariant`, `AcceptedRequestsAreRight` | `AcceptedIsRight` | see 15 |
| `RequestInvariant`, `TargetsAreRead` | `TargetIsRead` | see 16 |
| `OutcomeInvariant`, `RecordsAreTrue`, `RequestIsTyped` | `RecordIsTrue`, `RequestTypeOK` | see 17 |
| `MatchesAreRight` | `MatchIsRight` | see 18 |
| `SettingsAreSafe` | `SafeToServe` | see 19 |
| `ServiceInvariant`, `ServiceIsTyped`, `HeadsAreRight`, `LogsAreTrue` | `ServiceTypeOK`, `HeadIsRight`, `LogIsTrue` | see 20 |

1. `BoundInv` adds to the bound that there is room, or the queue is closed, while
   `push` is in its second half (`RoomToAdmit`): `push` appends later than it
   looked at the length, and what saves the bound is that it keeps the mutex.
   `ClosedStaysEmpty` is part of the same induction.
2. `SingleOwner` speaks of sets and a count. `OneOwner` says the same of indices
   and pairs of workers, which is what a step preserves: `OneOwnerIsSingle`
   leads from one to the other, `FewerItemsOneOwner` covers every step that
   drops items from the front.
3. `QueueOrdered` has the connection in `push` behind all others. It needs that a
   tick moves all countdowns together, and that the newest one starts with the
   full `RequestTimeout`, the most a countdown can be. Because the deadlines
   are ordered, `discard_expired`, which stops at the first item alive, has
   removed all that expired (`DiscardProperties`, `PopDiscardsAll`).
4. `NoLostWakeup` is inductive with the types, but each step has to be counted:
   `AwakeCount` gives the change of the number of awake workers for one worker.
   A step that takes a worker from them takes an item too or finds none left,
   and one that adds an item wakes a worker if one is blocked.
5. `LineStep` maps each action to a step of `ConnectionLine` or a stutter under
   the mapping of `Promise`; `OwnerInv` is what makes a pushed connection new to
   the line and a popped one its first.
6. Each action of the process is an action of `WorkQueue` with more around it, or
   leaves the queue alone. That `ServerSpec` implies `QueueSpec` (the lemma
   `ServerUsesQueue`) is therefore nothing to learn from the code, but by it
   every theorem of the queue holds in the process.
7. `AccountInv` is `Accounting` with the types; a worker that is gone stays gone.
   `JoinNeverBlocks` is a part of `Accounting` and not inductive without it: it needs
   that every id received is of a worker that returned. `CleanStop` then follows
   from `Accounting` (all ids are in, so all workers returned) and, through 6,
   from `ClosedStaysEmpty` of the queue.
8. `TransferInv` adds to the types what the next byte is: `Contiguous` (the wire
   is the beginning of the response and the buffer what follows on it) and
   `Position` (how the length of wire and buffer follows from `sent`, `chunk` and
   the part being written). Neither `InOrder` nor `OkIsComplete` is inductive
   without them, since a short write cuts the buffer anywhere (`RunSplits`).

9. `FilesInv` records what `open_representation` knows when it tries a file:
   which components it was called with and why (`OpeningInv`), that the encodings
   passed over are missing unless something changed (`TriesInv`), that the path
   was missing when the index stands in for it (`FallbackInv`), and what a reply
   owes to all that (`ReplyInv`). `OrderIs` and `HeadIsBest` are about the order
   of encodings alone. A change of a file makes most of the invariant void by its
   own terms, except what concerns the rules for dotfiles, assets and caching.
10. `ReaderInv` says that no header ends in what was read before `FindEnd`, so that
   the end it finds is the first (`HeaderIsFirst`, an auxiliary invariant).
   `LinesAreTheHeader` needs more: that a header whose end is the first has no
   empty line but its last (`OneEmptyLine`, `WholeEnd`), so that `parse_request`,
   which stops at the first empty line, has seen all lines. Lines are found by a
   least element (`NatMin`).
11. `Confined` is inductive with the types, for any tree and any replacements: an
   entry of an inside directory is inside (`StaysInside`), and a replacement
   keeps it so (`ReplacedIsTree`). `OpensAtomically` rests on what `Lookup` finds
   below a directory: it is the end of a descent (`DescentExists`, `LookupIs`)
   that goes on one component after another (`LookupDown`, `LookupNowhere`), and
   no replacement in the root changes it once the root is behind (`LookupKept`).
   That needs `WalkInv` to say that the walk is in the root only before its
   first component, which is false of a tree with an entry for its own root.
12. The induction is over the days of the calendar, which are its behaviours:
   `DayLater` and `YearLater` say that `DaysFromCivil` grows as one counts, over
   the ends of months, February and centuries; `DateFound` that `CivilFromDays`
   undoes it, by the year of the era (`EraFound`, `YearFound`) and the month
   (`MonthFound`). The seconds of a day are split and put together by
   `SecondsSplit`.


13. Induction over data. The library states induction for a predicate, which
   no installed prover can instantiate. `DataInduction` states it for a set
   instead: what holds of 0 and goes from each number to the next is all of a
   segment (`SegmentInduction`), what holds of the empty sequence and of each
   with one more element is every sequence (`AppendInduction`). A fold of the
   community modules is then shown to be the last state of a run (`FoldIsRun`, for
   which the set of index sets up to `n` is shown to have a fold, `FoldExists`),
   and the laws of `Split`, `Without` and `FlattenSeq` follow: what one more element
   adds, and that they take a concatenation part by part.
14. `ParserInv` adds to the types that `hostCount` counts the Host lines seen
   (`HostsAreCounted`), that a count of one has its line (`HostIsNamed`), and why
   a request was refused (`RefusalIsRight`).
15. `AcceptedInv` has `acceptEncoding` as the end of the list of all items
   (`ItemsAreKept`), and each quality is what the items before it say
   (`QualitiesAreRight`, `Latest`): the last that names a coding counts. The
   scaled digits of `ParseQuality` are compared with the number they spell by
   the length of the text, 0 to 5.
16. `ReadTo` says that what is decoded enumerates the units of the target before
   the cursor in order (`Enumerates`), which determines it (`IsListed`): the
   definition by cardinalities in `Reading` and the byte by byte scan agree.
   `SplitIsRight` says that the components so far and those of the rest make
   up those of the whole.
17. A record is read back text by text: `Escape` of one character is read as that
   character in whatever state the reader is (`Readers`), so `Escaped` text is
   read as the text (`ReadsText`) and a member as one string more (`ReadsMember`).
   `Tells` has the method and path of an outcome depend on how far the request
   was read.
18. A run of a split is a gap between two commas (`SplitIsGaps`, by `AppendInduction`),
   and quotes before a place are counted (`QuotesBefore`). Around the file's own
   tag a gap of a well-formed list holds blanks and perhaps a W/ only, since any
   other symbol would belong to a tag with no comma before the next one
   (`OnlyBefore`, `OnlyAfter`); the candidate is then that tag (`OwnInList`). The
   other way round, a gap begins outside of all tags when none has a comma in it
   (`NotOpened`), so what matches is a tag (`OwnFound`) and never a star
   (`FoundIsOwn`).
19. `StartupInv` has as many variables read as there are settings (`Progress`),
   and each setting right for its raw value (`SettingsGood`, by one case per variable
   in `SettingRight`). That the paths are the ones given is `Joined` undoing `Split`, by induction over
   the bytes.
20. `ResponseInv` adds what each stage of a response has written (`Staged`,
   `Written`) and what its head is made of (`Shaped`, `Framed`): a fixed front,
   the validators of a file, and extra headers that are none of the reserved.

The lemmas that name literals (`Blank`, `Texts`) do so because the SMT solver has
no strings: facts about these are left to Zenon.

Only model-checked are the liveness properties, since fairness and ENABLED are
out of the prover's reach: `ShutdownCompletes`, `WorkersLeave`, `ConnectionReleased`,
`TransferEnds`, `ReadingEnds`, `WalkEnds` and `SignalEnds`. `SendStopsAtDeadline` and
`ListenAddrIsMeant` are violated, as the findings say.

## Not modelled

* Content types (`content_type`) and `has_fingerprint`: a table and a pattern on
  one name, with no state and nothing to compare them with but themselves. Which
  names have a fingerprint is a constant of `StaticFiles`.
* The text of heads and bodies, and of log records other than that of a request,
  which differ in their members.
* The arithmetic of clocks (`Instant`, `Duration`): deadlines are countdowns.
* Packaging and scripts.
* Sequence and order of `notify_all` of `not_full`: only one thread ever waits
  on it.

## Plan

Done: all components above but the content types; theorems of all their safety
properties and refinements.

What is left, in this order:

1. A worker that reads and replies under one deadline: `RequestReader` and
   `Transfer` composed, with the grace of an error reply, shown to be what
   `Server` takes a worker for.
2. `RootWalk` below `StaticFiles` for deployments that change directories deeper
   down: which of the file rules survive an answer that no single tree had.
