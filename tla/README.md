# Verification of mcp-mobile-use-front

This directory holds TLA+ models of the MCP server in `src/` of the repository, the
TLC runs that check them and the proofs TLAPS checks. It is the place to look when
one of the modelled files changes: `PROJECT.json` maps every definition to the
lines it stands for.

- [The system](#the-system): the components, their state, how they interact
- [What is modelled](#what-is-modelled): modules, state and actions against the code
- [Runs](#runs): what TLC checks, bounds, fairness
- [Proofs](#proofs): what holds for every instance, and why
- [Disagreements](#disagreements): where the code does not do what it says
- [Not modelled](#not-modelled) and [plan](#plan)

## The system

A C++17 program lets a language model drive an Android phone through MCP
(JSON-RPC). It runs as a command line program (`src/main.cpp`: stdio, HTTP or both)
or inside an app (`src/android/jni_bridge.cpp`, a foreground service that starts and
stops it). A tool call travels

    HTTP connection or stdin -> transport -> protocol -> tool -> provider -> executor -> device

| component | files | state | operations | interacts through |
|---|---|---|---|---|
| HTTP server | `net/http_server` | `m_stop`, `m_running`, `m_listenFd`, accept thread, one detached thread and one read buffer per connection | `start`, `stop`, accept loop, keep-alive loop | calls the handlers of the transport; shares `m_stop`, `m_sslCtx`, `m_routes` between threads |
| SSE / Streamable transport | `mcp/http_transport` | session table (mutex), per session a queue with mutex and condition variable, `closed` | `GET /sse`, `POST /message`, `POST /mcp`, `GET /healthz` | push loop and posts share the session's queue |
| Protocol | `mcp/protocol` | none | `handleMessage` | calls a tool |
| Authentication | `mcp/auth`, `mcp/jwt` | mode, token, secret and key, `m_lastError` | `fromEnv`, `withJwt`, `check`, `verify` | one checker for all threads; a key may be fetched over the network |
| Tools | `tool/*` | the global provider | 13 tools | one provider call each |
| Provider | `service/provider` | default backend, lazily made cloud executor | device operations, some in several commands | shared by all threads, no lock |
| Local executor | `service/local_executor` | per call: two pipes, a child | `runShell` | `fork`, `poll`, `waitpid`; the child inherits descriptors |
| Cloud executor | `service/cloud_executor` | configuration | `runShell` over REST | the HTTPS client |
| HTTPS client | `net/https_client` | per request: a socket, a TLS context, a session | `post`, `fetchUrl` | a server that may stall, cut or close |
| Algorithms | `json`, `util` | none | parser, bignum, RSA, SHA-256, base64, quoting | pure |
| stdio server | `mcp/stdio_server` | none | a loop over lines | protocol |
| Entry point | `main.cpp` | options, `gStop` | command line to exit code | builds the checker, starts a server |
| JNI bridge | `android/jni_bridge`, `McpForegroundService.java` | `gStarted`, global server, transport, provider | `nativeStart`, `nativeStop` | restarts the server in one process |

What is hard about it:

- **Threads.** Every connection has one, and they share sessions, the provider, the
  JWT verifier and the server object. Some of it is locked, some is not.
- **Blocking.** A pump sleeps on a condition variable, a write blocks on a client that
  does not read, `accept` has no timeout, `runShell` waits for a process that may fill
  its pipes, close them, or leave them to somebody else.
- **Ordering.** Responses overtaking each other between the queue and the batch being
  written; end of file before exit; the deadline racing the exit; `stop` between a
  request and its answer; `start` clearing a flag an old thread never saw.
- **Partial failure.** A write failing in mid batch, the second `pipe` failing, `fork`
  failing, a TLS response cut in the middle, a key that does not load beside a secret that
  does.
- **Boundaries.** Carries, remainders equal to the modulus, padding at its minimum, DER
  lengths at 128, a hash's last block, base64's last group, surrogates, newlines in one-line
  messages: code written by hand for which a few test vectors exist.

What makes each component correct is listed with its properties below;
`PROJECT.json` lists 40 hazards with the lines where they bite and the properties that
would notice.

## What is modelled

The three components with threads of their own come first; each is one module, and its
proofs are in a module of their own. Two have an abstract specification they are shown to
implement. On top of the executor, `ToolCalls` models what several tool calls do to one
device. `HttpsClient` is the way out of the process, `Service` the way in: the process from
its command line to its exit, composed of `Auth` and `Protocol`. `Algorithms` puts the
pure algorithms (`BigInt`, `Encoding`, `Digest`, `JsonText`) next to reference definitions.

### `SseTransport`, refining `SseChannel`

`SseChannel` is what one client is promised: a channel that is opened once, takes
responses, pushes them in order, and loses only what it holds, or is given, once it
closes.

`SseTransport` has a thread per `/sse` connection (`Conns`) and one per POST (`Posts`).

| model | code |
|---|---|
| `rng`, `ReadRng`, `StoreRng` | the static generator in `randomSessionId`; ids are generator positions |
| `sessions`, `CreateSession`, `FindSession`, `RemoveSession`, `PostMessage` | `m_sessions` under `m_sessionsMutex`; a session object is named by the connection that made it |
| `queue`, `closed` | the fields of `SseSession` |
| `pc`, `sid`, `obj`, `pending` | the push loop and its locals |
| `ppc`, `ptr`, `answers` | `handleSseMessage` and its locals |
| `peer` | the client's TCP end: reads, stalled, gone unnoticed, reset |
| `sent` | history: what reached the socket |

An action is one critical section or one call that may block. `wait_for` is split
where the thread sleeps: `Wait` evaluates the predicate and sleeps, `NotifyAll` wakes,
`Timeout` is the fifteen seconds. A POST may name any id, live or stale. A response is
named by its POST; an id by the position it was drawn at. The constant
`Overlap` says whether two threads may be in `randomSessionId` at once: with `TRUE` they
race as an unsynchronised read and store do, with `FALSE` the model shows what holds
otherwise.

The refinement mapping takes a channel's backlog to be the thread's batch followed by
the shared queue, so pushing the head of the batch is `Push` and swapping the queue out
is a stutter.

### `LocalExecutor`, refining `Executor`

`Executor` is the promise of `runShell`: a command starts at most once; an exit code is
its own; it is killed only after the deadline; the call does not return while it runs.

`LocalExecutor` models one call: `Fork`, the poll loop (`Probe`, `CheckDeadline`,
`PollReady`/`PollIdle`/`PollInterrupted`, `DrainRead`/`DrainEnds`), `AwaitChild` and
`Return`. Around it runs the environment that makes the call hard: the command (writes,
blocks on a full pipe, redirects its output away, forks, exits, dies of a signal), a
background process it leaves behind, and the child of a concurrent call, which
inherits whatever write ends are open when it is forked. `holders` says which processes
hold a write end, so end of file is computed and not chosen. `pipe` counts chunks per
writer; output is not modelled byte by byte. `status` starts as "exited with 0", as
the local does: decoding it before `waitpid` filled it is visible as a refinement
violation.

### `HttpServer`

One control thread calls `start` and `stop` in turn (the JNI bridge), one accepts, and each
connection has a thread in `handleConnection`'s loop. A request is what the loop
tells apart: plain, last (the client asks to close, or there is no route), a stream, or
malformed. A client may pipeline, stall, trickle a request, or leave. `owed` and
`overtime` are history variables. The stream itself is `SseTransport`.

### `HttpFraming`

`readRequest` on the bytes of one connection: a client sends on whenever it likes (`SendRequest`), `coming` is
what it sent and the socket holds, `raw` the buffer kept between calls, `got` the requests returned. A
byte is what the parser tells apart, so the four bytes that end a head are four bytes and
may be split anywhere; bodies consist of the bytes that could be taken for such an end.
`ContentLength` wraps as `atol`'s result does in `size_t`. `HttpServer` takes a request at a
time; `RequestsIntact` is what allows it to.

### `ToolCalls`

Several `tools/call` requests (`Calls`) are served at once, each on the thread of its
connection, by one provider and one device.

| model | code |
|---|---|
| `Required`, `Reject`, `Terminate`, `Enter` | the tools, their argument checks, `pickBackend` |
| `cloud`, `ptr`, `freed`, `Look`, `Make` | `m_cloud` and `executor(b)`, which makes it without a lock |
| `command`, `NextCommand`, `Succeeds` | the provider's methods: which command follows a result, and what counts as success |
| `CannotRun`, `Run`, `Finish`, `GiveUp` | `runShell` as its callers see it; local calls time out, cloud calls only err |
| `script`, `Execute`, `LaunchStep`, `InstallStep`, `ShotStep` | the programs in the commands of `command_builder` |
| `detached`, `ExecuteDetached` | what goes on after `runShell` gave up: the program the killed shell was in, or a whole command in the cloud |
| `apk`, `shot`, `installed`, `effects` | the device: the two files with fixed names, what was installed, what took effect |

A result is a class: `ok`, `silent` (exit code 0 without the output the method looks for),
`nonzero`, `timeout`, `error`. `runShell` is `Executor`'s: it is not opened up here. The
device is assumed to report what it did, with three exceptions that the code expects:
`pm install` and `screencap` may exit with 0 without having worked, and `am broadcast` does
so if nobody listens. A download is one step; mixtures of two downloads are not modelled
(`pm install` refuses them).

### `HttpsClient`

One request of `fetchUrl` or of `HttpsClient::post`, in the build with OpenSSL or in the one
without, and its server. `pc` is the place in `connectTcp`, `request` and `httpGetPlain`;
`handles` what would have to be released; an early return is `Fail(released)`, with what the
code releases before it. A response is a sequence of parts (a status line, CRLF, a
field, text), so it can be cut between any two, and `ParseResponse` takes what was received
apart as the code does, which ignores `Content-Length`. `link` tells how it ended: closed
(in TLS with close_notify) or cut. A field or a text may go on as long as the server likes
(`more`, `ServerTrickles`, `ReadMore`); what goes on is not told apart from the part it belongs to.

### `Service`, `Auth`, `Protocol`

| model | code |
|---|---|
| `argv`, `opt`, `ParseArgument`, `ChooseTransport` | the loop over `argv` in `main`: an option, long or short, takes the next word whatever it is |
| `ConfigureAuth`, `JwtFrom`, `FromEnv`, `LoadKey` | JWT before token before environment; PEM, JWKS or url, with and without OpenSSL |
| `Listen`, `OnSignal`, `Stop` | `start` or `startTls`, and the way to `exit` |
| `StdioLine`, `HandleMessage` | `StdioServer::run`, `McpProtocol::handleMessage` |
| `PostMcp`, `Check`, `CheckNbf`, `HandleStreamable` | `handleStreamable`; `check` with its two readings of the clock |

A key's text is what the code tells apart in it, and who signed a token stands for the
signature: that a signature is verified exactly is `SignatureExact` and `DigestWhole` below.

### `Algorithms`

One computation at a time: `job` is what is asked, `out` what the code's loops yield, and
each property compares it with a definition that owes those loops nothing. Limbs have four
bits and bytes two in `BigInt`, so that the carries that 32 bits make rare happen in most
jobs; the code's 64 bit intermediates are two limbs wide, as there. In `Digest` a chain is
the list of blocks that made it: what the compression function does to a block is left to
the repository's test vectors, which are good at that and bad at lengths.
`Encoding` and `JsonText` work on real bytes.

The parsers of `JsonText` are one recursive function over places in the text: `parse[<<p, at>>]` is
what parser p (a value, the items of an array, the pairs of an object) finds at `at`, and
`Later` is all it finds further on, which is all a parser can use. A number with a point or
an exponent is known by its text (`IsDouble`: what `%.17g` can write).

## Runs

| run | instance | what is checked | states, time |
|---|---|---|---|
| `sse` | 2 streams, 2 posts, draws that do not overlap | sessions, wakeups, ids, separation, the refinement of `SseChannel`, delivery, reclaiming | 394 088, 200 s |
| `sse_duplicate_id` | the same with draws that overlap | `AdvertisedIdResolves` is violated | stops |
| `exec` | one call, pipes of two chunks, a command and a background process that write as much as they like, a concurrent fork | output, cleanup, the refinement of `Executor`, deadlock of the pipes, return | 154 219, 60 s |
| `exec_detached` | the same | "the call ends by its deadline" is violated | stops |
| `http` | 1 connection, 2 starts, 3 requests | stop, answers, shutdown, every connection ends | 47 899, 10 s |
| `http_framing` | 3 requests, recv 6, limit 12, bodies of 0, 2 and -1 bytes | framing of requests | 161 536, 5 s |
| `tools` | 2 calls at the same time, of 7 tools, on either backend | truth of answers, cleanup, answers come | 612 369, 130 s |
| `tools_cloud_race` | 2 calls, a cloud not configured at start | "the executor in use exists" is violated | stops |
| `https` | 2 addresses, 2 writes, responses of several parts, each as long as the server likes, both builds | handles, truncation, return | 11 092, 3 s |
| `service` | the command lines, environments, keys and tokens of `MCService`, 1 request, 3 clock values | authentication, validity, answers | 577 808, 15 s |
| `key_file` | the same | "a path to a key is accepted" is violated | stops |
| `algorithms` | the jobs listed under Bounds | algorithms against definitions | 21 320, 15 s |

**What they say.** `NoSessionLeak`: a table entry always has a thread that will remove
it. `NoLostWakeup`: a pump sleeping on a non-empty queue is about to be notified; it never
depends on the keepalive. `AdvertisedIdResolves`: the id a client was
told is its own. `OwnStreamOnly`: a response only reaches the stream its POST named. `ImplementsChannel`: FIFO, nothing
invented or pushed twice, loss only with the stream.
`AcceptedIsSent`: what was answered 202 is written unless the stream ends or its client
stalls for ever (or again and again). `DeadPeerReclaimed`: a client that left is noticed, its thread and its
session go. `OutputComplete`: the loop never ends before everything the command itself wrote
is read. `NothingLeft` of `LocalExecutor`: no zombie, no running command, no descriptor (but the first pipe
if the second fails). `ImplementsExecutor`: an exit code is the command's own, and it is killed only when late. `NoPipeDeadlock`: the command does not stay blocked on one
pipe while the caller waits for the other. `ReturnsWhenOver`: a dead command ends the
call, also when somebody else holds its pipes, unless a background process never stops writing to them.
`ReturnsUnlessDetached`: the deadline bounds the call, but for a command that closed its outputs,
a background process that never falls silent and a pipe that never runs dry. Each exception is
one that the code makes, and without it the run finds the property violated.
`StopIsComplete`: when `stop` returns nobody accepts and nobody waits to be accepted.
`NothingSwallowed`: a request once read is answered unless its client left.
`OneMoreAfterStop`: after `stop` a connection is served one more request at most.
`StopReturns`: `stop` comes to an end. `ConnectionsEnd`: so does a connection, unless a handler never
returns, it became a stream, or its client does not read or trickles.
`RequestsIntact`: requests are read as they were sent, however recv splits them.
`RefusedWithCause`: the connection is given up only on a malformed or too long head, a
pause, or the end. `ResidueBounded`: what is kept for the next request is at most one recv
(a negative length aside).
`InstallTruthful`: an install that reports success installed a package, its own if no other
install ran. `AnswerIsTrue`: unless an outcome was lost, an action was done exactly once
if reported as done and not at all if reported as failed, and text is never entered
twice by the fallback. `NoLeftover`: an install with a known outcome leaves no file.
`CallsAreAnswered`: every call is answered unless a `runShell` of it, local or cloud, never returns. `NothingLeft` of
`HttpsClient`: no socket, session or context survives a request. `AnswerWhole`: over TLS a
response cut short is an error. `RequestReturns`: a request ends, unless a TLS server keeps the
connection open or a plain one keeps sending. `AuthNotLost`: what the command line asked for is asked of every
request, however keys failed to load; if it is silent, what the environment asked for, unless the
environment's key does not load, when the code asks for nothing. `ValidAtSomeMoment`: a token accepted was
valid at one moment of the request. `AnswersMatch`: one answer for each message that needs
one (what has an id, a method under `notifications/` included, and what cannot be understood), under its
id, in order on stdout, and none for the others. `BigAgrees`, `SignatureExact`, `SpkiRoundTrips`,
`DigestWhole`, `Base64RoundTrips`, `JsonRoundTrips`, `ShellWordIsText`: the algorithms are the functions they
are meant to be, on the jobs enumerated.

`TypeOK` is in the run of `HttpServer`, `FramingTypeOK` in that of `HttpFraming`; every module's is proved.

**Bounds.** Two connections are the smallest number that can share an id; two posts to one
session are the smallest that can be reordered, and while a batch of one is being written
the other may arrive. A pipe of two chunks holds output of
the command and of the background process together, and blocks whichever writes next; nothing bounds
how much either writes, how often the command forks, or how long a server goes on with a response. Two starts give one restart
with connections left over from the run before; `MaxRequests` is 3 where the code
has 100, so the limit is reached. One HTTP connection is enough, as connections share
only the backlog and the flags, which no connection writes (the proofs hold for
any number). `HttpFraming` scales the 8192 bytes of a recv and the limit of 1 MB down to 6
and 12, with heads of 5 to 14 bytes: they fit in one recv, need several, or cross the limit.
Two tool calls are the smallest number that can share a file or the executor;
`tap` stands for the six tools that differ from it only in the text of their command.
Two addresses and two writes per request make one fail after another succeeded. A service
takes one request, since requests share only the checker, which does not change; a clock of
three values has a second before, at and after each boundary of a token with both claims. The jobs of
`Algorithms` lie on both sides of each length at which the code branches: 0 to 3 limbs,
blocks of 8 bytes with messages up to 26, DER lengths 1, 2, 126 to 128 and 256, base64 groups of
1 to 3 bytes, and every pair of code units at the edges of the surrogates. Every bound on the
environment is in a guard (`MaxInterrupts`, `MaxPipelined`, `MaxStarts`,
`MaxSent`, `Ids`, `Addresses`, `Pieces`, `MaxTime`). No run uses symmetry: those with liveness may not.

**Fairness.** Weak fairness on threads only: the scheduler runs each thread that is not
blocked, and timed waits return (the fifteen seconds of `wait_for`, the sixty of
`recv`, the poll interval). A tool call is not assumed to end, because not every `runShell`
does: locally `exec_detached` and the exceptions of `ReturnsUnlessDetached`, in the cloud those of
`RequestReturns`. So `HandleMessage` of the SSE transport, `Handle` of the HTTP server and
`Finish` and `GiveUp` of `ToolCalls` are not fair; the steps around them are. In `LocalExecutor`
the caller is fair, and so is a write to a pipe with room. In `HttpsClient` the caller is fair, including the timeouts
of its sockets, and the server owes nothing.
`PeerReset` is fair because TCP ends a connection to a peer that left once data goes
unacknowledged. Clients, commands and the clock owe nothing: no fairness on connecting, posting, reading,
exiting or passing deadlines, nor on starting or stopping the server.

**Faulty variants.** The operators introduced by "Fault:" in a module are not part of the
specification. Each is a plausible bug in one definition, and replacing the definition by
it makes TLC find the property it is listed with in `PROJECT.json` violated.

## Proofs

TLAPS checks these for every value of the constants, under the modules' named
assumptions, which every run checks for its instance:

- constants are naturals where the code has counts, some of them not zero; `None` is no connection,
  no id, no call and none of the names of tools, commands and steps;
- `HttpFramingAssumption`: a length is half as wide as `size_t`, a recv is less than the limit;
- `HttpsClientAssumption`: a server's answers are sequences of parts;
- `AuthAssumption`: the keys of a key set are named by naturals, a claim is one integer or absent;
- `ServiceAssumption`: command lines and inputs are finite, and a line's text is one of the
  four kinds that `handleMessage` tells apart;
- `BigIntAssumption`: at least one bit per byte, one byte per limb, and some padding;
  `DigestInfoAssumption`: the prefix of the signature's encoding consists of bytes;
- `DigestAssumption`: a block holds the length and one byte more, and a digest;
- `ValuesAssumption`: a JSON value is one of the seven kinds, a number that is no integer has a
  text as `%.17g` writes it (so neither infinite nor NaN), and what is inside a value is nested
  less deeply. The code writes integers from 1e15 on in the other form; nothing here depends on where it changes;
- `JobsAssumption`: computations are asked of bytes, texts and normalised integers of any
  length; powers have the 64 bit arguments of the tests, keys a modulus and an exponent
  without leading zeros and at most 65 000 bytes with the algorithm's name (two bytes of DER
  length hold them), and escapes are 16 bit units.

| module | theorem | states |
|---|---|---|
| `SseTransportProofs` | `TypeCorrect` | `Spec => []TypeOK` |
| | `SessionsDoNotLeak` | `Spec => []NoSessionLeak` |
| | `IdsResolve` | `~Overlap` implies `Spec => []AdvertisedIdResolves` |
| | `NoWakeupIsLost` | `Spec => []NoLostWakeup` |
| | `StreamsAreSeparate` | `~Overlap` implies `Spec => []OwnStreamOnly` |
| | `TransportImplementsChannel` | `~Overlap` implies `Spec => ImplementsChannel` |
| `LocalExecutorProofs` | `TypeCorrect` | `Spec => []TypeOK` |
| | `OutputIsComplete` | `Spec => []OutputComplete` |
| | `NothingIsLeft` | `Spec => []NothingLeft` |
| | `RunShellImplementsExecutor` | `Spec => ImplementsExecutor` |
| `HttpServerProofs` | `TypeCorrect` | `Spec => []TypeOK` |
| | `StopCompletes` | `Spec => []StopIsComplete` |
| | `EveryRequestAnswered` | `Spec => []NothingSwallowed` |
| | `AtMostOneAfterStop` | `Spec => []OneMoreAfterStop` |
| | `FramingTypeCorrect` | `FramingSpec => []FramingTypeOK` |
| | `RequestsAreIntact` | `FramingSpec => []RequestsIntact` |
| | `RefusalsHaveCause` | `FramingSpec => []RefusedWithCause` |
| | `ResidueIsBounded` | `FramingSpec => ResidueBounded` |
| `ToolCallsProofs` | `TypeCorrect` | `Spec => []TypeOK` |
| | `AnswersAreTrue` | `Spec => []AnswerIsTrue` |
| | `InstallsAreTruthful` | `Spec => []InstallTruthful` |
| | `InstallsCleanUp` | `Spec => []NoLeftover` |
| | `ConfiguredCloudIsSafe` | `Spec => [](valid => NoUseAfterFree)` |
| `HttpsClientProofs` | `TypeCorrect` | `Spec => []TypeOK` |
| | `NothingIsLeft` | `Spec => []NothingLeft` |
| | `AnswersAreWhole` | `Spec => []AnswerWhole` |
| `ServiceProofs` | `TypeCorrect` | `Spec => []TypeOK` |
| | `AuthIsNotLost` | `Spec => []AuthNotLost` |
| | `ValidAtOneMoment` | `Spec => []ValidAtSomeMoment` |
| | `AnswersAreMatched` | `Spec => []AnswersMatch` |
| `AlgorithmsProofs` | `ShellWordsAreTexts` | `Spec => []ShellWordIsText` |
| | `Base64TextsRoundTrip` | `Spec => []Base64RoundTrips` |
| | `DigestsAreWhole` | `Spec => []DigestWhole` |
| | `BigArithmeticIsExact` | `Spec => []BigAgrees` |
| | `SignaturesAreExact` | `Spec => []SignatureExact` |
| `FormatProofs` | `KeysRoundTrip` | `Spec => []SpkiRoundTrips` |
| | `JsonTextsRoundTrip` | `Spec => []JsonRoundTrips` |

`HttpServerProofs` is about `HttpServer` and, with the names that begin with Framing, about
`HttpFraming`. `FormatProofs` continues `AlgorithmsProofs`.

**SSE.** `TypeOK` is not inductive alone: a pump's pointer is an entry of the session table when it
was read. The invariant adds that every thread between its draw and its end has an id and
that the table's entry for an id has a thread with that id which is still going to
remove it. The latter survives a collision because the later
`createSession` becomes the entry's witness, and the removal by either clears it.
Without overlapping draws the generator is past every id drawn, so ids are distinct and an
entry is its owner's from creation to removal. `NoLostWakeup` is preserved
because a pump falls asleep only on an empty queue and `Enqueue` leaves its POST at
`notify`.

That the transport implements `SseChannel` is shown in two parts. `Effects` reduces every
step to one of nine things it can do to the queues, batches and sockets; here a
shared id would let a pump take another session's queue, so it needs the own entry and own
pointer of the previous paragraph. `ChanInv` says whose messages a session holds
(`Contents`), that a session that is not pumped holds none, that a batch exists only
while it is written, and that `closed` is only set by a pump on its way out. Each
effect is then an action of the channel or a stutter.

**Executor.** `OutputComplete` needs that a drain ends with its pipe empty and that
the command is over, or holds that pipe's write end no longer, when a pipe is closed. The
refinement needs that the status is the command's own once it is reaped, that
only a call past its deadline is marked timed out, and that a call at its end has either
reaped its child or timed out; each step then maps to a step of `Executor` or a stutter.

**HTTP.** `Stopping` relates the phases of `stop` to the accept thread and the backlog;
`Overtime` says that a thread that was served after `stop` can no longer get to `recv`:
it passes the loop's test of `m_stop`, which only `start` clears, and `start` resets the
count. The request limit needs that a thread which may still read has served fewer than
the limit (`Counting`).

**Framing.** That the bytes not yet returned are the requests not yet returned, one after the other, would be
a fold over them. `Split` says it without one: there is a sequence `rest` whose k-th element is
the k-th request followed by the next element, and the first is `raw` followed by
`coming`. `SendRequest` appends the new bytes to every element, `Recv` changes nothing and `Cut` moves on to
the next element. The buffer then begins with the bytes of the next request as far as it goes
(`Facing`), so the first mark, the first length and the first line end are that request's own
(`FirstMark`, `FirstLength`, `FirstCR`). `Current` bounds what a recv may have brought beyond it.
All of this holds up to the first negative length.

**Tools.** `Shape` adds to `TypeOK` that a call's command is one its tool can be at, that
the script is at a step of its command, and that whatever goes on unattended belongs to a
call whose outcome was lost; every other invariant needs it. A step for one call leaves
the others' locals, effects and installs alone (`Others`), so each invariant below is shown
for that call and kept for the rest. `Counted` counts effects: until a command has
exited with 0 there are none. The one exception, a broadcast nobody listened to, is why text may
be entered not at all but not twice. `Installs` follows the package from the file to `pm install`: the file
and all that was installed come from install calls, so a call alone in installing can only have
installed its own. `Clean` says that the file is there only while its install is at a step
that still has the removal ahead. `Configured` says that with a cloud configured at the start no call
gets to the place where an executor is made.

**HTTPS.** `Held` says for each place in the code which handles exist there, so that each
early return can be compared with what it releases; `Counted` bounds what is read by what was
sent, and `Whole` that a caller that is about to parse a TLS response has read all of it and
seen it closed.

**Service.** The checker is related to the options it was made from: until `ConfigureAuth` it is
not used, and from then on it is one of those `JwtFrom`, `WithToken` and `FromEnv` can make,
whatever keys came back; that it asks for nothing although the environment names a key is
`EnvKeyLost`. A connection past the check carries a credential that
checker accepts, and past `nbf` there is a moment, the first reading or the second, between
its arrival and now that lies within both claims if any does: the first reading is before
`exp`, the second not before `nbf`, and if they are apart the second's `nbf` is reached in between.

That answers match is shown for stdin by following the lines that need an answer
(`Asked`): `HandleMessageAnswers` says that a message gets one answer under its own id or none,
so a line more is one element of `Asked` more, above all others, and one answer more at the end
of the output (`StdioLineStep`). Over HTTP each connection keeps the message it came with
until it is answered.

**Algorithms.** `Compute` is the only step, so each theorem is about what a loop yields for an input
of any length. A loop is a recursive function over how often it has run; its value at each
index is known by unfolding it, and what holds of it by induction. The library's induction takes an operator
as a parameter, which the provers cannot instantiate, so the induction here is about sets of
numbers: `NatSet` and `UpTo` say that a set with 0 and every successor is all of them, and the
set is that of the indices at which the invariant holds. Where a loop's function is not given by
the code (a run backwards, a fold), `Iteration` says that there is one.

- *Quoting.* The shell reading the quoted text is a machine with three modes. It is in the same mode after
  each character of the text, with the characters so far as its word.
- *base64.* A group of three bytes is four characters and back; the decoder's window
  holds the bits not yet written. An unfinished group is the numbers of a finished one with zeros.
- *SHA-256, HMAC.* A context's blocks and buffer are the bytes it was given, and the buffer is never full; so
  the pieces do not matter. The padding is the only one of fewer bytes than a block that makes whole blocks.
- *Big integers.* An integer is the sum of its limbs. One lemma follows a carry through a loop: the limbs
  written so far and the carry are the sum of the limbs read, and the carry stays below the
  base, so that no double word overflows. The long division keeps the remainder below the modulus
  and equal to the bits read so far modulo it. The power is the one by the exponent's low bits.
- *Signatures.* Byte sequences of one length are equal iff their numbers are (`TopBytes` and
  `LimbBytesOf` write that number), and the checks of the padding, one after the
  other, leave exactly one encoding.
- *Keys.* An element lies in a text if its tag, its length and its contents are there; `ReadTlv`
  returns what lies there, whether the length takes one byte or three. The PEM's line breaks and dashed lines are what
  `Kept` drops, base64 gives the rest back. A key that is cut has an outer length that
  fits and an inner one that reaches past the end, which is refused.
- *JSON.* A text lies at a place of another if its bytes are there. By induction on the depth of a
  value: where its text lies, followed by nothing that could continue it, `ParseValue` returns the value and the
  place after it; the items and pairs of a row are followed from the last to the first, as
  the function `parse` is. The same induction shows that a text cut anywhere fails: every proper
  beginning of a row ends in an unfinished item or wants another byte. An escape's six bytes are found where they lie, and
  the characters are read from the last unit back, which is how `Utf16` pairs the surrogates; UTF-8 is decoded
  byte by byte, and a character written in front moves the rest by its length.

Left to TLC is what these provers do not reach: liveness. Each of `AcceptedIsSent`,
`DeadPeerReclaimed`, `NoPipeDeadlock`, `ReturnsWhenOver`, `ReturnsUnlessDetached`, `StopReturns`,
`ConnectionsEnd`, `CallsAreAnswered` and `RequestReturns` rests on fairness, and so on ENABLED, which
no installed backend handles. Every other property of a passing run is proved.

## Disagreements

Four of them are runs that TLC refutes:

1. `randomSessionId` uses one unsynchronised generator for all threads
   (`http_transport.cpp:35`), so two clients that connect at once may be told the same id
   (`sse_duplicate_id`). The theorems `SessionsDoNotLeak` and `NoWakeupIsLost` say what still holds then.
2. `runShell` ends with a `waitpid` that has no deadline (`local_executor.cpp:201`): a
   command that gives up its stdout and stderr and goes on defeats `timeoutMs`
   (`exec_detached`). There are two more ways, which `ReturnsUnlessDetached` excepts. Once the command was
   reaped, killed or not, the loop looks at no deadline (lines 153-163) and ends only when poll finds
   nothing for 100 ms or all is closed: a background process that writes more often (`logcat &`) keeps
   it for ever. And `drainFd` (line 229) reads as long as there is something to read: a command that never
   lets the pipe run dry is not killed.
3. `executor` makes the cloud executor without a lock (`provider.cpp:82`): two first calls on
   a provider whose cloud is not configured can leave one with a destroyed executor
   (`tools_cloud_race`). With a configured cloud it is made before any call
   (`ConfiguredCloudIsSafe`).
4. A path given as `--auth-jwt-public-key` or `MCP_JWT_PUBLIC_KEY` is taken for the key itself
   (`main.cpp:82`), against `auth.hpp:16` and the deployment guide (`key_file`).

Others were met on the way and are part of the models, but no property is about them:

- A stream does not look at `m_stop` (`http_server.cpp:456`), so its thread is not reclaimed by
  the read timeout after `stop` as `docs/architecture.md:357-358` says.
- A negative `Content-Length` is accepted (`http_server.cpp:537`), although `readRequest`'s
  comment says that malformed requests are refused.
- Over plain http a `recv` that times out or is reset ends the response like its end does
  (`https_client.cpp:304-305`): a response cut short passes for a whole one.
- `malformed http headers` leaves the status that was read, where `https_client.hpp:40` says it
  is 0 on failure.
- `readAll` retries a TLS read that timed out (`https_client.cpp:119`), so `timeoutMs` does not
  bound a request to a server that stalls. Neither it nor the plain `recv` loops (lines 303 and 561) bound
  what they read: a server that keeps sending, or sends a byte within each timeout, keeps the caller for
  ever. A tool call and its HTTP connection wait as long.
- The file's OpenSSL branch closes `namespace net` twice (`https_client.cpp:376` and 401): it
  does not compile with `MCP_WITH_OPENSSL` as it is. It is modelled as what it is meant to be.
- `verify` is const and stores `m_lastError` (`jwt.cpp:169`), although `auth.hpp:44` says that
  `check` needs no lock.
- `fromEnv` leaves no authentication when the key in the environment does not load
  (`auth.cpp:105`), although `MCP_AUTH_TOKEN` may be set, and although the same key on the
  command line ends the process and `docs/usage.md:69` calls the two equivalent. `AuthNotLost` excepts
  it by name (`EnvKeyLost`).
- The comment at `protocol.cpp:78`, `protocol.hpp:57`, `docs/api.md:162` and
  `docs/architecture.md:270` say that a message under `notifications/` is ignored or has no answer. The test at
  `protocol.cpp:79` compares 13 characters of the method with the 14 of the prefix and never
  holds: only a missing or null id makes a notification, and `notifications/cancelled` with
  an id is answered with -32601.
- The command of a cloud screenshot removes the file whose path the tool then answers
  (`provider.cpp:125`, `take_screenshot.cpp:37-39`).
- A token with `exp` not after `nbf`, valid at no time, may pass if the clock advances
  between its two readings (`jwt.cpp:310`, 320).
- `nativeStart` after `nativeStop` replaces the provider under the calls of the run before and
  appends the routes a second time (`jni_bridge.cpp:70-71`).

## Not modelled

- TLS on the listening side but for its effect on start (`Listen`); the target and header
  texts of HTTP requests.
- Descriptors as numbers that the kernel reuses (the accept thread's race with `stop`), and
  the lifetime of objects that threads of an earlier run still use: the server, its TLS
  context, its routes, the provider. What undefined behaviour does then is below the level of
  these models.
- Two threads assigning `m_lastError` at once: undefined too, and nothing reads it while
  requests are served.
- Spurious wakeups of the condition variable: they evaluate the same predicate as
  `Wait` and change nothing.
- Thread creation failing, memory running out.
- What the cloud does to a request beyond its outcome, the limit of 1024 bytes on its
  output, and the signing of requests (`hw_signer`): a format around the HMAC that `Digest` models.
- The compression function of SHA-256, which has no control and is covered by test vectors;
  the value of a JSON number that is no integer (`stod`, `printf`), of which only the text is kept,
  and numbers that are infinite or NaN, which `dump` writes as no JSON.
- The parsing of command output beyond the class the provider looks for, the escaping of
  text typed by `input text`, and all wording.
- The Java classes but for the service's calls of `nativeStart` and `nativeStop`.

## Plan

1. The routes and the provider across a restart, as objects that may be replaced while used.
2. Object lifetimes of the TLS context on the listening side.
3. The escaping of text typed by `input text` (`command_builder.cpp:126`), against what `input` makes of it.
