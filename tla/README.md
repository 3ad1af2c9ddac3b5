# xbAI in TLA+

xbAI runs a language model on an Xbox (or, for development, on a Windows desktop)
and serves it over a small OpenAI-style HTTP interface. This directory holds
TLA+ models of the parts of it where something can go wrong that a unit test
would hardly reach: threads that share a queue, a downloader that may be killed
between any two steps, a shutdown that crosses a request, a client that leaves in
the middle of a stream.

`PROJECT.json` lists the components, the runs, the mutants that validate each
property, the source lines behind each definition, the hazards and the theorems.

Contents: [the system](#1-the-system) ·
[the modules](#2-the-modules) · [the runs](#3-the-runs) ·
[bounds](#4-bounds) · [fairness](#5-fairness) · [proofs](#6-proofs) ·
[what was found](#7-where-the-code-and-its-documentation-disagree) ·
[what is left out](#8-what-is-not-modelled) · [the plan](#9-the-plan)

## 1. The system

### 1.1 How the parts interact

    main.cpp ──owns──> an IInferenceEngine, InferenceQueue, HttpServer,
       │               GdkSocketListener, GdkLifecycle   (locals of run())
       │
       ├─ main thread:    starts the server thread, blocks in GdkLifecycle::start(),
       │                  then listener.stop(), queue.shutdown(), server_thread.join()
       ├─ server thread:  GdkSocketListener::run() ─ accept() ─> HttpServer::
       │                  handle_connection() ─> queue.generate() (blocks) ─> response
       └─ worker thread:  InferenceQueue::worker_loop() ─> IInferenceEngine::
                          generate() ─ on_token ─> writes on the server's connection

    IInferenceEngine: OgaInferenceEngine, or the StubInferenceEngine that main.cpp
                     of this commit still constructs. GdkShell and HttpServer
                     allow whatever either may do.
    GdkDownloader:   a thread per set of files; on_progress and on_done run on it.
    xbprobe:         a separate app; its worker drives transfers the operating
                     system carries on with while the app is dead, and handlers
                     on thread-pool threads rewrite the same report.

### 1.2 Inventory

Each row names the state a component keeps, its operations, what is hard about
it, and what makes it correct.

| component | source | state | operations | what is hard | what makes it correct |
|---|---|---|---|---|---|
| inference queue | `core/queue/` | `mu_`, `cv_`, `queue_`, `stop_`, a promise per job | `generate`, `worker_loop`, `shutdown`, destructor | an atomic flag beside a condition variable; refusal, draining and shutdown in any order; a callback into a blocked frame | bounded, first in first out, one job at a time; no job lost or answered twice; no lost wakeup; accepted callers are released |
| HTTP server | `core/server/HttpServer.cpp` | none between connections; per connection what was read and written | `handle_connection`, `read_line`, `read_request_head`, `read_body`, `handle_chat`, `handle_health`, `send_*`, `write_sse_chunk` | bytes arrive in pieces, lines are cut at a limit, and there is no timeout; the client leaves at any point; a stream is written from two call sites on two threads | what is routed is what was sent, or the front of a path that is too long; one well-formed response; a stream carries the engine's tokens in order; a client that stays is answered |
| JSON helpers | `core/server/JsonUtils.h` | none | extract strings, ints, booleans, the messages | nesting, escapes, overflow of an `int` | agrees with JSON on the inputs it accepts; makes nothing up of one that is cut |
| inference engine | `core/inference/OgaInferenceEngine.cpp` | model, tokenizer, model type | `load`, `generate` | a dozen fallible C calls, each with its own early return; 32-bit arithmetic; several flags that decide the finish reason | nothing leaks; one model serves one request; the response tells what was delivered and why it ended |
| model config | `core/model/GenaiConfig` | none | `parse_genai_config` | a search of its own in JSON text; numbers that do not fit | three fields are what the file says, whatever stands around them; of two of one name the first |
| model locator, store | `core/model/ModelLocator`, `GdkModelStore` | none / the root directory | find a model directory; list | partial directories | a model is reported only if its files are there |
| downloader | `GdkDownloader` | worker thread, `cancelled_`, files on disk | `start`, `cancel`, destructor; `worker_fn`, `download_file` | crash and restart, cancel, resume, failure of every request and of every file operation | only whole files carry the final name; `on_done` once, and true; progress with a known total never goes back; everything returns |
| lifecycle, listener, main | `GdkLifecycle`, `GdkSocketListener`, `main.cpp` | `exit_requested_`, `running_`, `listen_socket_`; the locals of `run()` | `start`, `stop`; `listen`, `run`, `stop`; bring-up and tear-down | stop against start, stop against accept, shutdown against a request | a stop leads to the exit; nothing is destroyed while a thread can reach it |
| download probe | `xbprobe/HfDownloadProbe.cpp`, part of `App.cpp` | `g_body`, `g_live`, `g_complete`; files and transfers that outlive the process | `DownloadWorker`, handlers, the window's poll | killed at any moment; late handlers; transfers that end while nobody looks | resume, never restart; true verdicts; no report line lost |
| LAN probe | `xbprobe/LanProbe.cpp` | a listener, a counter, a report | accept, answer, report | a counter beside a lock | the count agrees with the report (nothing calls it in this commit) |
| hardware probe | `xbprobe/Probe.cpp` | none | a sequence of measurements written to a report | — | — |
| stubs, interfaces | `pal/gdk-desktop/Gdk{Input,Dashboard}`, `core/pal/*.h` | constants | print | — | the comments of the interfaces are the contracts stated here |

## 2. The modules

Definitions keep the names of the source where TLA+ allows it. A comment that
begins *Variant for validation* marks an operator no specification uses: it is
what a definition would look like with a plausible bug, and the property named
beside it in `PROJECT.json` fails with it.

### 2.1 `SingleFlight` — what the queue promises

The abstract service, without threads: a caller asks, is refused when the line
is full or stands at its end otherwise; the head of the line is served, one
caller at a time; each served caller gets one answer. Closed, it retires, but
only with an empty line. Because the code accepts requests after the worker has
gone, the service leaves open what happens to those callers.

### 2.2 `InferenceQueue` — `core/queue/InferenceQueue.{h,cpp}`

| variable | in the code |
|---|---|
| `mu`, `queue`, `stop` | `mu_` (its holder), `queue_`, `stop_` |
| `worker`, `job`, `reply` | where `worker_loop()` is; its `job` and `result` |
| `caller[c]`, `outcome[c]` | where `generate()` is in caller c; what its promise holds |
| `closer`, `joinable` | where `shutdown()` is; `worker_.joinable()` |

A step is what a thread does between two points at which another can get in.
`cv_.wait` is split into test, block-and-release, and be-woken-and-retake,
because a wakeup is lost between them or not at all. The condition variable may
wake spuriously. A job is named by the caller blocked on it, which loses nothing:
a caller has at most one job, and `JobConservation` says so. `engine_.generate()`
either returns a response or throws. The module is parameterised by the set of
callers and by `MaxQueueDepth`, with no bound beside them.

### 2.3 `GdkDownloader` — `pal/gdk-desktop/GdkDownloader.{h,cpp}`

`dest` and `tmp` are the files on disk, as sequences of units (one unit stands for
what one `ReadData` returns; unit k of an item is the number k, so that a hole or a repetition
shows). `owner` is the thread in `start()` or the destructor, `worker` the place
of the worker thread, and the rest are its locals under their own names.
`Cancel` may happen at any time. `Crash` kills the process at any point where a
worker exists, and leaves the disk to the next start. What was written to the open stream may be on the disk
or not (`Unwritten`, `Left`): a crash loses any suffix of it, and so may `close()` at the end of the body
(`EndOfBody`), whose failure the code does not look at. `unflushed` is history: the items of which `close()` once
lost a part. An empty set (`StartEmpty`) is reported as done at once, and
neither joins nor disturbs the one in flight. `server` is a variable that never changes: whether `HEAD`
always tells the length of the file (otherwise it may tell it, or nothing, or, with an error status the code does not look
at, the length of an error page, a member of `PageSizes`), and whether Range requests are honoured (answered with
206 or 416) or answered with the whole file. All four kinds of server are explored; a property that holds
at some of them only says so in its text. What is external (the WinHTTP calls,
the file system) appears as the choice between success and failure.

### 2.4 `GdkShell` — `main.cpp`, `GdkLifecycle.cpp`, `GdkSocketListener.cpp`

The composition: the module instantiates `InferenceQueue` with the server thread
as its only caller and the main thread as its closer, and `Connection` with
the connection being served, and adds the lifecycle flag,
`running_`, the listening socket, and the control points of both threads, from
`listen()`, which may fail, to the destruction of the locals of `run()`.
`stop()` of the listener is two steps (the flag, then the socket), and so is the
beginning of `run()` (the check of the socket, then `running_ = true`).

### 2.5 `Connection` and `HttpServer` — `core/server/HttpServer.cpp`

`Connection` is one connection as the accept loop, the engine and the shutdown
see it: its handler reads, calls the engine at most once, answers, returns.
`GdkShell` is composed from it, and `HttpServer` implements it, so the shell's
results do not rest on a guess about the handler.

`HttpServer` has one connection in full. What is read is a sequence of symbols:
each character the reader looks for is one, and the method, the path and what follows them, the values of headers and
the body are sequences of any length, so that the limit of `read_line` may fall inside a word. (The name of
a header is one symbol: a cut inside it makes two lines of which neither has that name, and so does a cut
next to it but for the rest, which is then read as a line of its own, as the rest of a value is.) The text is sent in pieces of any
size; `read_line`, with its limit, the headers, `Content-Length` through
`stoi`, and `read_body` take it from there. What is written is the sequence of the pieces
that reached the client, `part` for a piece cut short. At any moment the client may stop
sending (`ended`), stop taking (`stalled`), or leave (`gone`); reads and writes then
end, wait or fail as sockets without a timeout do. What `JsonUtils`
decides about a body (has it a message, is it to be streamed) is a member of the
body. The engine is two actions, a token and a return, and the
tokens carry numbers so that order and completeness can be stated.

### 2.6 `Generation` and `OgaInferenceEngine` — `core/inference/`, `core/pal/IInferenceEngine.h`

`Generation` is the contract of the interface: one generation at a time, tokens handed over one
by one, in order, until one is refused, and one response that tells what was
handed over and does not hide a refusal.

`OgaInferenceEngine` implements it: `load` and `generate` one library call at a
time, each of which may fail. A
prompt is its number of tokens; a token is its place in the completion;
`int32_t` is `-IntMax-1 .. IntMax` for a small `IntMax`, and the overflow of the
signed sum of prompt and `max_tokens` yields either the wrapped value or the
wide one. `held` is the set of library objects the guards own. `delivered` and
`unread` are history, for the properties and the refinement only.

### 2.7 `HfDownloadProbe` — `xbprobe/HfDownloadProbe.cpp`

Variables are grouped by what outlives the process (the server's files, the folder, the
system's transfers, the report file) and what does not. `Terminate` is a kill or
a close at any moment, possibly in the middle of the report's rewrite; `Fetch`
and `TransferEnds` go on regardless. A progress handler is a thread that has
read `g_body`'s length (`seen`, used only by a variant) and waits for `g_mtx`.
A rewrite of the report truncates the file first. It may fail and leave the old one (`WriteReport`), and while the
disk is `full` it may leave any front of the new one (`Cuts`), an empty one too; the code looks at neither. The disk fills
up and is given room at any time (`RoomChanges`). The verdicts and `complete` are stated about `body`, from which the
report is written.

### 2.8 `JsonUtils` and `GenaiConfig` — `core/server/JsonUtils.h`, its use in `handle_chat`, `core/model/GenaiConfig.cpp`

The code reads a request's body, and a model's configuration, by searching their text. The modules have
every function of both files under its own name, over texts that are sequences of
symbols: a character the code looks at is a symbol, a run of others (a name, a
word) is one symbol. Beside them stands a client that writes an object member by
member (`Write`): a *request*, with or without white space and with either style of escapes, or a
*configuration*; the
properties compare what the functions read from its text (`Body`) with what was
written. The loops are recursive functions over positions; `json_parse_int`
returns a *set*, because the sum of its digits is an `int` without a check: once
it has overflowed, any value is possible (`parse_int` of `GenaiConfig`, which uses
`from_chars`, has no such set). What the client writes is JSON, within limits that `MembersAssumption` names: keys are
distinct, and each is one symbol, so it contains no quote (a key that ends in an
escaped quote followed by a known name would be taken for that name); an object in a list has no key that is itself a
field of a request or of a configuration (the first one in the text is taken, whatever its depth), so the fields are members of the
outermost object, and its keys are distinct too; a plain value is a number, `true`,
`false` or `null`; a number for an `int` field has no fraction and no exponent;
`model_type` is no list. Strings are free, and so are the order, the number and the
presence of the members. `Symbols` is the set of symbols a text is made of.

The fields of a real `genai_config.json` stand in sections of it. `SectionsAreRead` is about those: `Sectioned`
moves any part of the members into an object of its own and puts a member after it, which may have the name of one of them,
and what is read must be what is read of the same members in a row.

### 2.9 `*Proofs` and `MC*`

Each `MProofs` extends or instantiates `M` and holds the theorems about it; see
[proofs](#6-proofs). Each `MCM` is the instance of `M` for TLC: bounds and the
inputs to enumerate, and nothing else.

## 3. The runs

| run | configuration | checks | shows |
|---|---|---|---|
| `queue` | `MCInferenceQueue.cfg`: 3 callers, 2 places, one closer that may call `shutdown()` again | `TypeOK` (with the bound of the deque), `JobConservation`, `NoLostWakeup`, `FrontIsDefined`, `ImplementsSingleFlight`, `AcceptedIsAnswered`, `ShutdownReturnsWhenQuiet` | under every interleaving the depth is kept, jobs are neither lost nor answered twice, the worker never sleeps over work, the threads implement the single-flight service, callers accepted while the worker runs are released, and `shutdown()` returns once calls stop arriving |
| `download` | `MCGdkDownloader_sets.cfg`: items of 2 and 1 units, 2 starts, every kind of server | `TypeOK`, `DestIntact`, `OkMeansComplete`, `DoneExactlyOnce`, `ProgressInRange`, `ProgressIsMonotone`, `EverythingReturns` | over empty sets, crashes, cancels and every failure, of `WinHttpOpen` too, a file under its final name is whole where `HEAD` tells the lengths and `close()` did not lose a part of it; `on_done` is called once and, under the same conditions, its `true` is true; in a set whose lengths are known `bytes_done` never goes back, and it stays within a total that is right (`ProgressInRange` has the conditions); a set ends, and `start()` and the destructor, which join it, return |
| `download_resume` | `MCGdkDownloader_resume.cfg`: one item, 2 starts | `AcceptedIsIntact` | *violated*, at a server that honours Range: an earlier start accepted one unit of two without a length; now the length is known, the Range tail is appended to an empty `.tmp`, and the tail alone passes the length check |
| `download_flush` | `MCGdkDownloader_flush.cfg`: one item, `HEAD` tells its length | `CheckedOkIsTrue` | *violated*: `close()` loses what the stream still held, the count of the bytes passes the check |
| `shell` | `MCGdkShell_stop.cfg`: the program's own threads | `TypeOK` (with the states of the socket, and never two requests in the queue), `TeardownIsSafe`, `TokensGoToALiveHandler`, `StopIsOrderly` | however a stop falls, no thread reaches a destroyed local and no token a handler that left; a listener stopped while it waits, or while an accepted request is with the engine, leads to the exit |
| `shell_spin` | `MCGdkShell_spin.cfg` | `ListenerStopHonoured` | *violated*: a stop between `run()`'s check and `running_ = true` is overwritten |
| `shell_stranded` | `MCGdkShell_stranded.cfg` | `NoRequestStranded` | *violated*: a request enqueued after the worker has gone waits for ever |
| `http` | `MCHttpServer_connection.cfg`: 23 requests, 3 tokens | `TypeOK`, `RequestIsRead`, `OneResponse`, `StreamIsFaithful`, `StayingClientIsAnswered`, `ImplementsConnection`, `ConnectionEnds` | however its bytes are cut into reads, what is routed is the method and the path that were sent, or the front of a path the line has no room for, with all of a well-framed request's body; one response, a stream that is a prefix of the engine's tokens and ends with all of them, an answer for everyone who waits for it, one call of the engine, and an end unless a client keeps the handler waiting |
| `engine` | `MCOgaInferenceEngine.cfg`: 2 models, prompts up to 2, `IntMax` 5 | `TypeOK` (with the release of every object), `OneModel`, `FinishIsTrue`, `ImplementsGeneration`, `CallsReturn` | whatever call fails and whatever loads came before, a request is served by one model, the engine keeps the contract of its interface (the response holds what was delivered), no more tokens are counted than asked for, `length` stands for exactly that many, and `stop` for the end of the sequence or the client's wish in every call that could read each token it decoded |
| `hf_probe` | `MCHfDownloadProbe.cfg`: 2 files of 2 units, 2 launches, a disk that fills up at any time | `TypeOK`, `VerdictsAreTrue`, `NeverRestarted`, `ReportKeepsLines`, `LaunchEnds` | across kills a live transfer is joined and never restarted, a verdict and the colour of the screen are true, no report line is lost to a late handler, and a report that was cut, by a kill or a full disk, is made whole by the next write that has room |
| `request_body` | `MCJsonUtils.cfg`: texts of up to 3 members out of 27 of a request and 15 of a configuration | `FieldsAreRead`, `MessagesAreRead`, `TruncationInventsNothing`, `ConfigIsRead`, `SectionsAreRead` | what the server and the loader read is what was written, in every order and style, with values that spell keys and contents full of quotes and braces; a request cut at any place makes up no text; a configuration's field is read at whatever depth it stands, and of two of one name the first in the file is taken, be it the inner one, and be it no number |
| `messages_cut` | `MCJsonUtils_cut.cfg`: the requests of `request_body` | `CutBodyIsRefused` | *violated*: of a body cut within its messages the first ones are returned |

Deadlock is checked in `queue`, `engine` (both run for ever: a caller may always
call again). The others say `CHECK_DEADLOCK FALSE` where the modelled system really
comes to rest: a connection that is closed, a process that has exited, a
downloader destroyed, an app that has used up its launches, a body that is written.

### Properties worth a second look

* `JobConservation` is an equivalence: a caller is owed an answer *exactly* while
  its job is in the deque or at the worker. One direction rules out lost jobs, the
  other a second `set_value` and a callback into a frame that has returned.
* `NoLostWakeup` is why `shutdown()` stores the atomic `stop_` under `mu_`. With the
  store outside (variant `ShutdownStoresUnlocked`) TLC finds the sleep.
* `ShutdownReturnsWhenQuiet` carries its condition on purpose: `worker_loop`
  leaves only on an empty queue and `generate()` does not look at `stop_`, so a steady stream of
  calls keeps the worker, and `shutdown()`, busy for ever.
* `StopIsOrderly` starts from `Stoppable` for the same reason: outside it are the
  two races of `shell_spin` and `shell_stranded`.
* `DestIntact` holds together with the violated `AcceptedIsIntact` only because
  the former is about servers whose `HEAD` tells the lengths: there a partial file reaches
  `dest_path` only when `close()` lost its tail (`unflushed`, and then `CheckedOkIsTrue` is violated too), nothing
  but a rename of a whole file puts another one there, so for every other item the
  resume path is dead. Where an earlier `HEAD` failed it is live, and wrong.
* `unflushed` in `DestIntact` and `OkMeansComplete` excepts an item, not a set: that the loss
  of one file's tail does no harm to the others, over restarts that resume it, is part of what is checked.
* `ProgressIsMonotone` and `ProgressInRange` are about sets whose lengths are all known. With an unknown length
  `GdkDownloader.cpp:397` adds what was on the disk before, not what was fetched, and the next report may go back.
  `ProgressInRange` asks more: that the lengths are right (`sizes = Sizes`; an error page's is not), and that a resumed
  fetch is not answered with the whole file (`CountedFromTheStart`).
* `RequestIsRead` admits one exception, a body that is empty because the connection
  was cut within the headers: the code takes cut headers for all of them. A client
  that has said how long its body is, and has sent all, is never in it, which is the
  second half of `StayingClientIsAnswered`. Its first conjunct admits another: a path that the line has no room for
  (`TargetFits`) is routed by its front, and by no other text; a method is never routed cut, because there is no path then.
* `ConnectionEnds` carries `Starved` on purpose: `recv()` and `send()` have no timeout,
  and there is one serving thread. A client starves it that lets it wait for bytes it does not send, or that takes nothing
  while the handler has something to send (`Sends`). What it says is that nothing *but* a client holds it.
* `FinishIsTrue` holds although `prompt + max_tokens` overflows: a sum that wraps comes out negative,
  and the library refuses a prompt longer than `max_length`. That is luck rather than a check in
  the code, and it is proved for every width (`WrapsBelowZero`). Of `stop` it speaks only in calls in which every
  decoded token could be read (`~unread`): `OgaInferenceEngine.cpp:289` goes on without counting one that could not,
  and the finish reason, which compares the count with `max_tokens`, may then be a wrong `Stop` (see [section 7](#7-where-the-code-and-its-documentation-disagree)).
* `TruncationInventsNothing` is what stands between a `Content-Length` that is too
  small and a prompt nobody wrote: an unterminated string is read as none at all. That the messages before the cut are
  answered at all is against the comment of the function (`CutBodyIsRefused`, violated).

## 4. Bounds

| bound | where | why it is enough |
|---|---|---|
| 3 callers, `MaxQueueDepth` 2 | `queue` | one more caller than places: two callers race for the last place while the third is queued, at the worker or refused. The safety part is proved without a bound |
| items of 2 and 1 units | `download` (`download_resume`, `download_flush`: one item of 2) | a transfer can break in the middle, progress carries over to a second item; the code treats items alike |
| `MaxStarts` 2 (`download`, `download_resume`), 1 (`download_flush`) | | a set over the disk an interrupted one left; the resume error needs two. The safety part is proved without a bound |
| `PageSizes` 1 and 3 | `download` | an error page shorter and one longer than the item it stands for |
| one server, one worker, one main thread; `MaxQueueDepth` 4 | `shell_*` | these are the program's numbers |
| `MaxTokens` 3 | `http` | first, middle and last token |
| `MaxLine` 8; 23 requests | `http` | lines below, at and above the limit of `read_line`, one of them with a rest that reads like a header; each route; a length that is right, missing, negative, no number, given twice, too large; both ends of line; a request line of no words to four; a path that is cut where its front is a route, one of which nothing is left, a method that is cut |
| `IntMax` 5, `MaxPrompt` 2, 2 models | `engine` | the sum of prompt and `max_tokens` overflows, is negative, zero and in range; a failed second load meets the leftovers of the first. The sequence of calls is unbounded |
| 2 files of 2 units, 2 launches, one progress handler in flight | `hf_probe` | an interrupted transfer that goes on, ends or fails while the app is dead, with another file before or after it. The safety part is proved without a bound |
| 3 members of a request or a configuration (for `SectionsAreRead` the one after the section included); `IntMax` 127, `DefaultTokens` 16 | `request_body`, `messages_cut` | a value that spells a key before, between and after the members it can be confused with; numbers below, at the sign of, and above the width. White space and escapes in both styles; every place to cut |

No state constraint and no symmetry is used.

## 5. Fairness

Fairness is stated on the steps of threads that run, never on the choice of a
caller, a client or an operator.

* `InferenceQueue`: weak fairness for the steps of a thread that can go on by
  itself; strong fairness for taking `mu_`, which others take and release in between
  (the mutex and the scheduler do not starve a waiter for ever). Nobody need
  call `generate()` or `shutdown()`, and a spurious wakeup need never come.
  `engine_.generate()` returns or throws: `CallsReturn` of `OgaInferenceEngine`
  is the reason.
* `GdkDownloader`: the owner's and the worker's steps; a request returns because
  WinHTTP gives each wait a timeout of its own (external).
* `GdkShell`: the threads as above; `accept()` fails once its socket is closed
  (the documented effect of `closesocket`); a client that is being answered takes
  its answer or leaves. Nobody need come, send what it came for, or ask for a stop:
  `StopIsOrderly` starts where no client is being waited for.
* `HttpServer`: the handler and the engine go on. Nothing is asked of the client:
  `ConnectionEnds` says what it can hold up.
* `OgaInferenceEngine`: every library call and every `on_token` returns.
* `HfDownloadProbe`: the worker runs, and the operating system brings every
  transfer to some end, success or failure (external). `AwaitDownload` waits with
  no timeout, so nothing weaker would do.

## 6. Proofs

`InferenceQueueProofs.tla` proves, for every set `Callers` and every
`MaxQueueDepth \in Nat`, from `QueueConstants` alone (the thread names are distinct, the
depth is a natural number, 0 included):

| theorem | states |
|---|---|
| `TypeCorrect` | `Spec => []TypeOK`, with `Len(queue) <= MaxQueueDepth` |
| `JobsConserved` | `Spec => []JobConservation` |
| `NoWakeupIsLost` | `Spec => []NoLostWakeup` |
| `FrontDefined` | `Spec => []FrontIsDefined` |
| `Refines` | `Spec => ImplementsSingleFlight` |

None of these is inductive alone. The invariant proved inductive is

    IInv == TypeOK /\ LockDiscipline /\ JobConservation
            /\ NoLostWakeup /\ FrontIsDefined /\ ControlPoints

`LockDiscipline` ties the holder of `mu_` to the code inside its critical sections; it is what
makes the test of the depth and the push one step, and the worker's test and
its falling asleep. `ControlPoints` says what each thread knows where it is: the worker about to block
has seen an empty queue and no stop (without this `NoLostWakeup` would break at
`Block`); a caller before its push holds an empty promise (without this
`JobConservation` would break at `Enqueue`); the worker at `deliver` has a
result. Two lemmas, `PushBack` and `PopFront`, say what the ends of the deque do to
its members and to the absence of repetitions. The proof then has one step per
action, and under it one per conjunct. The refinement maps every step to the
action of `SingleFlight` it stands for, or to a stutter, under `IInv`: the
line is `queue`, the caller being served is `job`, retirement is the worker's exit.

`GdkDownloaderProofs.tla` proves, for every sequence `Sizes` of lengths (zero
included), every kind of server and every `MaxStarts`, from `DownloaderConstants` alone
(lengths are natural numbers, an error page's too, there is at least one item, no file content is `Absent`):

| theorem | states |
|---|---|
| `DownloaderTypeCorrect` | `Spec => []TypeOK` |
| `DoneOnce` | `Spec => []DoneExactlyOnce` |
| `FilesIntact` | `Spec => []DestIntact` |
| `OkIsComplete` | `Spec => []OkMeansComplete` |
| `ProgressMonotone` | `Spec => ProgressIsMonotone` |
| `ProgressWithinTotal` | `Spec => []ProgressInRange` |

The first four rest on `DownloaderInvariance`: `ControlInv` is inductive whatever the server
and the disk do, and `ContentInv` is inductive beside it.

    ControlInv == TypeOK /\ Opened /\ FreshSet /\ DoneExactlyOnce
    ContentInv == server.lengths => DestIntact /\ LengthsKnown /\ Transferred
                                    /\ EarlierComplete /\ OkIsTrueOf(Items \ unflushed)

`FreshSet` is what makes `on_done` unique across sets: `start()` launches a worker
only after it has joined the last one and cleared its report. `DestIntact` needs the rest of
`ContentInv`: `Rename` moves a file to its final name, so the file has to be
whole then, so (`Accept`) its length must have been right *and* its units in order, so
(`Transferred`) it must have grown from nothing by one unit at a time, so `resume` must have been 0:
and that holds because a file at its final name was whole or absent already
(`NeverPartial`, the circle that makes it an induction). All of this is about the items outside `unflushed`: `close()` may
lose a part of any item, which puts it into `unflushed` for good, and the proof shows that none
of the others is touched by it. `NextUnit` says what
one read adds; `EarlierComplete` carries the items already done to `AllDone`.

`ProgressMonotone` has an invariant of its own, `Counted`: what was shown last is at most what
the finished items and the bytes of this one come to. `ProgressWithinTotal` needs the other side:
`CountedExactly`, that the finished items come to the partial sum of the lengths HEAD told, and
`FetchedInRange`, that of this one no more is fetched than its length. Then what is shown is at most the partial sum
with this item, and partial sums of lengths that are not negative grow (`Sums`). The lengths are HEAD's, so the theorem has them right
(`sizes = Sizes`) as a condition; that they need not be is in [section 7](#7-where-the-code-and-its-documentation-disagree).

`OgaInferenceEngineProofs.tla` proves, for every set of models, every width of the integers and
every bound on the prompts, from `EngineConstants`:

| theorem | states |
|---|---|
| `EngineTypeCorrect` | `Spec => []TypeOK`, with what each early return has released |
| `OneModelServes` | `Spec => []OneModel` |
| `FinishReasonTrue` | `Spec => []FinishIsTrue`, where `stop` is excepted in a call with an unread token |
| `KeepsContract` | `Spec => ImplementsGeneration` |

    IInv == TypeOK /\ OneModel /\ InLoad /\ InSetup /\ InLoop /\ NoneYet /\ Texts /\ FinishIsTrue

`InLoad` and `InSetup` say what the calls made so far have left behind, which is what a failure in
the middle must not leave to the next call. `InLoop` holds the argument about overflow:
in the loop `limit = prompt + maxTokens`, because a sum that wrapped is negative
(`WrapsBelowZero`) and the prompt was then refused. `Texts` ties the content to what
`on_token` has seen, which is the refinement's step for every token.

`GdkShellProofs.tla` proves about the program, for every `MaxQueueDepth`, from `ShellConstants`:

| theorem | states |
|---|---|
| `ShellUsesQueue` | `Spec => QP!Spec`: every behaviour of the program is one of the queue |
| `ShellTypeCorrect` | `Spec => []TypeOK` |
| `SafeTeardown` | `Spec => []TeardownIsSafe` |
| `TokensReachALiveHandler` | `Spec => []TokensGoToALiveHandler` |

The composition carries its weight here: `QP` is `InferenceQueueProofs` with the shell's
threads for its callers and its closer, so `ShellUsesQueue` brings the queue's `IInv` along, and
`ShellInv` only adds what the main and the server thread know of the queue at each of their points
(`InMain`, `InServer`).

`HttpServerProofs.tla` proves, for every set of symbols and of requests, every `MaxLine` and every
`MaxTokens`, from `HttpServerConstants` (there is room for one symbol at least) and `RequestsAssumption` (the
method, the path and a header's name have no blank and no character of a line end in them, what follows the path begins with a
blank, a name has no colon, a value does not begin or end with a blank: what it means to be a word or a value in HTTP; the number and the length of
words, blanks and headers, the end of line, the lengths announced and the bodies are free):

| theorem | states |
|---|---|
| `OneResponseEach` | `Spec => []OneResponse` |
| `StreamFaithful` | `Spec => []StreamIsFaithful` |
| `HandlerIsConnection` | `Spec => ImplementsConnection` |
| `RequestRead` | `Spec => []RequestIsRead` |
| `TypeCorrect` | `Spec => []TypeOK` |
| `StayingClientAnswered` | `Spec => []StayingClientIsAnswered` |

For what is written, `InAnswer` is what the handler's place says about the last piece on the wire, and
`InStream` about the number of pieces and tokens; the lemmas
`WriteKeeps` and `WriteNumbers` do all the work, for whatever write, cut or not, in whatever place.

For what is read the invariant is

    InputTypes /\ Reads

and its idea is that `Ahead`, what has arrived and what is still to be sent, taken together, is at every place
in the handler a *rest of the request's text*: all of it before the request line, the text from some header on
(`BetweenHeaders`, with `length` what the headers before it announce), or what `body` lacks (`BodyAhead`). No step of
the client changes `Ahead`, however it cuts what it sends, so the properties do not
depend on the cuts. A step of the reader takes one line off it, and the lemmas say which:
`LineAhead(l, e, t)` states that `Ahead` is the line `l`, its end `e` and the rest `t`; then a reader that has
room for the line returns `l` and leaves `t` (`ReadWhole`); one that has not returns a front of it, with
a carriage return perhaps (`ReadAny`), as long as the limit (`ReadLength`). `SpacedLine` says where the method, the blanks, the path
and the rest stand in the request line, `FrontSymbols` what of it a front holds, and so, whether the cut
falls before, between or inside the words, its first two words are the method and the path, or the front of a path that
the limit has cut, or there are not two (`FirstWordsRead`); and if all has been
sent there is a line to read (`Ready`), which is why a connection is cut within
the headers (`Lost`) only when something was not sent. `LengthAfterHeader` and `AnnouncedNext` say that the search for the
colon and `trim` find the name and the value that were written. `Answered` lists, on top of that, the
reasons for which a connection may be closed.

`Induction.tla` has what these proofs and the downloader's need of induction. `NatInductionOnSet` speaks
of a *set* that has 0 and every successor, not of a predicate, so any prover can use it; it follows from
the order of the naturals being well-founded. From it follow the existence of functions defined by recursion on the naturals
(`NatRecursion`), of running totals (`RunningTotal`) and of sequences joined from the back (`Joined`): the
last two are the recursive functions of `BytesUpTo` and `TextFrom`.

`HfDownloadProbeProofs.tla` proves, for every number and size of files and of launches:

| theorem | states |
|---|---|
| `ProbeTypeCorrect` | `Spec => []TypeOK` |
| `VerdictsTrue` | `Spec => []VerdictsAreTrue` |
| `TransfersResume` | `Spec => NeverRestarted` |
| `ReportComplete` | `Spec => ReportKeepsLines` |

    IInv == TypeOK /\ Fresh /\ ListIsRight /\ DoneWith /\ SetAtTheEnd

The list of transfers is read once per launch and goes stale while it is used; `ListIsRight` says for
which files it is still right (those not come to yet), and that is why an active transfer is
never started again. `DoneWith` says that the files with a verdict are left alone. `ReportComplete` is
about the writes that find room; what a full disk or a kill leaves of one is any front of it.

`JsonUtilsProofs.tla` proves, for every set of members that are JSON, texts of any number of them, with or without
white space and with escapes in either style, and for every width of the integers, from `JsonConstants` and
`MembersAssumption` (see [2.8](#28-jsonutils-and-genaiconfig--coreserverjsonutilsh-its-use-in-handle_chat-coremodelgenaiconfigcpp)):

| theorem | states |
|---|---|
| `FieldsRead` | `Spec => []FieldsAreRead` |
| `ConfigRead` | `Spec => []ConfigIsRead`, for fields at the top level of the configuration |
| `MessagesRead` | `Spec => []MessagesAreRead` |
| `CutRequestRead` | `Spec => []TruncationInventsNothing` |

The inductive invariant is `MembersTyped`: the members were chosen from those of the kind, and their keys are distinct.
The rest is about one text, and the question is always the same: the code looks for the
first `"key"` that has a colon after it, in a text whose strings may hold anything, so why is that the member's own
label? The argument has three layers.

* *Layout.* `Stands(t, o, x)` says that `x` stands in `t` after the first `o` symbols; `FlattenStands`, `SeparatedText` and
  `ObjectText` say where the names and the values of a text stand, so that the rest can speak of
  positions only.
* *Strings.* `ReadsString` and `EndsString`: from the opening quote of a string with any characters, in either style
  of escape, the reader returns these characters, and the search for its end finds its end. Both go backwards along the
  string, since `Rest` and `StringEnd` are defined at a place from later places.
* *Keys.* `KeysAt(t, k, P)` says that a quote right after `k` in `t` is at a place in `P`, or is followed by what only follows a
  value. It is kept when texts are joined (`KeysConcat`, `KeysFlatten`), unless one forms at the seam (`Seam`); and no
  such quote is inside a string, because a quote there has a backslash before it (`EscapeNotBare`). So `FindsKey`: what `find_key` returns is the member's value, and `FoundAt` says so of the text written.

On top of it there is one lemma for each reader and each kind of value: `StringRead`, `IntRead`, `FloatRead`, `BoolRead`, `ValueIsFound`,
`IntParsed`. `Induction` contributes `BackwardRecursion`, the existence of a function on `1..N` whose value at a place
depends on later ones.

`MessagesRead` needs three more layers on the same layout.

* *Objects.* The scan for the closing brace counts braces outside strings. `Skips(x)` says that it goes on after `x` with the
  depth it came with; strings, labels and members have it, whatever they hold, and so `ObjectEndIs`: what opens at a message ends where the
  message does. `MessageIs` then reads it, with the lemmas about strings and keys applied to the object alone.
* *Arrays.* `ListElements`: from the first element on, the loop returns the messages that have a role and stops at the bracket.
  The array is a row of objects with a comma and perhaps a blank between them (`Row`), and the induction goes backwards along it.
* *The first occurrence.* `json_parse_messages` does not go on to an occurrence that is a key, so one has to know
  every place where the word may stand between quotes: `StringHit`, `MessageHit`, `ListHit` and `ValueHit` say for each kind of value
  that it does exactly when the value `Shadows` the key, and that no array is read there (`Harmless`). `BodyIsPlaced` puts
  these together for a request: the first occurrence is the key itself, or belongs to a value, which is then before
  the key. The proof found this condition: a string that ends with an escaped quote and the word, and a key of an object within a list,
  hide the array as well.

`CutRequestRead` asks what each reader returns from a text that ends anywhere. `FrontOf(u, t)` says that `u` is the front of `t`, and the answer is
always the same: what the reader finds in `u` ends past the cut, or is what it finds in `t`
(`FrontPast`, `FrontValue`, `FrontStringEnd`, `FrontObjectEnd`, `FrontFirst`). Two places need more. `CutString`: a string
that is cut does not close, even where the cut leaves half an escape (`CutSpelling`: after a `\u` that is cut no quote is
left), so `CutField`, a field is read as it was written or as nothing. And `CutPushed`: in the object that is cut the role may be read
when the content is not, which is why the property allows the last content to be missing. `CutElements` puts this at the end of
the induction along the array.

Only model-checked: all liveness, because fairness is beyond the prover, and `SectionsAreRead`, the fields of a configuration that
stand in a section of it. Every other invariant and every action property that a passing run checks is stated by a theorem.

## 7. Where the code and its documentation disagree

Five disagreements are shown by a run of their own (see `findings` in
`PROJECT.json`):

1. **A request at shutdown can hang the program** (`shell_stranded`). `main.cpp`
   shuts the queue down before it joins the server thread; `generate()` does not look at
   `stop_`; a request being read at that moment is pushed for a worker that has
   exited, its caller blocks in `future.get()`, and `server_thread.join()` never returns.
2. **An early `stop()` of the listener is overwritten** (`shell_spin`), and the loop
   spins on a closed socket.
3. **A resumed file lacks its head** (`download_resume`): the offset is the
   size of `dest_path`, the bytes that the server's Range answer begins there go to `dest_path.tmp`.
4. **A file cut by a full disk is reported as complete** (`download_flush`), its length known: the stream's
   last bytes are written by `out.close()`, whose failure is not looked at, and the length check counts what was handed to the stream.
5. **The first messages of a body that is no JSON are returned** (`messages_cut`), where `JsonUtils.h:252` promises
   an empty vector on any parse failure.

Others were met while modelling and have no run. The models have the behaviour of each, at the definition
that is named:

* `IDownloader.h:32` has `ok` mean that all items are complete. When the length is unknown no size is checked and
  the end of a broken connection looks like that of the body (`WrongSize`, `EndOfBody`), so a truncated file is reported as complete; the trace
  of `download_resume` begins with one. `DestIntact` and `OkMeansComplete` speak of servers that tell the lengths.
* `GdkDownloader.cpp:76` has `head_content_length()` return -1 on failure; it does not look at the status, and the
  length of an error page is taken for a file's and added to the total (`HeadReplies`).
* `InferenceQueue.h:36` has the caller map an overload to 503; it is a 200 response (`ReplyFor`).
* `HttpServer.h:36` speaks of the full request line; one longer than 8192 characters is cut, and of a path cut with it the
  front is routed (`read_line`; the instance has `/healthz` after blanks that are answered as `/health`).
* `types.h:38` has `Stop` for the end of the sequence. A token that `GetSequenceData` does not give is not counted, so a completion cut off at
  `max_length` ends below `max_tokens` and is reported as `Stop` (`DecodeNothing`; `unread` in `FinishIsTrue`).
* `GenaiConfig.h:22` has malformed JSON refused. Nothing is: of a file cut within a number the digits before the cut are taken for
  it (`find_json_value`, `parse_int`).
* `HfDownloadProbe.cpp:36` calls the live line transient. A progress handler that comes after the verdict of its file puts it back, and
  the report goes on showing a transfer in flight that has ended (`HandlerFlush`). No full line is lost.
* `shutdown()` is not bounded while calls keep arriving (see `ShutdownReturnsWhenQuiet`).
* `IDownloader.h:41` has a partial file continued at the next start; a
  restart opens `.tmp` with truncation unless `dest_path` itself is partial (`OpenTmp`).
* `IDownloader.h:51`: a cancelled set ends with `ok = false`; a cancel after the last item
  is not looked at (`AllDone`).
* `IDownloader.h:43-45`: when `start()` returns false the callbacks are not called; on
  failure to create the thread `on_done` is (`StartLaunchFails`).
* `GdkDownloader.h:4` speaks of `start()` as returning at once; it joins the
  previous worker first (`StartJoin`).
* `ILifecycle.h:34` has `stop()` make `start()` return; a `stop()` that comes first is
  reset (`LifecycleStart`).
* `HttpServer.cpp:214` speaks of a sane range for `max_tokens`; only the lower end is
  clamped (`Clamp`).
* `JsonUtils.h:251` looks for `"messages":[...]`; only the first occurrence of
  `"messages"` is considered, so a value before it that has the word between
  quotes hides the array (`MessagesShadowed`: a string that is the word, or ends with it after an escaped quote; an
  object within a list that has it as a key or as a value), where `find_key` would go on.
* `parse_genai_config` reports only a file it cannot open or read, and reads what it can from any other text: a `model_type`
  of `null` becomes the text `null`, and of two fields of one name the first in the file counts, at whatever depth
  (`SectionsAreRead`).
* `HttpServer.cpp:90` calls an over-long line "truncated but not an error"; its rest
  is then read as the next line (`read_line`; the request `Tricky` of the instance has such a line).
* A connection that ends within the headers is a complete request (`HeadersCut`), one that ends within the
  body is not answered at all (`BodyDropped`).
* `StubInferenceEngine.h:3` has a canned error response; its finish reason is `Stop`. It returns a
  content without a call of `on_token`, so a stream from it is empty, and it is no `Generation`.
* With one serving thread the queue never holds a second request (`TypeOK` of `GdkShell`), so
  the overload answer is out of reach in this program, whatever `max_queue_depth` of at least one is set.
* A transfer that is resumed at a server which ignores Range counts the resumed part
  twice, and can report more than the total (see the condition of `ProgressInRange`).

## 8. What is not modelled

* **The bytes below the symbols**: UTF-8, `std::stof`, and runs of ordinary characters, which are one
  symbol each.
* **`ModelLocator`, `GdkModelStore`**: stateless tests for the existence of files. Nothing
  in the program calls the locator; `main.cpp` constructs the store and calls nothing of it.
* **`load()` of the queue**: it delegates to the engine and touches no state of the queue. It is
  not serialised against `generate()`, which matters to nobody today: `main.cpp` does not call it.
* **Callbacks that call back** into the downloader: `start()` or the destructor from a callback would
  join the thread it runs on. The code gives no such call.
* **The descriptors and the port of the listener, the dashboard, the input, the stub engine**: constants and output.
* **A retry against a server that never tells a length** and holds a complete file already: every later
  Range request would be unsatisfiable (`GdkDownloader.cpp:166`). `server` has such a server (it
  answers 416), and the set ends with `ok = false`; no property says that it will do so for ever.
* **An allocation that fails**: `body.resize(length)` (`HttpServer.cpp:182`) may throw for a huge
  `Content-Length`, and nothing up to the server thread's function catches it. Lengths are small in `HttpServer`,
  and no property is about the exception.
* **A configuration file that cannot be opened or read** (`GenaiConfig.cpp:110-121`): `parse_genai_config()` returns `false`
  before it has looked at any text; `GenaiConfig` begins with the text.
* **Graphics, console output, the wording of reports, the hardware probe** (`Probe.cpp`): straight-line
  measurements and output, no state that a property could be about.
* **LAN probe**: the `App.cpp` of this commit skips it (`App.cpp:52`), and nothing else
  calls it, so no behaviour of the program runs through it.

## 9. The plan

Done, in this order: queue and its abstract service; proofs of the queue; downloader; shell with the
queue composed; HTTP connection; engine; download probe; proofs of the downloader; the functions that
read a request's body; the contract of an engine and the contract of a connection, refined by
`OgaInferenceEngine` and `HttpServer`; the request reader, with clients that stall; the model
configuration; proofs of the engine, the shell, the connection and the probe; induction, and with it the
proofs of the request reader and of the downloader's progress; proofs of what the fields of a request and of a
configuration, the messages of a request, and those of a request that is cut, are read as.

What would add most next:

1. **The handler over the queue**: `HttpServer` with `InferenceQueue` in place of its two engine actions. The shell has
   this composition with the connection reduced to `Connection`; what is left to gain is the stream's pieces
   under the interleavings of a shutdown.
2. **The descriptors of the listener**: `close()` and `accept()` race for a descriptor the system may
   have given out again.
