# Verification of shared_bike

The repository is the beginning of a server for shared bikes and the
exercises that lead up to it: an epoll event framework with an echo server,
an HTTP server, libevent servers, framing and protobuf messages, and small
programs for threads, semaphores, message queues, pipes and signals. The
production program (`src/src`) so far sets up its log and reads its
configuration; it does both with the sources of log4cpp and iniparser, which
the repository carries under `src/git`. The logic that can go wrong is in
those two libraries, and in the servers and the concurrent programs under
`src/test`. This directory holds TLA+ models of that logic, the TLC
configurations that check them, and TLAPS proofs.

Paths below are relative to `src/`.

## 1. Inventory

| component | state it keeps | operations | what makes it hard | what makes it correct |
|---|---|---|---|---|
| epoll echo framework, `test/IO/EPOLL/epoll_framework` | `fd_table` (handlers, data, deadline per descriptor), `epoll_state`, `epoll_fds`, `sys_curtime`, `current_dtime`, `last_timeout`; one heap `ConnectStat` per connection | `comm_select`, `checkTimeouts`, `do_epoll_select`, `comm_call_handlers`, `commUpdate*Handler`, `commSetTimeout`, `comm_close`; the five handlers of `main.c` | descriptors reused within a round, two handlers for one event, deadlines from a coarse clock, failing `epoll_ctl`, `malloc`, `accept`, resets | events reach the connection they are about; no `ConnectStat` leaks or is used after `free`; every connection keeps a deadline and ends; one answer per input |
| HTTP epoll server, `test/IO/EPOLL/epoll_web_server1.c` | a `ConnectStat` (name, age, next handler) per connection, its registered event | `connect_handle`, `do_http_request`, `do_http_respone`, two page handlers | requests that arrive in parts, state kept across requests | a page answers the request it follows; connections end |
| poll and select servers, `test/IO/{POLL,SELECT}` | `fds[]`, `cur_max_fd`; `readfds` | one loop: accept, read, write back | blocking reads, entries of closed clients | nobody waits for another client |
| libevent echo servers, `test/libevent/**` | one event and one buffer per connection | accept, request, response callbacks; clients | one event re-assigned in turns, stale buffer tails, empty lines | what is sent is sent back |
| length-prefixed messages, `test/package_handle` | a buffer per message | `pack_read`, the client's three writes | short reads, a peer that stops | a message is read whole or the server gives up |
| protobuf over libevent, `test/protobuf/prot` | buffers | serialize, send, receive, parse | bytes through C strings | a record that is sent is received |
| pthread programs, `test/pthread` | shared buffers, semaphores, a mutex, flags | main and one or two threads each | unsynchronised buffers, semaphores that count strings the buffer cannot hold | strings are handled once, in order; the program ends on `exit` |
| queues and System V semaphores, `test/msgQueue` | kernel queue, semaphore with undo | send, receive, remove; P, V, init | initialisation by several processes, death inside the section | mutual exclusion; no message is lost |
| worker processes, `test/1-22` | processes | fork, wait, daemon | children that outlive the loop | every worker is started once and reaped |
| pipes, `test/pipe` | one pipe, its ends in two processes | read, write, close, wait | both ends open in both processes | nobody waits for himself |
| signals, `test/signal` | handlers, masks, `flag` | sigaction, kill, alarm | signals before handlers, coalescing | a request is not lost, the process not killed |
| startup, `src/` | `Iniconfig::_config`, `_isloaded` | `main`, `loadfile`, `Logger::init` | error paths | the program does not run without its configuration |
| dictionary, `git/iniparser/src/dictionary.c` | three arrays of `size` slots, and `n` | `new`, `get`, `set`, `unset`, `grow`, `del` | colliding hashes, slots freed in the middle, allocations that fail | it is a map; the search for a slot ends |
| ini parser, `git/iniparser/src/iniparser.c` | the current section, the line so far, the dictionary | `iniparser_load`, `iniparser_line`, the getters | lines of any kind that go on, `[]`, memory short for a line, a key, a value or the table | what is read is what the file says |
| file appenders, `git/log4cpp/src/{,Rolling,DailyRolling}FileAppender.cpp` | `_fd`, `_flags`, backup count, day of the file; the directory | construct, append, roll over, close, reopen, setters | killed between two renames, calls that fail, midnight in between, restarts | files are in order; only the oldest events are given up |
| categories and appenders, `git/log4cpp/src/{Category,HierarchyMaintainer,Appender}.cpp` | the hierarchy, a set of appenders per category, the registry by name, a mutex each | log, attach, remove, shut down, reopen all | several threads, nested mutexes, deletion, `reopenAll` and `closeAll` beside `doAppend` | no deadlock; no deleted appender is called; one order of events |
| property configurator, `git/log4cpp/src/PropertyConfiguratorImpl.cpp` | properties, a map of appenders that is never cleared | `doConfigure`, `instantiateAllAppenders`, `configureCategory` | exceptions half-way, configured again, order of keys | the categories are as the file says |
| buffering, thresholds, filters, `git/log4cpp/src/{BufferingAppender,AppenderSkeleton}.cpp` | threshold, filter chain, queue, `lossy_` | `doAppend`, `dump`, setters | a buffer at its limit, settings changed in between | a trigger is reported once with what led to it |
| other appenders, layouts, NDC, factories of log4cpp | | one call or one formatting per event | | |
| small demos, `test/{UDP,shared_memory,mem_pool,other}` | | | | |

`third` holds installed copies of the headers of both libraries. libevent,
protobuf and generated code are not modelled. `test/libevent/epoll_framework`
copies `comm.c` and `comm_epoll.c`; its `main.c` is an unfinished port.

The programs under `test` are separate; they share code only by copying.
`src/main.cpp` calls `Logger::init`, which configures log4cpp from a property
file, and `Iniconfig::loadfile`, which has iniparser fill a dictionary and reads
six fields of it; what it logs goes through the categories to the rolling file
appender of `src/conf/log.conf`. Within a server, the loop calls handlers through the table, handlers change the table
and the epoll registrations, and the kernel's state (sockets, accept queue,
interest list) is shared with clients that act at any moment.

## 2. What is modelled

### Modules

| module | what it is |
|---|---|
| `Sockets` | the environment of an epoll server: accept queue, receive queues, FIN and RST, room in send buffers, descriptor allocation, the epoll interest list, the clock. External: modelled from what the system calls used here do on Linux |
| `CommEpoll` | `comm.c`, `comm_epoll.c`, `globals.h`: table entries and the operations on them, epoll bookkeeping, the framework's clock |
| `EchoServer` | `main.c` and the loop: handlers, steps of `comm_select`, the specification and its properties |
| `EchoService` | the abstract specification: what a client of an echo server is promised |
| `EchoServerMC` | instances for TLC, symmetry, the refinement mapping to `EchoService` |
| `EchoServer_proofs` | tables, types and memory of the echo server: the inductive invariant and the theorems |
| `EchoReplies_proofs` | its conversations, events and deadlines, and that it implements `EchoService` |
| `WebServer` | `test/IO/EPOLL/epoll_web_server1.c` over `Sockets`: parser, handlers, loop, properties |
| `WebServerMC` | instances for TLC |
| `WebServer_proofs` | pointers, pages and what ends the HTTP server |
| `WordPipeline` | `test/pthread/dome2.c`: main and two threads over one buffer and two semaphores |
| `WordService` | the abstract specification: what the comment at the top of `dome2.c` promises |
| `WordPipeline_proofs` | what late threads may find, and that prompt runs implement `WordService` |
| `FileAppender` | `FileAppender.cpp`, and the directory it writes to (external) |
| `RollingFileAppender`, `DailyRollingFileAppender` | the two subclasses, each an extension of `FileAppender` as in the code |
| `LogStore` | the abstract specification: what is kept of the events that were logged |
| `LogFiles_proofs` | the rolling files are in order, keep enough and implement `LogStore`; the daily files are in order and kept long enough |
| `LogThreads` | `Category.cpp`, `HierarchyMaintainer.cpp`, `Appender.cpp` and their mutexes |
| `LogThreads_proofs` | the order of the mutexes, how many threads are in an appender, one order of events, no call of a deleted appender |
| `Priority`, `AppenderSkeleton` | `Priority.hh`; threshold and filter chain of `AppenderSkeleton.cpp`, `Filter.cpp` |
| `LogBuffer` | `BufferingAppender.cpp`, over `AppenderSkeleton` |
| `LogConfig` | `PropertyConfiguratorImpl.cpp`, `Properties.cpp` |
| `LogAppenders_proofs` | about `LogConfig` and `LogBuffer`: what is configured is what was written, what is reported is what happened |
| `Dictionary` | `dictionary.c` |
| `IniMap` | the abstract specification: a map from keys to values, and what each call does to it and returns |
| `Dictionary_proofs` | the table is sound and implements `IniMap`; the configuration `Startup` goes on with is what the ini file says |
| `IniParser` | `iniparser.c`, over `Dictionary`; and what a file says, defined without one |
| `Startup` | `main.cpp`, `iniconfig.cpp`, over `IniParser` |
| `LogConfigMC`, `StartupMC`, `LoggingMC` | instances for TLC; `LoggingMC` puts the parts above into one run |

### State of the echo server

| variable | code |
|---|---|
| `fd_table` | `fde fd_table[]`; `timeout` in seconds. `armed` and `period` are history: when and for how long the deadline was set |
| `epoll_state`, `epoll_fds` | the static variables of `comm_epoll.c`; HUP and ERR, which the kernel reports anyway, are not recorded |
| `interest` | the kernel's list, separate because `epoll_ctl` may fail |
| `sys_curtime`, `current_dtime`, `last_timeout` | the clock of `comm.c`; the doubles are integers in ticks, `TicksPerSec` to the second |
| `heap` | the `ConnectStat`s that are allocated, named by the connection they were made for |
| `send_buf` | the contents of a `ConnectStat` behind `"->"`, as chunks |
| `events`, `current`, `pc` | the rest of the array `epoll_wait` filled, the event being dispatched, and the place in the loop |
| `proc` | what ended the process, if anything |
| `sock`, `net`, `acceptq`, `now` | kernel and clients. `net[c].rd`, `net[c].wr` are history: the results of successful reads and writes |

The `ConnectStat` of the listening socket is never used, so its handler data is
`NULL` here. The code's `memset` of a table entry is `EmptyFde`.

### Actions of the echo server

One action is one handler call or one step of the loop. A handler makes one
system call whose result depends on others (`accept`, `read` or `write`); the
rest of it touches only the process, so clients that act in the middle of a
handler could as well have acted before or after it. Between two handler calls
of one round clients do act, and that is where stale events would come from.

| code | action |
|---|---|
| `comm_select`, to the test of `last_timeout` | `StartSelect` |
| `checkTimeouts`, one expired entry, its end | `ExpireTimeout`, `EndTimeouts` |
| `epoll_wait` with events, without | `EpollWait`, `EpollTimeout` |
| `comm_call_handlers`, first and second `if` | `CallReadHandler`, `CallWriteHandler` |
| `getCurrentTime` at the end | `EndSelect` |
| the handlers of `main.c` | operators of the same name, reached through `Call` |

`checkTimeouts` scans upwards; the model takes the lowest expired entry each
time, which is the same because no timeout handler can make a lower entry
expire. A batch is dispatched in any order, more than the kernel does.

Abstractions: message bytes are chunks, each marked as starting with `quit` or
holding a 0 byte; output to the terminal is left out; a write is complete or
fails (EPOLLOUT means room for more than a `BUFLEN` buffer); the table is no
longer than the descriptors in use; the bound checks of `commSetTimeout` hold.
A failed call's log line is modelled by what it does: `strerror` has no
declaration in scope, so its result is cut to 32 bits and printing it may end
the process with SIGSEGV. This is so in the error branches of `main.c` and in
`xstrerror` (`comm.c:193-206`), which `commSetEvents` calls for each
`epoll_ctl` that fails (`comm_epoll.c:90-93`): an `epollSetEvents` that is
refused may go on, with what the table says, or end the process, in
`comm_close` before the descriptor is closed (`DelCrashes`). `stat_init`
(`main.c:69-81`) has no `return`; its callers use what it should have returned.
The model has what an unoptimised build does, in which the result register
still holds the pointer `malloc` returned, or NULL.

### The HTTP server

`WebServer` uses the same kernel and clients. `stat[c]`, `heap` are the
`ConnectStat`s, named by the connection they were made for; `ptr[fd]` is the
`data.ptr` the kernel keeps for a registration and puts into events; `events`
is the rest of `revs[]`, `pc` tells whether it is empty. `EpollWait` is the
call, `Dispatch(e)` one turn of the `for` loop with the whole handler it runs:
`AcceptClient` (with `connect_handle`), `do_http_request` or
`do_http_respone` (with either page handler). As in the echo server a handler
makes one system call that depends on others.

A request is a sequence of chunks that one `read` returned. What the parser
looks for is an attribute of a chunk: that it begins with `POST /commit`, holds
the blank line, a name, an age, or an empty one of these. `NameAt` and `AgeAt`
follow the pointer `pos` through the `strstr` calls, `Fill` is the `len > 0`
guard, `SearchesNull` the `strstr` on the NULL that an earlier one returned. A
page is the handler that wrote it and the values it shows. The number of bytes
of a value and of a page, and tokens cut in two by a read, are left out.

### The string pipeline

`WordPipeline` has one action per step between two accesses to what the threads
share: `fgets` is two actions, because the copy into `buf` races with the
threads' reads; what a thread reads meanwhile is the old line, the new one or a
mixture (`Seen`), of which one kind, `TornExit`, compares equal to `exit`
although neither line does. `sem1` and `sem2` are counters; `main`, `pth1`,
`pth2` say where each thread is. `posted`, `printed` and `file` are history: the
lines main posted, what thread 1 printed a count of, and the contents of
`result.txt`. `prompt` is chosen at the beginning of a run: it says whether
`sleep(1)` is always long enough in it for both threads to come back to their
semaphores, which the program takes for granted. What holds in any run says so
in its comment (`NeverBehind`, `EndsOnExit`); `ServesWords` and `EndsIfPrompt` are
promises for the prompt runs, in which the refinement maps the histories to
themselves, and the others to nothing.

### The log files

A directory maps names to sets of events, which are numbered as they are logged;
a descriptor belongs to a file, so it goes along with a rename and survives an
unlink. Every event is one unit long and `maxFileSize` counts events. The
setters are atomic, `_append` with `rollOver` is one step per system call:

| code | action |
|---|---|
| `FileAppender()`, `_append`, `close`, `reopen`, `setAppend` | `Construct`, `_append`, `close`, `reopen`, `setAppend` |
| `RollingFileAppender` and its setters, `setMaxBackupIndex`, `setMaximumFileSize` | `ConstructRolling`, `setMaxBackupIndex`, `setMaximumFileSize` |
| `RollingFileAppender::_append`; `rollOver`: remove, each rename, open | `AppendRolling`; `RemoveLast`, `RenameNext`, `OpenNext` |
| `DailyRollingFileAppender::_append`, up to the comparison of days, and its write | `CheckDay`, `AppendDaily` |
| its `rollOver`: close and rename, open, the limit, each `unlink`, the end | `RenameDated`, `OpenDated`, `FindOldest`, `Purge`, `PurgeEnds` |
| kill or exit, logrotate, time | `Crash*`, `Rotate`, `Tick` |

`roll` and `daily` say where such a call is. A failed call is `Use("faults")`:
nobody looks at the result of `rename`, `unlink` or `open`, so the effect is
only that nothing happened, or that `_fd` is -1. `Purge` goes through the names in
their order: a file whose `stat` or `unlink` fails stays, and the ones after it go,
which leaves a hole (`whole` is false then). `setMode` is left out: it concerns the
permissions of files to come. `whole`, `cuts`, `stamps` are
history. An event is written whole or not at all. The name of a backup is its
number with its width, since the padding makes another name of `log.1` when
`maxBackupIndex` goes beyond 9; of a daily file it is its day.

### Categories and threads

`LogThreads` has one action per step between two mutex operations, and one
for each call of an appender, during which other threads may move (`inside`).
`callAppenders` keeps its mutex while it calls the parent: `cat[t]` goes up with
`CallParent` and down again with `Return`, and the categories a thread holds
are its stack. `CallAll`, `CallNext`, `CallReturns` and `AllCalled` are
`reopenAll` and `closeAll`, which call every registered appender under the
registry's mutex alone: other threads may be in its `doAppend` (`inside`) while
one is in its `reopen` or `close`. `life` is the memory of an appender: `dying` from the moment its
destructor has begun until `~Appender` has taken it out of the registry. `owns`
is `_ownsAppender`. A caller may do what C++ lets it do without undefined
behaviour of its own: it does not give an appender away twice, nor one that is
attached elsewhere. The order of events in `out` is the order in which the
`_append`s ended. Shutdown handlers (`HierarchyMaintainer.cpp:105-112`) are left
out; only `SmtpAppender` registers one.

### Configuration, buffer

A property file is a function from keys to values, a key a sequence such as
`<<"appender", "A", "layout">>`; `KeyOrder` is the order of the `std::map`.
`step` is the place in `doConfigure`, `outcome` how the last call ended,
`made` every appender with its layout and threshold, `living` those not deleted,
`byName` the registry. `FileDoesNotExist` is the exception of
`doConfigure(fileName)`. `throw` is `Ends("failed")` with all that was done until
then left as it is; `ThrowsFor` adds that the map entry `_allAppenders[name]`
may have been made by then, which the order of evaluation leaves open.

In `LogBuffer` an event is its number; `queue`, `lossy`, `sinkLimit` are the
fields, `given` the events with the settings they met. `chain` is the filter chain as
a sequence, a filter a function from priorities to its decision.

### Startup and ini files

A line is a sequence of tokens: the characters that mean something to
`iniparser_line` (brackets, quotes, `=`, `#`, `;`) and what is between them;
`iniparser_line` is its `sscanf` patterns over these. A key `section:name` is
such a sequence, in lower case already; a name may be two tokens, its first
character and the rest, since `[]` cuts a name to one character. Hash values are
given by a constant.

A round of the loop of `iniparser_load` is `ReadLine(text, n)`: `fgets` reads the
tokens of a line of the file up to the n-th, behind those that are in the buffer.
If the line goes on (a backslash) they stay there; at its end the whole buffer
is processed. So any line may be cut anywhere, headers and comments too, any
number of times, and what follows a comment sign is comment wherever the cut was. A text
longer than the buffer, or an error, ends in `Discard`; a line that would go on
at the end of the file is dropped (`EndOfFile`).

Memory may be short for each allocation: the three arrays of a new dictionary,
whose `calloc`s nobody looks at (`absent`; the first call that needs one ends the
process, `UseNull`), the copy of a line (`TakeForEmpty`: the line is taken for an empty
one), of a key, of a value, and the doubled table. `lack` records for each line
what there was no memory for. `call` records the last call of the dictionary with
its arguments and its result, which is what `IniMap` speaks about.

`Says` is what a file says without a dictionary: the last line under the section
(`Under`) that is about the name (`About`) counts, or a header that is named like
the key. `ConfigAsWritten` compares `_config` with it, for each field.
A shortage excuses no more than what was lost. `std::string(NULL)` ends the
process (`Loaded`). `strtol` is the constant `NumberOf`.

The comment of `dictionary_set` (`dictionary.c:245-250`) says both that a variable
set to NULL is found, with NULL, and that there is no key without a value. The
code does the first, for every section header, and so does `IniMap`.

## 3. Runs

| run | question | result |
|---|---|---|
| `echo_safety` | Do two clients on two reused descriptors ever get each other's events or answers? | no: `EventsFresh`, `RepliesMatchReads` hold |
| `echo_faults` | Do tables and memory stay consistent when connections are reset, `epoll_ctl` and `malloc` fail, and descriptors run out? Is it still an echo server? | yes: `TypeOK`, `EpollInSync`, `NoneStranded`, `StatsOwned`, and `ServesEcho`, the refinement of `EchoService`; it may end, after a reset or where `epoll_ctl` or `malloc` failed: `EndsOnlyIf` |
| `echo_time` | How early can a deadline fire? | `NotBeforeTime`: less than one second and one round of the loop early |
| `echo_live` | Is every connection accepted and ended, watched by epoll or not? | yes under fairness: `EveryConnectAccepted`, `EveryConnectionCloses` |
| `echo_answers` | Is input answered if no deadline interferes? | yes: `InputIsAnswered` |
| `echo_clock` | Is the shared clock set when the first deadlines are? | no, see Findings |
| `web_safety` | Can an event lead to memory that is freed or another connection's, when three clients share two descriptors and anything may fail? | no: `TypeOK`, `PointersValid` |
| `web_pages` | Whatever the reads make of the clients' requests: does each get its page, with the values submitted so far? Are connections that hang up closed? What stops the server? | yes: `PagesMatchRequests`, and under fairness `RequestIsAnswered`, `HangUpCloses`; only a form whose header is cut by a read, or a reset: `EndsOnlyIf` |
| `words_late` | What may threads that are late still count on? Does the pipeline do what its comment says if nobody is? | nothing put out is older than it should be, and no thread ends without an `exit`, or a mixture that looks like one: `NeverBehind`, `EndsOnExit`, `TypeOK`; if nobody is late, yes: `ServesWords`, `EndsIfPrompt` |
| `words_race` | Does it still end after `exit` if threads may be late? | no, see Findings |
| `logging`, parts `file`, `rolling`, `daily` | Are log files in order, and only the oldest events given up, through kills, failures and changes of settings? | yes: `ImplementsLogStore`, `BackupsInOrder`, `KeepsRecent`, `DaysInOrder`, `DayIsRight`, `KeepsDays` |
| `logging`, part `threads` | Can threads that log, configure, reopen and shut down deadlock, mix up events, or call a deleted appender? How many are in one appender? | no: `LockOrder`, `Serialized`, `SameOrder`, `NoneUsedAfterDelete` |
| `logging`, parts `configurator`, `buffer` | Is the log configured as the file says, however often and badly before? Is a trigger explained? | yes: `ConfiguredAsWritten`, `AppendersExist`, `FailsOnlyIf`, `TriggersExplained` |
| `logging`, parts `dictionary`, `startup` | Is the dictionary a map, and what is read what the file says? | yes: `SlotsSound`, `ImplementsMap`, `ConfigAsWritten` |
| `startup` | Does the program stop if its ini file cannot be loaded? | no, see Findings |

Every property has a mutant in `PROJECT.json`: a plausible bug in the code
(a dropped guard, a missing reset, interest that accumulates) that the run
detects.

### Bounds

Two clients and one or two descriptors give every way to compete for, close
and reuse a descriptor within a batch of events (two clients and the listener
are all of a batch of three). Two messages per client make a second answer
possible, and with it mixing up answers. `SndCap` of one or two lets a send
buffer fill. Periods of 2 s and 1 s in place of 30 s and 10 s keep their order,
which is all the code uses. `StartTime` is larger than any period, like the
seconds since 1970. `LastInput` stops the clients before the clock stops at
`MaxTime`, so that the last deadlines can pass; in `echo_live` clients act in the first
second and `MaxTime` is far enough for the deadlines of every connection, one
after the other. `MaxLag`
bounds a round of the loop; `echo_time` uses two ticks to the second and a lag
of two, so that rounding and lag show separately. `MaxEvents` is not a limit
in these runs: with three descriptors a batch is whole.

The clock-bound runs keep the deadlock check: a state without a step would be
a blocked `accept` or a lost wake-up. `echo_faults` and `echo_live` switch it
off because there the process may end.

`web_safety` has one more client than descriptors, so that `accept` fails and
every descriptor is reused; a batch holds both connections and the listener.
In `web_pages` two clients compete for one descriptor, each with four chunks:
the beginning of a form, the rest of it, a form with an empty name, and what may
be the rest of that; a read may take any number of them, so neighbours meet in
one read and apart. `words_late` has all scripts of up to three lines of two
kinds, ended by `exit` or by the end of input, up to four turns of main's loop, and
threads that come back before the next line or at any time after it.
The HTTP server and the pipeline may stop for good (no more requests; joined,
or out of input), so their runs do not check for deadlock; the liveness
properties say when they may not stop.

`logging` chooses one part in the initial state and leaves the variables of the
others at rest: the state spaces add up. It is about 1.45 million states. The
bounds are those at which the hazards happen: three backups of two events and
six events roll over twice and drop a backup, two kills leave a gap and meet it
again; `Radix = 3` makes the width of backup numbers change between 2 and 3, as
it does between 9 and 10; five half days hold two rolled days and one outdated
file; two threads, of which one changes the configuration, with two categories
and two appenders of one name, attached to either or both, owned or not, give
every meeting of logging up the hierarchy with deletion under it; a file of
three lines has a header and two assignments, or two headers and one, each cut
anywhere and with at most one shortage of each kind; the dictionary starts with one
slot, so that it grows twice, and keys share their hash. `Wrap` is large: see Not modelled. Three configurations
let an error be followed by a good one and by a shutdown. Five events fill a buffer of
two, lossy and not, and reach a second trigger.

`logging` and `startup` do not check for deadlock: events, calls and lines run
out. That threads do not block each other is what `LockOrder` says.

### Fairness

`FairSpec` assumes weak fairness of `Server`, the process as a whole, and of
`Clock`. The process is one thread: when some step of it is enabled it stays
enabled, and a scheduler that runs the process takes one. Nothing is assumed
of clients: they may fall silent for ever, stop taking answers, or abort.
`WebServer` has the same assumption without the clock: it has no deadlines.
`WordPipeline` assumes weak fairness of each of its three threads, which the
system's scheduler gives; one thread waits on each semaphore, so weak fairness
is enough. That main runs on includes that the user goes on typing to the end
of the script.

## 4. Findings

* **The first deadlines lie in 1970** (`echo_clock`). `commSetTimeout` adds to
  `sys_curtime`, which is 0 until the first `comm_select` ends; a client that
  is there when the server starts is closed in the second round without having
  been idle. `globals.h:64` offers the variable as the system time.
* **A late thread swallows `exit`** (`words_race`). Thread 1 looks into the
  shared buffer once more after it has handed over (`dome2.c:54`). If it is
  delayed there past main's `sleep(1)`, it finds `exit` before that was
  posted and ends; thread 2 waits for a post that never comes, main for
  thread 2. The comment says the program runs until the user enters `exit`.

* **Without its ini file the program goes on** (`startup`). `loadfile` returns
  -1 from a `bool` function (`iniconfig.cpp:21`), which is true; the branch of
  `main` that logs the failure and exits with -3 is dead, and ports that were
  never initialised are logged.

Not findings, since nothing promises otherwise, but worth knowing:

* a client that resets its connection can end either server (`EndsOnlyIf`).
  In the echo server `read` or `write` fails and the error branch prints
  through a bad `strerror` pointer (`main.c:137`, `:92`; `:155` passes an `int`
  for `%s`), and so does a refused `epoll_ctl` (`comm_epoll.c:90-93`); in both, a later `write` raises SIGPIPE, which nothing ignores;
* a `POST` whose header arrives in two reads ends the HTTP server
  (`EndsOnlyIf`, `SearchesNull`);
* its pages say `Connection: Close`, and it keeps the connection;
* at the end of its input `dome2.c` posts the last line for ever (`EndOfInput`);
* a configuration that names an appender it does not define may be accepted, and
  attach a deleted one that an earlier configuration had made
  (`AppendersExist` exempts `strays`); names such as `A` and `A-1` make a correct
  file fail (`FailsOnlyIf`, `Interleaved`);
* a buffering appender that is full and not lossy is dumped and not emptied, so its
  events come twice, and it grows past its size until the next trigger; a
  sink with a threshold gets none of its dumps (`TriggersExplained`);
* a rolling file whose `open` fails stays closed: no later event tries again
  (`OpenNext`);
* after `[]` in an ini file assignments belong to a section named like the first
  character of the one before (`SectionIn`);
* if memory runs out in the middle of an ini file, the lines there was memory for
  are used as if they were all: one line, key or value is missing, or the rest
  of the file (`ConfigAsWritten` says no more than that nothing else is);
* `reopenAll` and `closeAll` replace `_fd` while other threads write to it
  (`Serialized` says how many may meet, not that none do);
* a daily file that could not be deleted stays while later ones are deleted
  (`Purge`).

## 5. Proofs

Every safety property of a run that passes, and every refinement, is a theorem
for all values of the constants that the assumptions named in the modules
allow. A property is seldom inductive as it stands; what follows says for each
component which invariant is, and why it has to say more.

### The echo server

`EchoServer_proofs`: `TypeCorrect`, `NoneIsStranded` and `StatsAreOwned` follow
from one inductive invariant, `IInv`. That no handler is called with a freed
`ConnectStat` needs to know which handlers can be registered at all while a
descriptor is open (`Fits`), that the entry of a closed descriptor is blank (so
that what `accept` returns starts clean), that one connection is never behind
two descriptors or in the queue as well (`OnePlace`; else closing one would free
the other's memory), and that the listening socket's entry never changes
(`ListenerFits`). `HeapFits` ties the heap to the table. The argument has one
lemma for each way a step can change the tables (`QuietStep`, `InstallStep`,
`CloseStep`, `AcceptStep`, `ConnectStep`), one lemma per handler that reduces it
to these, and `CallStep` for whatever handler the table may hold; the loop's own
steps change no table.

`EchoReplies_proofs` builds on `IInv` and adds `CInv`, which has three parts:

* `Talk`: what the table and the epoll state say about where a conversation is
  (`Turn`), what was read and written so far (`History`), that the deadline in
  the table was set from a clock that lags at most a second and a round
  (`Deadline`), and that `epoll_fds` counts the registrations;
* `EventsOK`: each event still to be dispatched is about the connection that is
  behind its descriptor now (`Pends`), or its own read handler has just closed
  it (`HalfDone`), and no two are about one descriptor. This is what makes
  reused descriptors harmless: `accept` runs only for the listener's event, the
  descriptor it returns was closed before, and had no further event in the batch;
* `ClockOK`, about the three clocks.

From it follow `PictureIsRight` (`EpollInSync`), `EventsAreFresh`,
`RepliesAreAnswers` (`RepliesMatchReads`), `OnlyAbortsEndIt` (`EndsOnlyIf`) and
`DeadlinesAreKept` (`NotBeforeTime`). `EchoImplementsService` is the refinement
of `EchoService` under the mapping of `EchoServerMC`: `accept` is `Accept`, the
write of the welcome is `Greet`, a read is `Input`, a write of what was read is
`Respond`, a client's reset is `Abort` and `comm_close` is `Close`; every other
step, of the clocks, the wait and the tables, is a stutter.

### The HTTP server

`WebServer_proofs`: the invariant `IInv` is `TypeOK`, `TablesOK`, `EventsOK` and
`Talk`. `TablesOK` says that a descriptor that is registered points to the
`ConnectStat` of the connection behind it, which is in the heap; `EventsOK`, that
the rest of a batch still speaks the truth; `Talk`, that a `ConnectStat`
remembers the last name and age that were submitted in what was read
(`Remembers`), and that pages and requests alternate. It gives `TypeCorrect`,
`PointersStayValid` (`PointersValid`), `PagesAreAnswers` (`PagesMatchRequests`)
and `OnlyTheseEndIt` (`EndsOnlyIf`).

### The string pipeline

`WordPipeline_proofs`, for any words and any number of lines. `TypeCorrect`,
`NoneIsBehind` (`NeverBehind`) and `EndsOnlyOnExit` (`EndsOnExit`) hold for threads
as late as they like, and for mixtures of any kind. Their invariant `IInv` needs
three facts besides: main never touches the buffer again once `exit` is in it
(`MainAhead`), the buffer has what was last posted whenever main is not between
filling and posting it (`BufIsLast`), and a thread looks for `exit` only after it
has put something out (`LooksAfter`). Then `SeenFindable` says of whatever a thread
reads, also in the middle of a copy, that it could be found by a thread that was
posted that often (`Findable`), and `FindableStays` that it still could be later.

`Implements`: `Spec => ServesWords`, which speaks of the runs with `prompt`. The
invariant `InTurn` says where the one line in the buffer is in such a run, with
thread 1, with thread 2 or in the file, and that main fills the buffer only in the
last case; then `PostSem1`, `Count`, `Write` and the last `Join` are `Receive`,
`Count`, `Store` and `End`, and everything else stutters.

### Log files

`LogFiles_proofs`, for any file size, any backup counts, any radix:

* `BackupsAlwaysInOrder`: `RollingSpec => []BackupsInOrder`, whatever fails and
  whenever the process is killed. It is inductive once the invariant says that
  no file holds an event not yet logged, that a descriptor is the current
  file's, and that while `rollOver` runs there is none and its index is that of
  a backup in use: renaming neighbours keeps their order, whichever are missing;
* `RollingImplementsLogStore`: every step is a step of `LogStore` or a
  stutter. `WholeInv` is for this: as long as nothing failed, only backups in
  use hold events, and the next rename overwrites none unless it is of the last
  backup, so that what is removed is the oldest (`ForgetOldest`); after a failure
  anything is `Damage`;
* `RecentEventsKept`: `RollingSpec => KeepsRecent`, an action property. When the
  last backup is removed, enough younger events must be in the others. The
  invariant `RecentInv` counts: below a backup that holds events, the number of
  backups that are not full (`Short`) is at most the number of kills inside
  `rollOver` (`cuts`). The rest is counting in sets that are disjoint
  (`ManyEvents`);
* for daily files, `DaysAlwaysInOrder` and `DaysAreRight`. The invariant
  `DailyInv` follows the three days that matter through a call: that of the
  current file, the one `_append` read and the one the clock says, in this order
  (`ClockInv`); it says that files with a date are of earlier days than the clock
  and than the current file's time (`DatesInv`), that a file was last written to no
  earlier than the events in it, and is of no day before theirs (`StampsInv`), and, if nothing failed and
  nothing was killed, that all events of a file are of its day (`RightInv`);
* `RecentDaysKept` (`KeepsDays`), under the hypothesis that the days to keep, in
  seconds, do not wrap an unsigned int: the code multiplies in that width, and
  with 49711 days or more the promise is false.

### Threads

`LogThreads_proofs`, for any hierarchy, threads and appenders:

* `MutexesInOrder`: `ThreadsSpec => []LockOrder`. The invariant says which
  mutexes a thread holds at each place; those of categories are all below the
  one it is in or waits for. No circle of waiting threads is possible, for the
  depth of what is held falls along it;
* `AppendersSerialized`: a thread in an appender's `doAppend` holds the mutex of a
  category the appender is attached to, one in its `reopen` or `close` that of
  the registry, and no two threads hold one mutex. The two are different
  mutexes: that is why the theorem allows one more;
* `EventsInOrder` (`SameOrder`): two appenders have the events of one category in
  one order. `OrderInv` says that an event that is under way was the last to
  reach the appenders it has reached, of all events of its category: the category
  was locked by its thread ever since;
* `NoAppenderUsedAfterDelete` (`NoneUsedAfterDelete`), under the hypothesis that
  one thread at most changes the configuration (`Admins` has one member), reopens
  and closes included, which is how the program and its libraries are used. `DInv` says who owns an
  appender, that what is attached or registered is alive, and what a thread that
  shuts down has yet to come back to. The hypothesis is needed: with two such
  threads one may attach an appender of the registry between the moment the
  other, in `shutdown`, collects the appenders to delete and the moment it
  deletes them, and a third calls it.

### Configuration and buffer

`LogAppenders_proofs`:

* `PointersAreValid` (`AppendersExist`), `OnlyTheseFail` (`FailsOnlyIf`) and
  `ConfiguredIsWritten` (`ConfiguredAsWritten`), for any properties and any order
  of keys. `ConfInv` says how far a configuration has come: keys are taken in
  their order, and the appender in hand is the one whose definition came last
  (`KeysInv`); the configurator's map names appenders that were made for those
  names (`MadeInv`); each appender whose definition has been read was made by
  this configuration, as written, and is alive (`FreshInv`); the categories
  already visited are as the file says (`CategoriesInv`, `AsWritten`);
* `TriggersAreExplained` (`TriggersExplained`), for any filters, thresholds and
  changes of settings. `BufferInv` says that the queue is the end of what the
  appender was given since the last trigger (`Recent`), less what was lost while
  it was full and lossy (`Lost`). The filter chain is a recursive function, here
  over the positions of a chain, which the proof unfolds up to the filter that
  decides (`Stop`).

### Dictionary, ini file, startup

`Dictionary_proofs`, for any keys, hash function and sizes:

* `TableStaysSound`: `DictSpec => []SlotsSound`; with the type invariant it is
  inductive as it stands, and `EmptySlot` is shown to exist where it is used;
* `DictionaryImplementsMap`: `DictSpec => ImplementsMap`. The map is what
  `dictionary_get` would find for each key in use (`MapOf`). `SetIs` says what one
  `dictionary_set` does to it (`Effect`), by way of a lemma for each thing that
  can happen: a value is overwritten (`OverwriteIs`), the table grows, which
  changes nothing (`GrowIs`), a key is inserted (`InsertIs`) or lost (`LoseIs`).
  With `RemoveIs` and `GetIs` each call is the map's call of the same arguments, and
  its result the same;
* `ConfigIsAsWritten`: `StartSpec => []ConfigAsWritten`, for any ini file, cut in any
  way, and any shortages. `ReadInv` relates what the parser has in hand to the
  lines it has read: the buffer has what was read of the line that is coming
  (`LineInv`), the current section is one of the program's sections exactly when
  the last header names it (`SectionInv`), and the dictionary has for each field
  what the last line about it says (`ReadAs`). `LineRead` carries it over a line,
  whatever there was no memory for; `AboutMore`, `UnderStays` and `UnderLast` say what a
  line adds to what a file says, `KeyParts` and `ShortNames` that no other section
  and name make the key of a field.

### Assumptions, and what is out of reach

The assumptions are those named in the modules. They are about data: that a
descriptor number is a number, that the constants are of their types, that a
day has a length, that a configuration names its appenders by keys, that the
lines of a file are token sequences whose headers and assignments make sections,
keys and values the constants list (`IniAssumption`, `FieldsAssumption`). TLC
evaluates each of them in a run.

Induction over data is out of the provers' reach here. Where an argument needs
it (a least number, a last line, the size of a union of files), it is by a least
counterexample, from the facts about well-founded orders and finite sets in the
library.

Only model-checked: the liveness properties `EveryConnectAccepted`,
`EveryConnectionCloses`, `InputIsAnswered`, `RequestIsAnswered`, `HangUpCloses`
and `EndsIfPrompt`, for fairness and ENABLED are out of the prover's reach; and
the three violations of section 4.

## 6. Not modelled

* The servers and programs of `test` that are neither `epoll_framework`,
  `epoll_web_server1.c` nor `pthread/dome2.c`. What is worth a model there: the
  poll server zeroes the entry of a closed client and polls descriptor 0
  (`IO/POLL/server.c:117`) and reads from clients that are only writable (`:114`); the libevent servers search the newline
  in a buffer of which the end is old (`libevent/ser_cli/server.c:162`); the framing
  server loops for ever when a peer stops (`package_handle/echo_server.c:46`);
  two handshakes by polling a flag (`pthread/dome3.c`, `dome4.c`); a System V
  semaphore that a second process sets again (`msgQueue/dome3.c:75`); a pipe
  read by its writer (`pipe/dome3.c:31`). They are programs for one exercise
  each, and no other part depends on them.
* log4cpp: appenders for streams, syslog, mail, strings, Windows and Idsa make one call per
  event and keep nothing; layouts and `StringUtil` format; `NDC` is a stack
  of one thread; the factories and `SimpleConfigurator` are not used by the
  program. Static destructors at exit, which may meet threads that still log.
  `snprintf.c` and the thread layers for Windows, omniORB and Boost are not
  compiled on this platform.
* Events of the daily appender and `maxDaysToKeep` beyond 49710, where the
  unsigned product wraps: `Wrap` is in `FindOldest`, the run keeps fewer days.
  Other logs in the same directory, which `scandir` may take for its own.
* Shutdown handlers of log4cpp, `FileAppender::setMode`, an empty appender name
  (`PropertyConfiguratorImpl.cpp:111`) and the target of a console appender
  (`:220`), two errors that end a configuration where others modelled do.
* iniparser's output functions, `getdouble`, `getboolean` and section queries:
  the program does not call them.
* libevent, protobuf, `protoc`'s output and CMake's compiler tests: code from
  elsewhere or generated; the copies of headers under `third`.

The map in `PROJECT.json` names the lines behind each definition. It covers
about a twelfth of the lines under `git`, `src` and `third/include`: much of the rest is
comments and declarations, those headers twice over, and code of the kinds listed above.

## 7. Plan

Done: models of the echo framework, the HTTP server, the string pipeline, log
files, log threads, configuration, buffer, dictionary, ini files and startup;
theorems for every safety property that holds and for every refinement. Next,
in this order:

1. Further parts of `test`: the libevent servers as another implementation of
   `EchoService`, `pack_read` against a byte stream, the semaphore of `msgQueue`.
2. The other logs of a directory in `DailyRollingFileAppender`, and a registry of
   log4cpp from which a newer appender of the same name is lost
   (`Appender.cpp:67`): hazards that have no property.
