# A verification project for audio_websockets

TLA+ models of the programs of this repository that have behaviour worth
checking, TLC configurations that check them on small instances, and TLAPS
proofs of what matters most for every instance. Source paths are relative to
the repository's `src/`; `PROJECT.json` maps every definition to its lines.

## 1. What the repository is

A collection of programs around internet radio: players that take an ICY stream
apart, HTTP servers that serve a page, clients that read "now playing" events,
and a few experiments. There is no protocol of its own between them: each
program is one process that talks to the network through the C library,
libcurl, OpenSSL, libuv or libwebsockets. Most files in the tree are vendored
(`node_modules`, `lyrics_finder/.venv`, `lib`, `env`, minified JavaScript).

| component | state it keeps | operations | what is hard | what makes it correct |
|---|---|---|---|---|
| ICY demultiplexer, `index.c`, `test3.c` | the global `indx`: bytes since the last metadata block, modulo 2^64 | `play_stream()` called by libcurl for each chunk, `jump()` | chunks end anywhere; negative places in a `size_t`; `int`/`size_t` conversions | `indx` is the true place; the length is read at the length byte |
| ICY player, `test2.c` | mpg123 and libao handles, `icy_metaint` | `play_stream()`, `play_stream2()`, `headerCallback()` | decoder errors, format changes in the middle | everything fed is played once |
| poll server, `web_server/mac/server_mac_poll.c` | `pollfds`, `numClients`, `htmlContent`, the timeout window | accept, answer and close, compaction, `update_sliding_window()`, SIGINT | removal while iterating; clients that reset at any time; a full array | no descriptor is lost or answered twice; complete answers; nobody starves |
| kqueue server, `web_server/server_mac.c`, `web_server/mac/server_mac_kquueue.c` | the kqueue, `clientSocket` | accept until EAGAIN, send page, close, register | partial non-blocking sends; use after close | whole pages; never waits for one client |
| thread server, `simple/server.c` | `clientSocket`, the descriptor table | accept, create thread; `handleClient()` | a race on `clientSocket`; reuse of descriptor numbers; a leak | a thread works on its client |
| pool server, `simple/server2.c` | `clientSockets[]`, a mutex | accept, `workerThread()` | slots shared by two kinds of threads | one worker per client |
| sequential servers, `web_server/server.c`, `web_server/win/server.c` | none between connections | accept, GET/POST, close | short reads | a form is echoed |
| searches, `simple/search_title.c`, `simple/ssl_read.c`, `SSE3_ok.c` | a bad-character table and indices | one loop each | shifts that are too long or not positive | first occurrence, or -1; an end |
| binary searches, `utils.h` | a range | one loop, three times, called by `test_main.c` | boundaries; unsorted arrays | in range, right |
| TLS metadata client, `simple/ssl_read.c` | one TLS connection, pointers into a buffer | request, `SSL_read`, parse, once a second | answers lag behind requests; answers in pieces; dangling pointers | what is shown is the latest answer |
| SSE clients, `SSE3.c`, `SSE3_ok.c`, `sse*.c`, `simple/ep.c`, `simple/http.c` | socket, SSL, poll set | connect, handshake, poll, read | poll against records TLS has buffered; errors half way through set-up | events are not stuck; set-up is undone |
| libuv client, `simple/uvv.c` | a line buffer | connect, read and close callbacks | lines cut by chunks | every line once |
| libwebsockets clients, `main.c`, `minimal-http-client/`, `sse_websockets.c` | `interrupted`, `status`, exit code | `callback_http()`, system notification | callbacks after completion, SIGINT | the exit code tells what happened |
| FANN experiments, `FANN/` | weights, FFT buffers | callbacks that train or run | numerical | - |
| lyrics finder (Python), JavaScript front ends | none | requests, scraping, DOM | I/O | - |

How they interact: each program is one process, and the programs meet only
through the outside world. The servers share their descriptor table with the
kernel and their connections with clients that connect, send, read, close and
reset at any time; the players share a byte stream with a server, cut into
chunks by libcurl; the searches are called on whatever the network delivered. So
a model puts one program beside a free environment. What is composed is what
meets inside one process: the set-up of `web_server/server.c` hands over to its
service and undoes itself when `accept()` fails (`MCFormServer`), and the two
demultiplexers look at one stream (`IcyPlayer` over `IcyJump`).

## 2. The modules

| module | models | role |
|---|---|---|
| `IcyJump` | `jump()` and `play_stream()` against stream and libcurl | specification |
| `IcyPlayer` | `play_stream2()` of `test2.c` on the same stream | extends `IcyJump` |
| `PollServer` | the event loop of `web_server/mac/server_mac_poll.c` | specification |
| `PollWindow` | the timeout that loop adapts | specification |
| `PollShutdown` | who frees its page: error exits, SIGINT, destructor | specification |
| `ThreadServer` | `main()` and the threads of `simple/server.c` | specification |
| `OneAtATime` | what a server promises that serves one client after the other | abstract specification |
| `KqueueServer` | the event loop of `web_server/server_mac.c`, the same in `mac/server_mac_kquueue.c` | implements `OneAtATime` |
| `FormServer` | the loop of `web_server/server.c`, the same in `win/server.c` | implements `OneAtATime` |
| `SetUp` | from the first line of `main()` to its loop and behind it, for 18 programs | specification |
| `TextSearch` | what a search promises | abstract specification |
| `TitleSearch` | `searchArtist()` | implements `TextSearch` |
| `SkipSearch`, `RestartSearch` | the two copies of `boyerMooreSearch()` | specifications, compared with `TextSearch` |
| `BinarySearch` | the loop of the three searches of `utils.h` | specification |
| `MetaClient` | the thread of `simple/ssl_read.c` and its server | specification |
| `EventClient` | the read loops of `http.c`, `sse.c`/`sse1.c`, `SSE3.c`, `SSE3_ok.c` | specification |
| `UvClient` | the callbacks of `simple/uvv.c` | specification |
| `LwsHttpClient`, `LwsWsClient` | `minimal-http-client.c`; `main.c` | specifications |
| `MCFormServer` | `SetUp` composed with `FormServer` | composition, and an instance |
| other `MC*` | instances for TLC | model checking |
| `PollServerProofs`, `ThreadServerProofs`, `KqueueServerProofs`, `FormServerProofs` | theorems of the server of that name; the first also of `PollWindow` and `PollShutdown` | TLAPS |
| `IcyProofs` | theorems of `IcyJump` and `IcyPlayer` | TLAPS |
| `SearchesProofs` | theorems of `TitleSearch`, `RestartSearch` and `BinarySearch` | TLAPS |
| `ClientsProofs` | theorems of the clients, as `MCClients` puts them together | TLAPS |
| `SetUpProofs` | theorems of `SetUp`, and of its composition `MCFormServer` | TLAPS |

`MCPollServer`, `MCSearches` and `MCClients` put modules side by side in one run
to share it, not to compose them: in a behaviour of `MCPollServer` and
`MCClients` one of them runs and the others keep an initial state; `MCSearches`
runs its searches one after the other on the same input.

An operator marked `(mutant)` is not part of a specification: it is a plausible
mistake in the definition behind it, kept to show that the property named in
`PROJECT.json` notices it.

### IcyJump and IcyPlayer

`at` is the true place in the stream, negative inside metadata; `size` and
`marks` are the chunk libcurl is filling. `PayloadByte` and `LengthByte` are
the server's next byte (a metadata block is taken as one length byte and a
distance to count up), `Deliver` is one call of `play_stream()`, which is one
call of `jump()`. `Wrap` is `size_t` arithmetic and `ToInt` the assignment
`int tmp = indx`. A length read from a place that holds no length byte, or
outside the chunk, is any value.

`jump()` follows one boundary per call, and only if the chunk goes past it.
`friendly` remembers whether that was true so far: the chunk held exactly one
length byte, or none and it ended neither right in front of one nor in
metadata. For those the model shows that `indx` is right (`InSync`), also when
it is negative and lives modulo 2^64, and that the boundary is seen exactly when
it is there and read from inside the chunk (`ReadsTheLength`). Chunks that are
not friendly are allowed, and taken, by the model; nothing is claimed after
one: with `CURL_MAX_WRITE_SIZE` = 16384 and boundaries every 16000 bytes they do
occur, and `jump()` loses its place. `interval` is ignored by the code, hence
METAINT.

`play_stream2()` counts every byte instead, so chunks do not matter to it
(`Play` is one round of its loop, taken as the byte arrives); its weak points are
that the length is a signed char made positive by `abs()`, and two ints that
are compared for equality after they have wrapped. `PlayerInSync` says that it
never misses a boundary while no length was above 128 (`small`); above, it does.

### PollServer, PollWindow, PollShutdown

`conn`, `peer`, `data`, `reply`, `unread` are a client's connection as the two
kernels see it; `fd`, `revents`, `numClients`, `i` are the code's. One pass is `Poll`,
then for each slot `Skip`, `Accept` (slot 0) or `WriteHead`, `WriteBody`,
`CloseClient`, then `EndPass`; clients take steps between any two of these, so
they can reset between the two writes, or after `poll()` and before `accept()`.
`CloseClient` moves the last slot into the free one behind the loop variable,
with its `revents`, as lines 161-168 do. `AcceptFails` is `log_message(ERROR)`,
which exits; `Sigint` may come anywhere; a write to a reset connection may kill
the process. A connection holds SOCKBUF writes that the client has not read
(`Drain`), and `Write` waits for room: the sockets are blocking, so a client that
does not read stops the whole server there (`HeldUp`). The head always finds room,
since a connection is answered once. The descriptor of a client is named by the client: SlotsAreOpen
says that this loses nothing, since no two slots hold the same descriptor.

`PollWindow` has time in ticks, SEC to the second, with `time()` cut to whole
seconds and the doubles of the code allowed to fall just under a whole number
(`Interval`). A pass either has something ready, and takes up to the timeout
plus some work, or times out, perhaps late. `passes` and `longest` are history of
the window. `PollServer` leaves time out, since its timeouts only make a pass
with nothing ready; `PollWindow` leaves out which client was ready.

`PollShutdown` follows `htmlContent` from `read_html_file()` to the end. `pc` is
a pair: who runs (main, main failing, the handler, the destructor) and its next
statement; `free()` and `htmlContent = NULL` are two steps, and SIGINT may come in
front of any. The handler prints, so it may also hang (`Stuck`). `FreedOnce` says
that the gap between the two statements is the only way to a double free,
`FreedAtExit` that no way out leaks.

### ThreadServer

`table` is the descriptor table, filled lowest first; `clientSocket` is main()'s
variable and `LoadSocket` the thread's read through the pointer. Every later
step of a thread acts on whoever its number refers to *by then*. `raced`
records that `clientSocket` was overwritten while a thread had yet to read it.
The safety properties hold without the race; the run `thread_server_race` shows
the race. The bytes written behind a buffer (line 40, and after a failed
`open()`) are undefined behaviour: no effect, or the end of the process.

### KqueueServer, FormServer, OneAtATime

A page is LINES lines after a header. In `KqueueServer` every piece has PIECE
units and a connection room for SOCKBUF units, which the client drains when it
wants; `SendPiece` takes what there is room for, and the code never looks at the
result. `AcceptFails` is `accept()` with an error, which ends the round: EAGAIN
when nobody is left, or another one with clients still queued. `Register` comes after `ClosePage`, so EV_ADD never succeeds and the
branch for client data is dead (`WaitsForNobody`), which is why it has no action.

`FormServer` is the blocking server: a connection holds SOCKBUF pieces and
`SendPiece` waits for room; one `recv()` takes what has arrived of the request
(`said`), nothing if the client is gone; `HandleForm` looks at the request when
the connection is closed. `buffer` remembers whose request it holds. `Printed`
is what may be printed of a request that was cut; a request that fills the
buffer, be it for the page or with a form (`asks`), lacks its NUL, and `strstr()` behind it is undefined: as if it were
there, or the end of the process. `HeldUp` is the state in which one client makes
all the others wait.

Both implement `OneAtATime`: `waiting`, `serving` and `served` are the clients
whose connections are queued, open and closed.

### SetUp

A program is a ladder: a sequence of library calls, each with what it uses, what
it yields, what it releases, and what its failure leads to (exit with an undo
list, go on unnoticed, leave out some calls, try the next address). `held`,
`broken` and `released` are things; `misused` records every use of something
that is not held, after which the call may fail, seem to succeed or crash.
`windows` and `debug` are the build's `#ifdef`s where they change the ladder
(without DEBUG, `server_mac.c` reports no error and goes on). `addresses` counts
down the addresses a name still has; a program that goes on is at one of them
(`TriesLeft`, part of the type invariant). `UsesWhatItHolds`
allows exactly the lapses the code has: what nobody looked at, and the programs
named in it. `UndoIsComplete` names the exits that leave nothing behind; the
others do leave something and are not claimed.

### The clients

`MetaClient`: the thread sends a request before its loop and one in each round,
and takes what one `SSL_read()` returns for an answer. The server answers in
order, in one record or several (`SendRecord`), or two answers in one
(`SendTwo`). `lag` counts requests whose answers have not been read. While every
answer is one record (`oneEach`) the client is one answer behind; after that the
parser works on pieces, and its searches run out of the buffer (`Read`, last
disjunct). `Parse` is what `read_response()` finds in the text of an answer: not
the values but, as in the code, pointers to them (`data`, `len`) into its local
array, and `Marked` is that array with the two NULs the code puts into it
(`Found` and `Array` are both for each song). It has two habits: the title loses
its last character, and an empty one loses the quote in front of it. `Return` is
the end of the call. The array is gone then (`buffer` is empty), `metadata` is left
with its pointers, and they dangle: the thread would print them at lines 133-134,
but that is commented out, and nothing else reads them. So `ArtistRight` is about
the time the array exists, and nothing is claimed of `metadata` while the thread
sleeps, sends or reads; what is shown (`shown`) is printed by `split_string()`
inside the call. No property is about the title. The search of the key is
`SkipSearch`, here a choice (`missed`).

`EventClient`: bytes of plain TCP, or TLS records that leave the kernel whole;
`pending` is what stays inside the library, where `poll()` does not see it. The
four programs differ in what they do at the end of the stream: SSE3.c goes on for
ever, since 0 is not -1. They differ in what they print, too: http.c, sse.c and
SSE3.c print what they read (SSE3.c with it whatever its array still holds up to
a zero byte, which is not counted); SSE3_ok.c reads once over TLS and does not
print that (line 398 is commented out), but what stands from "artist" on, if
`boyerMooreSearch()` finds it, and that search need not end (`ReadFirst`, `pc` =
"search"). Behind it, `recv()` takes ciphertext, printed up to its first zero byte.
So for SSE3_ok.c `taken` counts what has left the connection, and
`NothingLeftBehind` claims of it that it is taken and not that it is printed.

`UvClient`: each chunk is copied (`on_read`) and taken apart on its own, one
newline that `strchr()` finds after the other (`on_read_message`), until the rest
is freed (`on_read_done`); so a line that is cut loses its start. `on_write()` is
called with a request that was a local variable, hence `crashed`. Its comment says
"SSE messages are typically separated by double newlines" (line 23); the scan
below it ends a message at every single newline, so each line of an event, the
blank line behind it and each line of the HTTP header is a message.
`OneMessageForEachLine` states what the scan does, and does not hold of events as
the comment understands them.

`LwsHttpClient`, `LwsWsClient`: the library is the callbacks it may issue, in any
number per call of `lws_service()`; SIGINT may come anywhere, also between the
test of `interrupted` and the wait. `bad` and `rx_seen` become the exit code.

### The searches

One action per comparison or shift, with the code's variables. `TextSearch` is
what they should implement. `TitleSearch` does. `SkipSearch` finds only what is
there, but misses patterns. `RestartSearch` answers right whenever it answers,
but may run in front of the text (`Stray`; what it reads there is not modelled
further) or for ever: with text aab and pattern bab the index comes back to
where it was, so termination is not claimed of it. `BinarySearch` has the range
of its caller as input: `test_main.c` passes an upper end that has the NUL in
it, and the search is right all the same as long as it looks for no NUL.

## 3. Runs

| run | bounds | shows |
|---|---|---|
| `icy_jump` | METAINT 3, UNIT 2, lengths 0..3, chunks up to 5, `int` modulo 32, `size_t` modulo 64, char modulo 4 | `InSync`, `ReadsTheLength`, `PlayerInSync` |
| `poll_server` | 3 clients, 2 slots, backlog 2, room for 1 write; window: 3 ticks a second, 3 s, up to 12 passes, timeouts to 4 | `TypesOK`, `SlotsAreOpen`, `AnswerComplete`, `WindowGrowsByLongPassesOnly`, `FreedOnce`, `FreedAtExit` |
| `poll_server_live` | 2 clients, 2 slots, backlog 1, room for 1 write | `EventuallyClosed` |
| `thread_server` | 3 clients, 4 descriptors | `OwnsClient`, `AnsweredOnce`, `DescriptorsLeak`, `EventuallyAnswered` |
| `thread_server_race` | 2 clients, 3 descriptors | violates `HandlesTheClient` |
| `kqueue_server` | 3 clients, page of 2 lines, pieces of 2, buffer of 6 | `SmallPageSent`, `WaitsForNobody`, `EventuallyClosed`, `ServesOneAtATime` |
| `kqueue_server_short` | 2 clients, buffer of 3 | violates `ContentSent` |
| `searches` | texts to 5, patterns to 3 of 3 characters; strings to 4 of 4 values for the binary search | `RestartAnswersRight`, `FindsWhatIsThere`, `ImplementsSearch`, `Terminates` |
| `skip_search_miss` | the same texts, patterns from 1 | violates `NoMiss` |
| `set_up` | every program, up to 3 addresses; 2 clients, 1 line, buffer of 1 piece | `TypesOK`, `UsesWhatItHolds`, `UndoIsComplete`, `PrintsItsOwn`, `NoFormLost`, `OneClientAtATime`, `EventuallyAnswered` |
| `set_up_reuse` | every program, up to 3 addresses | violates `UsesNothingReleased` |
| `clients` | meta: 2 songs, answers of 2 records, 2 requests and 2 records in flight; events: buffer 2, records to 3, 5 units; libuv: 7 characters in chunks to 4; http: 6 options, 2 statuses; websocket: Enough 3, Burst 2, up to 6 messages | `TypesOK`, `OneBehind`, `ArtistRight`, `NeverStuck`, `EndsBehindTheLast`, `OneMessageForEachLine`, `ExitTellsStatus`, `MetaEventuallyShown`, `NothingLeftBehind`, `EndsWhenAsked`, `EndsInTheEnd` |

Why the bounds are enough for the interesting cases. In `icy_jump` a chunk can
hold no, one or two boundaries, end in front of a length byte, and end inside
metadata twice in a row; the counters of `play_stream2()` wrap, and lengths lie
on both sides of half a char. In `poll_server` there are more clients than
slots, so the array fills, rejects and compacts, with a moved client in front of
and behind the loop variable; a connection is full after the head, so that the
body waits for a client that does not read; the window can close with few and with many
passes, and the timeout can shrink to 0. In `thread_server` the table can fill,
and a number can be handed out again while an older thread still holds it. In
`kqueue_server` several clients wait behind one event; the page fits there and
does not in `kqueue_server_short`. In `set_up` the page is larger than the socket
buffer, and the second client finds the buffer of the first. In `clients` an
answer can be cut and two can be joined, both directions of the connection can
fill, a record can be larger than the buffer, a line can lie in three chunks,
and one call can deliver the messages before and behind the last one that
counts. The searches see every relation of a pattern of three characters to a
text.

`CHECK_DEADLOCK FALSE` is in every configuration in which the program may stop:
the servers exit, the searches return, the clients end. Clients connect once in
`ThreadServer`, `KqueueServer` and `FormServer`, over and over in `PollServer`.
Symmetry is used for clients in `poll_server`, which has no temporal property;
`thread_server` has one and takes only the behaviours in which the clients
connect in one order (`InOrder`), which loses nothing since they are alike.

Fairness is weak, but for one case, and of the program under test, for the
operating system schedules it: each thread of `ThreadServer`, the one thread of the other
servers, `main()` of the clients. None of it is assumed of the clients of a
server, which may stop at any time. Two clients need a little of their
environment: the metadata server answers what it is asked (`WF(Server)`), and
libwebsockets gives up a connection that does not come up, so that a wait for it
ends (`WF(pc = "waiting" /\ Service)`). The kqueue server needs one thing of its
kernel: `accept()` may fail although clients are queued, `kevent()` reports them
again, since a listening socket is level-triggered, and the loop tries again; if it
failed every time nobody would ever be served, so a try that could succeed again
and again does so once (`SF(Taking)`). The premises of the liveness properties say
where that is not enough: `EventuallyClosed` of `PollServer` excepts the case that
`accept()` waits for connections that are gone again and again (`[]<>Stalled`):
the listening socket is blocking, and then the server really waits; and the case
that `write()` waits for ever for a client that does not read (`<>[]HeldUp`);
`EventuallyAnswered` of `FormServer` excepts a client that holds the server up for
ever; `NothingLeftBehind` excepts records larger than the buffer, failed calls and
the search of SSE3_ok.c that does not end.

The four runs that expect a violation are findings; `PROJECT.json` quotes the
line each contradicts. More disagreements need no run, since they show at the
place itself:

* `eventsCount` of `server_mac_poll.c` counts every pass, quiet ones too, so
  line 181 never restores the initial interval;
* `server_mac.c` registers each client's socket (line 205) after closing it;
* `main.c` returns 1 when it has seen more than ten messages (118) and prints
  "Completed OK" for the same (116); with `-t` it stops at exactly ten (42);
* `on_read()` of `simple/uvv.c` prints a message for every single newline (28-36),
  while its comment says that messages are separated by double newlines (23);
* the parser of `ssl_read.c` drops the last character of every title (380);
* `minimal-http-client.c` says that `--long-poll` requires h2, and does not look
  whether it was asked for.

Some hazards are in the models and outside the properties, which are stated up
to them because the code is wrong from there on: a chunk that is not friendly
(`index.c:43`), a length above 128 (`test2.c:211`), what follows a set-up step that
failed unnoticed (`server_mac.c:136`), the second close behind the race of
`simple/server.c` (46), and the drift of the metadata client when answers come in
several records (`ssl_read.c:131`), which `NeverStuck` excludes.

Smaller things of the kind of the hazards that no property is about: the fixed
interval (`index.c:44`); a hang-up is POLLIN too and is answered
(`server_mac_poll.c:257`); the argument of the destructor, which nobody passes
(69); `kevent()` without a timeout (`server_mac.c:165`); a failed `open()`
(`simple/server.c:34`); the bounds of `split_string()` (`ssl_read.c:303`); ciphertext printed
by `recv()` (`SSE3_ok.c:449`); no `WSAStartup()` (`sse1.c:26`); a request on the
stack (`uvv.c:84`); options that undo each other by order
(`minimal-http-client.c:252`).

## 4. Theorems

TLAPS proves these for every value of the constants that satisfies the named
assumptions (positive sizes, distinct model values; for `IcyJump` and `IcyPlayer`
that a chunk and a metadata block are small against `int`, and `int` against
`size_t`; for `SetUp` that a name which resolves has an address). Every safety
invariant that a passing run checks is a theorem, and so are the refinements.
`JumpedRight`, `NeverMovesBack`, `TakesLengthsOnly` and `StaysInRange` are
theorems and so not repeated in a run.

### The servers

* `PollServerProofs`, the loop: `SlotsAreOpen`, `AnswerComplete`,
  `NeverMovesBack`, `TypeOK`. The invariant adds that while a client is being
  answered `i` is its slot and it is open, and how much of the answer it has at
  each `pc`. `SlotOf` is shown to be that slot, since no two slots are equal.
* The page: `FreedOnce`, `FreedAtExit`. The invariant says that outside
  `free_html_content()` a pointer to freed memory is left behind only by the call
  that SIGINT cut short, which happens once, and that whoever stands in front of
  the exit, main()'s own failure apart, has seen the page freed.
* The timeout: `WindowGrowsByLongPassesOnly`, `TypesOK`. The invariant counts:
  the time since the window began is at most the longest pass times the number
  of passes, plus the part of a second `time()` cuts off; the new timeout times
  the passes is at most that time, being a quotient rounded down.
* `ThreadServerProofs`: `OwnsClient`, `AnsweredOnce`, `DescriptorsLeak`,
  `TypeOK`. Under `~raced` the invariant says what `clientSocket` holds while a
  new thread has yet to read it, and that a thread that has not loaded its
  descriptor is the newest one.
* `KqueueServerProofs`: `WaitsForNobody`, `SmallPageSent`, `TypeOK`, and the
  refinement `ServesOneAtATime`. The invariant says that only `cur` is open, and
  that after k pieces its buffer holds at most PIECE * k units, so that the next
  piece finds room; with the former every step is one of `OneAtATime` or none.
* `FormServerProofs`: `PrintsItsOwn`, `NoFormLost`, `TypeOK`, and the refinement
  `OneClientAtATime`. The invariant says that only `cur` is open, and that from
  `recv()` to the form the buffer holds nothing or a request of `cur`.

### The set-up

`SetUpProofs`: `UsesWhatItHolds`, `UndoIsComplete`, `TypesOK`, and that the
composition keeps what `FormServer` promises. The argument has two layers. First,
each ladder by itself, entry by entry: a call uses only what earlier entries
get (`Acquires`), nothing uses or undoes what an earlier entry has dropped
(`Apart`), and the error exits named in `UndoIsComplete` undo all that can have
been got (`UndoneAt`). sse1.c fails the first, sse2.c and simple/ep.c the second:
these are the exceptions the property names. Then
the program that climbs: as long as nothing is broken, what the entries behind
should have got is held or released (`Provided`); what is held they have got
(`NotMore`); what is released they have dropped (`GivenBack`). The loops over
addresses make the last two delicate: in simple/ssl_read.c the socket of an
address that failed is released although no entry drops it, until `socket()` is
called again (`Again`); in sse1.c it stays held although the program is back in
front of `socket()`. That the way back crosses no release is a lemma about both
ladders. `SetUpSpec` implies `Spec` of `FormServer` and `Up!Spec`, so both sets of
theorems hold of it.

### The demultiplexers and the searches

* `IcyProofs`, `jump()`: `InSync`, `ReadsTheLength`, `JumpedRight` (the return
  value is the size of the block), `TypeOK`. The invariant adds how `start`,
  `size`, `at` and `marks` relate while a chunk is filling (where the last length
  byte was and how far the place has moved since), without which `InSync` says
  nothing about the chunk `jump()` gets. The conversions are lemmas about `Wrap`
  and `ToInt`.
* `play_stream2()`: `PlayerInSync`, `TakesLengthsOnly`, `PlayerTypeOK`. Each byte
  moves `at` and `bufferCount` together; at a length byte both sides of the
  equation turn at most once, since a block is less than a turn of `int`.
* `SearchesProofs`, `searchArtist()`: `TypeOK` and `ImplementsSearch`, the
  refinement: the table holds the last place of each character, so no occurrence
  lies between a mismatch and the place the pattern is shifted to.
* `boyerMooreSearch()` of SSE3_ok.c: `RestartAnswersRight`. Here an entry of the
  table is at most the distance of any place of its character, other than the
  last of the pattern, from the end (`Distances`); so the place where the next
  comparison begins, which may lie in front of the one before, is never behind
  the first occurrence (`NonePassed`).
* The binary search: `FindsWhatIsThere`, `StaysInRange`. The invariant says
  that whatever was given up does not hold x; the NUL is no exception to the
  order that matters, for it is at the end and is never looked for.

### The clients

`ClientsProofs` shows that a behaviour of `MCClients` is one of each client, and
then has one invariant for each.

* `MetaClient`: `OneBehind`, `NeverStuck`, `ArtistRight`. Requests, the answer the
  server is at and the answers in flight account for `lag` (`Accounted`); while
  every answer is one record (`oneEach`), `lag` is 1 when the thread sleeps or
  writes (`InStep`), which leaves no state in which both sides wait, and the songs
  in flight are in the order they were played in (`InOrder`). For `ArtistRight` the
  place of the title's NUL is shown to be behind that of the artist's or the same,
  wherever the search for the second colon ends. The theorem
  has a premise: no artist has a quote in the name. The model's text has one
  character for the quote and the parser ends the name at it, as the code does;
  with such a name the property fails, and the premise says so.
* `EventClient`: `EndsBehindTheLast`. Over plain TCP what was sent is either
  printed or still in the kernel, and the end of the stream is seen only when
  nothing is left there.
* `UvClient`: `OneMessageForEachLine`. The invariant is about the scan: as many
  messages as newlines before `message_start`, the i-th of them the end of the
  i-th line. Cardinalities of the sets of newlines carry the count, by
  induction over the place of the next newline.
* `LwsHttpClient`: `ExitTellsStatus`. The status comes with the connection, and
  `bad` is made of it when the connection ends, as each one does before `main()`
  returns.
* `TypesOK`: the types of all five.

### Only model-checked

Liveness under fairness and termination, which the prover does not do:
`EventuallyClosed`, `EventuallyAnswered`, `Terminates`, `MetaEventuallyShown`,
`NothingLeftBehind`, `EndsWhenAsked`, `EndsInTheEnd`. That each of the four findings
happens is a counterexample of TLC; there is nothing to prove of it. No
run asks for an invariant of `SkipSearch`, nor of `LwsWsClient` other than its types.

## 5. Not modelled

Per component, with reasons, in `PROJECT.json`. In short: the pool server of
`simple/server2.c` behind its set-up, for the file is a fragment whose slots are
never set up; `sse_websockets.c`, which does not compile; what is behind an
unconditional `return`, under `#if 0`, or called by nobody; the loops inside
libcurl (`sse2.c`, `simple/ep.c`); the decoding of `test2.c`, which hands what
mpg123 yields to libao; the FANN experiments, which are numerical; the lyrics
finder and the JavaScript front ends, which are requests, scraping and DOM.
Within the modelled programs: logging, the contents of pages and streams, and of
the options of the HTTP client those that change only its request.

## 6. Plan

In order:

1. `KqueueServer` against clients that connect again, as in `PollServer`.
2. The composition of `SetUp` with the other servers, as `MCFormServer` does for
   one; the lemmas of `SetUpProofs` are about all of them already.
3. What `SkipSearch` does promise: that an answer other than -1 is an occurrence.
4. `PollServer` beside `PollShutdown` in one behaviour: SIGINT then meets the page
   while it is being written.
