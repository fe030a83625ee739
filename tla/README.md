# A TLA+ model of the yamux multiplexer

The repository is a C implementation of the yamux protocol: many byte streams
share one connection, each with its own flow control. `mux.c` holds sessions and
streams, `bio.c` the byte buffers, and `tests/main.c` a program that opens
streams over TCP with several threads. This directory models that code, checks
it with TLC on small instances, and proves the central results with TLAPS for
every value of the constants.

## 1. The system

### Components

| Component | State | Operations | Lives in |
|---|---|---|---|
| stream | `state`, `send_window`, `recv_window`, `recv_buf`, the flags `readable` and `writeable` (which mirror the readiness of the public `fd`) | `stream_read`, `stream_write`, `send_window_update`, `stream_send_flags`, `stream_process_flags`, the four `stream_*_notify/waiting` functions | `mux.c` |
| session | `next_id`, the tree `streams`, `local_go_away`, `remote_go_away`, the accept socketpair | `session_open`, `session_accept`, `incoming_stream`, `notify_accept`, `session_go_away`, the frame handlers | `mux.c` |
| framing | `send_buf`, `recv_buf`, `hdr`, `new_frame`, `frame_remain` | `session_send_buf_*`, `session_recv_buf_write`, `session_process`, `session_handle_data`, `session_handle_ping` | `mux.c` |
| bio | a list of chunks, `offset`, `len` | `bio_write`, `bio_read`, `bio_consume`, `bio_peek`, `bio_reset`, `bio_pending` | `bio.c` |
| test program | one sending and one receiving thread per connection, one thread per stream | `send_loop`, `recv_loop`, `handle` | `tests/main.c` |
| event loop | a tree of events by fd with `flags` and callbacks, the kernel's interest list, `stop` | `event_add`, `event_delete`, `event_stop`, `event_process` | `event-epoll.c` |
| locks | three mutexes of a session and three of each stream | every function of `mux.h` | `mux.c`, `mux.h` |
| stubs | none | `stream_close`, `session_close`, `session_ping`, `session_exit` | `mux.c` |
| helpers | none | address resolution, connect, logging, red-black tree and lists | `misc.c`, `debug.c`, `tree.h`, `queue.h` |

### Interaction

Any number of application threads call `session_open`, `session_accept`,
`stream_read` and `stream_write`. They append frames to the session's `send_buf`
under the session's `send_lock`. One thread per connection moves bytes from
`send_buf` to the connection, and one more reads the connection into `recv_buf`
and calls `session_process`, which runs the frame handlers under the session's
`recv_lock`. Handlers change the stream under the stream's three locks
(`state_lock`, `send_lock`, `recv_lock`), and so do the application threads. A
stream that the peer opened is handed to `session_accept` by writing its id to a
socketpair. A thread that waits for data or for credit waits in `select` on the
stream's public fd; the handlers make that fd readable or writeable by writing a
byte to the other end of its socketpair, or by draining it. The event loop is a
library of its own for programs with one thread; the multiplexer does not call it.

### What is hard

* A call is not one critical section. `stream_write` reads the window, releases
  the lock, queues a header, queues the payload, takes the lock again and only
  then reduces the window. `stream_read` empties the buffer, releases the lock,
  and then clears `readable`. Whatever the receive thread does in between is a
  case no unit test reaches.
* Credit travels. At any moment a window's worth of it is spread over the
  sender's `send_window`, DATA frames on the way, the receiver's buffer, the
  receiver's `recv_window`, a WINDOW_UPDATE that is about to be queued and
  WINDOW_UPDATEs on the way back.
* All windows and ids are `uint32_t`, and three subtractions rely on invariants
  that no code tests.
* Frames are cut anywhere by the connection, also inside a header.
* Allocations, socketpairs and `select` can fail between any two sections.
* Up to four mutexes nest, and two kinds of wait (`select`, a full accept
  socketpair) need another thread to make progress.
* Callbacks of the event loop change the events of the batch that is being
  handled, while the kernel holds pointers to them.

`PROJECT.json` lists every hazard with its line and the properties that cover it.

### What makes each component correct

* stream: a sender never overruns the receiver's window; the receiver's buffer
  is bounded by one window; every accepted byte is delivered; calls that wait are
  woken; EOF comes after the last byte; a closed direction stays closed; the fd
  tells a poller the truth.
* session: an id names one stream; the assertions about the tree hold; an opened
  stream is accepted or refused, and only its own end's decision decides that.
* framing: what is queued as frames is read as the same frames.
* bio: a queue of bytes.
* event loop: the kernel watches what the program asked for and points to events
  that exist; what is reported is served.
* locks: nobody waits for ever, and no field is used by two threads at once.

## 2. Modules

| Module | What it is |
|---|---|
| `Stream` | one stream between two sessions: open, accept, read, write, windows, flags, readiness |
| `Session` | many streams: ids, the tree, the handshake frames, the accept queue, go away |
| `Handshake` | abstract: what opening a stream promises, seen from outside |
| `Wire` | frames to bytes and back: the send buffer, the connection, `session_process` |
| `Bio` | `bio.c`, one loop iteration per step |
| `ByteQueue` | abstract: the queue of bytes that `bio.h` describes |
| `EventLoop` | `event-epoll.c`: registration, the kernel's list, dispatch of a batch to callbacks |
| `LockOrder` | the mutexes, fields and waits on every path of the functions of `mux.c` |
| `MCStream`, `MCSession`, `MCWire` | values for the constants of the runs that a cfg cannot write |
| `SeqFacts` | facts about `Append`, `Tail`, `\o` that several proof modules use |
| `StreamProofs` | proofs about `Stream`: the flow-control ledger |
| `StreamLifeProofs` | proofs about `Stream`: types for any number of threads, reading, opening, closing, end of file |
| `SessionProofs`, `WireProofs`, `BioProofs`, `EventLoopProofs`, `LockOrderProofs` | theorems and proofs about the module of that name |

An action is one critical section of the C code (or one atomic operation, or one
socket call), so threads interleave exactly where the code lets them. Definitions
keep the names of the source. Definitions whose comment begins with "Mutant" are
faulty variants of the definition that follows them: they are not part of the
specification, and show that a property would notice that fault.

### Stream

The two ends are `"c"` (the client, which opens the stream) and `"s"`. `state`,
`send_window`, `recv_window`, `readable`, `writeable`, `frame_remain`,
`local_go_away` and `remote_go_away` are the fields of those names. Threads have
a position `pc`, named after the section that comes next:

* `stream_write`: `WriteCall`, `WriteCheck` (the switch on `state`),
  `WriteWindow` (the window is read into the local `val`), `WriteSelect`,
  `WriteSend` (flags, header and payload), `WriteReduce`, `WriteFill`
  (`stream_writeable_waiting`);
* `stream_read`: `ReadCall`, `ReadCheck`, `ReadPending`, `ReadSelect`, `ReadTake`,
  `ReadClear` (`stream_readable_waiting`), then `send_window_update`;
* `send_window_update`: `WindowUpdate` and `Announce`;
* `session_open`: `OpenCheck`, `OpenNew`, then `send_window_update` on the thread
  `"open"`; `session_accept`: `AcceptTake`, then `send_window_update` on the
  thread `"accept"`;
* the receive thread: `RxRefuse`, `RxMissing`, `RxProtocolError`,
  `RxWindowExceeded`, `RxData`, `RxChunk`, `RxNotify`, `RxWindowUpdate`,
  `RxWriteableNotify`, `RxGoAway`;
* an action whose name ends in `Fail` is the error path of the section before it.

Abstractions. The payload is its position in the stream: `out` counts the bytes
an end has put into DATA frames, `got` those appended to `recv_buf` and `taken`
those `stream_read` returned, so `bio_pending` is `got - taken`. A frame carries
an interval of positions, which is how double counting would be seen; its length
field is the difference. `granted` and `applied` count the credit an end has
added to its `recv_window` and `send_window`; no guard reads them. Frames travel
whole; `Wire` is about their bytes. Three pairs of sections are one step:

* `stream_send_flags` and the first half of `send_window_update`: the flags are
  not empty only before `session_open` or `session_accept` returns, when no other
  thread of the end has the stream, and otherwise the first section changes
  nothing;
* `stream_process_flags` and the window arithmetic in `RxWindowUpdate` and the
  window check in `RxData`: the frames this code sends have flags or a length,
  not both. Only a foreign peer's DATA with FIN has both, and for it the FIN is
  visible before the payload, as in the code;
* header and payload in `WriteSend`: what happens between the two is `Wire`'s
  subject.

`stream_close` is a stub in this repository, so an end that runs this code never
sends FIN. `Foreign` ends stand for other implementations of the protocol: they
behave like this code and may also close (`PeerClose`, or FIN on a last DATA
frame). The handlers for FIN and RST are `mux.c`'s own.

The callers. A thread calls `stream_read` or `stream_write` at any time, whatever
its fd polls and whatever its last call returned. A thread is either a reader or a
writer. `handle` in `tests/main.c` does both on one thread, so its calls are a
subset of what a reader and a writer do together, with one difference: while such
a thread waits for credit in `stream_write`, its stream is not read. Two such
programs that fill each other's windows wait for each other; `Delivered` and
`WriteReturns` are about programs that read on.

### Session

Threads `Openers` call `session_open` (`OpenCheck`, `OpenLoad`, `OpenCas`,
`OpenNew`, `OpenInit`, `OpenQueue`) and `Acceptors` call `session_accept` (`AcceptRead`,
`AcceptFind`, `AcceptQueue`). The receive thread creates streams in the sections
of `incoming_stream`: `RxSyn` looks the id up, `RxNew` inserts the stream, `RxInit`
initialises its mutexes (`stream_new` does so after the insertion),
`RxNotifyAccept` writes to the socketpair and blocks while it is full. The
assertions of `session_insert_stream` and `session_accept` are the position
`"abort"`. Ids have the width of `Word`, so running out of them happens within
the bounds. In a run that has `failure = "may"` one local operation fails, at any
step. Streams carry no data here and are not closed.

### Wire

Bytes are records that know which frame they belong to, so a receiver that takes
payload for a header (`rx = "desync"`) is seen at once; what it would do with the
garbage is not modelled, and nothing happens after that. `SendHeader` and
`SendPayload` are the two sections of `stream_write`; `SendPing` stands for every
frame that is only a header. `SendLoop` and `RecvLoop` are the loops of
`tests/main.c`, with every split into pieces; `send_loop` peeks and writes in one
step and consumes in the next (`SendLoopConsume`), and other threads may queue
frames in between.
`ProcessReturn` ... `HandlePing` are the branches of `session_process`,
`session_handle_data` and `session_handle_ping`.

### Bio

`buffers`, `offset` and `len` are `struct bio`; a chunk is the run of positions
it holds. Every iteration of a loop of `bio.c` is a step, which is where
`bio_write` can fail with some chunks already appended. `bio_peek` goes on over
the remaining chunks when it has all it wants, as in the code. `ByteQueue` sees an
operation when it returns.

### EventLoop

One thread runs the loop and, inside it, the callbacks. `event` is the tree: per
fd the number of its event, `flags` and `fns` that event's flags and the callbacks
that are set. `interest` and `ptr` are the kernel's side, changed by `epoll_ctl`
alone and by `Close`, which models that closing a file takes it off the list
without the loop's knowledge; `epoll_ctl` fails on an fd that is listed when it
should not be or the reverse, or for want of memory. `event_process` is
`EpollWait`, then `HandleEvent` for each entry in any order, `RecvReturn` and
`SendReturn` for the two callbacks. While the program is outside the loop or in
a callback it may call `event_add`, `event_delete`, `event_stop` and close fds. An
entry whose event was freed in the meantime leads to `pc = "undefined"`, where
nothing more is said: `handle_event` would read freed memory. An event's number
tells it from a later one for the same fd. `insync` is a history variable: the fds
whose last call returned 0 and that were not closed since.

### LockOrder

A function is a program of steps: `lock`, `unlock`, `use` of fields, `either` (a
branch or early return, whichever the data decides), and the waits `select`, `put`
and `take`. `Under(l, P)` is P between a lock and its unlock, so the nesting of
the C code can be read off the definitions. Threads run programs a step at a
time. The data that decides a branch is left out: every path is possible, which
can only add behaviours. `goto again` and the loops are cut after one round, at
places where the locks held are those held at their start. Fields that are
atomic, and those written only before the stream is published (`id`, `fd`,
`send_padding`), are not uses.

## 3. Runs

| Run | Shows |
|---|---|
| `stream_oneway` | Writes larger than the window, reads of several sizes: `InFlightFits`, the inductive invariant `FlowLedger`, `NoProtocolError`, and, under fairness, `Delivered` and `WriteReturns`. |
| `stream_lifecycle` | Go away at any moment of the handshake; the peer closes or resets, once or twice, before the stream is accepted or with unread data: `EofMeansDrained`, `OnlySecondCloseFails`, `NeverReopened`, `OpenAnswered`, `CloseSeen`. |
| `stream_failures` | Two writers with a non-blocking fd spend the same credit twice, and every error path is taken, any number of times: the receiver's check still keeps buffer and window within the maximum (`BufferFits`). |
| `session` | Two client threads and a server thread open streams until ids run out, with an accept queue of one: `NoAbort`, `NoDuplicate`, `OneOwner`, `ClientIdsAscend`, `ImplementsHandshake`, `OpenReturns`, `OffersAnswered`. |
| `wire` | Frames with and without payload, to known and unknown streams, in pieces of every size: `Aligned`, `InOrder`, `Conserved` (what a stream has got and what is on its way to it is what was written, each byte once), `AllArrives`. |
| `bio` | Every sequence of operations and sizes: `Contiguous`, `OffsetInside`, `LenExact`, the refinement `IsByteQueue`, `Returns`. |
| `event_loop` | Two fds, added, deleted, closed and reused from outside and from callbacks, with failing system calls: the kernel's pointers are live and its list is in step (`PointersLive`, `InStep`), reported directions get their callback (`Served`), `event_stop` works (`Stops`). |
| `lock_order` | A receiver and two users, one of which also accepts, on one stream: `NoDeadlock`, `NoDataRace`. |
| `lost_readiness`, `eof_before_data`, `torn_frames`, `missing_stream` | What the code does and its comments exclude; see section 6. |

Six more configurations belong to no run of `PROJECT.json`; start TLC with them as
with the others. `stream_lossy.cfg` (module `MCStream`) passes: one writer and one
reader, the reader with a non-blocking fd, every error path and a go away; credit
whose WINDOW_UPDATE could not be queued is lost, and `FlowLedger` still holds. The
five others find a violation and go with section 6: `lost_writeability.cfg`,
`unseen_eof.cfg` and `two_readers.cfg` (`MCStream`), `payload_failure.cfg`
(`MCWire`), `id_wrap.cfg` (`MCSession`).

### Bounds and why they are enough

* Windows of 2 or 4 with `Word` = 16: the threshold of half a window, a window
  that closes, and reads and writes smaller and larger than both occur. `Word` is
  larger than every sum the proofs allow, and a subtraction that goes below zero
  wraps to a visible number. The proofs remove this bound.
* `MaxBytes` up to 7 with a window of 4: the window closes, is reopened by
  credit and is used again; `MaxBytes` is the only bound on the number of calls.
  In `stream_failures` it is 2: each writer sends a window's worth, and both may.
  In `stream_lossy` it is twice the window, so that writing goes on with credit
  that came back, or does not come back because its WINDOW_UPDATE was lost.
* `Chunk` of 2: frames of one chunk, of several, and of a part of one.
* `MaxFin` of 2: a second FIN or RST after the first.
* `Word` of 6 in `Session`: client ids 1 and 3 are used and the third call finds
  them exhausted; `Backlog` of 1 lets the receive thread block. The server opens
  one stream in `session`, and as many as it takes to wrap in `id_wrap`.
* `HdrSize` of 2, up to three frames a sender: a header is cut in the middle and
  at its ends, and a payload spans several pieces.
* `Capacity` of 2 with sizes up to 5: calls that span three chunks.
* `MaxNew` of 2 with two fds: an event is freed and another allocated for the same
  fd while an entry of the batch still points to the first, and a batch holds both
  fds.
* One stream and three threads in `LockOrder`: a reader, a writer and the receive
  thread meet, every pair of functions runs against every other, and a circle of
  three is possible. No function holds mutexes of two streams. `Backlog` of 1
  lets the receiver block in `notify_accept` with the session's `recv_lock` held.

The two writers of `stream_failures` are symmetric; the other runs check liveness,
or have threads that differ.
`lock_order` checks deadlock; elsewhere it is not checked (`CHECK_DEADLOCK FALSE`)
because applications stop when
they have written `MaxBytes` or opened their streams; what must not stop is
stated as liveness.

### Fairness

`WF` on the steps of each thread inside a call, on the loop of the test program
that calls `stream_read` again and again, on the receive thread of each session, and on
the loops that move bytes. This is what a fair scheduler of POSIX threads gives,
and the code adds nothing to wait for except what the guards say (data, credit,
an id in the socketpair). Starting to write, opening, going away, closing and
failing are never fair: the application or the environment may or may not do
them. `EventLoop` assumes only that callbacks return and that the thread keeps
running; `epoll_wait` may block for ever. In `Session` the acceptor is fair as well: with an application that stops
accepting, the receive thread blocks in `notify_accept` by design.

## 4. Proofs

Everything below holds for every value of the constants that satisfies the
`ASSUME` of the module: any sizes of windows, words, chunks, headers and queues,
any number of threads, streams, ids, fds and calls. The bounds (`MaxBytes`,
`MaxFin`, ...) are arbitrary numbers in the proofs. Where a theorem has further
hypotheses, they say which use of the code it is about, and the table says why
they are needed.

| Theorem | States | Hypotheses, and why they are there |
|---|---|---|
| `StreamLifeProofs!TypeCorrect`, `BufferCorrect` | `TypeOK`, `BufferFits` | none: any number of readers and writers, all failures, foreign ends. With two writers `send_window` may wrap (`mux.c:638`); `TypeOK` says only that it is a `uint32_t` |
| `StreamLifeProofs!NeverReopenedCorrect` | `NeverReopened` | none |
| `StreamLifeProofs!ReadCorrect` | `ReadTookData` | one reader per end: two fail the assertion at `mux.c:558` (`two_readers.cfg`) |
| `StreamProofs!LedgerCorrect`, `InFlightCorrect` | `FlowLedger`, `InFlightFits` | `OneUserPerEnd` (one reader and one writer per end): two writers overrun the window, as `stream_failures` reaches |
| `StreamLifeProofs!NoErrorCorrect` | `NoProtocolError` | `OneUserPerEnd`, no failure, no foreign end |
| `StreamLifeProofs!SecondCloseCorrect` | `OnlySecondCloseFails` | `OneUserPerEnd`, no failure, at most one foreign end. A failure may end a session without any close; FINs from both ends need a `stream_close` that `mux.c` lacks |
| `StreamLifeProofs!EofCorrect` | `EofMeansDrained` | `OneUserPerEnd`; FIN in a frame of its own (`eof_before_data` is the other case); no reader on a foreign end, whose own close ends its reading |
| `SessionProofs!TypeCorrect` | `TypeOK` | none |
| `SessionProofs!CustodyCorrect`, `AbortFree`, `DuplicateFree`, `OwnerUnique`, `HandshakeRefined` | `Custody`, `NoAbort`, `NoDuplicate`, `OneOwner`, `ImplementsHandshake` | `[]NoWrap`: the server's ids have not wrapped to 0, which `session_open` does not prevent (`id_wrap.cfg`). `ClientOpens` proves the hypothesis where only the client opens streams |
| `SessionProofs!ClientIdsOnlyAscend` | `ClientIdsAscend` | none. It is about the client alone: a server's `next_id` does go back |
| `WireProofs!TypeCorrect` | `TypeOK` | none |
| `WireProofs!AlignedCorrect`, `InOrderCorrect`, `ConservedCorrect` | `Aligned`, `InOrder`, `Conserved` | `OneSender` and `MissingFits` (at most one byte for a stream the receiver lacks): `torn_frames` and `missing_stream` show what happens otherwise. The three properties begin with `~torn`: they claim nothing once a payload has failed behind its header (`mux.c:630`, `payload_failure.cfg`). Every other failure is included; `Conserved` ends as well when the receiver has given up |
| `BioProofs!TypeCorrect`, `LenCorrect`, `OffsetCorrect`, `Refinement` | `TypeOK`, `LenExact /\ Contiguous`, `OffsetInside`, `IsByteQueue` | none |
| `EventLoopProofs!TypeCorrect`, `PointersCorrect`, `InStepCorrect` | `TypeOK`, `PointersLive`, `InStep` | none |
| `LockOrderProofs!RaceFree` | `NoDataRace` | none |
| `LockOrderProofs!DeadlockFree` | `NoDeadlock` | one receive thread, as in `tests/main.c`: the session's `recv_lock` is held while `notify_accept` waits, and a second one would wait for it |

### The arguments

*Flow control* (`StreamProofs`). The inductive invariant is `TypeOK /\ FlowLedger`.
`InFlightFits` is not inductive: it says nothing of a writer that has sent and not
yet reduced its window, nor of credit on its way. `FlowLedger` keeps the whole
account: `SendLedger` (the send window is the maximum plus the credit applied less
the bytes sent, plus what a writer in between still has to take off), `RecvLedger`
(the receive window is the maximum plus the credit granted less the bytes got, and
credit granted never exceeds bytes read), `DataOrder` and `CreditOrder` (the frames
on the way carry disjoint ascending intervals between what the receiver has and
what the sender has sent, so each can be applied once). Then `out - got` is at most
`MAX + applied - got`, which is at most `MAX + granted - got`, the receive window:
a sender that runs this code never trips the receiver's check (`mux.c:782`).

*The receiver alone* (`StreamLifeProofs`, first part). `BufferFits` needs less:
`TypeInv` is the types, `RecvLedger`, and `RestFits`, that the rest of a frame
`session_handle_data` let in fits the window. It is inductive whatever the
senders do, which is why any number of threads is allowed.

*Opening and closing* (`StreamLifeProofs`). `Life` says by the position of
`session_open` where the SYN is (not queued, first in the queue, or taken), which
states each end may be in, and what the header that waits to be queued holds.
`NeverReopened` follows since only `session_open`'s own early states are ever
reset. `Clean` adds the frames with FIN and RST: while no end closed twice, a FIN
is the only closing frame of its queue and its receiver is in a state that takes
it; an end that has ended was closed by somebody, or its SYN was refused
(`TurnedDown`). With the ledger, which rules out that a window is exceeded, no
receive loop can end.

*End of file* (`StreamLifeProofs`). `Whole`: every byte that was sent and has not
arrived is in a frame under way, as long as the stream exists and its receive loop
runs. `Silence`: who has closed has no writer in a call, and no payload follows a
FIN. So when the FIN is taken nothing is missing (`Heard`), and nothing can come
any more; what is left is in the buffer, which `stream_read` tests together with
the state.

*Ids* (`SessionProofs`). `Custody` (in `Session`): an id that was handed out is
with the thread that opens it, in a SYN, with the receive thread, in the socketpair,
with the accepting thread, or in the answer, and nowhere twice; the states of the
stream on both ends tell which of these are possible. Each checked property alone
is silent about the ids on their way. The refinement maps each step to one of
`Handshake` or to a stutter by the same facts. `ClientIdsAscend` needs none of
this: the client's `next_id` is odd, so the greatest value it can have is the one
that the test for exhaustion finds, and a thread whose compare-and-swap succeeds
has tested the value that is there.

*Framing* (`WireProofs`). The invariant is about the trail: the bytes of the receive
buffer, the wire and the unsent part of the send buffer in one sequence. It is cut
into whole frames, ends where the sender goes on, and holds each stream's payload
in ascending order from where the stream stopped up to the last byte queued. The
loops leave the trail as it is, `session_process` takes from its front, the sender
adds at its end. `Intact` says this; the inductive invariant is the types,
`InOrder`, and `Intact` while nothing is torn and the receiver reads on.

*Locks* (`LockOrderProofs`). The mutexes have an order and each field a mutex. A
program is safe if every path through it takes mutexes in that order, uses fields
under their mutex, and waits with no mutex but the session's `recv_lock`. Rules for
sequence, branch and `Under` show this of each function of `mux.c` from those it
calls; the invariant is that every thread has a safe program left. In a set of
threads that wait for each other, the one that wants the highest mutex waits for
nobody.

*Event loop* (`EventLoopProofs`). The three properties together are inductive: that
`event_add` allocates only for an fd the kernel does not list, and that
`event_delete` frees only what the kernel forgot, follow from each other.

*Buffers* (`BioProofs`). The invariant adds to the checked properties what a running
call has done so far: the chunks are contiguous, and the caller's buffer holds
the positions from where the call started. Each step maps to a stutter until the
return, which maps to the operation of `ByteQueue`.

### Only model-checked

* All liveness: `Delivered`, `WriteReturns`, `OpenAnswered`, `CloseSeen`,
  `OpenReturns`, `OffersAnswered`, `AllArrives`, `Returns`, `Served`, `Stops`. Fairness
  and `ENABLED` are beyond the prover.
* The violations of section 6, which are single behaviours.

Every other property of a passing run is stated by a theorem.

## 5. Not modelled

* `event_loop_free`, and EPOLLHUP and EPOLLERR, which `handle_event` ignores: the
  kernel reports them unasked, so the loop spins on such an fd until it is
  deleted.
* `event_stop` from another thread: `stop` is a plain `bool`, and `epoll_wait` would
  not be woken.
* How the kernel accounts for socket buffers: the write of `send_padding` bytes
  under `send_lock` (`mux.c:159`) is taken not to block, and `stream_setup_fd`,
  which chooses the sizes, is left out.
* `stream_close`, `session_close`, `session_ping`, `session_exit`: stubs, and code
  under `#if 0`.
* Address resolution, connecting, logging; the vendored `tree.h` and `queue.h`,
  which appear as a set of ids and a sequence of chunks.
* Garbage on the connection, from a peer that does not follow the protocol.

## 6. Findings

In each of these TLC finds the stated property violated: 1, 5, 6 and 8 are runs of
`PROJECT.json`, the others are the further configurations of section 3.

1. `lost_readiness` (`mux.c:563`). `stream_read` empties the buffer, releases the
   lock, and then clears `readable`. A chunk that arrives in between is not
   announced, because `readable` is still set, and then the flag is cleared: the
   fd is not readable although there is data (`DataShows`).
2. `lost_writeability` (`mux.c:642`). The same gap in `stream_write`: credit that
   arrives between the lock section that empties the window and the one that fills
   the socketpair stays behind an unwriteable fd (`CreditShows`).
3. `unseen_eof` (`mux.c:563`). The read that drains the buffer after a FIN clears
   `readable`, so a program that polls is not told of the EOF (`CloseShows`).
4. `two_readers` (`mux.c:556`). Two threads that read one stream fail the assertion
   at `mux.c:558`, since the test for data is in an earlier lock section.
5. `eof_before_data` (`mux.c:768`). A FIN on the last DATA frame takes effect
   before its payload is appended: `stream_read` may return EOF first.
6. `torn_frames` (`mux.c:630`). Header and payload are queued in two sections of
   the session's `send_lock`: a second thread's header may come between them, and
   the peer loses the framing of the whole connection.
7. `payload_failure` (`mux.c:630`). One thread is enough when the allocation for
   the payload fails: the header stays queued without it, and the next header is
   taken for the payload.
8. `missing_stream` (`mux.c:837`). The payload of a frame for a stream that does
   not exist is counted as received before it has arrived.
9. `id_wrap` (`mux.c:1057`). A server's ids are even, so the test for `UINT32_MAX`
   never succeeds: after 2^31 streams they wrap to 0 and then to ids in use, and
   the assertion at `mux.c:88` fails.

Noted while modelling, without a run of their own:

* two threads that write one stream overrun the window, and the peer ends the
  session (`mux.c:601`; `stream_failures` reaches these states);
* the chunk loop announces data that a reader has already taken (`mux.c:826`), so
  an fd may be readable without data; readers cope;
* a callback that deletes its own event, or one later in the batch, makes
  `handle_event` use freed memory (`event-epoll.c:97`, `:101`), and a direction that
  was deleted may still get the callback of an entry already in the batch;
* `event_add` that fails in `epoll_ctl` leaves the flags set, so a retry asks for
  MOD and fails as well (`event-epoll.c:178`), until an `event_delete`, which fails
  too, has cleared the flags;
* with an accept queue that is full, a thread that is the only one to accept and
  waits in `stream_read` waits for the receive thread, which waits for it: the
  mutexes are not involved, and `NoDeadlock` says so.

## 7. Plan

Done: `Stream`, `Session` with its refinement of `Handshake`, `Wire`, `Bio` with its
refinement of `ByteQueue`, `EventLoop` and `LockOrder`, their runs, and a theorem
for every safety property and refinement that a passing run checks.

Next, in this order:

1. `Custody` after a wrap: what still holds when the server's ids start again at 0
   and no old stream is left (streams are never freed once accepted, so this takes
   a model of `stream_close` that the code does not have yet).
2. `SecondCloseCorrect` with failures: a session that ends then ends after a local
   failure or a second close.
3. `Stream` with a `Wire` between its ends, and writers on a half-closed stream
   (`mux.c:609`).
