# A TLA+ model of nxdb

nxdb is a debugger for the Nintendo Switch in two programs. The *sysmodule*
(`src/sysmodule`) runs on the console: it draws an ImGui interface with no screen
of its own, debugs processes, and sends the pictures it draws over TCP. The
*client* (`src/client`) runs on a desktop: it shows those pictures in a window and
sends input and clipboard text back. The repository has no tests and no written
protocol, so everything here is translated from the source.

## 1. The system

| Component | State | Operations | Talks to |
|---|---|---|---|
| Client-to-sysmodule framing (`pe/Client.cpp`, `net/Server.cpp`) | client: bytes of a packet not yet handed to the socket. Server, per client: `mBuffer` (4 KB), `mBufferSize`, `mNextPacketSize`, `mNextPacketType` | `sendPacketImpl`, `handleEvent` | TCP; `handlePacket` |
| Server loop (`Server::run`) | `mClients`, a vector of `Client` values, `mLastAlive` | accept, read every client in turn, erase closed and silent ones | render thread, which iterates over the same vector |
| Picture stream (`ImGuiLoop.cpp`, `DrawDataPack.cpp`, `pe/DrawData.cpp`) | server: `sRerender`, `lastDrawDataHash`, `sPrevDrawListHashes`; client: `sDrawDataPrev` | `render`, `packImDrawData`, `iterateClients`, `unpackDrawData` | server thread (through `sRerender` and `mClients`), clients |
| Debugging session (`windows/DebuggingSession.cpp`) | debug handle, `mKillThread`, `mShouldContinue`, module table, mapped blocks | constructor, destructor, handler thread | kernel, memory map, windows |
| Memory map (`MemoryMapMgr.cpp`) | `mBlocks` | `mapBlocks`, `unmap`, `get` | session, kernel |
| Window components (`Component.cpp`, `windows/*`) | a deque of components with `mDelete` flags | register, update, delete | render thread only |
| Process list (`Process.cpp`) | a table of processes, refreshed every 361 frames | `getProcessList` | kernel, process manager |
| Client connection (`pe/Client.cpp`) | `mState`, `mBuffer` (1 MB), `mHasSentHello`, timers | `start`, `run` | TCP; window |
| Clipboard (`ImGuiLoop.cpp`, `pe/NetworkInput.cpp`) | `sCurClipboardString`, every desktop's clipboard, the hash last seen | set, get, poll | both |
| Window and input (`pe/NetworkInput.cpp`, `pe/Render.cpp`) | client: GLFW window, `sLastDisplaySize`; sysmodule: one `ImGuiIO` for all clients | callbacks, `updateNetworkInput`, `handlePacket` | render thread, which reads the same `ImGuiIO` |

Threads. The sysmodule has a *render thread* (frames, windows, constructor and
destructor of sessions, all sending), a *server thread* (accept, receive,
dispatch), and one *handler thread* per session. The client has one thread. The
sysmodule's threads share `mClients`, `sRerender`, ImGui's input state and the
session's flags with no lock at all; sockets block.

What is hard, and what makes each component correct:

* *Framing*: TCP cuts the stream anywhere, the buffer is finite, and one packet is
  dispatched per blocking `recv`. Correct: packets come out as they went in, a full
  buffer is never mistaken for a closed connection, nothing waits for ever.
* *Picture stream*: one delta for all clients, computed from static hashes, sent
  while clients come and go in another thread. Correct: nobody shows an outdated
  list; every request for a picture is answered.
* *Session*: the kernel stops the process at each event while two threads resume
  it, and the destructor takes the handle away from under one of them. Correct: the
  process is always resumed, the join returns, nothing aborts.
* *Server loop and client connection*: blocking reads in sequence, erasing while
  iterating, reconnecting with old state.
* *Windows*: deletion while iterating, and a list that refers to its session. Correct:
  what is closed disappears, and no frame crashes.
* *Process list*: ids are looked for and processes attached to one call at a time, rows are
  filled again in place. Correct: a row's name is its process's.
* *Window and input, clipboard*: one input state, display size and clipboard for any
  number of desktops. Correct: nothing stays held down, the picture settles at the right
  size, the text copied last is the one pasted.
* *Everything together*: all threads block in `send` and `recv`. Correct: they do not all
  wait for each other.

## 2. The modules

| Module | Models | Status |
|---|---|---|
| `PacketChannel` | abstract: a queue of packets with a sender that may hang up | done |
| `PacketStream` | the framing of one connection, both ends and TCP between them | done, refines `PacketChannel` |
| `PacketStreamProofs` | its theorems | done |
| `ClientVector` | abstract: the vector `mClients`, to which clients are added and from which single ones are taken | done |
| `DebugSession` | one debugging session: kernel, process, render thread, handler thread | done |
| `DebugSessionProofs` | its theorems, and those of `MemoryMap` | done |
| `DrawMirror` | the picture from `render()` to what each client shows, with the races between the sysmodule's threads | done, refines `ClientVector` |
| `DrawMirrorProofs` | its theorems | done |
| `DrawList` | display sizes, coordinates, textures and lost connections on the same way, for one client | done |
| `DrawListProofs` | its theorems | done |
| `ServerLoop` | `Server::run`: accepting, visiting, erasing from the vector it goes through | done, refines `ClientVector` |
| `ServerLoopProofs` | its theorems | done |
| `ClientLink` | one client's life, `Client::start` and `run`, with both threads of the sysmodule | done |
| `Traffic` | several clients and both threads of the sysmodule: who waits for whom | done, refines `ClientVector` |
| `TrafficProofs` | its theorems | done |
| `NetworkInput` | buttons, keys and clipboards of several desktops and the sysmodule | done |
| `NetworkInputProofs` | its theorems | done |
| `Components` | the windows (deque, deletion, sessions and their module lists) and the list of processes | done |
| `ComponentsProofs` | its theorems, and those of `ClientLink` | done |
| `MemoryMap` | `findModules`, `mapBlocks`, `get`, `unmap` over small address spaces | done |
| `MCPacketStream`, `MCDrawMirror`, `MCServerLoop` | small instances for TLC | |

The modules meet where the code's components do, but each keeps to what its own
questions need. Bytes of one connection are `PacketStream`'s; `ServerLoop` and
`ClientLink` start from its result and let connections carry whole packets. The vector
of clients is `ServerLoop`'s as the server thread sees it and `DrawMirror`'s as the
render thread sees it; `Traffic` has both threads again, with what blocks them and
without erasures. `ClientVector` is what these three have in common: `ServerLoop` shows
that its undefined erasures come down to taking one client out, and the other two let
the server thread do no more than that. `DrawMirror` has the threads of the picture stream and lists that are
just contents; `DrawList` has what is in a list, and one client. A process that changes
under the debugger is `DebugSession`'s; `MemoryMap` takes one that does not.

### PacketStream

A byte is its position in the stream. The client's `sendPacketImpl` starts a packet
at position `written` and `TransmitBytes` hands its bytes to the socket in pieces of
any size; `mBuffer` is the interval `consumed .. received-1`. `handleEvent` is two
steps, because `recv` blocks between them: `Parse` (lines 171-187, header, dispatch,
`memmove`, reset) and one of `RecvBytes`, `RecvFails`, `RecvZero` (lines 189-204).
A header read where no packet starts would be garbage (`GarbageHeaders`), so that a
wrong `memmove` or a stale header field shows. The client may end between any two
bytes, cleanly or with a reset. `StreamAssumption` says that every packet the client
can send fits in `mBuffer`: 8 + 20 bytes for the largest fixed payload, 8 + 512 for
clipboard text, 4096 for the buffer.

What `run()` does around `handleEvent` is here as far as this client meets it. After a
`recv` it may erase the client for its 15 seconds (`EraseIfLate`), whatever `mBuffer` and
the socket still hold, and without closing the connection; whether it is late is
`ClientLink`'s question, so here it may always be. `Served` is a client that run() still
goes through. Between two calls of `handleEvent` the thread may be in the `recv` of another
client for any time, and so nothing here makes it come back: `Parse` has no fairness.

### DebugSession

A step is one system call of one thread, or one event of the kernel. `renderPc` is
the line of the constructor or destructor the render thread has reached, `handlerPc`
that of `debugEventHandlerThreadFunc`; `tryContinueImpl` is shared by both threads and
has its own `core` and `gotBusy` per thread. The kernel stops the process at an event
and queues it; a continue succeeds once the queue is empty. The process may be stopped
by new events, exit at any time, or change its memory map while it runs. After a close
the same process may be attached to again. `ranWhenQueried` is history: the process was
running when its memory was queried last.

### DrawMirror

A draw list is its three buffers, of vertices, indices and commands, and a picture a
sequence of such lists. A hash is a sum over buffers, of a list's three
(`HashImDrawList`) or of all those of a picture (`CalcDrawDataHash`): what a sum forgets,
the order and which buffers belong together, the model forgets too, while two buffers of
one hash are left out. A frame is what `packImDrawData` produced: the picture as drawn and
as packed, where a packed list is either its content or `Unchanged` (three zeros). `frames`
keeps all of them, so that a packet is a number.

The steps of the render thread are cut at its accesses to what it shares: reading
`sRerender`, clearing it and packing, reading the bounds of the vector, and for every
packet the two calls of `sendPacketImpl`, which read `mFd` from the slot each. `SendHeader`
is the `write` of the header, `SendDrawData` the call of `send` with the payload, and
`DrawDataSent` its return, for which the connection needs room; the same three steps send
the font texture, and a last one sets the slot's flag. `receiver` is who got the header,
and then who gets the payload; a client for which these differ is `torn`: it has a header
without its payload, or the reverse, and takes what comes for `Garbage` from then on.

The server thread appends to (`Join`) and removes from (`Erase`) the same vector.
`iterateClients` holds raw pointers, and the model follows the memory they point to:
`memory` with the stale slots behind `size`, and `freed` if `push_back` moved the
vector; reading freed slots gives what they last held. `hello`, `first`, `latest`,
`gap`, `torn` and `raced` are history: nothing in the code reads them.

### DrawList

A list is its body and its right edge, which is the width the picture was laid out for:
ImGui clips every window to the display. `NewFrame` lays out, `TestRerender` compares
hashes, and `PackNext` packs one list at a time, because the server thread may write
`io.DisplaySize` (`HandlePacket`, `HandleOthers`) between any two. `PackPos` clamps and
`PackClip` wraps in its 12 bits, as lines 54 to 71 of `DrawDataPack.cpp` do; `UnpackList`
multiplies with the client's size and takes the texture id there is at that moment. A
connection may be lost, and the sysmodule restarted; `Connect` keeps what the client has
in static variables: the lists, the texture and the size it sent last. `first`, `latest`,
`missed`, `used` and `reused` are history. `Lists`, `Pictures`, `Packed`, `Shown` and
`DrawData` are the sets a list, a picture and a packet are taken from.

### ServerLoop

The vector is `memory` with `size` live slots; the range-for keeps `loopEnd`, so that
after an erasure it reaches slots behind `size` that still hold the bytes of the last
client. `Select` is the top of the loop, `Visit` the measuring of the time and the
dispatch in `handleEvent`, `RecvPackets`, `RecvZero` and `RecvFails` its blocking `recv`
with the test and the erasure after it. A packet is its number, and `StreamIntact` says
that what a slot has buffered and what is on its way continue where the last handled
packet ended. Erasing behind the end is undefined: the vector gets shorter by one, or
the server thread crashes. `next` and `torn` are history.

### ClientLink

`Round` is one turn of `Client::run` up to `recv`; what it sends (Hello, Alive, Mouse)
and whether 15 ms have passed decide `Writes`. A picture is two pieces, so that a
connection can end between them. `Restart` ends the sysmodule: the client sees the end
of the stream, or a reset. No handler for SIGPIPE is installed (`BrokenPipe`), so the
second write on a dead connection ends the client. A picture put together from the
pieces of two leads `astray`, and what the client does then is not modelled. Time passes
only while both ends wait: everything else is instantaneous, and `sinceAlive` and
`silence` count seconds. `cut`, `still`, `longest` and `behind` are history.

### Traffic

Every step that can block has a guard for it: `SendPacket` and `SendPicture` need room,
`RecvPictures` and `RecvPackets` something to receive. The server thread goes from one
client to the next (`Select`, `Visit`, `RecvPackets`), the render thread takes the vector
once per picture (`TestRerender`, `StartSending`, `SendPicture`); `sRerender` is tested,
cleared and set in steps of their own. Whoever waits, and for whom, is in the state:
`ServerWaitsFor`, `RenderWaitsFor`, `WaitsForPicture`, `WaitsForServer`. `ServerGoesOn`,
`RenderGoesOn` and `ClientGoesOn` are the conditions of the blocking calls, and a
`Standstill` is a state in which none of them holds. `asked` is history.

### NetworkInput

`PressOrRelease` is a GLFW callback: a mouse event is sent only while the cursor is over
the picture, a key event always. The sysmodule has one state of each input (`held`),
whoever sends. A text is the number of its copying. `PollClipboard` and `PollNoText` are
the two outcomes of the poll in `updateNetworkInput`: the text's hash is another one, and
it is sent if it fits 512 bytes; or there is no text, and `strlen(nullptr)` ends the
client. A text copied in the sysmodule goes to the clients and not to
`sCurClipboardString`. `copies`, `unreleased` and `ended` are history.

### Components

A frame is a sweep (`DeleteComponent`, `KeepComponent`: `handleDeadComponents` moves on
after an erasure too, and skips one component) and the updates of what is left. Opening
a session appends its module list and then the session, or the session alone if
attaching failed; closing queues both, the list through `mModuleList`, which is null
after a failed attach. Using a deleted object may crash. `calm` records that no window
was closed while deletions were pending.

`getProcessList` runs inside the update of the main window and takes one step per call of
the kernel: `ScanProcess` asks for one id, and puts it into `pids` if a process has it;
`AttachProcess` then fills one row. Processes start and exit between any two of these
steps, and so a process may have exited since the scan found it, and one that starts
behind the scan is `missed`. A row whose process cannot be attached keeps the name it had
(`refused`); a double click opens a session for the process of a row. A name is the id of
the process it belongs to; the program id goes the same way and has no variable. `refused`
and `missed` are history.

### MemoryMap

Addresses are pages. A layout is any division of the address space into areas of five
types, with no two free areas adjacent and the first one free; behind its end the kernel
reports one Reserved area that reaches to 2^64, where addresses wrap. `Shared` stands for
the three types `mapBlock` leaves out, and `Io` for all those it does not leave out
although `svcMapProcessMemory` refuses them (`IsRefused`): I/O registers, IPC buffers,
transfer memory. `found` is any
place `virtmemFindAslr` may return. `own` is what the sysmodule has mapped where, and
`reserved` what it has reserved; the reservations outlive the session, as in the code.

## 3. The runs

| Run | Question | Result |
|---|---|---|
| `packet_stream` | do packets survive any cut of the stream, is a full buffer ever a disconnection, how many complete packets can wait, is it a queue, is a waiting packet flushed by later ones | holds, the last as long as the server thread comes back to the client |
| `debug_session` | is an event ever forgotten, does the process resume and after how many steps, does join return, who can abort | holds |
| `debug_session_wait` | can `R_ABORT_UNLESS(rc)` after the wait fire | yes (finding) |
| `draw_mirror` | is anything outdated shown, when is a list blank, what is left unsent, texture before picture | holds |
| `draw_mirror_3` | can a client miss a frame, or get pieces of two, without a race with `erase` | no |
| `server_loop` | which connections can a stale slot damage, which client is erased, does everybody else get every packet once | only the last one; the visited one as long as a pass has erased once; yes |
| `components` | what crashes a frame, does a closed window disappear and does every frame bring it nearer to that, whose name is in a row | a close while a deletion is pending, or of a failed attach; yes, as long as frames are drawn; see below |
| `client_link` | when is a picture put together wrongly, whom do the 15 seconds drop, does the client come back, is input sent | only after a reconnection inside a picture; only clients whose Alive has arrived; it does or dies of SIGPIPE; as long as pictures arrive |
| `memory_map` | are all modules found, is every mapped page translated and nothing else, what is left mapped, when does mapping abort | see below |
| `draw_list` | when are coordinates, contents and textures right, whatever happens to sizes and connections | see below |
| `network_input` | when does something stay held down, is the text copied last pasted | see below |
| `traffic` | can all threads wait for each other, is a Hello ever lost in the flag or put off | only in one circle of two clients, or when there is nothing to send; no |

Bounds, and why they are enough:

* *packet_stream*: 2-byte headers and a 6-byte buffer keep the proportions that
  matter: the smallest packet fits twice in the buffer, so that one can wait behind
  another (`Lag` is 1), a header can be split, and the largest packet fills the buffer
  to the last byte. Four packets are enough for the buffer to wrap past a
  dispatch twice. `ClipSizes` contains one size the client must refuse.
* *debug_session*: two cores (the loop has a first, a middle-free and a last round),
  two events at attach (one read by `findName`, one dropped in `tryContinueImpl`),
  three raised later, two blocks. Attach, close and attach again repeat without bound.
* *draw_mirror*: two clients, two vertex buffers, two command buffers and one index
  buffer, up to two lists, two changes of the picture (it can grow, shrink, change, reorder
  its lists, and exchange a single buffer of two lists), one erasure. Every Hello asks for
  one more frame, so frames that change nothing occur too. With one erasure a header can go
  to one client and its payload to the other; the second erasure would leave nobody. About
  5.9 million states. `draw_mirror_3` takes three clients, since with two the shift of
  `erase` always lands on a client that was already served, and one of each buffer and one
  input, since it is about frames and not lists.
* *server_loop*: three clients (two of them can be erased in one pass, and one is
  left to be hit), two buffered packets and one on its way, packet numbers modulo 3
  (what is buffered and on its way cannot be confused with a later round of numbers), a
  timeout of 0, so that a client that was silent for one tick is late.
* *components*: two sessions: two pairs of list and session, and a session alone, are all
  the neighbours a deletion can have (the proofs hold for any number); a session may be
  opened again without bound. Three ids, the first of a process that runs from the start
  and cannot be attached: rows move up when the second exits, the third comes into the row
  of another, and both can start behind the scan or exit between the scan and the attach.
* *client_link*: every connection holds three pieces or packets, all that one round of
  the client can send; the server's `mBuffer` holds two, so that an Alive can lie behind
  a Mouse. An Alive is due after more than 2 ticks and the timeout passes after more than
  4, so that two pauses, each shorter than `Timeout - AlivePeriod`, make more than the
  timeout if nothing is dispatched in between (with an `AlivePeriod` of 0 that cannot
  happen). Restarts and moves are not bounded.
* *memory_map*: seven pages, and layouts that end at the expected top or before it (all
  of them, 5 area types, up to seven areas); nine pages of the sysmodule, which fit one
  session's blocks and not always those of a second.
* *draw_list*: two lists (one may be sent and the other not), two sizes and `PosBound` 7,
  which 3 does not divide, so that packing truncates and a clip rectangle of 5 laid out
  for 3 wraps; one change, two resizes (away and back: a size comes into use again), one
  connection lost or restart. Two packets fit the socket: the first picture and the font
  texture.
* *network_input*: two desktops, so that texts overtake each other; two copies, three
  events (press, leave, release), two packets on the way in each direction.
* *traffic*: two clients, the least with which there is a circle, and sockets and buffers
  of one packet, which block soonest. Nothing else is bounded.
* Buffers of a kind and clients are interchangeable and no property orders them, so the
  runs of `DrawMirror` and `ServerLoop`, which check no liveness, use symmetry.

The runs stop by themselves when the bounds are used up or the client has gone, so
deadlock is not checked.

Fairness. `packet_stream`: the kernel moves bytes, and a `recv` that has something to
return returns; the user need not act. That the server thread comes back from the other
clients is no fairness of this code, as it blocks in their `recv` (`traffic`): it is the
stated hypothesis of `LaterTrafficFlushes` (`ServerComesBack`). `debug_session`: both threads run; the user need not close the
window and the process need not stop or exit. `traffic`: the server thread, the render
thread and every client run, each with weak fairness, which a step that blocks does not
violate; nobody need start a client or change the picture. `components`: none. The render thread
draws frames only while a client is connected (`ImGuiLoop.cpp:221`), and may block for ever
in sending one; that frames go on is the stated hypothesis of `ClosedDisappears`
(`FramesGoOn`). `client_link`: the client and both threads of the
sysmodule run and time passes, each with weak fairness; strong fairness on rounds in
which 15 ms have passed since the last look at the input says that the client's rounds
are not all shorter for ever, which two clocks that run guarantee. Nothing is asked of
the user, of the picture or of restarts.

Findings. Closing a session closes its debug handle first and stops the thread that
waits on it afterwards (`DebuggingSession.cpp:44-50`): the wait fails and line 168
aborts the sysmodule (`debug_session_wait`). Two more things the code hardly means to do
are stated by properties that hold:

* The constructor resumes the process (`findName`) before it maps its memory
  (`mapBlocks`): a process that changes its map in between makes `MemoryMapMgr.cpp:76`
  abort. `AbortsAreExplained` says that this and the wait are the only ways for the
  threads and the process to run into each other: what was queried while the process was
  stopped is always still there when it is mapped, and nobody ever fights over one event.
* `Server::run` erases from the vector it iterates over (`Server.cpp:259`): the next
  client is skipped, a stale copy of the last one is served, and with a second erasure in
  the same pass the position erased is behind the vector's end, so that another client
  is dropped than the one visited. `ErasesTheVisited` says that the first erasure of a
  pass takes the right one.

What the picture stream does *not* promise, and the properties say exactly: a client
that joins late sees the lists that do not change as blank (`BlankIsExplained`), so
does everyone for lists that come back after the picture was shorter; and a client
erased while a picture is being sent can make another one miss it, or get the payload of
a packet whose header went elsewhere (`GapNeedsRace`), after which that one may show
outdated lists, or misread the stream for good. A picture that differs from the last one
only in where its buffers stand is not sent (`SkipsOnlyExchanges`): that is more than a
change in the order of the lists, since the hash of a list is a sum as well.

What the other runs say beyond a plain "holds":

* `DroppedWhileAlive`: the 15 seconds never find a client that is silent, since the
  server measures them before a `recv` that waits for that very client. Whoever is
  dropped has an Alive that arrived too late or lies unread behind another packet, and
  its connection is not even closed. `DropNeedsPauseOrBacklog` gives the cause: a pause
  of the pictures, for while the client waits for one it sends nothing, or a backlog: the
  server dispatches one packet and blocks, with an Alive unread behind it. That Alive may
  be dispatched by the time the client is erased; what counts is that time has passed
  over it (`behind`).
* `LaterTrafficFlushes` and `FramingIsAChannel` except a client that is erased for its 15
  seconds: complete packets in `mBuffer` and in the socket go with it, and the client is
  not told (`Abandon` of `PacketChannel`).
* `MovesAreSent` needs that pictures keep arriving: with an unchanging picture both ends
  wait, and what the user does is not sent.
* `MisreadIsExplained`: `start()` keeps the receive buffer, so a client that reconnects
  inside a picture misreads the stream for good.
* `GetIsExact`: besides mapped pages `get` translates holes of a block and the
  address right behind it. `LeftoverIsExplained`: of a block with a hole, what lies
  behind the hole stays mapped. `AbortIsExplained`: mapping aborts for processes whose
  address space does not end where `mapBlocks` expects it, for those with memory that the
  kernel refuses to map in any block but one at the very end, and for lack of room, which
  only reservations of earlier sessions can cause. It has two halves: nothing else makes it
  abort, and no session ever opens for a process of the first two kinds.
* `SettledIsExact`: coordinates laid out for one size, packed for another and unpacked
  with a third put themselves right, because a new size changes every list. A size that
  was in use before is the exception: its lists may be known, are sent as unchanged, and
  stay distorted until they change. That includes the first picture, which a client
  unpacks with ImGui's initial `DisplaySize` of -1.
* `StaleIsExplained`: `sDrawDataPrev` outlives a connection. A client that comes back
  shows outdated lists exactly where it missed one, until they change again. After a
  restart of the sysmodule nothing is unchanged, but the client does not send its size
  again, since `sLastDisplaySize` outlives the connection too.
* `TextureIsExplained`: lists of the first picture are drawn without the font texture
  until they change; no others ever are.
* `HeldIsExplained`: a button released outside of the picture stays down for everybody,
  and so does what was held by a client that ended.
* `LastCopyWins`: a text copied in the sysmodule can be pasted there only once a client
  has polled it and sent it back, and it wins in the end over what was copied before.
* `NameIsExplained`: a row with a wrong name is that of a process that could not be
  attached, because it is being debugged or has exited since the scan, and the name is an
  older process's, as rows only move up. The one exception is a process that started
  behind the scan (`missed`): the next list has it in front of younger ones, which move
  down, and it may get the name of one of those.
* `StandstillIsExplained`: in a standstill there is no picture to send, and the server
  thread waits for a silent client while others wait for the server; or the server thread
  waits for client a, a waits for a picture, the render thread has no room for client b's,
  and b waits for the server thread to read what it sent. There is no third kind.
  `HelloAnswered` is about everything else, and `AnswerCountsDown` says how: each step of
  the render thread brings an answer nearer, and no client that comes later is served
  before. That the circle is for good needs other clients to be worth saying, and is
  proved for any number of them (`CirclesLast`).
* `StopCountsDown`: while the process stays stopped, every step of any thread makes
  `StopLeft` smaller, new events included. `ResumedEventually` says that it resumes; this
  says that no loop of the two threads can put that off, and bounds the wait.
* `ClosedCountsDown`: `handleDeadComponents` skips the component behind each one it
  deletes. What it skips has moved up by that, and so every step of a frame brings each
  closed window nearer to its deletion: by its place in the deque, then by what is left
  of the frame.

## 4. The proofs

All theorems hold for every value of the constants that satisfies the assumption of
the module (`StreamAssumption`, `SessionAssumption`, `MirrorAssumption`, `LoopAssumption`,
`DrawListAssumption` and `DistinctAssumption`, `InputAssumption`, `ComponentsAssumption`,
`TrafficAssumption`, `LinkAssumption`, `MapAssumption`). `LinkAssumption` asks for room
for one round of the client in the socket and for two packets in `mBuffer`, and that the
timeout is not shorter than the period of the Alives; `MapAssumption` that the process
ends below the address where addresses wrap, and that the sysmodule has no more pages
than there are. Some properties are small enough in what they say, or near enough to
another, that the runs leave them to the proofs: the type invariants of all ten modules,
`WholeBeforeHandled`, `ThreadEndsFirst`, `OnePlaceEach`, `DequeOK`, `JoinCountsDown`,
`FlushGoesOn`, `FlushCountsDown`, `AnswerGoesOn`, `CircleLasts`, and `VectorIsKept` of
three modules. TLC agreed with each
of them on the instance of its module's run before it was proved.

Two proof modules have two parts, about two modules without a name in common: `Components`
and `ClientLink`, `DebugSession` and `MemoryMap`. Neither part uses the other. Every
inductive invariant below was checked by TLC on the run's instance before it was proved.

* `PacketStreamProofs`. The inductive invariant `IInv` says that the packets tile the
  stream: each starts where the one before ends, the last ends at
  `written + sizeLeft`, `handled` is a prefix of `sent`, and `consumed` is the start of
  the next packet. From it follow: a header is always read at a packet's start, so it
  is never garbage; a full buffer contains a complete packet (this is where the size
  assumption is used), so that `Parse` makes room before every `recv`
  (`NeverDropsALiveClient`); dispatch needs the last byte (`HandledWhole`); every step
  is a step of `PacketChannel` or a stutter (`FramingImplementsChannel`); and by
  arithmetic on packet sizes at most `Lag` complete packets wait (`BacklogIsBounded`).
  `LaterTrafficCountsDown` is the safety part of `LaterTrafficFlushes`: once `Lag` packets
  were written behind one that waits, and until that one is handled, the connection reset
  or the client erased for its 15 seconds, `recv` has something to read and room for it
  whenever the server thread comes to this client, the connection is not closed
  (`FlushGoesOn`), and each step of the thread brings the packet nearer
  (`FlushCountsDown`). It rests on `BacklogIsBounded`, for what is in `mBuffer`, and on
  `DroppedEmpty`: a connection is dropped only when nothing is left to read.
* `DebugSessionProofs`. `StoppedIsAttended` is not inductive alone: one needs that an
  event the kernel has announced to a thread (`gotBusy`, or the first event at attach)
  stays queued until that thread takes it (`EventsKept`), that a thread which has
  resumed the process on its last core leaves no event behind (`LastCoreResumes`), and
  who holds the handle open (`HandleOpen`). Three more theorems come from the same
  invariant; `EveryAbortExplained` also needs that a process queried while it was stopped
  is stopped or has exited until what was found is mapped.

  `StopsCountDown` and `JoinsCountDown` are the safety parts of `ResumedEventually` and
  `JoinReturns`: a natural number, at most `2 * MaxBlocks + 16 + 2 * queue` for a stopped
  process and at most 4 for the join, gets smaller with every step there is. Besides the
  invariant they need the order in which the destructor takes things away (`KillOrder`):
  while it joins, the handle is closed and `mKillThread` is set, so that the handler thread
  does not go round again.
* `DebugSessionProofs`, about `MemoryMap`, for layouts of any length. The walk is at the
  start of an area (`Walking`), has found the modules it has passed (`ModulesPassed`) and
  has collected areas that follow each other from behind a free one (`Collected`). Every
  block is such a run between two free areas and is mapped where at least one page around
  it is not (`BlocksStand`): so blocks are apart in both address spaces, and `get` meets a
  second block for an address only at the end of the first. What lies before the walk is
  in a block (`NoneLeftOut`). While blocks are unmapped, what is mapped is what `unmap`
  leaves or is still in a block, and no less (`OnlyKept`, `AllKept`): from these four come
  `AllModulesFound`, `TranslationIsExact` and `LeftoverIsAlwaysExplained`, the last over
  any number of sessions.

  `AbortNeedsLackOfRoom` is `AbortIsExplained` under a condition on the sizes, `HasRoom`:
  the run's nine pages are enough for every layout of seven, but with few pages the first
  session aborts too, as two small blocks can be placed so that a third does not fit. Of
  2n + 1 windows that would hold a block and its guards, n blocks leave one free: each
  window they spoil contains the first or the last page of one of them, and they have 2n
  of these (`OneWindowIsFree`, by injection into a finite set). The rest is that in the
  first session nothing else is in the way (`FirstMapping`). The theorem's other half needs
  no condition: the walk collects every refused area that a free one follows, and cannot
  get past the block it is in.
* `DrawMirrorProofs`. One inductive invariant, `WholeInv`, in three parts. `IInv` is for
  what is shown. `NeverStale` compares a client with the picture drawn, while the code
  compares hashes with hashes. The link is `FramesFollow`: a list is packed as `Unchanged`
  only if the frame *before* had the same content at that position, or was too short to
  have it; and `HashesOfLastFrame`, which keeps that true for the next frame. A client
  without a gap that is not torn unpacks a frame onto the one before it.
  `BlankIsExplained` then needs that a client's first frame is not behind its latest
  (`FirstIsFirst`) and that a blank list stays explained when one more frame is unpacked
  (`ReceiveKeepsBlank`). That a list's hash tells its content, although it is a sum, is
  because the bytes of one kind of buffer are not those of another (`PartBuffer`).

  `HashInv` is for what is left unsent: `lastDrawDataHash` says how often each buffer is in
  the last picture (`HashOfLastPicture`), so that two pictures with one hash have as many
  lists, and counting each part by itself gives its permutation (`SkipsAreExchanges`).

  `DeliveryInv` is for what each client will have been sent (`GapsNeedRaces`).
  `NoFrameLeftOut`: between two frames that a client has unpacked or has on their way there
  is none it will not get. To keep that, a loop that sends a frame to a client must find
  that it was sent the one before: `ListedUpToDate` says that between two rounds every
  client in the vector has the newest frame, and that during one a client that has it not
  is in a slot the loop still gets to. `ReceiverKept` says that the slot still has the
  client whom the header went to, so that the payload follows it and nobody is torn. All
  this holds as long as nothing is erased under the loop (`raced`), for which
  `LoopInBounds` and `NewcomersUnlisted` say what `push_back` may do to it.
  `FontsNeedWindows` comes from the same invariant with `FontBehindPicture`.
  `PictureKeepsVector` refines `ClientVector`; `NewcomersUnlisted` says that who joins is
  not in the vector.
* `ServerLoopProofs`. The inductive invariant follows the slots: live slots and backlog
  hold distinct connections, and behind the end there are as many stale slots as clients
  have been erased in this pass; if it is one, it is a copy of the slot that is now the
  last. Hence no connection is listed twice (`NoDescriptorTwice`), only the last client
  is served through a stale slot (`OnlyLastIsTorn`), and as the position erased is then
  the visited slot or the last, the visited client is the one that goes
  (`VisitedIsErasedAtFirst`). `StreamsStayIntact` adds `StreamInv`: for live slots and for
  the backlog, what is buffered and on its way are the numbers from the one expected next
  to the one sent last, modulo `SeqMod`. A stale slot that reads takes packets from the
  connection of the last client, which is then `torn`; every other client's part of the
  state is left alone, because a slot that moves takes its buffer with it.

  `LoopKeepsVector` is the refinement of `ClientVector`: each erasure, the ones behind the
  vector's end included, is `Take` of one position (`EraseIsTake`; the last position, if
  the one erased is stale), and what the loop writes to slots leaves their clients alone.
  It is what `Erase` of `DrawMirror` takes from the server thread.
* `DrawListProofs`. What the client will show depends on the packets that are on their
  way: `HasThen(i, k, v)` says that after the first k of them position i holds v, or has
  missed a list. `PicturesAgree` says that with every picture on its way the client gets
  to that picture, `HashesAgree` that the hashes the sysmodule keeps are those of the
  lists the client will then have, `WrittenIsDrawn` that what is packed so far is of the
  picture that is drawn. Every step of the sysmodule looks at the end of the queue and
  every step of the client at its head, so that neither is provable without the others.
  `TextureFollows` is the same for the texture: it comes right behind the first picture.

  `SettledIsAlwaysExact` is about sizes. Where a list laid out for a size is drawn, on its
  way, or remembered by its hash, that size has been in use (`SeenAreUsed`). So a size that
  comes into use for the first time finds no such list, and none is made before the
  sysmodule has heard of it (`SentAreUnseen`); from then on, and as long as both ends keep
  it, every list laid out for it is packed and unpacked for it too (`ExactSinceUsed`).
  `HashesOfLast` makes a list whose hash is known one that the client has.
* `NetworkInputProofs`. A press on its way that is no longer backed by a finger is
  followed by its release (`PressesAreFollowed`), hence what is held is held by somebody
  or about to be released (`HeldIsBacked`); when nothing is on its way that leaves
  `HeldIsExplained`. `LastCopyAlwaysWins` follows the text that was copied last: it has
  come to every desktop it is meant for or is on its way to it (`NewestArrives`), nothing
  comes behind it (`NewestComesLast`), a desktop that has found it sends it behind all the
  texts it replaces (`OutdatedAreFollowed`), so that whatever else can be pasted in the
  sysmodule will still be replaced (`PastedOrComing`). `Outdated` is what makes this
  provable: a text from elsewhere need not be replaced by one copied on a desktop.
* `ComponentsProofs`. As long as it is calm, a list is right in front of its session
  (`ListsAreFollowed`), both are queued together (`ListsGoFirst`), and a sweep that
  deletes lists skips the session behind each (`SweepSkipsSessions`), so that a session
  is deleted one sweep after its list, if no window is closed in between
  (`ClosedWithLists`). Without calm only `DequeOK` is left, which needs none of this.
  `ClosedOnesCountDown`, the safety part of `ClosedDisappears`, needs no more: a deletion in
  front of a component takes 1 from its place, also if the sweep skips it, and so nothing
  has to be known of its neighbours. A frame that passes over it (`PassedOver`) has deleted
  one in front or goes on to its update and the next sweep (`Stage`), and `LoopLeft` counts
  down in between, as the loops stay within the deque (`LoopInBounds`).

  `NamesAreExplained` is a count. A process is `Known` if it runs or the scan has found it,
  and it did not start behind the scan. The name in row r, if it is of a process that was
  not missed, is that of one with fewer than r older processes known (`RowsMoveUp`); it
  stays so, as processes exit, and those that start are the youngest. The ids found ascend
  and leave out no known process behind (`IdsInOrder`, `ScanOK`), so that the process that
  comes to stand in row r has r - 1 older ones; were it older than the name, r processes
  would be older than the name (`NotYounger`, by injection into a finite set).
* `ComponentsProofs`, about `ClientLink`. `LinkState` ties the connection's two ends
  together. `PicturesInOrder` says that, until a picture is cut off, what the client has
  and what is on its way are heads and rests in turn: hence `MisreadsAreExplained`.
  `TheDroppedAreAlive` and `DropsNeedPauseOrBacklog` come from `AliveInTime`, which
  compares the three clocks (`silence` of the server, `sinceAlive` of the client, `still`
  of the picture) while no Alive is on its way. The proof corrected the property: without
  `behind`, a client can be erased with no pause and an empty `mBuffer`, because the Alive
  that time passed over was dispatched just before the test; TLC finds that only if
  `AlivePeriod` is not 0.
* `TrafficProofs`. `HelloIsKept` needs that a client that asked is in the vector the
  next round will take (`AskedAreListed`).

  `StandstillsAreExplained` goes through who can wait for what (`EveryoneWaits`): if nobody
  goes on, the server thread waits for a client that sent nothing, the render thread has
  nothing to send or no room, and each client waits for a picture or for room. `WaitInv`
  closes the circle: who is waited for runs (`RunningAreKnown`, `KnownAreRunning`,
  `ReceiversAreListed`), and a client that lacks bytes of a picture always has room for
  them (`RoomToReceive`), as the server thread has for a packet. `CirclesLast` shows that
  no step of anybody changes what the four wait on. `TrafficKeepsVector` is the refinement
  of `ClientVector`: a client is accepted from the backlog, in which it is once and while
  it is not in the vector (`AcceptedOnce`).

  `AnswersCountDown` is the safety part of `HelloAnswered`, and says how long an answer can
  take: the receivers that are left of this round, and in the next one the clients that
  stand before. It needs `HelloIsKept`, for there being a next round, and that nobody is in
  the vector or among the receivers twice (`ListedOnce`), for places that only move up.

Only model-checked are the liveness properties (`LaterTrafficFlushes`,
`ResumedEventually`, `JoinReturns`, `HelloAnswered`, `ClosedDisappears`, `Reconnects`,
`MovesAreSent`): this prover does not reach fairness. Of the first five the safety part is
proved: what is waited for gets nearer with every step of the threads that work on it, and
nobody takes it further away. `Reconnects` and `MovesAreSent` have none like that: the
client turns around in `recv` until time has passed, and such a turn brings it no nearer.
Without a condition on the sizes `AbortIsExplained` is only model-checked as well, for the
run's nine pages: it is not true for all constants.

## 5. Plan

The components that have state of their own are modelled, and every safety property is
proved, `AbortIsExplained` under a condition. What could come next, in this order:

1. `DrawList` with two clients that show the same lists at two sizes.
2. A bound on the time that `Reconnects` takes, in periods of the Alives.

## 6. Not modelled

`Server::start` and failures of `select` and `accept` (they end the sysmodule); what a
client does after it has misread the stream; the growth of the windows' deque;
fixed-size arrays (modules, areas, processes, draw lists), each one comparison with a
bound; the mouse wheel, characters, cursors and the key table, which are passed on as
they are; colours, texture coordinates and indices of vertices, for the same reason; code
that nothing calls (`findBlock`, writing to a process). Logging and profiling only write.
Start-up and the IPC stubs are straight-line code without state of their own. GLFW, OpenGL
and the kernel are the environment. A hash stands for what it was computed from.
