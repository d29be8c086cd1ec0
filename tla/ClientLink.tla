----------------------------- MODULE ClientLink -----------------------------
(***************************************************************************)
(* The life of one desktop client: Client::start and Client::run, with the *)
(* sysmodule at the other end.  Both ends wait for each other in a         *)
(* blocking recv(): the client sends nothing while no picture arrives, and *)
(* the sysmodule, whose server thread waits for the client, sends none     *)
(* while the picture does not change and nobody asks for it.               *)
(*                                                                         *)
(* The sysmodule may be restarted.  The client then reconnects, or is      *)
(* ended by SIGPIPE, for which it has no handler.                          *)
(*                                                                         *)
(* A picture is a packet in two pieces, so that a connection can end       *)
(* between them.  Of the client's packets there are Hello and Mouse, which *)
(* ask for a new picture, and Alive, which does not.  With one client the  *)
(* vector of the server has one slot; ServerLoop has the others.           *)
(***************************************************************************)
EXTENDS Naturals, Sequences

CONSTANTS
  SocketCap,     \* pieces or packets a connection holds in each direction
  BufferCap,     \* pieces of pictures mBuffer holds
  InboxCap,      \* packets the mBuffer of the server holds
  AlivePeriod,   \* 5 s, in ticks: an Alive is due when more have passed
  Timeout        \* 15 s, in ticks

ASSUME LinkAssumption ==
  /\ SocketCap \in Nat /\ SocketCap >= 3
  /\ BufferCap \in Nat /\ BufferCap >= 2
  /\ InboxCap \in Nat \ {0}
  /\ AlivePeriod \in Nat
  /\ Timeout \in Nat /\ Timeout >= AlivePeriod

VARIABLES
  (* the desktop client *)
  mState,        \* "NoSocket" or "Connecting"
  mHasSentHello,
  mBuffer,       \* pieces of pictures
  window,        \* the first picture was shown: there is a window, and input
  cpc,           \* "loop", "recv" (blocked in it), "ended" or "astray"
  sinceAlive,    \* ticks since sLastAliveTime
  (* its user *)
  moved,         \* the mouse is not at sLastCursorPos
  (* the connection *)
  wire,          \* "none", "open", "fin", "broken" or "reset"
  toServer, toClient,
  (* the sysmodule *)
  pending,       \* the connection is not accepted yet
  listed,        \* the client is in mClients
  inbox,         \* its mBuffer there
  silence,       \* ticks since its mLastAlive
  late,          \* seconds.count() > 15, measured before handleEvent
  spc,           \* server thread: "select", "visit" or "recv"
  sRerender,
  changed,       \* the picture differs from the last one that was sent
  rpc,           \* render thread: "frame", or "half" of a picture is sent
  (* history *)
  cut,           \* a connection was replaced while mBuffer held half a picture
  still,         \* ticks since the client received anything
  longest,       \* the longest still on this connection
  behind         \* time has passed on it while an Alive lay in inbox

clientVars == <<mState, mHasSentHello, mBuffer, window, cpc, sinceAlive>>
wireVars == <<wire, toServer, toClient>>
serverVars == <<pending, listed, inbox, silence, late, spc>>
renderVars == <<sRerender, changed, rpc>>
historyVars == <<cut, still, longest, behind>>
linkVars == <<clientVars, moved, wireVars, serverVars, renderVars, historyVars>>

Kind == {"Hello", "Alive", "Mouse"}
Picture == <<"head", "rest">>

Waits(kind, sequence) == \E k \in DOMAIN sequence : sequence[k] = kind

-----------------------------------------------------------------------------
(* The desktop client *)

\* A second start() does not touch mBuffer, mBufferSize or the header already read.
KeptBuffer == mBuffer

\* start(): connect() may fail, and is tried again at once.
Start ==
  /\ cpc = "loop"
  /\ mState = "NoSocket"
  /\ mState' = "Connecting"
  /\ mHasSentHello' = FALSE
  /\ mBuffer' = KeptBuffer
  /\ wire' = "open"
  /\ toServer' = <<>>
  /\ toClient' = <<>>
  /\ pending' = TRUE
  /\ cut' = (cut \/ Len(mBuffer) % 2 = 1)
  /\ still' = 0
  /\ longest' = 0
  /\ behind' = FALSE
  /\ UNCHANGED <<window, cpc, sinceAlive, moved, listed, inbox, silence, late, spc,
                 renderVars>>

\* Input is looked at once there is a window, and at most every 15 ms.
PollsWhenDrained(due) == due /\ window /\ mBuffer = <<>>       \* mutant
PollsInput(due) == due /\ window

AliveWhenIdle == sinceAlive > AlivePeriod /\ ~moved       \* mutant
AliveIfLate == sinceAlive > Timeout                      \* mutant
AliveDue == sinceAlive > AlivePeriod

\* What one round of the loop sends.
Writes(due) ==
  (IF mHasSentHello THEN <<>> ELSE <<"Hello">>)
    \o (IF AliveDue THEN <<"Alive">> ELSE <<>>)
    \o (IF PollsInput(due) /\ moved THEN <<"Mouse">> ELSE <<>>)

\* write() and send() block while there is no room.  After the server has gone, the first
\* write is answered by a reset, and the next one raises SIGPIPE.  A write that meets a
\* reset fails, and the payload's send(), right after it, raises SIGPIPE.
Write(packets) ==
  \/ /\ packets = <<>>
     /\ UNCHANGED <<wire, toServer>>
  \/ /\ packets # <<>>
     /\ wire = "open"
     /\ Len(toServer) + Len(packets) <= SocketCap
     /\ toServer' = toServer \o packets
     /\ UNCHANGED wire
  \/ /\ packets # <<>>
     /\ wire = "fin"
     /\ wire' = "broken"
     /\ UNCHANGED toServer

Emptied(buffer) == <<>>       \* mutant
AfterPicture(buffer) == SubSeq(buffer, 3, Len(buffer))

\* handlePacket, if mBuffer holds a whole packet.  One put together from the pieces of
\* two has a wrong size or a wrong content; what the client does then is not modelled.
HandlePicture ==
  IF Len(mBuffer) < 2
  THEN /\ cpc' = "recv"
       /\ UNCHANGED <<mBuffer, window>>
  ELSE IF SubSeq(mBuffer, 1, 2) = Picture
  THEN /\ mBuffer' = AfterPicture(mBuffer)
       /\ window' = TRUE
       /\ cpc' = "recv"
  ELSE /\ cpc' = "astray"
       /\ UNCHANGED <<mBuffer, window>>

\* One round of the loop in run(), up to recv().
Round(due) ==
  /\ cpc = "loop"
  /\ mState = "Connecting"
  /\ Write(Writes(due))
  /\ mHasSentHello' = TRUE
  /\ sinceAlive' = IF AliveDue THEN 0 ELSE sinceAlive
  /\ moved' = (moved /\ ~PollsInput(due))
  /\ HandlePicture
  /\ UNCHANGED <<mState, toClient, serverVars, renderVars, historyVars>>

\* SIGPIPE ends the client: no handler is installed.
BrokenPipe(due) ==
  /\ cpc = "loop"
  /\ mState = "Connecting"
  /\ wire \in {"broken", "reset"}
  /\ Writes(due) # <<>>
  /\ cpc' = "ended"
  /\ UNCHANGED <<mState, mHasSentHello, mBuffer, window, sinceAlive, moved,
                 wireVars, serverVars, renderVars, historyVars>>

\* sizeof(mBuffer) - mBufferSize
Room(buffer) == BufferCap - Len(buffer)

\* recv() returns some pieces.
RecvPieces ==
  /\ cpc = "recv"
  /\ wire # "reset"
  /\ \E n \in 1 .. Len(toClient) :
       /\ n <= Room(mBuffer)
       /\ mBuffer' = mBuffer \o SubSeq(toClient, 1, n)
       /\ toClient' = SubSeq(toClient, n + 1, Len(toClient))
  /\ cpc' = "loop"
  /\ still' = 0
  /\ UNCHANGED <<mState, mHasSentHello, window, sinceAlive, moved, wire, toServer,
                 serverVars, renderVars, cut, longest, behind>>

\* recv() returns 0 because the server has gone, or because mBuffer is full; the client
\* does not look at it.
RecvZero ==
  /\ cpc = "recv"
  /\ \/ wire \in {"fin", "broken"} /\ toClient = <<>>
     \/ wire # "reset" /\ Room(mBuffer) = 0
  /\ cpc' = "loop"
  /\ UNCHANGED <<mState, mHasSentHello, mBuffer, window, sinceAlive, moved, wireVars,
                 serverVars, renderVars, historyVars>>

IgnoresFailure == "Connecting"       \* mutant
AfterFailure == "NoSocket"

\* recv() fails.
RecvFails ==
  /\ cpc = "recv"
  /\ wire = "reset"
  /\ mState' = AfterFailure
  /\ wire' = IF mState' = "NoSocket" THEN "none" ELSE wire
  /\ cpc' = "loop"
  /\ UNCHANGED <<mHasSentHello, mBuffer, window, sinceAlive, moved,
                 toServer, toClient, serverVars, renderVars, historyVars>>

-----------------------------------------------------------------------------
(* Its user *)

Move ==
  /\ window
  /\ ~moved
  /\ moved' = TRUE
  /\ UNCHANGED <<clientVars, wireVars, serverVars, renderVars, historyVars>>

-----------------------------------------------------------------------------
(* The server thread of the sysmodule *)

\* Nothing is visited while there is no client.
Select ==
  /\ spc = "select"
  /\ pending \/ listed
  /\ IF pending
     THEN /\ listed' = TRUE
          /\ pending' = FALSE
          /\ inbox' = <<>>
          /\ silence' = 0
     ELSE UNCHANGED <<listed, pending, inbox, silence>>
  /\ spc' = "visit"
  /\ UNCHANGED <<clientVars, moved, wireVars, late, renderVars, historyVars>>

AsksForPicture(kind) == kind \in {"Hello", "Mouse"}

\* The time is measured; then handleEvent dispatches a packet, if it has one.
Visit ==
  /\ spc = "visit"
  /\ late' = (silence > Timeout)
  /\ IF inbox = <<>>
     THEN UNCHANGED <<inbox, silence, sRerender>>
     ELSE /\ inbox' = Tail(inbox)
          /\ silence' = IF Head(inbox) = "Alive" THEN 0 ELSE silence
          /\ sRerender' = (sRerender \/ AsksForPicture(Head(inbox)))
  /\ spc' = "recv"
  /\ UNCHANGED <<clientVars, moved, wireVars, pending, listed, changed, rpc, historyVars>>

\* recv() returns some packets.  A late client is erased; its connection is not closed.
ServerRecvPackets ==
  /\ spc = "recv"
  /\ \E n \in 1 .. Len(toServer) :
       /\ n <= InboxCap - Len(inbox)
       /\ inbox' = inbox \o SubSeq(toServer, 1, n)
       /\ toServer' = SubSeq(toServer, n + 1, Len(toServer))
  /\ listed' = ~late
  /\ spc' = "select"
  /\ UNCHANGED <<clientVars, moved, wire, toClient, pending, silence, late, renderVars,
                 historyVars>>

-----------------------------------------------------------------------------
(* The render thread of the sysmodule *)

\* The picture changes by itself: a process started, a module was loaded.
ChangePicture ==
  /\ ~changed
  /\ changed' = TRUE
  /\ UNCHANGED <<clientVars, moved, wireVars, serverVars, sRerender, rpc, historyVars>>

SendsPicture == sRerender \/ changed

\* A frame that has something to send, to the one client there is.
SendHead ==
  /\ rpc = "frame"
  /\ listed
  /\ SendsPicture
  /\ Len(toClient) < SocketCap
  /\ sRerender' = FALSE
  /\ changed' = FALSE
  /\ toClient' = IF wire = "open" THEN Append(toClient, "head") ELSE toClient
  /\ rpc' = "half"
  /\ UNCHANGED <<clientVars, moved, wire, toServer, serverVars, historyVars>>

SendRest ==
  /\ rpc = "half"
  /\ Len(toClient) < SocketCap
  /\ toClient' = IF wire = "open" THEN Append(toClient, "rest") ELSE toClient
  /\ rpc' = "frame"
  /\ UNCHANGED <<clientVars, moved, wire, toServer, serverVars, sRerender, changed, historyVars>>

-----------------------------------------------------------------------------
(* Restarts, and time *)

\* The sysmodule ends and is started again.  Its connection is shut down in order, after
\* what was sent, or reset.
Restart ==
  /\ wire = "open"
  /\ wire' \in {"fin", "reset"}
  /\ toServer' = <<>>
  /\ pending' = FALSE
  /\ listed' = FALSE
  /\ inbox' = <<>>
  /\ silence' = 0
  /\ late' = FALSE
  /\ spc' = "select"
  /\ sRerender' = TRUE
  /\ changed' = TRUE
  /\ rpc' = "frame"
  /\ UNCHANGED <<clientVars, moved, toClient, historyVars>>

\* Both ends wait, or the client turns around in recv().
Waiting ==
  /\ \/ cpc = "recv" /\ wire = "open" /\ toClient = <<>>
     \/ wire \in {"fin", "broken"}
     \/ cpc \in {"ended", "astray"}
  /\ \/ spc = "recv" /\ toServer = <<>>
     \/ spc = "select" /\ ~listed /\ ~pending
  /\ rpc = "frame" /\ ~(listed /\ SendsPicture)

UpTo(n, limit) == IF n > limit THEN n ELSE n + 1

\* Time is counted in seconds, and everything else takes none.
Tick ==
  /\ Waiting
  /\ sinceAlive' = UpTo(sinceAlive, AlivePeriod)
  /\ silence' = UpTo(silence, Timeout)
  /\ still' = UpTo(still, Timeout)
  /\ longest' = IF still' > longest THEN still' ELSE longest
  /\ behind' = (behind \/ Waits("Alive", inbox))
  /\ UNCHANGED <<mState, mHasSentHello, mBuffer, window, cpc, moved, wireVars,
                 pending, listed, inbox, late, spc, renderVars, cut>>

-----------------------------------------------------------------------------
LinkInit ==
  /\ mState = "NoSocket"
  /\ mHasSentHello = FALSE
  /\ mBuffer = <<>>
  /\ window = FALSE
  /\ cpc = "loop"
  /\ sinceAlive = 0
  /\ moved = FALSE
  /\ wire = "none"
  /\ toServer = <<>>
  /\ toClient = <<>>
  /\ pending = FALSE
  /\ listed = FALSE
  /\ inbox = <<>>
  /\ silence = 0
  /\ late = FALSE
  /\ spc = "select"
  /\ sRerender = TRUE
  /\ changed = TRUE
  /\ rpc = "frame"
  /\ cut = FALSE
  /\ still = 0
  /\ longest = 0
  /\ behind = FALSE

ClientStep == \/ Start \/ RecvPieces \/ RecvZero \/ RecvFails
              \/ \E due \in BOOLEAN : Round(due) \/ BrokenPipe(due)
ServerStep == Select \/ Visit \/ ServerRecvPackets
RenderStep == SendHead \/ SendRest
Environment == Move \/ ChangePicture \/ Restart \/ Tick

LinkNext == ClientStep \/ ServerStep \/ RenderStep \/ Environment

LinkSpec == LinkInit /\ [][LinkNext]_linkVars

\* The client and both threads run, time passes, and rounds later than 15 ms after the
\* last look at the input are not avoided for ever.
LinkFairSpec ==
  /\ LinkSpec
  /\ WF_linkVars(ClientStep)
  /\ SF_linkVars(Round(TRUE) \/ BrokenPipe(TRUE))
  /\ WF_linkVars(ServerStep)
  /\ WF_linkVars(RenderStep)
  /\ WF_linkVars(Tick)

-----------------------------------------------------------------------------
(* Properties *)

TypeOK ==
  /\ mState \in {"NoSocket", "Connecting"}
  /\ mHasSentHello \in BOOLEAN
  /\ mBuffer \in Seq({"head", "rest"}) /\ Len(mBuffer) <= BufferCap
  /\ window \in BOOLEAN
  /\ cpc \in {"loop", "recv", "ended", "astray"}
  /\ sinceAlive \in 0 .. AlivePeriod + 1
  /\ moved \in BOOLEAN
  /\ wire \in {"none", "open", "fin", "broken", "reset"}
  /\ toServer \in Seq(Kind) /\ Len(toServer) <= SocketCap
  /\ toClient \in Seq({"head", "rest"}) /\ Len(toClient) <= SocketCap
  /\ pending \in BOOLEAN
  /\ listed \in BOOLEAN
  /\ inbox \in Seq(Kind) /\ Len(inbox) <= InboxCap
  /\ silence \in 0 .. Timeout + 1
  /\ late \in BOOLEAN
  /\ spc \in {"select", "visit", "recv"}
  /\ sRerender \in BOOLEAN
  /\ changed \in BOOLEAN
  /\ rpc \in {"frame", "half"}
  /\ cut \in BOOLEAN
  /\ still \in 0 .. Timeout + 1
  /\ longest \in 0 .. Timeout + 1
  /\ behind \in BOOLEAN

\* A client takes the middle of a picture for its beginning, or puts one together from
\* two, only after a reconnection in the middle of a picture: start() keeps mBuffer.
MisreadIsExplained == cpc = "astray" => cut

\* The server no longer reads this connection, and the client does not know.
Dropped == wire = "open" /\ ~listed /\ ~pending

Drops == Dropped' /\ ~Dropped

\* As long as pictures keep arriving, the client keeps sending Alive.  It is erased only if
\* no picture came for at least the difference of the two periods, or if the server had
\* blocked over an Alive in its mBuffer, because that lay behind the packet dispatched.
DropNeedsPauseOrBacklog ==
  [][Drops => longest >= Timeout - AlivePeriod \/ behind]_linkVars

\* The 15 seconds never find a client that is silent: whenever one is erased for them, an
\* Alive of it has arrived, and was dispatched after the time was measured, or waits.
DroppedWhileAlive ==
  [][Drops => silence <= Timeout \/ Waits("Alive", inbox \o toServer)]_linkVars

\* What has ended, or has lost track of the packets, promises nothing more.
Gone == cpc \in {"ended", "astray"}

\* When the sysmodule goes, the client reconnects, or SIGPIPE ends it.
Reconnects == wire \in {"fin", "broken", "reset"} ~> wire = "open" \/ Gone

PicturesArrive == []<><<RecvPieces>>_linkVars

\* The loop waits for a picture in every round.  If pictures keep arriving, what the user
\* does with the mouse is sent.
MovesAreSent == PicturesArrive => (moved ~> ~moved \/ Gone)
=============================================================================
