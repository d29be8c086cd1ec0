---------------------------- MODULE PacketStream ----------------------------
(***************************************************************************)
(* One TCP connection from a desktop client to the sysmodule, and the      *)
(* framing on both its ends: nxdb::Client::sendPacketImpl of the client    *)
(* writes an 8 byte header and a payload; nxdb::Client::handleEvent of the *)
(* sysmodule reassembles them in the fixed array mBuffer and calls         *)
(* handlePacket.                                                           *)
(*                                                                         *)
(* TCP keeps bytes in order, so a byte is its position in the stream.  The *)
(* code's mBuffer holds the bytes consumed .. received-1; moving the rest  *)
(* of the buffer to the front is consumed' = consumed + wholeSize.  Reading*)
(* a header at a position where no packet starts yields garbage.           *)
(***************************************************************************)
EXTENDS Naturals, Sequences

CONSTANTS
  HeaderSize,    \* packetHeaderSize: 8 bytes
  BufferCap,     \* sizeof(mBuffer): 4 KB
  FixedTypes,    \* packet types whose payload has a fixed size
  FixedSize,     \* the size of each of those payloads
  ClipSizes,     \* sizes, with the final NUL, of texts the user may copy
  ClipMax,       \* the longest clipboard text the client sends: 512
  SocketCap,     \* bytes the two socket buffers hold together
  MaxPackets     \* bound: packets sent on the connection

NoPacket == "NoPacket"
ClipboardType == "SetClipboardText"

ASSUME StreamAssumption ==
  /\ HeaderSize \in Nat \ {0}
  /\ BufferCap \in Nat
  /\ FixedSize \in [FixedTypes -> Nat \ {0}]
  /\ ClipSizes \subseteq Nat \ {0}
  /\ ClipMax \in Nat
  /\ SocketCap \in Nat \ {0}
  /\ MaxPackets \in Nat
  /\ NoPacket \notin FixedTypes
  \* no packet the client can send is larger than the receive buffer
  /\ \A t \in FixedTypes : HeaderSize + FixedSize[t] <= BufferCap
  /\ HeaderSize + ClipMax <= BufferCap

VARIABLES
  sent,             \* client: packets passed to sendPacketImpl, with the position each starts at
  sizeLeft,         \* client: bytes of the last packet its write() and send() still have to hand over
  written,          \* bytes the client's socket has accepted
  eof,              \* the client has closed its end (kill(), or the process died)
  reset,            \* a connection reset: "none", "pending" in the kernel, or "reported" by recv()
  received,         \* bytes recv() has returned so far
  consumed,         \* bytes removed from the front of mBuffer so far
  mNextPacketType,  \* header already read, or NoPacket
  mNextPacketSize,
  pc,               \* "parse": run() is to enter handleEvent; "recv": it is in its recv()
  handled,          \* packets dispatched to handlePacket, with the position each was read at
  connected,        \* the server has not closed this connection
  erased            \* run() has erased the client, whose connection stays open

clientVars == <<sent, sizeLeft, written>>
parserVars == <<received, consumed, mNextPacketType, mNextPacketSize, handled>>
endVars == <<eof, reset>>
vars == <<clientVars, endVars, parserVars, pc, connected, erased>>

PacketType == FixedTypes \cup {ClipboardType}

\* A packet and the position its header starts at.
StreamPacket == [type : PacketType, size : Nat, at : Nat]

\* What a header read off a packet boundary may contain.
GarbageHeaders == [type : {"garbage"}, size : 0 .. BufferCap]

mBufferSize == received - consumed
InFlight == written - received
Room == BufferCap - mBufferSize

NoHeader == [type |-> NoPacket, size |-> 0]

WholeSize(h) == h.size + HeaderSize

CompleteExactly(h) == mBufferSize = WholeSize(h)
Complete(h) == mBufferSize >= WholeSize(h)

-----------------------------------------------------------------------------
(* The client. *)

\* sendPacketImpl: the header and then the payload go to the socket; neither
\* call returns before the socket has taken all of its bytes (TransmitBytes).
SendPacketImpl(type, size) ==
  /\ connected
  /\ ~eof
  /\ sizeLeft = 0
  /\ Len(sent) < MaxPackets
  /\ sent' = Append(sent, [type |-> type, size |-> size, at |-> written])
  /\ sizeLeft' = HeaderSize + size
  /\ UNCHANGED <<written, endVars, parserVars, pc, connected, erased>>

SendFixed == \E t \in FixedTypes : SendPacketImpl(t, FixedSize[t])

ClipboardAlwaysFits(size) == TRUE
ClipboardFits(size) == size <= ClipMax

\* The clipboard changed on the client's machine.
SendClipboardText ==
  \E size \in ClipSizes : ClipboardFits(size) /\ SendPacketImpl(ClipboardType, size)

\* write() and send() move bytes into the socket, as many as there is room for.
TransmitBytes ==
  /\ connected
  /\ ~eof
  /\ \E n \in 1 .. sizeLeft :
       /\ InFlight + n <= SocketCap
       /\ written' = written + n
       /\ sizeLeft' = sizeLeft - n
  /\ UNCHANGED <<sent, endVars, parserVars, pc, connected, erased>>

\* The client ends, possibly in the middle of a packet.
ClientCloses ==
  /\ ~eof
  /\ eof' = TRUE
  /\ UNCHANGED <<clientVars, reset, parserVars, pc, connected, erased>>

\* The client ends with unread pictures in its socket, or its machine does: the
\* server's kernel throws the bytes in flight away.
ConnectionResets ==
  /\ ~eof
  /\ eof' = TRUE
  /\ reset' = "pending"
  /\ UNCHANGED <<clientVars, parserVars, pc, connected, erased>>

-----------------------------------------------------------------------------
(* The server: one call of handleEvent is Parse, then a recv.  Between two    *)
(* calls run() goes through the other clients, and may be in the recv() of    *)
(* one of them for any time.                                                  *)

\* The client is one of those that run() goes through.
Served == connected /\ ~erased

\* Once handleEvent has returned, a client whose last Alive was dispatched more than 15 s
\* before is erased, with whatever mBuffer and the socket still hold, and is not closed.
EraseIfLate == erased' \in BOOLEAN

\* The bytes at a packet's start are its header; anywhere else they are not.
HeadersAt(pos) ==
  LET here == {n \in DOMAIN sent : sent[n].at = pos}
  IN  IF here = {} THEN GarbageHeaders
      ELSE {[type |-> sent[n].type, size |-> sent[n].size] : n \in here}

HeaderUnread == mNextPacketType = NoPacket /\ mNextPacketSize = 0

\* The header handleEvent works with: read now, kept from before, or none yet.
CurrentHeaders ==
  IF HeaderUnread /\ mBufferSize >= HeaderSize
  THEN HeadersAt(consumed)
  ELSE {[type |-> mNextPacketType, size |-> mNextPacketSize]}

RememberHeader(h) ==
  /\ mNextPacketType' = h.type
  /\ mNextPacketSize' = h.size

KeepsStaleSize(h) ==
  /\ mNextPacketType' = NoPacket
  /\ mNextPacketSize' = h.size
ForgetHeader(h) ==
  /\ mNextPacketType' = NoPacket
  /\ mNextPacketSize' = 0

\* The packet is complete: handlePacket, memmove the rest to the front, reset.
Dispatch(h) ==
  /\ Complete(h)
  /\ handled' = Append(handled, [type |-> h.type, size |-> h.size, at |-> consumed])
  /\ consumed' = consumed + WholeSize(h)
  /\ ForgetHeader(h)

\* Not complete yet: at most the header is kept for the next call.
AwaitMore(h) ==
  /\ ~Complete(h)
  /\ RememberHeader(h)
  /\ UNCHANGED <<handled, consumed>>

Parse ==
  /\ Served
  /\ pc = "parse"
  /\ \E h \in CurrentHeaders : Dispatch(h) \/ AwaitMore(h)
  /\ pc' = "recv"
  /\ UNCHANGED <<clientVars, endVars, received, connected, erased>>

\* recv() returns some of the bytes in flight, no more than mBuffer has room for.
RecvBytes ==
  /\ Served
  /\ pc = "recv"
  /\ reset = "none"
  /\ \E n \in 1 .. InFlight :
       /\ n <= Room
       /\ received' = received + n
  /\ EraseIfLate
  /\ pc' = "parse"
  /\ UNCHANGED <<clientVars, endVars, consumed, mNextPacketType, mNextPacketSize, handled, connected>>

\* recv() returns -1: the code logs it and goes on.
RecvFails ==
  /\ Served
  /\ pc = "recv"
  /\ reset = "pending"
  /\ reset' = "reported"
  /\ EraseIfLate
  /\ pc' = "parse"
  /\ UNCHANGED <<clientVars, eof, parserVars, connected>>

\* recv() returns 0 when the peer has closed, and also when asked for 0 bytes:
\* either way the server closes the connection.
PeerHasClosed == eof /\ (InFlight = 0 \/ reset # "none")
RecvZero ==
  /\ Served
  /\ pc = "recv"
  /\ reset # "pending"
  /\ Room = 0 \/ PeerHasClosed
  /\ connected' = FALSE
  /\ UNCHANGED <<clientVars, endVars, parserVars, pc, erased>>

-----------------------------------------------------------------------------
Init ==
  /\ sent = <<>>
  /\ sizeLeft = 0
  /\ written = 0
  /\ eof = FALSE
  /\ reset = "none"
  /\ received = 0
  /\ consumed = 0
  /\ mNextPacketType = NoPacket
  /\ mNextPacketSize = 0
  /\ pc = "parse"
  /\ handled = <<>>
  /\ connected = TRUE
  /\ erased = FALSE

Next ==
  \/ SendFixed
  \/ SendClipboardText
  \/ TransmitBytes
  \/ ClientCloses
  \/ ConnectionResets
  \/ Parse
  \/ RecvBytes
  \/ RecvFails
  \/ RecvZero

\* The kernel moves bytes, and a recv() that has something to return returns.  That run()
\* ever enters handleEvent for this client again is not assumed: another one may keep it.
Fairness ==
  /\ WF_vars(TransmitBytes)
  /\ WF_vars(RecvBytes)
  /\ WF_vars(RecvFails)
  /\ WF_vars(RecvZero)

Spec == Init /\ [][Next]_vars
FairSpec == Spec /\ Fairness

-----------------------------------------------------------------------------
(* Properties. *)

End(p) == p.at + HeaderSize + p.size

\* What the user's machine can put on the wire, as (type, size).
Packets ==
  {[type |-> t, size |-> FixedSize[t]] : t \in FixedTypes}
    \cup {[type |-> ClipboardType, size |-> s] : s \in {c \in ClipSizes : c <= ClipMax}}

\* Type correctness of the connection's state on both its ends: sent and handled
\* are sequences of packets, the byte counters are ordered as bytes flow, and
\* mBuffer never holds more than it can.
TypeOK ==
  /\ sent \in Seq(StreamPacket)
  /\ sizeLeft \in Nat
  /\ written \in Nat
  /\ eof \in BOOLEAN
  /\ reset \in {"none", "pending", "reported"}
  /\ received \in Nat
  /\ consumed \in Nat
  /\ consumed <= received
  /\ received <= written
  /\ received - consumed <= BufferCap
  /\ mNextPacketType \in PacketType \cup {NoPacket}
  /\ mNextPacketSize \in Nat
  /\ pc \in {"parse", "recv"}
  /\ handled \in Seq(StreamPacket)
  /\ connected \in BOOLEAN
  /\ erased \in BOOLEAN

\* handleEvent takes a recv() of 0 for a disconnection, and recv() also returns 0
\* when mBuffer is full.  A live client is never closed that way: mBuffer cannot
\* be full without a complete packet in it that is dispatched first.
NoSpuriousDisconnect == ~connected => eof

\* handlePacket reads a payload in mBuffer: every byte of a packet has arrived
\* before the packet is dispatched, however the stream was cut by recv(), and no
\* more packets are dispatched than were sent.
WholeBeforeHandled ==
  [][handled' # handled =>
       /\ Len(handled) < Len(sent)
       /\ End(sent[Len(handled) + 1]) <= received]_vars

\* A handleEvent call dispatches one packet and then blocks in recv(), so complete
\* packets stay in mBuffer.  At most Lag of them: those that fit beside the one
\* just dispatched.
MinWhole == HeaderSize + 1
Lag == (BufferCap \div MinWhole) - 1

CompletePackets == {n \in 1 .. Len(sent) : End(sent[n]) <= received}

BacklogBounded ==
  pc = "recv" => \A n \in CompletePackets : n <= Len(handled) + Lag

\* run() is not in the recv() of another client for ever while this one waits for it.
ServerComesBack == []<>(pc = "recv" \/ ~Served)

\* A complete packet that handleEvent left in mBuffer is dispatched by the recv()s
\* that later traffic completes: when the Lag-th packet after it has been written and
\* the server thread keeps coming back, it will be handled, unless the connection is
\* reset or the client erased for its 15 seconds.
LaterTrafficFlushes ==
  ServerComesBack =>
    \A n \in 1 .. MaxPackets :
      (n + Lag <= Len(sent) /\ End(sent[n + Lag]) <= written)
        ~> (Len(handled) >= n \/ reset # "none" \/ erased)

\* Later traffic was written and the packet has not been handled.
Unflushed(n) ==
  /\ n + Lag \in DOMAIN sent
  /\ End(sent[n + Lag]) <= written
  /\ Len(handled) < n
  /\ reset = "none"
  /\ ~erased

\* Until that packet is handled, the connection reset or the client erased, the server does
\* not close the connection, and whenever it comes to it, no recv() waits.
FlushGoesOn ==
  \A n \in 1 .. MaxPackets :
    Unflushed(n) => connected /\ (pc = "recv" => InFlight > 0 /\ Room > 0)

BytesAhead(n) ==
  LET end == End(sent[n + Lag]) IN IF received < end THEN end - received ELSE 0

FlushLeft(n) == 2 * BytesAhead(n) + (IF pc = "parse" THEN 1 ELSE 0)

\* And each of its steps brings it nearer, whatever the client sends meanwhile.
FlushCountsDown ==
  [][\A n \in 1 .. MaxPackets : Unflushed(n) /\ Unflushed(n)' =>
       UNCHANGED <<pc, received>> \/ FlushLeft(n)' < FlushLeft(n)]_vars

\* The framing implements a queue of packets: what handlePacket is given is what
\* sendPacketImpl was given, each packet once, whole and in order.
Plain(s) == [n \in DOMAIN s |-> [type |-> s[n].type, size |-> s[n].size]]

Channel == INSTANCE PacketChannel WITH
  Packet <- Packets,
  accepted <- Plain(sent),
  delivered <- Plain(handled),
  hungUp <- eof,
  dropped <- ~connected,
  abandoned <- erased

FramingIsAChannel == Channel!ChSpec
=============================================================================
