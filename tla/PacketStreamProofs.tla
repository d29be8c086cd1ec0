------------------------- MODULE PacketStreamProofs -------------------------
(***************************************************************************)
(* Proofs about PacketStream for every packet size, buffer size and        *)
(* interleaving of partial writes and reads.                               *)
(*                                                                         *)
(* The inductive invariant says what the two ends know of each other       *)
(* without communicating: packets lie in the stream end to end, the parser *)
(* stands at the start of the first packet it has not dispatched, and what *)
(* it remembers of a header is that packet's header.                       *)
(***************************************************************************)
EXTENDS PacketStream, TLAPS

\* Every packet on the wire fits mBuffer, and no two overlap.
PacketsFit ==
  \A n \in 1 .. Len(sent) :
    /\ [type |-> sent[n].type, size |-> sent[n].size] \in Packets
    /\ sent[n].size \in Nat \ {0}
    /\ HeaderSize + sent[n].size <= BufferCap

EndToEnd ==
  /\ Len(sent) = 0 => written = 0 /\ sizeLeft = 0
  /\ Len(sent) > 0 => sent[1].at = 0 /\ written + sizeLeft = End(sent[Len(sent)])
  /\ \A n \in 1 .. Len(sent) : n > 1 => sent[n].at = End(sent[n - 1])
  /\ \A m, n \in 1 .. Len(sent) : m < n => End(sent[m]) <= sent[n].at

\* The parser is at a packet boundary and has dispatched what lies before it.
ParserAligned ==
  /\ Len(handled) <= Len(sent)
  /\ \A n \in 1 .. Len(handled) : handled[n] = sent[n]
  /\ consumed = IF Len(handled) = 0 THEN 0 ELSE End(sent[Len(handled)])

HeaderRemembered ==
  \/ mNextPacketType = NoPacket /\ mNextPacketSize = 0
  \/ /\ Len(handled) < Len(sent)
     /\ mNextPacketType = sent[Len(handled) + 1].type
     /\ mNextPacketSize = sent[Len(handled) + 1].size

\* recv() is never asked for 0 bytes.
RoomInRecv == pc = "recv" => received - consumed < BufferCap

IInv ==
  /\ TypeOK
  /\ PacketsFit
  /\ EndToEnd
  /\ ParserAligned
  /\ HeaderRemembered
  /\ RoomInRecv
  /\ NoSpuriousDisconnect

-----------------------------------------------------------------------------
\* A packet the client may send has a type of its own, a payload, and fits mBuffer.
LEMMA PacketsAreSmall ==
  ASSUME NEW p \in Packets
  PROVE  /\ p.type \in PacketType
         /\ p.type # NoPacket
         /\ p.size \in Nat \ {0}
         /\ HeaderSize + p.size <= BufferCap
  BY StreamAssumption DEF Packets, PacketType, NoPacket, ClipboardType

\* A packet ends after it starts.
LEMMA EndAfterStart ==
  ASSUME NEW p \in StreamPacket
  PROVE  p.at \in Nat /\ p.size \in Nat /\ End(p) \in Nat /\ p.at < End(p)
  BY StreamAssumption DEF StreamPacket, End

\* The packet after the last dispatched one starts where the parser stands, and
\* what is read there is its header.
LEMMA NextPacket ==
  ASSUME IInv, Len(handled) < Len(sent)
  PROVE  /\ sent[Len(handled) + 1] \in StreamPacket
         /\ sent[Len(handled) + 1].at = consumed
         /\ HeadersAt(consumed) = {[type |-> sent[Len(handled) + 1].type,
                                    size |-> sent[Len(handled) + 1].size]}
<1> DEFINE k == Len(handled) + 1
<1>1. k \in 1 .. Len(sent) /\ sent \in Seq(StreamPacket) /\ HeaderSize \in Nat \ {0}
  BY StreamAssumption DEF IInv, TypeOK
<1>2. sent[k] \in StreamPacket
  BY <1>1
<1>3. sent[k].at = consumed
  <2>1. CASE k = 1
    BY <2>1, <1>1 DEF IInv, EndToEnd, ParserAligned, TypeOK
  <2>2. CASE k > 1
    BY <2>2, <1>1 DEF IInv, EndToEnd, ParserAligned, TypeOK
  <2> QED
    BY <1>1, <2>1, <2>2
<1>4. ASSUME NEW n \in 1 .. Len(sent), n # k
      PROVE  sent[n].at # sent[k].at
  <2>1. sent[n] \in StreamPacket
    BY <1>1
  <2>2. CASE n < k
    <3>1. End(sent[n]) <= sent[k].at
      BY <2>2, <1>1 DEF IInv, EndToEnd
    <3> QED
      BY <2>1, <3>1, <1>2, EndAfterStart
  <2>3. CASE n > k
    <3>1. End(sent[k]) <= sent[n].at
      BY <2>3, <1>1 DEF IInv, EndToEnd
    <3> QED
      BY <2>1, <3>1, <1>2, EndAfterStart
  <2> QED
    BY <1>1, <1>4, <2>2, <2>3
<1>5. {n \in DOMAIN sent : sent[n].at = consumed} = {k}
  BY <1>1, <1>3, <1>4
<1> QED
  BY <1>2, <1>3, <1>5 DEF HeadersAt

\* With nothing left to dispatch mBuffer is empty.
LEMMA AllHandledMeansEmpty ==
  ASSUME IInv, Len(handled) = Len(sent)
  PROVE  received = consumed
<1>1. CASE Len(sent) = 0
  BY <1>1 DEF IInv, TypeOK, EndToEnd, ParserAligned
<1>2. CASE Len(sent) > 0
  <2>1. sent[Len(sent)] \in StreamPacket
    BY <1>2 DEF IInv, TypeOK
  <2>2. End(sent[Len(sent)]) \in Nat /\ consumed = End(sent[Len(sent)])
    BY <1>2, <2>1, EndAfterStart DEF IInv, TypeOK, ParserAligned
  <2>3. written + sizeLeft = End(sent[Len(sent)])
    BY <1>2 DEF IInv, EndToEnd
  <2> QED
    BY <2>2, <2>3 DEF IInv, TypeOK
<1> QED
  BY <1>1, <1>2 DEF IInv, TypeOK

\* The header handleEvent works with is the next packet's, or there is none yet.
LEMMA HeaderIsNext ==
  ASSUME IInv, NEW h \in CurrentHeaders
  PROVE  \/ /\ Len(handled) < Len(sent)
            /\ h = [type |-> sent[Len(handled) + 1].type,
                    size |-> sent[Len(handled) + 1].size]
         \/ h = NoHeader /\ received - consumed < HeaderSize
<1>1. HeaderSize \in Nat \ {0}
  BY StreamAssumption
<1>2. CASE HeaderUnread /\ mBufferSize >= HeaderSize
  <2>1. Len(handled) < Len(sent)
    BY <1>1, <1>2, AllHandledMeansEmpty DEF mBufferSize, IInv, TypeOK, ParserAligned
  <2> QED
    BY <1>2, <2>1, NextPacket DEF CurrentHeaders
<1>3. CASE ~(HeaderUnread /\ mBufferSize >= HeaderSize)
  <2>1. h = [type |-> mNextPacketType, size |-> mNextPacketSize]
    BY <1>3 DEF CurrentHeaders
  <2> QED
    BY <1>1, <1>3, <2>1 DEF HeaderUnread, mBufferSize, NoHeader, IInv, HeaderRemembered, TypeOK
<1> QED
  BY <1>2, <1>3

-----------------------------------------------------------------------------
LEMMA InitIInv == Init => IInv
<1> SUFFICES ASSUME Init PROVE IInv
  OBVIOUS
<1>1. TypeOK
  <2>1. BufferCap \in Nat
    BY StreamAssumption
  <2>2. <<>> \in Seq(StreamPacket)
    OBVIOUS
  <2>3. received - consumed <= BufferCap
    BY <2>1 DEF Init
  <2>4. /\ eof \in BOOLEAN /\ connected \in BOOLEAN /\ erased \in BOOLEAN
        /\ reset \in {"none", "pending", "reported"} /\ pc \in {"parse", "recv"}
        /\ mNextPacketType \in PacketType \cup {NoPacket}
    BY DEF Init
  <2>5. /\ sizeLeft \in Nat /\ written \in Nat /\ received \in Nat /\ consumed \in Nat
        /\ mNextPacketSize \in Nat /\ consumed <= received /\ received <= written
    BY DEF Init
  <2>6. sent \in Seq(StreamPacket) /\ handled \in Seq(StreamPacket)
    BY <2>2 DEF Init
  <2> QED
    BY <2>3, <2>4, <2>5, <2>6 DEF TypeOK
<1> QED
  BY <1>1, StreamAssumption
  DEF Init, IInv, PacketsFit, EndToEnd, ParserAligned, HeaderRemembered, RoomInRecv,
      NoSpuriousDisconnect

\* A packet is placed where the bytes written so far end.
LEMMA SendKeepsIInv ==
  ASSUME IInv, NEW type, NEW size, [type |-> type, size |-> size] \in Packets,
         SendPacketImpl(type, size)
  PROVE  IInv'
<1> DEFINE p == [type |-> type, size |-> size, at |-> written]
           last == Len(sent) + 1
<1>1. /\ sent' = Append(sent, p)
      /\ sizeLeft' = HeaderSize + size
      /\ sizeLeft = 0
      /\ UNCHANGED <<written, endVars, parserVars, pc, connected, erased>>
  BY DEF SendPacketImpl
<1>2. /\ type \in PacketType
      /\ size \in Nat \ {0}
      /\ HeaderSize + size <= BufferCap
  BY PacketsAreSmall
<1>3. p \in StreamPacket
  BY <1>2 DEF StreamPacket, IInv, TypeOK
<1>4. HeaderSize \in Nat
  BY StreamAssumption
<1>5. TypeOK'
  BY <1>1, <1>2, <1>3, <1>4 DEF IInv, TypeOK, endVars, parserVars
<1>6. /\ Len(sent') = last
      /\ sent'[last] = p
      /\ \A n \in 1 .. Len(sent) : sent'[n] = sent[n]
      /\ \A n \in 1 .. Len(sent') : n \in 1 .. Len(sent) \/ n = last
      /\ Len(sent) \in Nat
  BY <1>1, <1>3 DEF IInv, TypeOK
<1> HIDE DEF last
<1>7. PacketsFit'
  BY <1>1, <1>2, <1>6 DEF IInv, PacketsFit
<1>8. EndToEnd'
  <2>1. \A n \in 1 .. Len(sent) : sent[n] \in StreamPacket
    BY DEF IInv, TypeOK
  <2>2. Len(sent) > 0 => End(sent[Len(sent)]) = written
    BY <1>1 DEF IInv, EndToEnd, TypeOK
  <2>3. \A n \in 1 .. Len(sent) : End(sent[n]) <= written
    <3> SUFFICES ASSUME NEW n \in 1 .. Len(sent) PROVE End(sent[n]) <= written
      OBVIOUS
    <3>1. sent[Len(sent)] \in StreamPacket /\ sent[n] \in StreamPacket
      BY <2>1, <1>6
    <3>2. CASE n < Len(sent)
      <4>1. End(sent[n]) <= sent[Len(sent)].at
        BY <3>2, <1>6 DEF IInv, EndToEnd
      <4> QED
        BY <4>1, <3>1, <2>2, <3>2, <1>6, EndAfterStart
    <3>3. CASE n = Len(sent)
      BY <3>1, <3>3, <2>2, <1>6, EndAfterStart
    <3> QED
      BY <3>2, <3>3, <1>6
  <2>4. sent'[1].at = 0
    <3>1. CASE Len(sent) = 0
      BY <3>1, <1>6 DEF last, IInv, EndToEnd
    <3>2. CASE Len(sent) > 0
      BY <3>2, <1>6 DEF IInv, EndToEnd
    <3> QED
      BY <3>1, <3>2, <1>6
  <2>5. written' + sizeLeft' = End(sent'[Len(sent')])
    BY <1>1, <1>2, <1>4, <1>6 DEF End, IInv, TypeOK
  <2>6. \A n \in 1 .. Len(sent') : n > 1 => sent'[n].at = End(sent'[n - 1])
    <3>1. \A n \in 1 .. Len(sent) : n > 1 => n - 1 \in 1 .. Len(sent)
      BY <1>6
    <3>2. \A n \in 1 .. Len(sent) : n > 1 => sent'[n].at = End(sent'[n - 1])
      BY <3>1, <1>6 DEF IInv, EndToEnd, End
    <3>3. last > 1 => sent'[last].at = End(sent'[last - 1])
      BY <1>6, <2>2 DEF last
    <3> QED
      BY <3>2, <3>3, <1>6
  <2>7. \A m, n \in 1 .. Len(sent') : m < n => End(sent'[m]) <= sent'[n].at
    <3> SUFFICES ASSUME NEW m \in 1 .. Len(sent'), NEW n \in 1 .. Len(sent'), m < n
                 PROVE  End(sent'[m]) <= sent'[n].at
      OBVIOUS
    <3>1. m \in 1 .. Len(sent) /\ sent'[m] = sent[m]
      BY <1>6 DEF last
    <3>2. CASE n = last
      BY <3>1, <3>2, <1>6, <2>3
    <3>3. CASE n \in 1 .. Len(sent)
      BY <3>1, <3>3, <1>6 DEF IInv, EndToEnd
    <3> QED
      BY <3>2, <3>3, <1>6
  <2> QED
    BY <2>4, <2>5, <2>6, <2>7, <1>6 DEF EndToEnd, End, last
<1>9. /\ handled' = handled
      /\ consumed' = consumed
      /\ \A n \in 1 .. Len(handled) : n \in 1 .. Len(sent)
      /\ Len(handled) \in Nat
  BY <1>1, <1>6 DEF parserVars, IInv, TypeOK, ParserAligned
<1>10. ParserAligned'
  <2>1. Len(handled) # 0 => sent'[Len(handled)] = sent[Len(handled)]
    BY <1>6, <1>9
  <2> QED
    BY <1>6, <1>9, <2>1 DEF last, IInv, ParserAligned, End
<1>11. HeaderRemembered'
  BY <1>1, <1>6, <1>9 DEF last, IInv, HeaderRemembered, parserVars
<1>12. RoomInRecv' /\ NoSpuriousDisconnect'
  BY <1>1 DEF IInv, RoomInRecv, NoSpuriousDisconnect, endVars, parserVars
<1> QED
  BY <1>5, <1>7, <1>8, <1>10, <1>11, <1>12 DEF IInv

\* Bytes move from the sender into the socket.
LEMMA TransmitKeepsIInv == IInv /\ TransmitBytes => IInv'
<1> SUFFICES ASSUME IInv, TransmitBytes PROVE IInv'
  OBVIOUS
<1>1. PICK n \in 1 .. sizeLeft : written' = written + n /\ sizeLeft' = sizeLeft - n
  BY DEF TransmitBytes
<1>2. UNCHANGED <<sent, endVars, parserVars, pc, connected, erased>>
  BY DEF TransmitBytes
<1>3. n \in Nat /\ written' \in Nat /\ sizeLeft' \in Nat /\ written <= written'
      /\ written' + sizeLeft' = written + sizeLeft /\ sizeLeft > 0
  BY <1>1 DEF IInv, TypeOK
<1>4. TypeOK'
  BY <1>2, <1>3 DEF IInv, TypeOK, endVars, parserVars
<1>5. EndToEnd'
  <2>1. Len(sent) # 0
    BY <1>3 DEF IInv, EndToEnd
  <2>2. sent' = sent /\ End(sent'[Len(sent')]) = End(sent[Len(sent)])
    BY <1>2 DEF End
  <2> QED
    BY <1>3, <2>1, <2>2 DEF IInv, EndToEnd, End
<1> QED
  BY <1>2, <1>4, <1>5
  DEF IInv, PacketsFit, ParserAligned, HeaderRemembered, RoomInRecv, NoSpuriousDisconnect,
      endVars, parserVars, End

\* The client goes away: the stream stays as it is.
LEMMA EndKeepsIInv == IInv /\ (ClientCloses \/ ConnectionResets) => IInv'
<1> SUFFICES ASSUME IInv, ClientCloses \/ ConnectionResets PROVE IInv'
  OBVIOUS
<1>1. /\ eof' = TRUE
      /\ reset' \in {reset, "pending"}
      /\ UNCHANGED <<clientVars, parserVars, pc, connected, erased>>
  BY DEF ClientCloses, ConnectionResets
<1>2. TypeOK'
  BY <1>1 DEF IInv, TypeOK, clientVars, parserVars
<1> QED
  BY <1>1, <1>2
  DEF IInv, PacketsFit, EndToEnd, ParserAligned, HeaderRemembered, RoomInRecv,
      NoSpuriousDisconnect, clientVars, parserVars, End

\* A packet is dispatched: it is the next one, and the parser moves to its end.
LEMMA DispatchKeepsIInv ==
  ASSUME IInv, Parse, NEW h \in CurrentHeaders, Dispatch(h)
  PROVE  /\ Len(handled) < Len(sent)
         /\ handled' = Append(handled, sent[Len(handled) + 1])
         /\ End(sent[Len(handled) + 1]) <= received
         /\ IInv'
<1> DEFINE k == Len(handled) + 1
<1>1. HeaderSize \in Nat \ {0} /\ Len(handled) \in Nat /\ Len(sent) \in Nat
  BY StreamAssumption DEF IInv, TypeOK
<1>2. /\ received - consumed >= h.size + HeaderSize
      /\ handled' = Append(handled, [type |-> h.type, size |-> h.size, at |-> consumed])
      /\ consumed' = consumed + (h.size + HeaderSize)
      /\ mNextPacketType' = NoPacket
      /\ mNextPacketSize' = 0
  BY DEF Dispatch, Complete, WholeSize, mBufferSize, ForgetHeader
<1>3. /\ pc' = "recv"
      /\ UNCHANGED <<clientVars, endVars, received, connected, erased>>
  BY DEF Parse
<1>4. Len(handled) < Len(sent) /\ h = [type |-> sent[k].type, size |-> sent[k].size]
  BY <1>1, <1>2, HeaderIsNext DEF NoHeader, IInv, TypeOK
<1>5. sent[k] \in StreamPacket /\ sent[k].at = consumed
  BY <1>4, NextPacket
<1>6. sent[k] = [type |-> h.type, size |-> h.size, at |-> consumed]
  BY <1>4, <1>5 DEF StreamPacket
<1>7. handled' = Append(handled, sent[k])
  BY <1>2, <1>6
<1>8. consumed' = End(sent[k]) /\ End(sent[k]) <= received
  BY <1>1, <1>2, <1>4, <1>5 DEF End, StreamPacket, IInv, TypeOK
<1>9. /\ Len(handled') = k
      /\ handled'[k] = sent[k]
      /\ \A n \in 1 .. Len(handled) : handled'[n] = handled[n]
      /\ \A n \in 1 .. Len(handled') : n \in 1 .. Len(handled) \/ n = k
      /\ handled' \in Seq(StreamPacket)
  BY <1>5, <1>7 DEF IInv, TypeOK
<1>10. End(sent[k]) \in Nat /\ consumed < End(sent[k])
  BY <1>5, EndAfterStart
<1>11. TypeOK'
  <2>1. /\ consumed' \in Nat /\ consumed' <= received /\ received - consumed' <= BufferCap
    BY <1>8, <1>10, StreamAssumption DEF IInv, TypeOK
  <2> QED
    BY <2>1, <1>2, <1>3, <1>9 DEF IInv, TypeOK, clientVars, endVars
<1>12. ParserAligned'
  <2>1. \A n \in 1 .. Len(handled') : handled'[n] = sent'[n]
    BY <1>3, <1>9 DEF IInv, ParserAligned, clientVars
  <2>2. consumed' = End(sent'[Len(handled')]) /\ Len(handled') <= Len(sent')
    BY <1>1, <1>3, <1>4, <1>8, <1>9 DEF clientVars, End
  <2> QED
    BY <1>1, <1>9, <2>1, <2>2 DEF ParserAligned, End
<1>13. RoomInRecv'
  BY <1>3, <1>8, <1>10, StreamAssumption DEF IInv, RoomInRecv, TypeOK
<1>14. IInv'
  BY <1>2, <1>3, <1>11, <1>12, <1>13
  DEF IInv, PacketsFit, EndToEnd, HeaderRemembered, NoSpuriousDisconnect, clientVars, endVars,
      End
<1> QED
  BY <1>4, <1>7, <1>8, <1>14

\* The packet is not complete: its header may be remembered, and mBuffer has room.
LEMMA AwaitKeepsIInv ==
  ASSUME IInv, Parse, NEW h \in CurrentHeaders, AwaitMore(h)
  PROVE  handled' = handled /\ IInv'
<1>1. HeaderSize \in Nat \ {0} /\ BufferCap \in Nat /\ Len(handled) \in Nat
  BY StreamAssumption DEF IInv, TypeOK
<1>2. /\ ~(received - consumed >= h.size + HeaderSize)
      /\ mNextPacketType' = h.type
      /\ mNextPacketSize' = h.size
      /\ UNCHANGED <<handled, consumed>>
  BY DEF AwaitMore, Complete, WholeSize, mBufferSize, RememberHeader
<1>3. /\ pc' = "recv"
      /\ UNCHANGED <<clientVars, endVars, received, connected, erased>>
  BY DEF Parse
<1>4. /\ HeaderRemembered'
      /\ mNextPacketType' \in PacketType \cup {NoPacket}
      /\ mNextPacketSize' \in Nat
      /\ received - consumed < BufferCap
  <2>1. CASE h = NoHeader /\ received - consumed < HeaderSize
    <3>1. HeaderRemembered' /\ mNextPacketType' = NoPacket /\ mNextPacketSize' = 0
      BY <1>2, <2>1 DEF NoHeader, HeaderRemembered
    <3>2. HeaderSize <= BufferCap
      BY StreamAssumption
    <3> QED
      BY <3>1, <3>2, <2>1, <1>1 DEF IInv, TypeOK
  <2>2. CASE /\ Len(handled) < Len(sent)
             /\ h = [type |-> sent[Len(handled) + 1].type,
                     size |-> sent[Len(handled) + 1].size]
    <3> DEFINE k == Len(handled) + 1
    <3>1. k \in 1 .. Len(sent)
      BY <1>1, <2>2 DEF IInv, TypeOK
    <3>2. sent[k] \in StreamPacket
      BY <2>2, NextPacket
    <3>3. h.type = sent[k].type /\ h.size = sent[k].size
      BY <2>2
    <3>4. HeaderRemembered'
      BY <1>2, <1>3, <2>2, <3>3 DEF HeaderRemembered, clientVars
    <3>5. h.type \in PacketType /\ h.size \in Nat /\ HeaderSize + h.size <= BufferCap
      BY <3>1, <3>2, <3>3 DEF StreamPacket, IInv, PacketsFit
    <3> QED
      BY <1>1, <1>2, <3>4, <3>5 DEF IInv, TypeOK
  <2> QED
    BY <2>1, <2>2, HeaderIsNext
<1>5. TypeOK'
  BY <1>2, <1>3, <1>4 DEF IInv, TypeOK, clientVars, endVars
<1>6. RoomInRecv'
  BY <1>2, <1>3, <1>4 DEF RoomInRecv
<1> QED
  BY <1>2, <1>3, <1>4, <1>5, <1>6
  DEF IInv, PacketsFit, EndToEnd, ParserAligned, NoSpuriousDisconnect, clientVars, endVars, End

\* recv() returns: some bytes, an error, or 0 because the client is gone.
LEMMA RecvKeepsIInv == IInv /\ (RecvBytes \/ RecvFails \/ RecvZero) => IInv'
<1> SUFFICES ASSUME IInv, RecvBytes \/ RecvFails \/ RecvZero PROVE IInv'
  OBVIOUS
<1>1. CASE RecvBytes
  <2>1. PICK n \in 1 .. InFlight : n <= Room /\ received' = received + n
    BY <1>1 DEF RecvBytes
  <2>2. /\ pc' = "parse"
        /\ UNCHANGED <<clientVars, endVars, consumed, mNextPacketType, mNextPacketSize,
                       handled, connected>>
        /\ erased' \in BOOLEAN
    BY <1>1 DEF RecvBytes, EraseIfLate
  <2>3. /\ received' \in Nat
        /\ consumed <= received'
        /\ received' <= written
        /\ received' - consumed <= BufferCap
    BY <2>1, StreamAssumption DEF InFlight, Room, mBufferSize, IInv, TypeOK
  <2>4. TypeOK'
    BY <2>2, <2>3 DEF IInv, TypeOK, clientVars, endVars
  <2> QED
    BY <2>2, <2>4
    DEF IInv, PacketsFit, EndToEnd, ParserAligned, HeaderRemembered, RoomInRecv,
        NoSpuriousDisconnect, clientVars, endVars, End
<1>2. CASE RecvFails
  <2>1. /\ pc' = "parse"
        /\ reset' = "reported"
        /\ erased' \in BOOLEAN
        /\ UNCHANGED <<clientVars, eof, parserVars, connected>>
    BY <1>2 DEF RecvFails, EraseIfLate
  <2>2. TypeOK'
    BY <2>1 DEF IInv, TypeOK, clientVars, parserVars
  <2> QED
    BY <2>1, <2>2
    DEF IInv, PacketsFit, EndToEnd, ParserAligned, HeaderRemembered, RoomInRecv,
        NoSpuriousDisconnect, clientVars, parserVars, End
<1>3. CASE RecvZero
  <2>1. /\ pc = "recv"
        /\ Room = 0 \/ PeerHasClosed
        /\ connected' = FALSE
        /\ UNCHANGED <<clientVars, endVars, parserVars, pc, erased>>
    BY <1>3 DEF RecvZero
  <2>2. Room # 0
    BY <2>1, StreamAssumption DEF IInv, RoomInRecv, TypeOK, Room, mBufferSize
  <2>3. NoSpuriousDisconnect'
    BY <2>1, <2>2 DEF NoSpuriousDisconnect, PeerHasClosed, endVars
  <2>4. TypeOK'
    BY <2>1 DEF IInv, TypeOK, clientVars, endVars, parserVars
  <2> QED
    BY <2>1, <2>3, <2>4
    DEF IInv, PacketsFit, EndToEnd, ParserAligned, HeaderRemembered, RoomInRecv,
        clientVars, endVars, parserVars, End
<1> QED
  BY <1>1, <1>2, <1>3

\* Parse dispatches the next packet or keeps waiting for it.
LEMMA ParseKeepsIInv == IInv /\ Parse => IInv'
<1> SUFFICES ASSUME IInv, Parse PROVE IInv'
  OBVIOUS
<1>1. PICK h \in CurrentHeaders : Dispatch(h) \/ AwaitMore(h)
  BY DEF Parse
<1> QED
  BY <1>1, DispatchKeepsIInv, AwaitKeepsIInv

\* The two ways a packet is sent send one the user's machine can put on the wire.
LEMMA SendSendsAPacket ==
  ASSUME SendFixed \/ SendClipboardText
  PROVE  \E p \in Packets : SendPacketImpl(p.type, p.size)
<1>1. CASE SendFixed
  <2>1. PICK t \in FixedTypes : SendPacketImpl(t, FixedSize[t])
    BY <1>1 DEF SendFixed
  <2> DEFINE p == [type |-> t, size |-> FixedSize[t]]
  <2>2. p \in Packets /\ p.type = t /\ p.size = FixedSize[t]
    BY DEF Packets
  <2> QED
    BY <2>1, <2>2
<1>2. CASE SendClipboardText
  <2>1. PICK c \in ClipSizes : c <= ClipMax /\ SendPacketImpl(ClipboardType, c)
    BY <1>2 DEF SendClipboardText, ClipboardFits
  <2> DEFINE p == [type |-> ClipboardType, size |-> c]
  <2>2. p \in Packets /\ p.type = ClipboardType /\ p.size = c
    BY <2>1 DEF Packets
  <2> QED
    BY <2>1, <2>2
<1> QED
  BY <1>1, <1>2

LEMMA SendKeepsIInvToo == IInv /\ (SendFixed \/ SendClipboardText) => IInv'
<1> SUFFICES ASSUME IInv, SendFixed \/ SendClipboardText PROVE IInv'
  OBVIOUS
<1>1. PICK p \in Packets : SendPacketImpl(p.type, p.size)
  BY SendSendsAPacket
<1>2. [type |-> p.type, size |-> p.size] \in Packets
  BY DEF Packets
<1> QED
  BY <1>1, <1>2, SendKeepsIInv

LEMMA StutterKeepsIInv == IInv /\ UNCHANGED vars => IInv'
  BY DEF vars, clientVars, endVars, parserVars, IInv, TypeOK, PacketsFit, EndToEnd,
         ParserAligned, HeaderRemembered, RoomInRecv, NoSpuriousDisconnect, End

LEMMA NextKeepsIInv == IInv /\ [Next]_vars => IInv'
  BY SendKeepsIInvToo, TransmitKeepsIInv, EndKeepsIInv, ParseKeepsIInv, RecvKeepsIInv,
     StutterKeepsIInv DEF Next

\* The inductive invariant: packets end to end, the parser at a packet boundary.
THEOREM IInvHolds == Spec => []IInv
  BY InitIInv, NextKeepsIInv, PTL DEF Spec

\* Type correctness of both ends; in particular mBuffer never overflows.
THEOREM TypeCorrect == Spec => []TypeOK
<1>1. IInv => TypeOK
  BY DEF IInv
<1> QED
  BY <1>1, IInvHolds, PTL

\* handleEvent never drops a client that has not gone away.
THEOREM NeverDropsALiveClient == Spec => []NoSpuriousDisconnect
<1>1. IInv => NoSpuriousDisconnect
  BY DEF IInv
<1> QED
  BY <1>1, IInvHolds, PTL

-----------------------------------------------------------------------------
\* Only Parse changes what was handled, and it appends one packet.
LEMMA HandledStep ==
  ASSUME IInv, [Next]_vars
  PROVE  \/ handled' = handled
         \/ /\ Parse
            /\ Len(handled) < Len(sent)
            /\ handled' = Append(handled, sent[Len(handled) + 1])
            /\ End(sent[Len(handled) + 1]) <= received
<1>1. CASE Parse
  <2>1. PICK h \in CurrentHeaders : Dispatch(h) \/ AwaitMore(h)
    BY <1>1 DEF Parse
  <2> QED
    BY <1>1, <2>1, DispatchKeepsIInv, AwaitKeepsIInv
<1>2. CASE ~Parse
  BY <1>2 DEF Next, SendFixed, SendClipboardText, SendPacketImpl, TransmitBytes, ClientCloses,
              ConnectionResets, RecvBytes, RecvFails, RecvZero, vars, parserVars
<1> QED
  BY <1>1, <1>2

\* A packet reaches handlePacket only when its last byte is in mBuffer.
THEOREM HandledWhole == Spec => WholeBeforeHandled
<1>1. IInv /\ [Next]_vars =>
        [handled' # handled => /\ Len(handled) < Len(sent)
                              /\ End(sent[Len(handled) + 1]) <= received]_vars
  BY HandledStep
<1> QED
  BY <1>1, IInvHolds, PTL DEF Spec, WholeBeforeHandled

-----------------------------------------------------------------------------
(* PacketStream implements PacketChannel. *)

\* Plain forgets positions, element by element.
LEMMA PlainIsElementwise ==
  ASSUME NEW s \in Seq(StreamPacket)
  PROVE  /\ Plain(s) \in Seq([type : PacketType, size : Nat])
         /\ Len(Plain(s)) = Len(s)
         /\ \A n \in 1 .. Len(s) : Plain(s)[n] = [type |-> s[n].type, size |-> s[n].size]
<1>1. Plain(s) = [n \in 1 .. Len(s) |-> [type |-> s[n].type, size |-> s[n].size]]
  BY DEF Plain
<1>2. \A n \in 1 .. Len(s) : [type |-> s[n].type, size |-> s[n].size]
                              \in [type : PacketType, size : Nat]
  <2> TAKE n \in 1 .. Len(s)
  <2>1. s[n] \in StreamPacket
    OBVIOUS
  <2> QED
    BY <2>1 DEF StreamPacket
<1>3. Len(s) \in Nat
  OBVIOUS
<1> QED
  BY <1>1, <1>2, <1>3

LEMMA PlainOfAppend ==
  ASSUME NEW s \in Seq(StreamPacket), NEW p \in StreamPacket
  PROVE  Plain(Append(s, p)) = Append(Plain(s), [type |-> p.type, size |-> p.size])
<1> DEFINE q == [type |-> p.type, size |-> p.size]
           t == Append(s, p)
<1>1. t \in Seq(StreamPacket) /\ q \in [type : PacketType, size : Nat]
  BY DEF StreamPacket
<1>2. /\ Len(t) = Len(s) + 1
      /\ Len(s) \in Nat
      /\ t[Len(s) + 1] = p
      /\ \A n \in 1 .. Len(s) : t[n] = s[n]
  OBVIOUS
<1> HIDE DEF t
<1>3. /\ Plain(t) \in Seq([type : PacketType, size : Nat])
      /\ Len(Plain(t)) = Len(s) + 1
      /\ \A n \in 1 .. Len(t) : Plain(t)[n] = [type |-> t[n].type, size |-> t[n].size]
  BY <1>1, <1>2, PlainIsElementwise
<1>4. /\ Plain(s) \in Seq([type : PacketType, size : Nat])
      /\ Len(Plain(s)) = Len(s)
      /\ \A n \in 1 .. Len(s) : Plain(s)[n] = [type |-> s[n].type, size |-> s[n].size]
  BY PlainIsElementwise
<1>5. /\ Append(Plain(s), q) \in Seq([type : PacketType, size : Nat])
      /\ Len(Append(Plain(s), q)) = Len(s) + 1
      /\ Append(Plain(s), q)[Len(s) + 1] = q
      /\ \A n \in 1 .. Len(s) : Append(Plain(s), q)[n] = Plain(s)[n]
  BY <1>1, <1>4
<1>6. \A n \in 1 .. Len(s) + 1 : Plain(t)[n] = Append(Plain(s), q)[n]
  <2> SUFFICES ASSUME NEW n \in 1 .. Len(s) + 1
               PROVE  Plain(t)[n] = Append(Plain(s), q)[n]
    OBVIOUS
  <2>1. CASE n = Len(s) + 1
    BY <2>1, <1>2, <1>3, <1>5
  <2>2. CASE n \in 1 .. Len(s)
    <3>1. t[n] = s[n] /\ n \in 1 .. Len(t)
      BY <2>2, <1>2
    <3> QED
      BY <2>2, <3>1, <1>3, <1>4, <1>5
  <2>3. n = Len(s) + 1 \/ n \in 1 .. Len(s)
    BY <1>2
  <2> QED
    BY <2>1, <2>2, <2>3
<1> HIDE DEF q
<1>7. Plain(t) = Append(Plain(s), q)
  BY <1>2, <1>3, <1>5, <1>6
<1> QED
  BY <1>7 DEF t, q

LEMMA InitIsChannelInit == Init => Channel!ChInit
<1> SUFFICES ASSUME Init PROVE Channel!ChInit
  OBVIOUS
<1>1. Plain(<<>>) = <<>>
  BY DEF Plain
<1> QED
  BY <1>1 DEF Init, Channel!ChInit

\* Sending a packet is Accept; a Parse that dispatches is Deliver; the rest leave
\* the channel alone, but for the two ends of the connection and Abandon, the erasure.
LEMMA StepIsChannelStep ==
  ASSUME IInv, [Next]_vars
  PROVE  [Channel!ChNext]_(Channel!chVars)
<1>1. sent \in Seq(StreamPacket) /\ handled \in Seq(StreamPacket)
  BY DEF IInv, TypeOK
<1>2. CASE SendFixed \/ SendClipboardText
  <2>1. PICK p \in Packets : SendPacketImpl(p.type, p.size)
    BY <1>2, SendSendsAPacket
  <2> DEFINE q == [type |-> p.type, size |-> p.size, at |-> written]
  <2>2. q \in StreamPacket
    BY PacketsAreSmall DEF StreamPacket, IInv, TypeOK
  <2>3. p = [type |-> p.type, size |-> p.size] /\ q.type = p.type /\ q.size = p.size
    BY DEF Packets
  <2>4. sent' = Append(sent, q)
    BY <2>1 DEF SendPacketImpl
  <2> HIDE DEF q
  <2>5. Plain(sent') = Append(Plain(sent), p)
    BY <1>1, <2>2, <2>3, <2>4, PlainOfAppend
  <2>6. /\ connected /\ ~eof
        /\ handled' = handled /\ eof' = eof /\ connected' = connected /\ erased' = erased
    BY <2>1 DEF SendPacketImpl, endVars, parserVars
  <2> QED
    BY <2>5, <2>6 DEF Channel!ChNext, Channel!Accept
<1>3. CASE Parse
  <2>1. UNCHANGED <<sent, eof, connected, erased>> /\ connected /\ ~erased
    BY <1>3 DEF Parse, Served, clientVars, endVars
  <2>2. CASE handled' = handled
    BY <2>1, <2>2 DEF Channel!chVars
  <2>3. CASE handled' # handled
    <3> DEFINE p == sent[Len(handled) + 1]
    <3>1. Len(handled) < Len(sent) /\ handled' = Append(handled, p)
      BY <2>3, HandledStep
    <3>2. p \in StreamPacket
      BY <3>1, NextPacket
    <3>3. Plain(handled') = Append(Plain(handled), [type |-> p.type, size |-> p.size])
      BY <1>1, <3>1, <3>2, PlainOfAppend
    <3>4. /\ Len(Plain(handled)) = Len(handled)
          /\ Len(Plain(sent)) = Len(sent)
          /\ Plain(sent)[Len(handled) + 1] = [type |-> p.type, size |-> p.size]
      BY <1>1, <3>1, PlainIsElementwise
    <3>5. Channel!Deliver
      BY <2>1, <3>1, <3>3, <3>4 DEF Channel!Deliver
    <3> QED
      BY <3>5 DEF Channel!ChNext
  <2> QED
    BY <2>2, <2>3
<1>4. CASE ClientCloses \/ ConnectionResets
  <2>1. Channel!HangUp
    BY <1>4 DEF ClientCloses, ConnectionResets, Channel!HangUp, clientVars, parserVars
  <2> QED
    BY <2>1 DEF Channel!ChNext
<1>5. CASE RecvZero
  <2>1. connected /\ ~erased /\ connected' = FALSE /\ UNCHANGED <<sent, handled, eof, erased>>
    BY <1>5 DEF RecvZero, Served, clientVars, endVars, parserVars
  <2>2. eof
    BY <1>5, StreamAssumption DEF RecvZero, PeerHasClosed, Room, mBufferSize, IInv, RoomInRecv, TypeOK
  <2>3. Channel!Drop
    BY <2>1, <2>2 DEF Channel!Drop
  <2> QED
    BY <2>3 DEF Channel!ChNext
<1>6. CASE TransmitBytes \/ UNCHANGED vars
  BY <1>6 DEF TransmitBytes, vars, clientVars, endVars, parserVars, Channel!chVars
<1>7. CASE RecvBytes \/ RecvFails
  <2>1. /\ connected /\ ~erased /\ erased' \in BOOLEAN
        /\ UNCHANGED <<sent, handled, eof, connected>>
    BY <1>7 DEF RecvBytes, RecvFails, Served, EraseIfLate, clientVars, endVars, parserVars
  <2>2. CASE erased'
    <3>1. Channel!Abandon
      BY <2>1, <2>2 DEF Channel!Abandon
    <3> QED
      BY <3>1 DEF Channel!ChNext
  <2>3. CASE ~erased'
    <3>1. erased' = erased
      BY <2>1, <2>3 DEF IInv, TypeOK
    <3> QED
      BY <2>1, <3>1 DEF Channel!chVars
  <2> QED
    BY <2>2, <2>3
<1> QED
  BY <1>2, <1>3, <1>4, <1>5, <1>6, <1>7 DEF Next

\* What handlePacket receives is what sendPacketImpl was given: each packet once,
\* whole, in order, whatever the cuts the network makes in the stream.
THEOREM FramingImplementsChannel == Spec => FramingIsAChannel
  BY InitIsChannelInit, StepIsChannelStep, IInvHolds, PTL
  DEF Spec, FramingIsAChannel, Channel!ChSpec

-----------------------------------------------------------------------------
(* How many complete packets may be left in mBuffer. *)

\* Packets take up room in the stream.
Spread ==
  \A m, n \in 1 .. Len(sent) :
    m <= n => sent[m].at + (n - m + 1) * MinWhole <= End(sent[n])

\* When recv() is called either the next packet is incomplete, or one was just
\* removed from mBuffer.
TightInRecv ==
  pc = "recv" =>
    \/ Len(handled) = Len(sent)
    \/ received < End(sent[Len(handled) + 1])
    \/ received - consumed + MinWhole <= BufferCap

BInv == Spread /\ TightInRecv

LEMMA DivBounds ==
  ASSUME NEW b \in Nat, NEW m \in Nat \ {0}
  PROVE  b \div m \in Nat /\ (b \div m) * m <= b /\ b < (b \div m + 1) * m
  OBVIOUS

LEMMA SpreadOut ==
  ASSUME NEW a \in Nat, NEW e \in Nat, NEW d \in Nat, NEW m \in Nat, a + d * m <= e
  PROVE  a + (d + 1) * m <= e + m
<1>1. (d + 1) * m = d * m + m /\ d * m \in Nat
  OBVIOUS
<1> QED
  BY <1>1

LEMMA InitBInv == Init => BInv
  BY DEF Init, BInv, Spread, TightInRecv

LEMMA SendKeepsBInv ==
  ASSUME IInv, BInv, SendFixed \/ SendClipboardText
  PROVE  BInv'
<1>1. PICK p \in Packets : SendPacketImpl(p.type, p.size)
  BY SendSendsAPacket
<1> DEFINE q == [type |-> p.type, size |-> p.size, at |-> written]
           last == Len(sent) + 1
<1>2. /\ sent' = Append(sent, q)
      /\ sizeLeft = 0
      /\ UNCHANGED <<pc, received, consumed, handled>>
  BY <1>1 DEF SendPacketImpl, parserVars
<1>3. q \in StreamPacket /\ q.at = written /\ q.size \in Nat \ {0} /\ written \in Nat
  BY PacketsAreSmall DEF StreamPacket, IInv, TypeOK
<1> HIDE DEF q
<1>4. /\ Len(sent') = last
      /\ sent'[last] = q
      /\ \A n \in 1 .. Len(sent) : sent'[n] = sent[n] /\ sent[n] \in StreamPacket
      /\ \A n \in 1 .. Len(sent') : n \in 1 .. Len(sent) \/ n = last
      /\ Len(sent) \in Nat
  BY <1>2, <1>3 DEF IInv, TypeOK
<1>5. MinWhole \in Nat /\ written + MinWhole <= End(q) /\ End(q) \in Nat
  BY <1>3, StreamAssumption DEF MinWhole, End
<1>6. Spread'
  <2> SUFFICES ASSUME NEW m \in 1 .. Len(sent'), NEW n \in 1 .. Len(sent'), m <= n
               PROVE  sent'[m].at + (n - m + 1) * MinWhole <= End(sent'[n])
    BY DEF Spread, End, MinWhole
  <2>1. CASE n \in 1 .. Len(sent)
    <3>1. m \in 1 .. Len(sent)
      BY <2>1, <1>4
    <3> QED
      BY <2>1, <3>1, <1>4 DEF BInv, Spread
  <2>2. CASE n = last /\ m = last
    BY <2>2, <1>3, <1>4, <1>5
  <2>3. CASE n = last /\ m \in 1 .. Len(sent)
    <3> DEFINE a == sent[m].at
               d == Len(sent) - m + 1
    <3>1. Len(sent) \in 1 .. Len(sent) /\ m <= Len(sent) /\ d \in Nat /\ n - m + 1 = d + 1
      BY <2>3, <1>4
    <3>2. sent[m] \in StreamPacket /\ a \in Nat
      BY <2>3, <1>4, EndAfterStart
    <3>3. End(sent[Len(sent)]) = written
      BY <1>2, <3>1 DEF IInv, EndToEnd, TypeOK
    <3>4. a + d * MinWhole <= written
      BY <2>3, <3>1, <3>3 DEF BInv, Spread
    <3>5. a + (d + 1) * MinWhole <= written + MinWhole
      BY <1>3, <1>5, <3>1, <3>2, <3>4, SpreadOut
    <3>6. a + (d + 1) * MinWhole \in Nat
      BY <1>5, <3>1, <3>2
    <3>7. a + (d + 1) * MinWhole <= End(q)
      BY <1>3, <1>5, <3>5, <3>6
    <3> QED
      BY <2>3, <3>1, <3>7, <1>4
  <2> QED
    BY <2>1, <2>2, <2>3, <1>4
<1>7. TightInRecv'
  <2>1. Len(handled) <= Len(sent) /\ Len(handled) \in Nat
    BY DEF IInv, ParserAligned, TypeOK
  <2>2. CASE Len(handled) = Len(sent)
    <3>1. received = consumed
      BY <2>2, AllHandledMeansEmpty
    <3>2. received < End(q)
      BY <3>1, <1>3, <1>5, StreamAssumption DEF IInv, TypeOK, MinWhole
    <3> QED
      BY <2>2, <3>2, <1>2, <1>4 DEF TightInRecv, End
  <2>3. CASE Len(handled) < Len(sent)
    <3>1. sent'[Len(handled) + 1] = sent[Len(handled) + 1]
      BY <2>1, <2>3, <1>4
    <3> QED
      BY <2>3, <3>1, <1>2 DEF BInv, TightInRecv, End, MinWhole
  <2> QED
    BY <1>4, <2>1, <2>2, <2>3
<1> QED
  BY <1>6, <1>7 DEF BInv

LEMMA ParseKeepsBInv ==
  ASSUME IInv, BInv, Parse
  PROVE  BInv'
<1>1. PICK h \in CurrentHeaders : Dispatch(h) \/ AwaitMore(h)
  BY DEF Parse
<1>2. UNCHANGED <<sent, received>>
  BY DEF Parse, clientVars
<1>3. Spread'
  BY <1>2 DEF BInv, Spread, End, MinWhole
<1>4. HeaderSize \in Nat \ {0} /\ BufferCap \in Nat /\ Len(handled) \in Nat
  BY StreamAssumption DEF IInv, TypeOK
<1>5. CASE Len(handled) < Len(sent)
           /\ h = [type |-> sent[Len(handled) + 1].type, size |-> sent[Len(handled) + 1].size]
  <2> DEFINE p == sent[Len(handled) + 1]
  <2>1. p \in StreamPacket /\ p.at = consumed /\ Len(handled) + 1 \in 1 .. Len(sent)
    BY <1>4, <1>5, NextPacket DEF IInv, TypeOK
  <2>2. h.size = p.size /\ p.size \in Nat \ {0}
    BY <1>5, <2>1 DEF IInv, PacketsFit
  <2>3. CASE Dispatch(h)
    <3>1. consumed' = consumed + (h.size + HeaderSize)
      BY <2>3 DEF Dispatch, WholeSize
    <3>2. /\ received \in Nat /\ consumed \in Nat /\ received - consumed <= BufferCap
          /\ h.size \in Nat \ {0}
      BY <2>2 DEF IInv, TypeOK
    <3>3. received - consumed' + MinWhole <= BufferCap
      BY <3>1, <3>2, <1>4 DEF MinWhole
    <3> QED
      BY <3>3, <1>2, <1>3 DEF BInv, TightInRecv, MinWhole
  <2>4. CASE AwaitMore(h)
    <3>1. ~(received - consumed >= h.size + HeaderSize) /\ handled' = handled
      BY <2>4 DEF AwaitMore, Complete, WholeSize, mBufferSize
    <3>2. received < End(p)
      BY <3>1, <2>1, <2>2, <1>4 DEF End, IInv, TypeOK
    <3> QED
      BY <3>1, <3>2, <1>2, <1>3 DEF BInv, TightInRecv, End
  <2> QED
    BY <1>1, <2>3, <2>4
<1>6. CASE h = NoHeader /\ received - consumed < HeaderSize
  <2>1. ~Dispatch(h)
    BY <1>6, <1>4 DEF Dispatch, Complete, WholeSize, mBufferSize, NoHeader, IInv, TypeOK
  <2>2. handled' = handled
    BY <1>1, <2>1 DEF AwaitMore
  <2>3. Len(handled) = Len(sent) \/ received < End(sent[Len(handled) + 1])
    <3>1. CASE Len(handled) < Len(sent)
      <4>1. sent[Len(handled) + 1] \in StreamPacket /\ sent[Len(handled) + 1].at = consumed
        BY <3>1, NextPacket
      <4> QED
        BY <4>1, <1>4, <1>6 DEF End, StreamPacket, IInv, TypeOK
    <3> QED
      BY <3>1 DEF IInv, ParserAligned, TypeOK
  <2> QED
    BY <2>2, <2>3, <1>2, <1>3 DEF BInv, TightInRecv, End
<1> QED
  BY <1>5, <1>6, HeaderIsNext

LEMMA NextKeepsBInv == IInv /\ BInv /\ [Next]_vars => BInv'
<1> SUFFICES ASSUME IInv, BInv, [Next]_vars PROVE BInv'
  OBVIOUS
<1>1. CASE RecvBytes \/ RecvFails
  BY <1>1 DEF RecvBytes, RecvFails, clientVars, BInv, Spread, TightInRecv, End, MinWhole
<1>2. CASE TransmitBytes \/ ClientCloses \/ ConnectionResets \/ RecvZero \/ UNCHANGED vars
  BY <1>2 DEF TransmitBytes, ClientCloses, ConnectionResets, RecvZero, vars, clientVars,
              parserVars, BInv, Spread, TightInRecv, End, MinWhole
<1> QED
  BY <1>1, <1>2, SendKeepsBInv, ParseKeepsBInv DEF Next

LEMMA BacklogFollows == IInv /\ BInv => BacklogBounded
<1> SUFFICES ASSUME IInv, BInv, pc = "recv", NEW n \in CompletePackets,
                    ~(n <= Len(handled) + Lag)
             PROVE  FALSE
  BY DEF BacklogBounded
<1> DEFINE k == Len(handled)
           b == BufferCap \div MinWhole
<1>1. /\ n \in 1 .. Len(sent)
      /\ End(sent[n]) <= received
      /\ k \in Nat
      /\ BufferCap \in Nat
      /\ MinWhole \in Nat \ {0}
  BY StreamAssumption DEF CompletePackets, IInv, TypeOK, MinWhole
<1>2. b \in Nat /\ BufferCap < (b + 1) * MinWhole
  BY <1>1, DivBounds
<1>3. Lag = b - 1
  BY DEF Lag
<1>4. MinWhole <= BufferCap
  <2>1. sent[n].size \in Nat \ {0} /\ HeaderSize + sent[n].size <= BufferCap
    BY <1>1 DEF IInv, PacketsFit
  <2> HIDE DEF b
  <2> QED
    BY <2>1, <1>1, StreamAssumption DEF MinWhole
<1>5. b # 0
  BY <1>1, <1>2, <1>4
<1> HIDE DEF b
<1>6. n - k >= b /\ k < n
  BY <1>1, <1>2, <1>3, <1>5
<1>7. k + 1 \in 1 .. Len(sent) /\ k < Len(sent)
  BY <1>1, <1>6 DEF IInv, TypeOK
<1>8. sent[k + 1] \in StreamPacket /\ sent[k + 1].at = consumed /\ sent[n] \in StreamPacket
  BY <1>1, <1>7, NextPacket DEF IInv, TypeOK
<1>9. End(sent[k + 1]) <= End(sent[n])
  <2>1. CASE n = k + 1
    BY <2>1, <1>8, EndAfterStart
  <2>2. CASE n > k + 1
    <3>1. End(sent[k + 1]) <= sent[n].at
      BY <2>2, <1>1, <1>7 DEF IInv, EndToEnd
    <3> QED
      BY <3>1, <1>8, EndAfterStart
  <2> QED
    BY <1>1, <1>6, <2>1, <2>2
<1>10. received - consumed + MinWhole <= BufferCap
  <2>1. ~(received < End(sent[k + 1]))
    BY <1>1, <1>8, <1>9, EndAfterStart DEF IInv, TypeOK
  <2> QED
    BY <2>1, <1>7 DEF BInv, TightInRecv, IInv, TypeOK
<1>11. consumed + (n - k) * MinWhole <= End(sent[n])
  <2>1. sent[k + 1].at + (n - (k + 1) + 1) * MinWhole <= End(sent[n])
    BY <1>1, <1>6, <1>7 DEF BInv, Spread
  <2>2. n - (k + 1) + 1 = n - k
    BY <1>1
  <2> QED
    BY <2>1, <2>2, <1>8
<1>12. (n - k) * MinWhole >= b * MinWhole /\ (n - k) * MinWhole \in Nat /\ b * MinWhole \in Nat
  BY <1>1, <1>2, <1>6
<1>13. (b + 1) * MinWhole = b * MinWhole + MinWhole
  BY <1>1, <1>2
<1> DEFINE x == b * MinWhole
           y == (n - k) * MinWhole
<1>14. x \in Nat /\ y \in Nat /\ x <= y /\ consumed + y <= End(sent[n]) /\ BufferCap < x + MinWhole
  BY <1>2, <1>11, <1>12, <1>13
<1> HIDE DEF x, y
<1>15. End(sent[n]) \in Nat
  BY <1>8, EndAfterStart
<1> QED
  BY <1>1, <1>10, <1>14, <1>15 DEF IInv, TypeOK

\* A server thread that blocks in recv() has left at most Lag complete packets in
\* mBuffer: 454 of them for the 4 KB buffer and packets of 9 bytes and more.
THEOREM BacklogIsBounded == Spec => []BacklogBounded
<1>1. Spec => []BInv
  BY InitBInv, NextKeepsBInv, IInvHolds, PTL DEF Spec
<1> QED
  BY <1>1, BacklogFollows, IInvHolds, PTL

-----------------------------------------------------------------------------
(* What later traffic flushes. *)

\* The server drops the connection in recv(), when there is nothing left to read.
DroppedEmpty == connected \/ (pc = "recv" /\ (InFlight = 0 \/ reset # "none"))

LEMMA NextKeepsDroppedEmpty ==
  ASSUME IInv, DroppedEmpty, [Next]_vars
  PROVE  DroppedEmpty'
<1>1. CASE RecvZero
  <2>1. Room # 0
    BY <1>1, StreamAssumption DEF RecvZero, IInv, TypeOK, RoomInRecv, Room, mBufferSize
  <2> QED
    BY <1>1, <2>1 DEF RecvZero, PeerHasClosed, DroppedEmpty, InFlight, clientVars, endVars, parserVars
<1>2. CASE ClientCloses \/ ConnectionResets \/ UNCHANGED vars
  BY <1>2 DEF ClientCloses, ConnectionResets, vars, DroppedEmpty, InFlight, clientVars, endVars, parserVars
<1>3. CASE SendFixed \/ SendClipboardText \/ TransmitBytes \/ Parse \/ RecvBytes \/ RecvFails
  <2>1. connected'
    <3>1. CASE SendFixed \/ SendClipboardText
      <4>1. PICK p \in Packets : SendPacketImpl(p.type, p.size)
        BY <3>1, SendSendsAPacket
      <4>2. connected /\ UNCHANGED connected
        BY <4>1 DEF SendPacketImpl
      <4> QED
        BY <4>2
    <3>2. CASE TransmitBytes
      BY <3>2 DEF TransmitBytes
    <3>3. CASE Parse
      BY <3>3 DEF Parse, Served
    <3>4. CASE RecvBytes \/ RecvFails
      BY <3>4 DEF RecvBytes, RecvFails, Served
    <3> QED
      BY <1>3, <3>1, <3>2, <3>3, <3>4
  <2> QED
    BY <2>1 DEF DroppedEmpty
<1> QED
  BY <1>1, <1>2, <1>3 DEF Next

\* In recv() a packet that is to be flushed waits for bytes that are on their way.
LEMMA UnflushedIsAhead ==
  ASSUME IInv, BacklogBounded, NEW n \in 1 .. MaxPackets, Unflushed(n)
  PROVE  /\ End(sent[n + Lag]) \in Nat /\ End(sent[n + Lag]) <= written
         /\ pc = "recv" => received < End(sent[n + Lag])
<1> DEFINE j == n + Lag
<1>1. j \in 1 .. Len(sent) /\ End(sent[j]) <= written /\ Len(handled) < n
  BY DEF Unflushed, IInv, TypeOK
<1>2. sent[j] \in StreamPacket
  BY <1>1 DEF IInv, TypeOK
<1>3. End(sent[j]) \in Nat
  BY <1>2, EndAfterStart
<1>4. n \in Nat /\ Len(handled) \in Nat /\ received \in Nat /\ \E b \in Nat : Lag = b - 1
  <2>1. MinWhole \in Nat \ {0} /\ BufferCap \in Nat
    BY StreamAssumption DEF MinWhole
  <2>2. BufferCap \div MinWhole \in Nat
    BY <2>1, DivBounds
  <2>3. Lag = (BufferCap \div MinWhole) - 1
    BY DEF Lag
  <2>4. n \in Nat /\ Len(handled) \in Nat /\ received \in Nat
    BY StreamAssumption DEF IInv, TypeOK
  <2> QED
    BY <2>2, <2>3, <2>4
<1>5. ASSUME pc = "recv", End(sent[j]) <= received
      PROVE  FALSE
  <2>1. j \in CompletePackets
    BY <1>1, <1>5 DEF CompletePackets
  <2>2. j <= Len(handled) + Lag
    BY <1>5, <2>1 DEF BacklogBounded
  <2>3. PICK b \in Nat : Lag = b - 1
    BY <1>4
  <2>4. n + (b - 1) <= Len(handled) + (b - 1)
    BY <2>2, <2>3
  <2> QED
    BY <1>1, <1>4, <2>4
<1> HIDE DEF j
<1>6. pc = "recv" => received < End(sent[j])
  BY <1>3, <1>4, <1>5
<1> QED
  BY <1>1, <1>3, <1>6 DEF j

LEMMA FlushFollows == IInv /\ BacklogBounded /\ DroppedEmpty => FlushGoesOn
<1> SUFFICES ASSUME IInv, BacklogBounded, DroppedEmpty, NEW n \in 1 .. MaxPackets, Unflushed(n)
             PROVE  connected /\ (pc = "recv" => InFlight > 0 /\ Room > 0)
  BY DEF FlushGoesOn
<1>1. pc = "recv" => InFlight > 0
  <2> DEFINE e == End(sent[n + Lag])
  <2>1. e \in Nat /\ e <= written /\ (pc = "recv" => received < e)
    BY UnflushedIsAhead
  <2> HIDE DEF e
  <2> QED
    BY <2>1 DEF InFlight, IInv, TypeOK
<1>2. pc = "recv" => Room > 0
  BY StreamAssumption DEF IInv, TypeOK, RoomInRecv, Room, mBufferSize
<1>3. connected
  BY <1>1 DEF DroppedEmpty, Unflushed, InFlight, IInv, TypeOK
<1> QED
  BY <1>1, <1>2, <1>3

LEMMA BytesComeIn ==
  ASSUME NEW e \in Nat, NEW r \in Nat, NEW k \in Nat \ {0}, r < e
  PROVE  2 * (IF r + k < e THEN e - (r + k) ELSE 0) + 1 < 2 * (IF r < e THEN e - r ELSE 0) + 0
OBVIOUS

LEMMA ParseGoesOn ==
  ASSUME NEW b \in Nat
  PROVE  2 * b + 0 < 2 * b + 1
OBVIOUS

LEMMA StepFlushes ==
  ASSUME IInv, BacklogBounded, [Next]_vars, NEW n \in 1 .. MaxPackets, Unflushed(n)
  PROVE  UNCHANGED <<pc, received>> \/ FlushLeft(n)' < FlushLeft(n)
<1> DEFINE e == End(sent[n + Lag])
<1>1. e \in Nat /\ (pc = "recv" => received < e) /\ received \in Nat
  BY UnflushedIsAhead DEF IInv, TypeOK
<1>2. CASE Parse
  <2>1. pc = "parse" /\ pc' = "recv" /\ BytesAhead(n)' = BytesAhead(n)
    BY <1>2 DEF Parse, clientVars, BytesAhead, End
  <2>2. BytesAhead(n) \in Nat
    <3> HIDE DEF e
    <3>1. (IF received < e THEN e - received ELSE 0) \in Nat
      BY <1>1
    <3> QED
      BY <3>1 DEF BytesAhead, e
  <2>3. FlushLeft(n)' = 2 * BytesAhead(n) + 0 /\ FlushLeft(n) = 2 * BytesAhead(n) + 1
    BY <2>1 DEF FlushLeft
  <2> QED
    BY <2>2, <2>3, ParseGoesOn
<1>3. CASE RecvBytes
  <2>1. PICK k \in 1 .. InFlight : received' = received + k
    BY <1>3 DEF RecvBytes
  <2>2. k \in Nat \ {0}
    BY <2>1 DEF InFlight, IInv, TypeOK
  <2>3. pc = "recv" /\ pc' = "parse" /\ sent' = sent
    BY <1>3 DEF RecvBytes, clientVars
  <2>4. e' = e
    BY <2>3 DEF End
  <2>5. BytesAhead(n) = (IF received < e THEN e - received ELSE 0)
        /\ BytesAhead(n)' = (IF received + k < e THEN e - (received + k) ELSE 0)
    BY <2>1, <2>4 DEF BytesAhead
  <2> HIDE DEF e
  <2>6. /\ FlushLeft(n)' = 2 * (IF received + k < e THEN e - (received + k) ELSE 0) + 1
        /\ FlushLeft(n) = 2 * (IF received < e THEN e - received ELSE 0) + 0
    BY <2>3, <2>5 DEF FlushLeft
  <2>7. received < e
    BY <1>1, <2>3
  <2> QED
    BY <1>1, <2>2, <2>6, <2>7, BytesComeIn
<1>4. ~RecvFails
  BY DEF RecvFails, Unflushed
<1>5. CASE SendFixed \/ SendClipboardText \/ TransmitBytes \/ ClientCloses \/ ConnectionResets
           \/ RecvZero \/ UNCHANGED vars
  BY <1>5 DEF SendFixed, SendClipboardText, SendPacketImpl, TransmitBytes, ClientCloses, ConnectionResets,
              RecvZero, vars, parserVars
<1> QED
  BY <1>2, <1>3, <1>4, <1>5 DEF Next

LEMMA FlushLeftIsNat ==
  ASSUME IInv, BacklogBounded, NEW n \in 1 .. MaxPackets, Unflushed(n)
  PROVE  FlushLeft(n) \in Nat
<1> DEFINE e == End(sent[n + Lag])
<1>1. e \in Nat /\ received \in Nat
  BY UnflushedIsAhead DEF IInv, TypeOK
<1>2. BytesAhead(n) = IF received < e THEN e - received ELSE 0
  BY DEF BytesAhead
<1> HIDE DEF e
<1>3. BytesAhead(n) \in Nat
  BY <1>1, <1>2
<1> QED
  BY <1>3 DEF FlushLeft

\* For any sizes, and however the stream is cut: once enough was sent behind a packet that
\* handleEvent left in mBuffer, and unless there is a reset or the client is erased for its
\* 15 seconds, the server does not close the connection, no recv() of it waits, and there is
\* a bound on the steps in which it comes to the packet which only gets smaller.
THEOREM LaterTrafficCountsDown ==
  Spec => /\ []FlushGoesOn
          /\ FlushCountsDown
          /\ [](\A n \in 1 .. MaxPackets : Unflushed(n) => FlushLeft(n) \in Nat)
<1>1. Spec => [](IInv /\ BacklogBounded)
  BY IInvHolds, BacklogIsBounded, PTL
<1>2. Init => DroppedEmpty
  BY DEF Init, DroppedEmpty
<1>3. IInv /\ DroppedEmpty /\ [Next]_vars => DroppedEmpty'
  BY NextKeepsDroppedEmpty
<1>4. Spec => [](IInv /\ BacklogBounded /\ DroppedEmpty)
  BY <1>1, <1>2, <1>3, PTL DEF Spec
<1>5. IInv /\ BacklogBounded /\ [Next]_vars =>
        [\A n \in 1 .. MaxPackets : Unflushed(n) /\ Unflushed(n)' =>
           UNCHANGED <<pc, received>> \/ FlushLeft(n)' < FlushLeft(n)]_vars
  BY StepFlushes
<1>6. Spec => FlushCountsDown
  BY <1>1, <1>5, PTL DEF Spec, FlushCountsDown
<1>7. Spec => []FlushGoesOn
  BY <1>4, FlushFollows, PTL
<1>8. IInv /\ BacklogBounded => \A n \in 1 .. MaxPackets : Unflushed(n) => FlushLeft(n) \in Nat
  BY FlushLeftIsNat
<1>9. Spec => [](\A n \in 1 .. MaxPackets : Unflushed(n) => FlushLeft(n) \in Nat)
  BY <1>1, <1>8, PTL
<1> QED
  BY <1>6, <1>7, <1>9

=============================================================================
