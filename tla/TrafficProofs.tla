---------------------------- MODULE TrafficProofs ----------------------------
(***************************************************************************)
(* Proofs about Traffic, for any number of clients and any capacities.     *)
(***************************************************************************)
EXTENDS Traffic, TLAPS, SequenceTheorems

\* push_back is used wherever a step accepts a client.
USE DEF PushBack

Occurs(c, seq) == \E k \in DOMAIN seq : seq[k] = c

\* The server thread will come to a client.
Known(c) == Occurs(c, backlog) \/ Occurs(c, mClients)

\* The clients that asked are in the vector that the next round will be sent to.
AskedAreListed == \A c \in asked : Occurs(c, mClients)

\* Whoever calls recv() has room for what comes: a packet was taken out before.
RoomToReceive ==
  /\ spc = "recv" => Len(inbox[Visited]) < InboxCap
  /\ \A c \in Client : cpc[c] = "recv" => buffered[c] < BufferCap

\* The server thread will come to every client that runs or has sent something ...
RunningAreKnown == \A c \in Client : cpc[c] # "off" \/ toServer[c] # <<>> => Known(c)

\* ... and to nobody else.
KnownAreRunning == \A c \in Client : Known(c) => cpc[c] # "off"

\* The render thread sends to clients of the vector: it only grows.
ReceiversAreListed == \A c \in Client : Occurs(c, receivers) => Occurs(c, mClients)

\* Who may have to wait for whom.
WaitInv == RoomToReceive /\ RunningAreKnown /\ KnownAreRunning /\ ReceiversAreListed

IInv == TypeOK /\ AskedAreListed /\ HelloIsKept /\ WaitInv

USE DEF vars, clientVars, wireVars, serverVars, renderVars

-----------------------------------------------------------------------------
(* Type correctness. *)

LEMMA InitType == Init => TypeOK
<1> SUFFICES ASSUME Init PROVE TypeOK
  OBVIOUS
<1>1. \A S : <<>> \in Seq(S)
  OBVIOUS
<1>2. \A c \in Client : Len(toServer[c]) <= SocketCap /\ Len(inbox[c]) <= InboxCap
  <2>1. \A c \in Client : toServer[c] = <<>> /\ inbox[c] = <<>>
    BY DEF Init
  <2>2. Len(<<>>) = 0 /\ 0 <= SocketCap /\ 0 <= InboxCap
    BY TrafficAssumption
  <2> QED BY <2>1, <2>2
<1>3. 0 \in 0 .. BufferCap /\ 0 \in 0 .. SocketCap
  BY TrafficAssumption
<1> QED BY <1>1, <1>2, <1>3 DEF Init, TypeOK

\* A packet that is added to a connection.
LEMMA AddedType ==
  ASSUME NEW S, NEW seq \in Seq(S), NEW x \in S
  PROVE  /\ Append(seq, x) \in Seq(S) /\ Len(Append(seq, x)) = Len(seq) + 1 /\ Len(seq) \in Nat
         /\ Append(seq, x)[Len(seq) + 1] = x
         /\ \A k \in DOMAIN seq : k \in DOMAIN Append(seq, x) /\ Append(seq, x)[k] = seq[k]
<1>1. DOMAIN seq = 1 .. Len(seq) /\ Len(seq) \in Nat
  BY LenProperties
<1>2. /\ Append(seq, x) \in Seq(S) /\ Len(Append(seq, x)) = Len(seq) + 1
      /\ \A k \in 1 .. Len(seq) : Append(seq, x)[k] = seq[k]
      /\ Append(seq, x)[Len(seq) + 1] = x
  BY AppendProperties
<1>3. DOMAIN Append(seq, x) = 1 .. Len(seq) + 1
  BY <1>2, LenProperties
<1> QED BY <1>1, <1>2, <1>3

\* The first n packets go to the buffer, the others stay.
LEMMA SplitType ==
  ASSUME NEW S, NEW seq \in Seq(S), NEW buffer \in Seq(S), NEW n \in 1 .. Len(seq)
  PROVE  /\ buffer \o SubSeq(seq, 1, n) \in Seq(S)
         /\ Len(buffer \o SubSeq(seq, 1, n)) = Len(buffer) + n
         /\ SubSeq(seq, n + 1, Len(seq)) \in Seq(S)
         /\ Len(SubSeq(seq, n + 1, Len(seq))) = Len(seq) - n
<1>1. Len(seq) \in Nat /\ \A k \in 1 .. Len(seq) : seq[k] \in S
  BY LenProperties, ElementOfSeq
<1>2. SubSeq(seq, 1, n) \in Seq(S) /\ Len(SubSeq(seq, 1, n)) = n
  BY <1>1, SubSeqProperties
<1>3. SubSeq(seq, n + 1, Len(seq)) \in Seq(S) /\ Len(SubSeq(seq, n + 1, Len(seq))) = Len(seq) - n
  <2>1. \A k \in n + 1 .. Len(seq) : seq[k] \in S
    BY <1>1
  <2>2. Len(SubSeq(seq, n + 1, Len(seq))) = IF n + 1 <= Len(seq) THEN Len(seq) - (n + 1) + 1 ELSE 0
    BY <1>1, <2>1, SubSeqProperties
  <2> QED BY <1>1, <2>1, <2>2, SubSeqProperties
<1> QED BY <1>2, <1>3, ConcatProperties

\* Who is in a sequence that somebody was added to ...
LEMMA AddedOccurs ==
  ASSUME NEW S, NEW seq \in Seq(S), NEW x \in S, NEW c
  PROVE  Occurs(c, Append(seq, x)) <=> Occurs(c, seq) \/ c = x
<1>1. /\ DOMAIN seq = 1 .. Len(seq) /\ Len(seq) \in Nat
      /\ DOMAIN Append(seq, x) = 1 .. Len(seq) + 1
      /\ Append(seq, x)[Len(seq) + 1] = x
      /\ \A k \in 1 .. Len(seq) : Append(seq, x)[k] = seq[k]
  BY AddedType, LenProperties
<1>2. 1 .. Len(seq) + 1 = 1 .. Len(seq) \cup {Len(seq) + 1}
  BY <1>1
<1> QED BY <1>1, <1>2 DEF Occurs

\* ... and in one whose first element is taken away.
LEMMA TakenOccurs ==
  ASSUME NEW S, NEW seq \in Seq(S), seq # <<>>, NEW c
  PROVE  Occurs(c, seq) <=> Occurs(c, Tail(seq)) \/ c = Head(seq)
<1>1. /\ Len(seq) \in Nat \ {0} /\ DOMAIN seq = 1 .. Len(seq)
      /\ Tail(seq) \in Seq(S) /\ Len(Tail(seq)) = Len(seq) - 1 /\ Head(seq) = seq[1]
      /\ \A k \in 1 .. Len(seq) - 1 : Tail(seq)[k] = seq[k + 1]
  BY HeadTailProperties, LenProperties, EmptySeq
<1>2. DOMAIN Tail(seq) = 1 .. Len(seq) - 1
  BY <1>1, LenProperties
<1>3. ASSUME NEW k \in 1 .. Len(seq), seq[k] = c
      PROVE  Occurs(c, Tail(seq)) \/ c = Head(seq)
  <2>1. CASE k = 1
    BY <1>1, <1>3, <2>1
  <2>2. CASE k # 1
    <3>1. k - 1 \in 1 .. Len(seq) - 1 /\ (k - 1) + 1 = k
      BY <1>1, <2>2
    <3> QED BY <1>1, <1>2, <1>3, <3>1 DEF Occurs
  <2> QED BY <2>1, <2>2
<1>4. ASSUME NEW k \in 1 .. Len(seq) - 1, Tail(seq)[k] = c
      PROVE  Occurs(c, seq)
  <2>1. k + 1 \in 1 .. Len(seq)
    BY <1>1
  <2> QED BY <1>1, <1>4, <2>1 DEF Occurs
<1>5. 1 \in DOMAIN seq
  BY <1>1
<1> QED BY <1>1, <1>2, <1>3, <1>4, <1>5 DEF Occurs

LEMMA NobodyInEmpty == \A c : ~Occurs(c, <<>>)
BY DEF Occurs

LEMMA ClientType ==
  ASSUME TypeOK, NEW c \in Client, Start(c) \/ ClientStep(c)
  PROVE  TypeOK'
<1>1. CASE Start(c)
  <2>1. backlog' \in Seq(Client) /\ <<"Hello">> \in Seq(Kind)
    BY <1>1, AddedType DEF Start, TypeOK, Kind
  <2> QED BY <1>1, <2>1 DEF Start, TypeOK
<1>2. CASE SendPacket(c)
  <2>1. outbox[c] \in Seq(Kind) /\ outbox[c] # <<>> /\ toServer[c] \in Seq(Kind)
    BY <1>2 DEF SendPacket, TypeOK
  <2>2. Head(outbox[c]) \in Kind /\ Tail(outbox[c]) \in Seq(Kind)
    BY <2>1, HeadTailProperties
  <2>3. /\ Append(toServer[c], Head(outbox[c])) \in Seq(Kind) /\ Len(toServer[c]) \in Nat
        /\ Len(Append(toServer[c], Head(outbox[c]))) = Len(toServer[c]) + 1
    BY <2>1, <2>2, AddedType
  <2>4. toServer' \in [Client -> Seq(Kind)] /\ outbox' \in [Client -> Seq(Kind)]
    BY <1>2, <2>2, <2>3 DEF SendPacket, TypeOK
  <2>5. \A d \in Client : Len(toServer'[d]) <= SocketCap
    <3>1. Len(toServer'[c]) <= SocketCap
      BY <1>2, <2>3, TrafficAssumption DEF SendPacket, TypeOK
    <3>2. \A d \in Client \ {c} : toServer'[d] = toServer[d]
      BY <1>2 DEF SendPacket, TypeOK
    <3> QED BY <3>1, <3>2 DEF TypeOK
  <2> QED BY <1>2, <2>4, <2>5 DEF SendPacket, TypeOK
<1>3. CASE HandlePicture(c)
  <2>1. Removed(buffered[c]) \in 0 .. BufferCap
    BY TrafficAssumption DEF TypeOK, Removed
  <2> QED BY <1>3, <2>1 DEF HandlePicture, TypeOK
<1>4. CASE RecvPictures(c)
  <2>1. PICK n \in 1 .. toClient[c] :
          /\ buffered[c] + n <= BufferCap
          /\ buffered' = [buffered EXCEPT ![c] = @ + n]
          /\ toClient' = [toClient EXCEPT ![c] = @ - n]
    BY <1>4 DEF RecvPictures
  <2>2. buffered[c] + n \in 0 .. BufferCap /\ toClient[c] - n \in 0 .. SocketCap
    <3>1. /\ buffered[c] \in 0 .. BufferCap /\ toClient[c] \in 0 .. SocketCap
          /\ BufferCap \in Nat /\ SocketCap \in Nat
      BY TrafficAssumption DEF TypeOK
    <3> QED BY <2>1, <3>1
  <2>3. PICK packets \in Packets(c) : outbox' = [outbox EXCEPT ![c] = packets]
    BY <1>4 DEF RecvPictures
  <2>4. packets \in Seq(Kind)
    <3>1. <<>> \in Seq(Kind) /\ <<"Alive">> \in Seq(Kind) /\ <<"Mouse">> \in Seq(Kind)
      BY DEF Kind
    <3> QED BY <2>3, <3>1 DEF Packets
  <2> QED BY <1>4, <2>1, <2>2, <2>3, <2>4 DEF RecvPictures, TypeOK
<1> QED BY <1>1, <1>2, <1>3, <1>4 DEF ClientStep

\* The client the server thread visits is in the vector.
LEMMA VisitedListed ==
  ASSUME TypeOK, spc # "select"
  PROVE  Visited \in Client /\ turn \in DOMAIN mClients /\ Len(mClients) \in Nat
<1>1. mClients \in Seq(Client) /\ turn \in 1 .. Len(mClients)
  BY DEF TypeOK
<1> QED BY <1>1, LenProperties, ElementOfSeq DEF Visited

LEMMA ServerType ==
  ASSUME TypeOK, ServerStep
  PROVE  TypeOK'
<1>1. CASE Select
  <2>1. mClients' \in Seq(Client) /\ backlog' \in Seq(Client) /\ mClients' # <<>>
    <3>1. CASE backlog # <<>>
      <4>1. Head(backlog) \in Client /\ Tail(backlog) \in Seq(Client)
        BY <3>1, HeadTailProperties DEF TypeOK
      <4>2. /\ mClients' = Append(mClients, Head(backlog)) /\ backlog' = Tail(backlog)
            /\ mClients \in Seq(Client) /\ mClients' # <<>>
        BY <1>1, <3>1 DEF Select, TypeOK
      <4> QED BY <4>1, <4>2, AddedType
    <3>2. CASE backlog = <<>>
      BY <1>1, <3>2 DEF Select, TypeOK
    <3> QED BY <3>1, <3>2
  <2>2. 1 \in 1 .. Len(mClients')
    BY <2>1, EmptySeq
  <2> QED BY <1>1, <2>1, <2>2 DEF Select, TypeOK
<1>2. CASE Visit
  <2>1. Visited \in Client
    BY <1>2, VisitedListed DEF Visit
  <2>2. CASE inbox[Visited] = <<>>
    BY <1>2, <2>2 DEF Visit, TypeOK
  <2>3. CASE inbox[Visited] # <<>>
    <3>1. inbox[Visited] \in Seq(Kind)
      BY <2>1 DEF TypeOK
    <3>2. /\ Tail(inbox[Visited]) \in Seq(Kind) /\ Len(inbox[Visited]) \in Nat
          /\ Len(Tail(inbox[Visited])) = Len(inbox[Visited]) - 1
      BY <2>3, <3>1, HeadTailProperties, LenProperties
    <3>3. inbox' = [inbox EXCEPT ![Visited] = Tail(@)] /\ asked' \subseteq Client /\ sRerender' \in BOOLEAN
      BY <1>2, <2>1, <2>3 DEF Visit, TypeOK
    <3>4. inbox' \in [Client -> Seq(Kind)] /\ \A d \in Client : Len(inbox'[d]) <= InboxCap
      <4>1. inbox' \in [Client -> Seq(Kind)]
        BY <3>2, <3>3 DEF TypeOK
      <4>2. \A d \in Client \ {Visited} : inbox'[d] = inbox[d]
        BY <3>3 DEF TypeOK
      <4>3. Len(inbox'[Visited]) <= InboxCap
        BY <2>1, <3>2, <3>3, TrafficAssumption DEF TypeOK
      <4> QED BY <4>1, <4>2, <4>3 DEF TypeOK
    <3> QED BY <1>2, <3>3, <3>4 DEF Visit, TypeOK
  <2> QED BY <2>2, <2>3
<1>3. CASE RecvPackets
  <2>1. Visited \in Client /\ Len(mClients) \in Nat
    BY <1>3, VisitedListed DEF RecvPackets
  <2> DEFINE v == Visited
  <2>2. PICK n \in 1 .. Len(toServer[v]) :
          /\ Len(inbox[v]) + n <= InboxCap
          /\ inbox' = [inbox EXCEPT ![v] = @ \o SubSeq(toServer[v], 1, n)]
          /\ toServer' = [toServer EXCEPT ![v] = SubSeq(@, n + 1, Len(@))]
    BY <1>3 DEF RecvPackets, Arrived
  <2>3. toServer[v] \in Seq(Kind) /\ inbox[v] \in Seq(Kind) /\ Len(toServer[v]) \in Nat
    BY <2>1 DEF TypeOK
  <2>4. /\ inbox[v] \o SubSeq(toServer[v], 1, n) \in Seq(Kind)
        /\ Len(inbox[v] \o SubSeq(toServer[v], 1, n)) = Len(inbox[v]) + n
        /\ SubSeq(toServer[v], n + 1, Len(toServer[v])) \in Seq(Kind)
        /\ Len(SubSeq(toServer[v], n + 1, Len(toServer[v]))) = Len(toServer[v]) - n
    BY <2>3, SplitType
  <2> HIDE DEF v
  <2>5. /\ inbox' \in [Client -> Seq(Kind)] /\ toServer' \in [Client -> Seq(Kind)]
        /\ \A d \in Client \ {v} : inbox'[d] = inbox[d] /\ toServer'[d] = toServer[d]
        /\ Len(inbox'[v]) = Len(inbox[v]) + n /\ Len(toServer'[v]) = Len(toServer[v]) - n
    BY <2>1, <2>2, <2>4 DEF TypeOK, v
  <2>6. \A d \in Client : Len(inbox'[d]) <= InboxCap /\ Len(toServer'[d]) <= SocketCap
    <3>1. Len(inbox'[v]) <= InboxCap /\ Len(toServer'[v]) <= SocketCap
      BY <2>1, <2>2, <2>3, <2>5, TrafficAssumption DEF TypeOK, v
    <3> QED BY <2>5, <3>1 DEF TypeOK
  <2>7. spc' \in {"select", "visit"} /\ turn' \in Nat /\ (spc' # "select" => turn' \in 1 .. Len(mClients))
    <3>1. turn \in 1 .. Len(mClients)
      BY <1>3 DEF RecvPackets, TypeOK
    <3>2. CASE turn = Len(mClients)
      BY <1>3, <2>1, <3>1, <3>2 DEF RecvPackets, NextTurn
    <3>3. CASE turn # Len(mClients)
      <4>1. spc' = "visit" /\ turn' = turn + 1
        BY <1>3, <3>3 DEF RecvPackets, NextTurn
      <4> QED BY <2>1, <3>1, <3>3, <4>1
    <3> QED BY <3>2, <3>3
  <2> QED BY <1>3, <2>5, <2>6, <2>7 DEF RecvPackets, TypeOK
<1> QED BY <1>1, <1>2, <1>3 DEF ServerStep

LEMMA RenderType ==
  ASSUME TypeOK, RenderStep \/ ChangePicture
  PROVE  TypeOK'
<1>1. CASE TestRerender
  BY <1>1 DEF TestRerender, TypeOK
<1>2. CASE StartSending
  BY <1>2 DEF StartSending, TypeOK
<1>3. CASE SendPicture
  <2>1. Head(receivers) \in Client /\ Tail(receivers) \in Seq(Client)
    BY <1>3, HeadTailProperties DEF SendPicture, TypeOK
  <2>2. toClient[Head(receivers)] + 1 \in 0 .. SocketCap
    <3>1. /\ toClient[Head(receivers)] \in 0 .. SocketCap /\ SocketCap \in Nat
          /\ toClient[Head(receivers)] < SocketCap
      BY <1>3, <2>1, TrafficAssumption DEF SendPicture, HasRoom, TypeOK
    <3> QED BY <3>1
  <2> QED BY <1>3, <2>1, <2>2 DEF SendPicture, KeptWhenSent, TypeOK
<1>4. CASE ChangePicture
  BY <1>4 DEF ChangePicture, TypeOK
<1> QED BY <1>1, <1>2, <1>3, <1>4 DEF RenderStep

LEMMA StepType ==
  ASSUME TypeOK, [Next]_vars
  PROVE  TypeOK'
<1>1. CASE UNCHANGED vars
  BY <1>1 DEF TypeOK
<1> QED BY <1>1, ClientType, ServerType, RenderType DEF Next, Threads

-----------------------------------------------------------------------------
(* Requests. *)

\* The vector only grows, the backlog loses a client only to it, and nobody gets into it
\* but by starting.
LEMMA KnownStep ==
  ASSUME TypeOK, [Next]_vars, NEW c
  PROVE  /\ Occurs(c, mClients) => Occurs(c, mClients')
         /\ Known(c)' <=> Known(c) \/ (c \in Client /\ Start(c))
<1>0. c \in Client /\ Start(c) => Occurs(c, backlog')
  BY AddedOccurs DEF Start, TypeOK
<1>1. CASE UNCHANGED <<backlog, mClients>>
  BY <1>0, <1>1 DEF Occurs, Known
<1>2. CASE Select
  <2>1. CASE backlog = <<>>
    BY <1>0, <1>2, <2>1 DEF Select, Occurs, Known
  <2>2. CASE backlog # <<>>
    <3>1. Head(backlog) \in Client /\ mClients \in Seq(Client) /\ backlog \in Seq(Client)
      BY <2>2, HeadTailProperties DEF TypeOK
    <3>2. mClients' = Append(mClients, Head(backlog)) /\ backlog' = Tail(backlog)
      BY <1>2, <2>2 DEF Select
    <3>3. Occurs(c, mClients') <=> Occurs(c, mClients) \/ c = Head(backlog)
      BY <3>1, <3>2, AddedOccurs
    <3>4. Occurs(c, backlog) <=> Occurs(c, backlog') \/ c = Head(backlog)
      BY <2>2, <3>1, <3>2, TakenOccurs
    <3> QED BY <1>0, <3>3, <3>4 DEF Known
  <2> QED BY <2>1, <2>2
<1>3. CASE \E d \in Client : Start(d)
  <2>1. PICK d \in Client : Start(d)
    BY <1>3
  <2>2. mClients' = mClients /\ backlog' = Append(backlog, d) /\ backlog \in Seq(Client)
    BY <2>1 DEF Start, TypeOK
  <2>3. Occurs(c, backlog') <=> Occurs(c, backlog) \/ c = d
    BY <2>2, AddedOccurs
  <2> QED BY <1>0, <2>1, <2>2, <2>3 DEF Known
<1> QED
  BY <1>1, <1>2, <1>3
  DEF Next, Threads, ServerStep, RenderStep, ClientStep, SendPacket, HandlePicture, RecvPictures,
      Visit, RecvPackets, ChangePicture, TestRerender, StartSending, SendPicture

LEMMA StepListed ==
  ASSUME TypeOK, AskedAreListed, [Next]_vars
  PROVE  AskedAreListed'
<1>1. \A c : Occurs(c, mClients) => Occurs(c, mClients')
  BY KnownStep
<1>2. CASE Visit
  <2>1. Occurs(Visited, mClients)
    BY <1>2, VisitedListed DEF Visit, Visited, Occurs
  <2>2. asked' \subseteq asked \cup {Visited}
    BY <1>2 DEF Visit
  <2> QED BY <1>1, <2>1, <2>2 DEF AskedAreListed
<1>3. CASE asked' \subseteq asked
  BY <1>1, <1>3 DEF AskedAreListed
<1> QED
  BY <1>2, <1>3
  DEF Next, Threads, ServerStep, RenderStep, ClientStep, Start, SendPacket, HandlePicture, RecvPictures,
      Select, RecvPackets, ChangePicture, TestRerender, StartSending, SendPicture

LEMMA StepKept ==
  ASSUME IInv, [Next]_vars
  PROVE  HelloIsKept'
<1> DEFINE Kept(c) == sRerender \/ (rpc = "send" /\ Occurs(c, receivers))
<1>0. (HelloIsKept <=> \A c \in asked : Kept(c)) /\ (HelloIsKept' <=> \A c \in asked' : Kept(c)')
  BY DEF HelloIsKept, Occurs
<1>1. CASE UNCHANGED <<asked, sRerender, rpc, receivers>>
  BY <1>1 DEF IInv, HelloIsKept
<1>2. CASE Visit
  <2>1. /\ UNCHANGED <<rpc, receivers>>
        /\ sRerender => sRerender'
        /\ \A c \in asked' : c \in asked \/ sRerender'
    BY <1>2 DEF Visit, AsksForPicture, IInv, TypeOK
  <2> QED BY <2>1 DEF IInv, HelloIsKept
<1>3. CASE TestRerender
  BY <1>3 DEF TestRerender, IInv, HelloIsKept
<1>4. CASE StartSending
  BY <1>4 DEF StartSending, IInv, AskedAreListed, HelloIsKept, Occurs
<1>5. CASE SendPicture
  <2>1. /\ receivers \in Seq(Client) /\ receivers # <<>> /\ rpc = "send"
        /\ receivers' = Tail(receivers) /\ asked' = asked \ {Head(receivers)} /\ sRerender' = sRerender
        /\ rpc' = IF receivers' = <<>> THEN "test" ELSE "send"
    BY <1>5 DEF SendPicture, KeptWhenSent, IInv, TypeOK
  <2>2. ASSUME NEW c \in asked' PROVE Kept(c)'
    <3>1. c \in asked /\ c # Head(receivers) /\ Kept(c)
      BY <1>0, <2>1, <2>2 DEF IInv
    <3>2. Occurs(c, receivers) => Occurs(c, Tail(receivers))
      BY <2>1, <3>1, TakenOccurs
    <3>3. Occurs(c, receivers) => Occurs(c, receivers') /\ receivers' # <<>>
      BY <2>1, <3>2, NobodyInEmpty
    <3> QED BY <2>1, <3>1, <3>3
  <2> QED BY <1>0, <2>2
<1> QED
  BY <1>1, <1>2, <1>3, <1>4, <1>5
  DEF Next, Threads, ServerStep, RenderStep, ClientStep, Start, SendPacket, HandlePicture, RecvPictures,
      Select, RecvPackets, ChangePicture

-----------------------------------------------------------------------------
(* Who may have to wait for whom. *)

\* What was taken out before recv() leaves room.
LEMMA StepRoom ==
  ASSUME TypeOK, RoomToReceive, [Next]_vars
  PROVE  RoomToReceive'
<1>1. spc' = "recv" => Len(inbox'[Visited']) < InboxCap
  <2>1. CASE UNCHANGED <<spc, turn, mClients, inbox>>
    BY <2>1 DEF RoomToReceive, Visited
  <2>2. CASE Visit
    <3>1. Visited \in Client /\ Visited' = Visited /\ inbox[Visited] \in Seq(Kind)
      BY <2>2, VisitedListed DEF Visit, Visited, TypeOK
    <3>2. CASE inbox[Visited] = <<>>
      <4>1. inbox'[Visited'] = <<>> /\ Len(<<>>) = 0
        BY <2>2, <3>1, <3>2 DEF Visit
      <4> QED BY <4>1, TrafficAssumption
    <3>3. CASE inbox[Visited] # <<>>
      <4>1. inbox'[Visited'] = Tail(inbox[Visited])
        BY <2>2, <3>1, <3>3 DEF Visit, TypeOK
      <4>2. Len(Tail(inbox[Visited])) = Len(inbox[Visited]) - 1 /\ Len(inbox[Visited]) \in Nat
        BY <3>1, <3>3, HeadTailProperties
      <4>3. Len(inbox[Visited]) <= InboxCap /\ InboxCap \in Nat
        BY <3>1, TrafficAssumption DEF TypeOK
      <4> QED BY <4>1, <4>2, <4>3
    <3> QED BY <3>2, <3>3
  <2>3. CASE Select
    BY <2>3 DEF Select
  <2>4. CASE RecvPackets
    BY <2>4 DEF RecvPackets, NextTurn
  <2>5. CASE \E c \in Client : Start(c)
    BY <2>1, <2>5 DEF Start
  <2> QED
    BY <2>1, <2>2, <2>3, <2>4, <2>5
    DEF Next, Threads, ServerStep, RenderStep, ClientStep, SendPacket, HandlePicture, RecvPictures,
        ChangePicture, TestRerender, StartSending, SendPicture
<1>2. ASSUME NEW c \in Client, cpc'[c] = "recv" PROVE buffered'[c] < BufferCap
  <2>1. CASE UNCHANGED <<cpc, buffered>>
    BY <1>2, <2>1 DEF RoomToReceive
  <2>2. ASSUME NEW d \in Client, HandlePicture(d) PROVE buffered'[c] < BufferCap
    <3>1. CASE c = d
      <4>1. buffered'[c] = Removed(buffered[c]) /\ buffered[c] \in 0 .. BufferCap
        BY <2>2, <3>1 DEF HandlePicture, TypeOK
      <4> QED BY <4>1, TrafficAssumption DEF Removed
    <3>2. CASE c # d
      BY <1>2, <2>2, <3>2 DEF HandlePicture, TypeOK, RoomToReceive
    <3> QED BY <3>1, <3>2
  <2>3. ASSUME NEW d \in Client, Start(d) \/ RecvPictures(d) PROVE buffered'[c] < BufferCap
    <3>1. cpc'[d] = "send" /\ (c # d => cpc'[c] = cpc[c] /\ buffered'[c] = buffered[c])
      BY <2>3 DEF Start, RecvPictures, TypeOK
    <3> QED BY <1>2, <3>1 DEF RoomToReceive
  <2> QED
    BY <2>1, <2>2, <2>3
    DEF Next, Threads, ServerStep, RenderStep, ClientStep, SendPacket,
        Select, Visit, RecvPackets, ChangePicture, TestRerender, StartSending, SendPicture
<1> QED BY <1>1, <1>2 DEF RoomToReceive

\* A client that runs goes on running; one that does not has nothing on its way.
LEMMA RunningStep ==
  ASSUME TypeOK, [Next]_vars, NEW c \in Client
  PROVE  /\ cpc[c] # "off" => cpc'[c] # "off"
         /\ cpc[c] = "off" => Start(c) \/ cpc'[c] = "off"
         /\ cpc[c] = "off" /\ toServer[c] = <<>> => toServer'[c] = <<>>
         /\ Start(c) => cpc'[c] # "off"
<1>1. cpc[c] # "off" => cpc'[c] # "off"
  BY DEF Next, Threads, ServerStep, RenderStep, ClientStep, Start, SendPacket, HandlePicture,
         RecvPictures, Select, Visit, RecvPackets, ChangePicture, TestRerender, StartSending, SendPicture,
         TypeOK
<1>2. cpc[c] = "off" => Start(c) \/ cpc'[c] = "off"
  <2>1. ASSUME NEW d \in Client, Start(d) \/ ClientStep(d), cpc[c] = "off"
        PROVE  Start(c) \/ cpc'[c] = "off"
    BY <2>1 DEF Start, ClientStep, SendPacket, HandlePicture, RecvPictures, TypeOK
  <2> QED
    BY <2>1 DEF Next, Threads, ServerStep, RenderStep, Select, Visit, RecvPackets, ChangePicture,
                TestRerender, StartSending, SendPicture
<1>3. cpc[c] = "off" /\ toServer[c] = <<>> => toServer'[c] = <<>>
  <2>1. ASSUME NEW d \in Client, SendPacket(d), cpc[c] = "off" PROVE toServer'[c] = toServer[c]
    BY <2>1 DEF SendPacket, TypeOK
  <2>2. ASSUME RecvPackets, toServer[c] = <<>> PROVE toServer'[c] = toServer[c]
    <3>1. toServer[Visited] # <<>>
      <4>1. 1 .. Len(<<>>) = {}
        OBVIOUS
      <4> QED BY <2>2, <4>1 DEF RecvPackets, Arrived
    <3> QED BY <2>2, <3>1 DEF RecvPackets, TypeOK
  <2> QED
    BY <2>1, <2>2
    DEF Next, Threads, ServerStep, RenderStep, ClientStep, Start, HandlePicture, RecvPictures,
        Select, Visit, ChangePicture, TestRerender, StartSending, SendPicture
<1>4. Start(c) => cpc'[c] # "off"
  BY DEF Start, TypeOK
<1> QED BY <1>1, <1>2, <1>3, <1>4

LEMMA StepKnown ==
  ASSUME TypeOK, RunningAreKnown, KnownAreRunning, [Next]_vars
  PROVE  RunningAreKnown' /\ KnownAreRunning'
<1>1. \A c \in Client : Known(c)' <=> Known(c) \/ Start(c)
  BY KnownStep
<1>2. \A c \in Client :
        /\ cpc[c] # "off" => cpc'[c] # "off"
        /\ cpc[c] = "off" => Start(c) \/ cpc'[c] = "off"
        /\ cpc[c] = "off" /\ toServer[c] = <<>> => toServer'[c] = <<>>
        /\ Start(c) => cpc'[c] # "off"
  BY RunningStep
<1> QED BY <1>1, <1>2 DEF RunningAreKnown, KnownAreRunning

LEMMA StepReceivers ==
  ASSUME TypeOK, ReceiversAreListed, [Next]_vars
  PROVE  ReceiversAreListed'
<1>1. \A c : Occurs(c, mClients) => Occurs(c, mClients')
  BY KnownStep
<1>2. ASSUME NEW c, Occurs(c, receivers') PROVE Occurs(c, receivers) \/ Occurs(c, mClients)
  <2>1. CASE receivers' = receivers
    BY <1>2, <2>1
  <2>2. CASE StartSending
    BY <1>2, <2>2 DEF StartSending
  <2>3. CASE SendPicture
    <3>1. receivers \in Seq(Client) /\ receivers # <<>> /\ receivers' = Tail(receivers)
      BY <2>3 DEF SendPicture, TypeOK
    <3>2. Occurs(c, Tail(receivers)) => Occurs(c, receivers)
      BY <3>1, TakenOccurs
    <3> QED BY <1>2, <3>1, <3>2
  <2> QED
    BY <2>1, <2>2, <2>3
    DEF Next, Threads, ServerStep, RenderStep, ClientStep, Start, SendPacket, HandlePicture,
        RecvPictures, Select, Visit, RecvPackets, ChangePicture, TestRerender
<1> QED BY <1>1, <1>2 DEF ReceiversAreListed

-----------------------------------------------------------------------------
(* Standstills. *)

\* The client that is visited, and the one that is sent to, run.
LEMMA PartnersRun ==
  ASSUME TypeOK, KnownAreRunning, ReceiversAreListed
  PROVE  /\ spc = "recv" => Visited \in Client /\ cpc[Visited] # "off"
         /\ rpc = "send" => /\ Head(receivers) \in Client /\ cpc[Head(receivers)] # "off"
                            /\ mClients # <<>>
<1>1. ASSUME spc = "recv" PROVE Visited \in Client /\ cpc[Visited] # "off"
  <2>1. Visited \in Client /\ Occurs(Visited, mClients)
    BY <1>1, VisitedListed DEF Visited, Occurs
  <2> QED BY <2>1 DEF KnownAreRunning, Known
<1>2. ASSUME rpc = "send"
      PROVE  Head(receivers) \in Client /\ cpc[Head(receivers)] # "off" /\ mClients # <<>>
  <2>1. receivers \in Seq(Client) /\ receivers # <<>>
    BY <1>2 DEF TypeOK
  <2>2. Head(receivers) \in Client /\ Occurs(Head(receivers), receivers)
    BY <2>1, HeadTailProperties, TakenOccurs
  <2>3. Occurs(Head(receivers), mClients)
    BY <2>2 DEF ReceiversAreListed
  <2> QED BY <2>2, <2>3, NobodyInEmpty DEF KnownAreRunning, Known
<1> QED BY <1>1, <1>2

\* Each thread that cannot go on waits for somebody, or has nothing to do.
LEMMA EveryoneWaits ==
  ASSUME TypeOK, WaitInv, Standstill
  PROVE  /\ \/ spc = "select" /\ backlog = <<>> /\ mClients = <<>>
            \/ spc = "recv" /\ ServerWaitsFor(Visited)
         /\ Idle \/ (rpc = "send" /\ RenderWaitsFor(Head(receivers)))
         /\ \A c \in Client : cpc[c] = "off" \/ WaitsForPicture(c) \/ WaitsForServer(c)
<1>1. \/ spc = "select" /\ backlog = <<>> /\ mClients = <<>>
      \/ spc = "recv" /\ ServerWaitsFor(Visited)
  BY DEF Standstill, ServerGoesOn, WaitInv, RoomToReceive, ServerWaitsFor, TypeOK
<1>2. Idle \/ (rpc = "send" /\ RenderWaitsFor(Head(receivers)))
  <2>1. rpc = "test" => Idle
    BY DEF Standstill, RenderGoesOn
  <2>2. rpc = "send" => RenderWaitsFor(Head(receivers))
    <3> SUFFICES ASSUME rpc = "send" PROVE RenderWaitsFor(Head(receivers))
      OBVIOUS
    <3>1. ~(toClient[Head(receivers)] < SocketCap) /\ toClient[Head(receivers)] \in 0 .. SocketCap
      BY PartnersRun DEF Standstill, RenderGoesOn, HasRoom, WaitInv, TypeOK
    <3> QED BY <3>1, TrafficAssumption DEF RenderWaitsFor
  <2> QED BY <2>1, <2>2 DEF Standstill, RenderGoesOn, TypeOK
<1>3. ASSUME NEW c \in Client PROVE cpc[c] = "off" \/ WaitsForPicture(c) \/ WaitsForServer(c)
  <2>1. ~ClientGoesOn(c)
    BY DEF Standstill
  <2>2. CASE cpc[c] = "recv"
    BY <2>1, <2>2 DEF ClientGoesOn, WaitInv, RoomToReceive, WaitsForPicture, TypeOK
  <2>3. CASE cpc[c] = "send"
    <3>1. Len(toServer[c]) \in Nat /\ Len(toServer[c]) <= SocketCap
      BY DEF TypeOK
    <3> QED BY <2>1, <2>3, <3>1, TrafficAssumption DEF ClientGoesOn, WaitsForServer
  <2> QED BY <2>2, <2>3 DEF TypeOK
<1> QED BY <1>1, <1>2, <1>3

LEMMA WaitersExplained ==
  ASSUME TypeOK, WaitInv
  PROVE  StandstillIsExplained
<1> SUFFICES ASSUME Standstill
             PROVE  \/ Circle
                    \/ /\ Idle
                       /\ \A c \in Client :
                            toServer[c] # <<>> =>
                              \E d \in Client \ {c} : ServerWaitsFor(d) /\ WaitsForPicture(d)
  BY DEF StandstillIsExplained
<1>1. ASSUME spc = "recv" PROVE ServerWaitsFor(Visited) /\ WaitsForPicture(Visited) /\ Visited \in Client
  <2>1. Visited \in Client /\ cpc[Visited] # "off"
    BY <1>1, PartnersRun DEF WaitInv
  <2>2. ServerWaitsFor(Visited)
    BY <1>1, EveryoneWaits
  <2>3. ~WaitsForServer(Visited)
    <3>1. Len(<<>>) = 0 /\ SocketCap # 0
      BY TrafficAssumption
    <3> QED BY <2>2, <3>1 DEF ServerWaitsFor, WaitsForServer
  <2> QED BY <2>1, <2>2, <2>3, EveryoneWaits
<1>2. CASE Idle
  <2>1. ASSUME NEW c \in Client, toServer[c] # <<>>
        PROVE  \E d \in Client \ {c} : ServerWaitsFor(d) /\ WaitsForPicture(d)
    <3>1. spc = "recv"
      BY <2>1, EveryoneWaits, NobodyInEmpty DEF WaitInv, RunningAreKnown, Known
    <3> QED BY <1>1, <2>1, <3>1 DEF ServerWaitsFor
  <2> QED BY <1>2, <2>1
<1>3. CASE ~Idle
  <2> DEFINE b == Head(receivers)
  <2>1. rpc = "send" /\ RenderWaitsFor(b)
    BY <1>3, EveryoneWaits
  <2>2. b \in Client /\ cpc[b] # "off" /\ mClients # <<>>
    BY <2>1, PartnersRun DEF WaitInv
  <2>3. WaitsForServer(b)
    <3>1. ~WaitsForPicture(b)
      BY <2>1, TrafficAssumption DEF RenderWaitsFor, WaitsForPicture
    <3> QED BY <2>2, <3>1, EveryoneWaits
  <2>4. spc = "recv"
    BY <2>2, EveryoneWaits
  <2> QED BY <1>1, <2>1, <2>2, <2>3, <2>4 DEF Circle
<1> QED BY <1>2, <1>3

\* Nothing that somebody else does lets one of the four go on.
LEMMA CircleStep ==
  ASSUME TypeOK, Circle, [Next]_vars
  PROVE  Circle'
<1>1. PICK a \in Client, b \in Client :
        ServerWaitsFor(a) /\ WaitsForPicture(a) /\ RenderWaitsFor(b) /\ WaitsForServer(b)
  BY DEF Circle
<1>2. /\ spc = "recv" /\ Visited = a /\ toServer[a] = <<>>
      /\ cpc[a] = "recv" /\ toClient[a] = 0
      /\ rpc = "send" /\ Head(receivers) = b /\ toClient[b] = SocketCap
      /\ cpc[b] = "send" /\ outbox[b] # <<>> /\ Len(toServer[b]) = SocketCap
  BY <1>1 DEF ServerWaitsFor, WaitsForPicture, RenderWaitsFor, WaitsForServer
<1>3. 1 .. Len(<<>>) = {} /\ 1 .. 0 = {} /\ ~(SocketCap < SocketCap) /\ a # b
  BY <1>2, TrafficAssumption
<1>4. UNCHANGED <<spc, turn, mClients, rpc, receivers>>
  BY <1>2, <1>3
  DEF Next, Threads, ServerStep, RenderStep, ClientStep, Start, SendPacket, HandlePicture, RecvPictures,
      Select, Visit, RecvPackets, Arrived, ChangePicture, TestRerender, StartSending, SendPicture, HasRoom
<1>5. /\ cpc'[a] = cpc[a] /\ toServer'[a] = toServer[a] /\ toClient'[a] = toClient[a]
      /\ cpc'[b] = cpc[b] /\ toServer'[b] = toServer[b] /\ toClient'[b] = toClient[b]
      /\ outbox'[b] = outbox[b]
  <2>1. CASE UNCHANGED <<cpc, toServer, toClient, outbox>>
    BY <2>1
  <2>2. ASSUME NEW c \in Client, Start(c) \/ ClientStep(c) PROVE c # a /\ c # b
    BY <1>2, <1>3, <2>2 DEF Start, ClientStep, SendPacket, HandlePicture, RecvPictures
  <2>3. ASSUME NEW c \in Client, Start(c) \/ ClientStep(c)
        PROVE  \A d \in Client \ {c} : /\ cpc'[d] = cpc[d] /\ toServer'[d] = toServer[d]
                                       /\ toClient'[d] = toClient[d] /\ outbox'[d] = outbox[d]
    BY <2>3 DEF Start, ClientStep, SendPacket, HandlePicture, RecvPictures, TypeOK
  <2>4. ~(Select \/ Visit \/ RecvPackets \/ TestRerender \/ StartSending \/ SendPicture)
    BY <1>2, <1>3 DEF Select, Visit, RecvPackets, Arrived, TestRerender, StartSending, SendPicture, HasRoom
  <2> QED BY <2>1, <2>2, <2>3, <2>4 DEF Next, Threads, ServerStep, RenderStep, ChangePicture
<1> QED
  BY <1>2, <1>4, <1>5
  DEF Circle, ServerWaitsFor, WaitsForPicture, RenderWaitsFor, WaitsForServer, Visited

-----------------------------------------------------------------------------
(* Theorems. *)

LEMMA InitInv == Init => IInv
<1> SUFFICES ASSUME Init PROVE IInv
  OBVIOUS
<1>1. AskedAreListed /\ HelloIsKept
  BY DEF Init, AskedAreListed, HelloIsKept
<1>2. WaitInv
  BY NobodyInEmpty DEF Init, WaitInv, RoomToReceive, RunningAreKnown, KnownAreRunning, ReceiversAreListed,
                       Known
<1> QED BY <1>1, <1>2, InitType DEF IInv

LEMMA StepInv == IInv /\ [Next]_vars => IInv'
BY StepType, StepListed, StepKept, StepRoom, StepKnown, StepReceivers DEF IInv, WaitInv

LEMMA Invariance == Spec => []IInv
BY InitInv, StepInv, PTL DEF Spec

\* No buffer and no connection holds more than fits into it, the server thread visits a
\* client of the vector, and the render thread sends to somebody while it sends.
THEOREM TypeCorrect == Spec => []TypeOK
<1>1. IInv => TypeOK
  BY DEF IInv
<1> QED BY <1>1, Invariance, PTL

\* With any number of clients, and sRerender read and written without a lock, a client
\* whose Hello was handled is sent a picture in this round, or there will be another.
THEOREM HelloIsAlwaysKept == Spec => []HelloIsKept
<1>1. IInv => HelloIsKept
  BY DEF IInv
<1> QED BY <1>1, Invariance, PTL

\* With any number of clients and any capacities: when no thread can go on, there is
\* nothing to send and a silent client is waited for, or server thread, client, render
\* thread and another client wait for each other in a circle.
THEOREM StandstillsAreExplained == Spec => []StandstillIsExplained
<1>1. IInv => StandstillIsExplained
  BY WaitersExplained DEF IInv
<1> QED BY <1>1, Invariance, PTL

\* Once the circle is closed, no step of any thread and no other client opens it: the
\* blocking calls without a timeout have stopped the program for good.
THEOREM CirclesLast == Spec => CircleLasts
<1>1. IInv /\ [Next]_vars => [Circle => Circle']_vars
  BY CircleStep DEF IInv
<1> QED BY <1>1, Invariance, PTL DEF Spec, CircleLasts

-----------------------------------------------------------------------------
(* Traffic implements ClientVector. *)

\* A client waits to be accepted once, and not when it has been.
AcceptedOnce ==
  /\ \A i, j \in DOMAIN backlog : backlog[i] = backlog[j] => i = j
  /\ \A c \in Client : ~(Occurs(c, backlog) /\ Occurs(c, mClients))

\* Accepting takes the first that waits: the others are not that one.
LEMMA RestIsOther ==
  ASSUME NEW S, NEW seq \in Seq(S), seq # <<>>,
         \A i, j \in DOMAIN seq : seq[i] = seq[j] => i = j
  PROVE  /\ ~Occurs(Head(seq), Tail(seq))
         /\ \A i, j \in DOMAIN Tail(seq) : Tail(seq)[i] = Tail(seq)[j] => i = j
<1>1. /\ Len(seq) \in Nat \ {0} /\ DOMAIN seq = 1 .. Len(seq)
      /\ Tail(seq) \in Seq(S) /\ Len(Tail(seq)) = Len(seq) - 1 /\ Head(seq) = seq[1]
      /\ \A k \in 1 .. Len(seq) - 1 : Tail(seq)[k] = seq[k + 1]
  BY HeadTailProperties, LenProperties, EmptySeq
<1>2. DOMAIN Tail(seq) = 1 .. Len(seq) - 1
  BY <1>1, LenProperties
<1>3. \A k \in 1 .. Len(seq) - 1 : k + 1 \in 1 .. Len(seq) /\ k + 1 # 1
  BY <1>1
<1>4. ~Occurs(Head(seq), Tail(seq))
  BY <1>1, <1>2, <1>3 DEF Occurs
<1>5. ASSUME NEW i \in 1 .. Len(seq) - 1, NEW j \in 1 .. Len(seq) - 1, Tail(seq)[i] = Tail(seq)[j]
      PROVE  i = j
  <2>1. i + 1 = j + 1
    BY <1>1, <1>3, <1>5
  <2> QED BY <1>1, <2>1
<1> QED BY <1>2, <1>4, <1>5

LEMMA StepAcceptedOnce ==
  ASSUME IInv, AcceptedOnce, [Next]_vars
  PROVE  AcceptedOnce'
<1>0. TypeOK /\ KnownAreRunning
  BY DEF IInv, WaitInv
<1>1. CASE Select /\ backlog # <<>>
  <2>1. backlog' = Tail(backlog) /\ mClients' = Append(mClients, Head(backlog))
    BY <1>1 DEF Select
  <2>2. Head(backlog) \in Client /\ backlog \in Seq(Client) /\ mClients \in Seq(Client)
    BY <1>0, <1>1, HeadTailProperties DEF TypeOK
  <2>3. \A c \in Client : Occurs(c, backlog') => Occurs(c, backlog) /\ c # Head(backlog)
    BY <1>1, <2>1, <2>2, RestIsOther, TakenOccurs DEF AcceptedOnce
  <2>4. \A c \in Client : Occurs(c, mClients') => Occurs(c, mClients) \/ c = Head(backlog)
    BY <2>1, <2>2, AddedOccurs
  <2>5. \A i, j \in DOMAIN backlog' : backlog'[i] = backlog'[j] => i = j
    BY <1>1, <2>1, <2>2, RestIsOther DEF AcceptedOnce
  <2> QED BY <2>3, <2>4, <2>5 DEF AcceptedOnce
<1>2. ASSUME NEW c \in Client, Start(c)
      PROVE  AcceptedOnce'
  <2>1. /\ backlog' = Append(backlog, c) /\ mClients' = mClients
        /\ backlog \in Seq(Client) /\ mClients \in Seq(Client)
    BY <1>0, <1>2 DEF Start, TypeOK
  <2>2. ~Occurs(c, backlog) /\ ~Occurs(c, mClients)
    BY <1>0, <1>2 DEF Start, KnownAreRunning, Known
  <2>3. /\ DOMAIN backlog = 1 .. Len(backlog) /\ Len(backlog) \in Nat
        /\ DOMAIN backlog' = 1 .. Len(backlog) + 1 /\ backlog'[Len(backlog) + 1] = c
        /\ \A k \in 1 .. Len(backlog) : backlog'[k] = backlog[k]
    BY <2>1, AddedType, LenProperties
  <2>4. \A i \in 1 .. Len(backlog) + 1 : i \in 1 .. Len(backlog) \/ i = Len(backlog) + 1
    BY <2>3
  <2>5. \A i, j \in DOMAIN backlog' : backlog'[i] = backlog'[j] => i = j
    BY <2>2, <2>3, <2>4 DEF AcceptedOnce, Occurs
  <2>6. \A d \in Client : Occurs(d, backlog') <=> Occurs(d, backlog) \/ d = c
    BY <2>1, AddedOccurs
  <2> QED BY <2>1, <2>2, <2>5, <2>6 DEF AcceptedOnce
<1>3. CASE UNCHANGED <<backlog, mClients>>
  BY <1>3 DEF AcceptedOnce, Occurs
<1>4. CASE Select /\ backlog = <<>>
  BY <1>3, <1>4 DEF Select
<1>5. ASSUME NEW c \in Client, ClientStep(c)
      PROVE  UNCHANGED <<backlog, mClients>>
  BY <1>5 DEF ClientStep, SendPacket, HandlePicture, RecvPictures
<1>6. CASE Visit \/ RecvPackets \/ RenderStep \/ ChangePicture \/ UNCHANGED vars
  BY <1>3, <1>6 DEF Visit, RecvPackets, RenderStep, TestRerender, StartSending, SendPicture, ChangePicture
<1> QED BY <1>1, <1>2, <1>3, <1>4, <1>5, <1>6 DEF Next, Threads, ServerStep

\* Who is accepted is not in the vector.
LEMMA AcceptedIsNew ==
  ASSUME TypeOK, AcceptedOnce, Select, backlog # <<>>
  PROVE  /\ mClients' = Append(mClients, Head(backlog)) /\ Head(backlog) \in Client
         /\ mClients \in Seq(Client) /\ ~Occurs(Head(backlog), mClients)
<1>1. mClients' = Append(mClients, Head(backlog)) /\ backlog \in Seq(Client) /\ mClients \in Seq(Client)
  BY DEF Select, TypeOK
<1>2. Head(backlog) \in Client /\ Occurs(Head(backlog), backlog)
  BY <1>1, HeadTailProperties, TakenOccurs
<1> QED BY <1>1, <1>2 DEF AcceptedOnce

LEMMA StepIsVectorStep ==
  ASSUME IInv, AcceptedOnce, [Next]_vars
  PROVE  [TheVector!VecNext]_mClients
<1>1. CASE Select /\ backlog # <<>>
  <2>1. ~TheVector!IsIn(Head(backlog))
    BY <1>1, AcceptedIsNew DEF IInv, Occurs, TheVector!IsIn
  <2> QED BY <1>1, <2>1, AcceptedIsNew DEF IInv, TheVector!VecNext, TheVector!PushBack
<1>2. CASE ~(Select /\ backlog # <<>>)
  BY <1>2 DEF Next, Threads, ServerStep, RenderStep, ClientStep, Start, SendPacket, HandlePicture,
     RecvPictures, Select, Visit, RecvPackets, ChangePicture, TestRerender, StartSending, SendPicture
<1> QED BY <1>1, <1>2

\* Nobody gets into the vector twice, and so nobody is visited or sent to twice in a round.
THEOREM TrafficKeepsVector == Spec => VectorIsKept
<1>1. Init => TheVector!VecInit /\ AcceptedOnce
  BY NobodyInEmpty DEF Init, TheVector!VecInit, AcceptedOnce
<1>2. IInv /\ AcceptedOnce /\ [Next]_vars => [TheVector!VecNext]_mClients /\ AcceptedOnce'
  BY StepAcceptedOnce, StepIsVectorStep
<1> HIDE DEF vars
<1> QED BY <1>1, <1>2, Invariance, PTL DEF Spec, VectorIsKept, TheVector!VecSpec

-----------------------------------------------------------------------------
(* The answer to a Hello. *)

Distinct(seq) == \A i, j \in DOMAIN seq : seq[i] = seq[j] => i = j

\* Nobody is visited or sent to twice in a round.
ListedOnce == Distinct(mClients) /\ Distinct(receivers)

LEMMA PositionIs ==
  ASSUME NEW seq, Distinct(seq), NEW k \in DOMAIN seq
  PROVE  Position(seq[k], seq) = k
BY DEF Position, Distinct

\* A place in the vector stays when somebody is added behind it ...
LEMMA AddedBehind ==
  ASSUME NEW S, NEW seq \in Seq(S), NEW x \in S, Distinct(seq), ~Occurs(x, seq)
  PROVE  /\ Distinct(Append(seq, x))
         /\ \A c : Occurs(c, seq) => Position(c, Append(seq, x)) = Position(c, seq)
<1>1. /\ DOMAIN seq = 1 .. Len(seq) /\ Len(seq) \in Nat
      /\ DOMAIN Append(seq, x) = 1 .. Len(seq) + 1
      /\ Append(seq, x)[Len(seq) + 1] = x
      /\ \A k \in 1 .. Len(seq) : Append(seq, x)[k] = seq[k]
  BY AddedType, LenProperties
<1>2. 1 .. Len(seq) + 1 = 1 .. Len(seq) \cup {Len(seq) + 1}
  BY <1>1
<1>3. Distinct(Append(seq, x))
  BY <1>1, <1>2 DEF Distinct, Occurs
<1>4. ASSUME NEW k \in DOMAIN seq
      PROVE  Position(seq[k], Append(seq, x)) = Position(seq[k], seq)
  <2>1. k \in DOMAIN Append(seq, x) /\ Append(seq, x)[k] = seq[k]
    BY <1>1, <1>2
  <2> QED BY <1>3, <2>1, PositionIs
<1> QED BY <1>3, <1>4 DEF Occurs

\* ... and one less when the first is taken away.
LEMMA MovesUp ==
  ASSUME NEW S, NEW seq \in Seq(S), seq # <<>>, Distinct(seq)
  PROVE  /\ Distinct(Tail(seq))
         /\ \A c : Occurs(c, seq) /\ c # Head(seq) => Position(c, Tail(seq)) = Position(c, seq) - 1
<1>1. /\ Len(seq) \in Nat \ {0} /\ DOMAIN seq = 1 .. Len(seq)
      /\ Tail(seq) \in Seq(S) /\ Len(Tail(seq)) = Len(seq) - 1 /\ Head(seq) = seq[1]
      /\ \A k \in 1 .. Len(seq) - 1 : Tail(seq)[k] = seq[k + 1]
  BY HeadTailProperties, LenProperties, EmptySeq
<1>2. DOMAIN Tail(seq) = 1 .. Len(seq) - 1
  BY <1>1, LenProperties
<1>3. Distinct(Tail(seq))
  BY RestIsOther DEF Distinct
<1>4. ASSUME NEW k \in DOMAIN seq, seq[k] # Head(seq)
      PROVE  Position(seq[k], Tail(seq)) = Position(seq[k], seq) - 1
  <2>1. k - 1 \in DOMAIN Tail(seq) /\ (k - 1) + 1 = k
    BY <1>1, <1>2, <1>4
  <2>2. Tail(seq)[k - 1] = seq[k]
    BY <1>1, <1>2, <2>1
  <2>3. Position(seq[k], Tail(seq)) = k - 1
    BY <1>3, <2>1, <2>2, PositionIs
  <2> QED BY <2>3, PositionIs
<1> QED BY <1>3, <1>4 DEF Occurs

LEMMA PositionInBounds ==
  ASSUME NEW S, NEW seq \in Seq(S), Distinct(seq), NEW c, Occurs(c, seq)
  PROVE  Position(c, seq) \in 1 .. Len(seq)
<1>1. PICK k \in DOMAIN seq : seq[k] = c
  BY DEF Occurs
<1> QED BY <1>1, PositionIs, LenProperties

LEMMA StepListedOnce ==
  ASSUME TypeOK, AcceptedOnce, ListedOnce, [Next]_vars
  PROVE  ListedOnce'
<1>1. CASE Select /\ backlog # <<>>
  <2>1. receivers' = receivers
    BY <1>1 DEF Select
  <2> QED BY <1>1, <2>1, AcceptedIsNew, AddedBehind DEF ListedOnce, Distinct
<1>2. CASE StartSending
  BY <1>2 DEF StartSending, ListedOnce, Distinct, serverVars
<1>3. CASE SendPicture
  <2>1. receivers' = Tail(receivers) /\ mClients' = mClients
    BY <1>3 DEF SendPicture, serverVars
  <2>2. receivers \in Seq(Client) /\ receivers # <<>>
    BY <1>3 DEF SendPicture, TypeOK
  <2> QED BY <2>1, <2>2, MovesUp DEF ListedOnce, Distinct
<1>4. CASE UNCHANGED <<mClients, receivers>>
  BY <1>4 DEF ListedOnce, Distinct
<1>5. CASE (Select /\ backlog = <<>>) \/ Visit \/ RecvPackets \/ TestRerender \/ ChangePicture \/ UNCHANGED vars
  BY <1>4, <1>5 DEF Select, Visit, RecvPackets, TestRerender, ChangePicture
<1>6. ASSUME NEW c \in Client, Start(c) \/ ClientStep(c)
      PROVE  UNCHANGED <<mClients, receivers>>
  BY <1>6 DEF Start, ClientStep, SendPacket, HandlePicture, RecvPictures
<1> QED BY <1>1, <1>2, <1>3, <1>4, <1>5, <1>6 DEF Next, Threads, ServerStep, RenderStep

\* What AnswerLeft is, without its parts.
LEMMA AnswerIs ==
  ASSUME TypeOK, AskedAreListed, ListedOnce, NEW c \in asked
  PROVE  /\ IsReceiver(c) <=> rpc = "send" /\ Occurs(c, receivers)
         /\ IsReceiver(c) => /\ AnswerLeft(c) = Position(c, receivers)
                             /\ Position(c, receivers) \in 1 .. Len(receivers)
         /\ ~IsReceiver(c) => /\ rpc = "clear" => AnswerLeft(c) = Position(c, mClients) + 1
                              /\ rpc = "test" => AnswerLeft(c) = Position(c, mClients) + 2
                              /\ rpc = "send" => AnswerLeft(c) = Position(c, mClients) + (2 + Len(receivers))
         /\ Occurs(c, mClients) /\ Position(c, mClients) \in 1 .. Len(mClients)
         /\ Len(mClients) \in Nat /\ Len(receivers) \in Nat
<1>1. mClients \in Seq(Client) /\ receivers \in Seq(Client)
  BY DEF TypeOK
<1>2. IsReceiver(c) <=> rpc = "send" /\ Occurs(c, receivers)
  BY DEF IsReceiver, Occurs
<1>3. Occurs(c, mClients)
  BY DEF AskedAreListed
<1>4. Position(c, mClients) \in 1 .. Len(mClients)
  BY <1>1, <1>3, PositionInBounds DEF ListedOnce
<1>5. IsReceiver(c) => Position(c, receivers) \in 1 .. Len(receivers)
  BY <1>1, <1>2, PositionInBounds DEF ListedOnce
<1> QED BY <1>1, <1>2, <1>3, <1>4, <1>5, LenProperties DEF AnswerLeft

LEMMA SentIsNearer ==
  ASSUME TypeOK, AskedAreListed, ListedOnce, TypeOK', AskedAreListed', ListedOnce',
         SendPicture, NEW c \in asked \cap asked'
  PROVE  AnswerLeft(c)' < AnswerLeft(c)
<1>1. /\ rpc = "send" /\ receivers' = Tail(receivers) /\ mClients' = mClients /\ c # Head(receivers)
      /\ rpc' = IF receivers' = <<>> THEN "test" ELSE "send"
  BY DEF SendPicture, serverVars
<1>2. receivers \in Seq(Client) /\ receivers # <<>>
  BY <1>1 DEF TypeOK
<1>3. Len(receivers) \in Nat \ {0} /\ Len(receivers') = Len(receivers) - 1
  BY <1>1, <1>2, HeadTailProperties, LenProperties, EmptySeq
<1>4. Occurs(c, receivers) <=> Occurs(c, receivers')
  BY <1>1, <1>2, TakenOccurs
<1>5. Position(c, mClients)' = Position(c, mClients)
  BY <1>1 DEF Position
<1>6. CASE IsReceiver(c)
  <2>1. Occurs(c, receivers)
    BY <1>6, AnswerIs
  <2>2. rpc' = "send"
    BY <1>1, <1>4, <2>1, NobodyInEmpty
  <2>3. Position(c, receivers)' = Position(c, receivers) - 1
    BY <1>1, <1>2, <2>1, MovesUp DEF ListedOnce
  <2>4. AnswerLeft(c) = Position(c, receivers) /\ Position(c, receivers) \in 1 .. Len(receivers)
    BY <1>6, AnswerIs
  <2>5. IsReceiver(c)'
    BY <1>4, <2>1, <2>2 DEF IsReceiver, Occurs
  <2>6. AnswerLeft(c)' = Position(c, receivers)'
    BY <2>5 DEF AnswerLeft
  <2> QED BY <1>3, <2>3, <2>4, <2>6
<1>7. CASE ~IsReceiver(c)
  <2>1. AnswerLeft(c) = Position(c, mClients) + (2 + Len(receivers)) /\ Position(c, mClients) \in 1 .. Len(mClients)
        /\ Len(mClients) \in Nat
    BY <1>1, <1>7, AnswerIs
  <2>2. ~IsReceiver(c)'
    BY <1>1, <1>4, <1>7 DEF IsReceiver, Occurs
  <2>3. AnswerLeft(c)' = Position(c, mClients) + (IF rpc' = "test" THEN 2 ELSE 2 + Len(receivers'))
    BY <1>1, <1>5, <2>2 DEF AnswerLeft
  <2> QED BY <1>3, <2>1, <2>3
<1> QED BY <1>6, <1>7

LEMMA StepAnswers ==
  ASSUME TypeOK, AskedAreListed, ListedOnce, TypeOK', AskedAreListed', ListedOnce',
         AcceptedOnce, [Next]_vars, NEW c \in asked \cap asked'
  PROVE  \/ AnswerLeft(c)' < AnswerLeft(c)
         \/ UNCHANGED <<rpc, receivers, AnswerLeft(c)>>
<1>1. CASE SendPicture
  BY <1>1, SentIsNearer
<1>2. CASE TestRerender \/ StartSending
  <2>1. mClients' = mClients /\ ~IsReceiver(c)
    BY <1>2 DEF TestRerender, StartSending, serverVars, IsReceiver
  <2>2. Position(c, mClients)' = Position(c, mClients)
    BY <2>1 DEF Position
  <2>3. CASE TestRerender
    <3>1. rpc = "test" /\ rpc' = "clear" /\ ~IsReceiver(c)'
      BY <2>3 DEF TestRerender, IsReceiver
    <3>2. AnswerLeft(c) = Position(c, mClients) + 2 /\ AnswerLeft(c)' = Position(c, mClients) + 1
      BY <2>1, <2>2, <3>1 DEF AnswerLeft
    <3> QED BY <3>2, AnswerIs
  <2>4. CASE StartSending
    <3>1. rpc = "clear" /\ rpc' = "send" /\ receivers' = mClients
      BY <2>4 DEF StartSending
    <3>2. IsReceiver(c)'
      BY <3>1, AnswerIs DEF IsReceiver, Occurs
    <3>3. AnswerLeft(c) = Position(c, mClients) + 1 /\ AnswerLeft(c)' = Position(c, mClients)
      BY <2>1, <3>1, <3>2 DEF AnswerLeft
    <3> QED BY <3>3, AnswerIs
  <2> QED BY <1>2, <2>3, <2>4
<1>3. ASSUME UNCHANGED <<rpc, receivers>>, Position(c, mClients)' = Position(c, mClients)
      PROVE  UNCHANGED <<rpc, receivers, AnswerLeft(c)>>
  <2>1. IsReceiver(c)' = IsReceiver(c) /\ Position(c, receivers)' = Position(c, receivers)
    BY <1>3 DEF IsReceiver, Position
  <2> QED BY <1>3, <2>1 DEF AnswerLeft
<1>4. CASE Select /\ backlog # <<>>
  <2>1. UNCHANGED <<rpc, receivers>>
    BY <1>4 DEF Select, renderVars
  <2>2. Occurs(c, mClients)
    BY DEF AskedAreListed
  <2>3. Position(c, Append(mClients, Head(backlog))) = Position(c, mClients)
    BY <1>4, <2>2, AcceptedIsNew, AddedBehind DEF ListedOnce
  <2>4. Position(c, mClients)' = Position(c, mClients)
    BY <1>4, <2>3, AcceptedIsNew DEF Position
  <2> QED BY <1>3, <2>1, <2>4
<1>5. CASE UNCHANGED <<mClients, rpc, receivers>>
  <2>1. Position(c, mClients)' = Position(c, mClients)
    BY <1>5 DEF Position
  <2> QED BY <1>3, <1>5, <2>1
<1>6. CASE (Select /\ backlog = <<>>) \/ Visit \/ RecvPackets \/ ChangePicture \/ UNCHANGED vars
  BY <1>5, <1>6 DEF Select, Visit, RecvPackets, ChangePicture
<1>7. ASSUME NEW d \in Client, Start(d) \/ ClientStep(d)
      PROVE  UNCHANGED <<mClients, rpc, receivers>>
  BY <1>7 DEF Start, ClientStep, SendPacket, HandlePicture, RecvPictures
<1> QED BY <1>1, <1>2, <1>4, <1>5, <1>6, <1>7 DEF Next, Threads, ServerStep, RenderStep

LEMMA AnswerFollows ==
  ASSUME TypeOK, AskedAreListed, HelloIsKept, ListedOnce
  PROVE  AnswerGoesOn
<1> SUFFICES ASSUME NEW c \in asked
             PROVE  /\ RenderGoesOn \/ RenderWaitsFor(Head(receivers))
                    /\ AnswerLeft(c) \in 1 .. Len(mClients) + Len(receivers) + 2
  BY DEF AnswerGoesOn
<1>1. RenderGoesOn \/ RenderWaitsFor(Head(receivers))
  <2>1. CASE rpc = "test"
    <3>1. mClients # <<>>
      BY AnswerIs, NobodyInEmpty
    <3> QED BY <2>1, <3>1 DEF HelloIsKept, RenderGoesOn, Idle
  <2>2. CASE rpc = "send"
    <3>1. Head(receivers) \in Client
      BY <2>2, HeadTailProperties DEF TypeOK
    <3>2. toClient[Head(receivers)] \in 0 .. SocketCap
      BY <3>1 DEF TypeOK
    <3> QED BY <2>2, <3>2, TrafficAssumption DEF RenderGoesOn, HasRoom, RenderWaitsFor
  <2> QED BY <2>1, <2>2 DEF TypeOK, RenderGoesOn
<1>2. AnswerLeft(c) \in 1 .. Len(mClients) + Len(receivers) + 2
  <2>1. Len(mClients) \in Nat /\ Len(receivers) \in Nat /\ Position(c, mClients) \in 1 .. Len(mClients)
    BY AnswerIs
  <2>2. CASE IsReceiver(c)
    <3>1. AnswerLeft(c) \in 1 .. Len(receivers)
      BY <2>2, AnswerIs
    <3> QED BY <2>1, <3>1
  <2>3. CASE ~IsReceiver(c)
    <3>1. rpc \in {"test", "clear", "send"}
      BY DEF TypeOK
    <3>2. \/ AnswerLeft(c) = Position(c, mClients) + 1
          \/ AnswerLeft(c) = Position(c, mClients) + 2
          \/ AnswerLeft(c) = Position(c, mClients) + (2 + Len(receivers))
      BY <2>3, <3>1, AnswerIs
    <3> QED BY <2>1, <3>2
  <2> QED BY <2>2, <2>3
<1> QED BY <1>1, <1>2

\* With any number of clients: a Hello that was handled is answered within the rest of this
\* round and the next one up to the client's place in the vector, however many clients come
\* in between; and the render thread goes on with that unless a connection is full.
THEOREM AnswersCountDown == Spec => []AnswerGoesOn /\ AnswerCountsDown
<1>1. Init => AcceptedOnce /\ ListedOnce
  BY NobodyInEmpty DEF Init, AcceptedOnce, ListedOnce, Distinct
<1>2. IInv /\ AcceptedOnce /\ ListedOnce /\ [Next]_vars => AcceptedOnce' /\ ListedOnce'
  BY StepAcceptedOnce, StepListedOnce DEF IInv
<1>3. Spec => [](IInv /\ AcceptedOnce /\ ListedOnce)
  <2> HIDE DEF vars
  <2> QED BY <1>1, <1>2, Invariance, PTL DEF Spec
<1>4. IInv /\ IInv' /\ AcceptedOnce /\ ListedOnce /\ ListedOnce' /\ [Next]_vars =>
        [\A c \in asked \cap asked' :
           \/ AnswerLeft(c)' < AnswerLeft(c)
           \/ UNCHANGED <<rpc, receivers, AnswerLeft(c)>>]_vars
  BY StepAnswers DEF IInv
<1>5. Spec => AnswerCountsDown
  <2> HIDE DEF vars
  <2> QED BY <1>3, <1>4, PTL DEF Spec, AnswerCountsDown
<1>6. IInv /\ ListedOnce => AnswerGoesOn
  BY AnswerFollows DEF IInv
<1> QED BY <1>3, <1>5, <1>6, PTL
=============================================================================
