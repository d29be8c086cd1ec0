--------------------------- MODULE DrawListProofs ---------------------------
(***************************************************************************)
(* Proofs about DrawList, for pictures of any number of lists, any sizes,  *)
(* and any number of changes, connections lost and restarts.               *)
(***************************************************************************)
EXTENDS DrawList, TLAPS, SequenceTheorems

\* On a connection, the font texture comes right behind the first picture.  Until that is
\* unpacked there is nothing else in front of the two.
TextureFollows ==
  /\ link = "down" => toClient = <<>>
  /\ link = "up" /\ first /\ fontSent => toClient # <<>>
  /\ first /\ toClient # <<>> =>
       Len(toClient) >= 2 /\ toClient[1] # FontTexture /\ toClient[2] = FontTexture
  /\ link = "down" \/ first \/ texID \/ (toClient # <<>> /\ toClient[1] = FontTexture)

\* Packet k has list i in full.
FullAt(i, k) == toClient[k] # FontTexture /\ toClient[k].lists[i] # Nothing

\* When the client has received the first k packets, it has v in position i, unless it
\* has nothing there, or has missed a list.
HasThen(i, k, v) ==
  \/ \E j \in 1 .. k :
       /\ FullAt(i, j) /\ toClient[j].lists[i].list = v
       /\ \A l \in j + 1 .. k : ~FullAt(i, l)
  \/ /\ \A l \in 1 .. k : ~FullAt(i, l)
     /\ i \in missed \/ shown[i] = Nothing \/ shown[i].list = v

\* With every picture, the client gets to that picture.
PicturesAgree ==
  \A i \in Position : \A k \in 1 .. Len(toClient) :
    toClient[k] # FontTexture => HasThen(i, k, toClient[k].picture[i])

\* The list whose hash is kept is the one the client will have, or it is about to be sent.
HashesAgree ==
  \A i \in Position :
    sPrevDrawListHashes[i] # Nothing /\ (i > Len(written) \/ written[i] = Nothing) =>
      HasThen(i, Len(toClient), sPrevDrawListHashes[i])

\* What was packed so far is of the picture that is drawn.
WrittenIsDrawn ==
  /\ renderPc # "pack" => written = <<>>
  /\ \A i \in 1 .. Len(written) :
       /\ sPrevDrawListHashes[i] = drawn[i]
       /\ written[i] # Nothing => written[i].list = drawn[i]

IInv == /\ TypeOK /\ TextureFollows /\ TextureIsExplained
        /\ PicturesAgree /\ HashesAgree /\ WrittenIsDrawn /\ StaleIsExplained

USE DEF vars, renderVars, linkVars, clientVars, unpackVars, sizeVars, countVars

-----------------------------------------------------------------------------
(* Type correctness. *)

LEMMA Constants ==
  /\ NumLists \in Nat \ {0}
  /\ PosBound \in Nat \ {0}
  /\ DefaultSize \in Size
  /\ \A s \in Size : s \in Nat /\ 1 <= s /\ s <= PosBound
BY DrawListAssumption

\* The division of a product by one of its factors, or by something between them.
LEMMA Quotient ==
  ASSUME NEW a \in Nat, NEW b \in Nat, NEW w \in Nat \ {0}, a <= w
  PROVE  (a * b) \div w \in 0 .. b
<1>1. a * b \in Nat /\ w * b \in Nat /\ a * b <= w * b
  OBVIOUS
<1>2. (w * b) \div w = b
  OBVIOUS
<1>3. (a * b) \div w <= (w * b) \div w /\ (a * b) \div w >= 0
  BY <1>1
<1> QED BY <1>1, <1>2, <1>3

LEMMA PackType ==
  ASSUME NEW list \in Lists, NEW width \in Size
  PROVE  PackList(list, width) \in Packed
<1>1. PackPos(list.edge, width) \in 0 .. PosBound
  BY Constants, Quotient DEF PackPos, Smaller, Lists
<1>2. PackClip(list.edge, width) \in 0 .. PosBound
  <2>1. (list.edge * PosBound) \div width \in Nat
    BY Constants DEF Lists
  <2> QED BY <2>1, Constants DEF PackClip
<1> QED BY <1>1, <1>2 DEF PackList, Packed

LEMMA UnpackType ==
  ASSUME TypeOK, NEW packed \in Packed
  PROVE  UnpackList(packed) \in Shown
<1>1. ASSUME NEW x \in 0 .. PosBound PROVE Unpack(x, size) \in -1 .. PosBound
  <2>1. CASE size \in Size
    BY <2>1, Constants, Quotient DEF Unpack
  <2>2. CASE size = NoSize
    BY <2>2, Constants DEF Unpack, NoSize
  <2> QED BY <2>1, <2>2 DEF TypeOK
<1> QED BY <1>1 DEF UnpackList, Packed, Shown, TypeOK

LEMMA InitType == Init => TypeOK
<1> SUFFICES ASSUME Init PROVE TypeOK
  OBVIOUS
<1>1. <<>> \in Seq(Packed \cup {Nothing}) /\ Len(<<>>) <= NumLists
  BY Constants
<1>2. <<>> \in Seq(Size \cup {Hello}) /\ <<>> \in Seq(DrawData \cup {FontTexture})
  OBVIOUS
<1>3. drawn \in Pictures
  BY Constants DEF Init, Pictures, Lists
<1> QED BY <1>1, <1>2, <1>3, Constants DEF Init, TypeOK

LEMMA LaidOutType ==
  ASSUME TypeOK, NEW picture \in Pictures
  PROVE  LaidOut(picture) \in Pictures
BY DEF TypeOK, LaidOut, Pictures, Lists

\* The lists that were packed are a picture.
LEMMA WrittenType ==
  ASSUME TypeOK, Len(written) = NumLists
  PROVE  written \in [Position -> Packed \cup {Nothing}]
BY LenProperties DEF TypeOK, Position

LEMMA PacketsType ==
  ASSUME TypeOK, Len(written) = NumLists
  PROVE  /\ Packets \in Seq(DrawData \cup {FontTexture})
         /\ toClient \o Packets \in Seq(DrawData \cup {FontTexture})
         /\ Packets[1] = [picture |-> drawn, lists |-> written]
         /\ Len(Packets) = IF fontSent THEN 1 ELSE 2
         /\ ~fontSent => Packets[2] = FontTexture
<1> DEFINE data == [picture |-> drawn, lists |-> written]
<1>1. data \in DrawData
  BY WrittenType DEF TypeOK, DrawData
<1> DEFINE font == IF fontSent THEN <<>> ELSE <<FontTexture>>
<1>2. /\ <<data>> \in Seq(DrawData \cup {FontTexture}) /\ Len(<<data>>) = 1 /\ <<data>>[1] = data
      /\ font \in Seq(DrawData \cup {FontTexture}) /\ Len(font) = IF fontSent THEN 0 ELSE 1
      /\ ~fontSent => font[1] = FontTexture
  <2>1. <<data>> \in Seq(DrawData \cup {FontTexture}) /\ Len(<<data>>) = 1 /\ <<data>>[1] = data
    BY <1>1
  <2>2. /\ <<FontTexture>> \in Seq(DrawData \cup {FontTexture})
        /\ Len(<<FontTexture>>) = 1 /\ <<FontTexture>>[1] = FontTexture
        /\ <<>> \in Seq(DrawData \cup {FontTexture}) /\ Len(<<>>) = 0
    OBVIOUS
  <2>3. CASE fontSent
    BY <2>1, <2>2, <2>3
  <2>4. CASE ~fontSent
    BY <2>1, <2>2, <2>4
  <2> QED BY <2>3, <2>4
<1>3. Packets = <<data>> \o font
  BY DEF Packets
<1> HIDE DEF data, font
<1>4. /\ Packets \in Seq(DrawData \cup {FontTexture})
      /\ Len(Packets) = Len(<<data>>) + Len(font)
      /\ \A k \in 1 .. Len(<<data>>) + Len(font) :
           Packets[k] = IF k <= Len(<<data>>) THEN <<data>>[k] ELSE font[k - Len(<<data>>)]
  BY <1>2, <1>3, ConcatProperties
<1>5. Packets[1] = data /\ Len(Packets) = IF fontSent THEN 1 ELSE 2
  BY <1>2, <1>4
<1>6. ~fontSent => Packets[2] = FontTexture
  BY <1>2, <1>4
<1>7. toClient \o Packets \in Seq(DrawData \cup {FontTexture})
  BY <1>4, ConcatProperties DEF TypeOK
<1> QED BY <1>4, <1>5, <1>6, <1>7 DEF data

\* What arrives at the client: the font texture, or a picture.
LEMMA ReceivedType ==
  ASSUME TypeOK, toClient # <<>>
  PROVE  /\ Head(toClient) = toClient[1]
         /\ Head(toClient) # FontTexture => Head(toClient) \in DrawData
         /\ Tail(toClient) \in Seq(DrawData \cup {FontTexture})
         /\ Len(toClient) \in Nat \ {0}
         /\ Len(Tail(toClient)) = Len(toClient) - 1
         /\ \A k \in 1 .. Len(toClient) - 1 : Tail(toClient)[k] = toClient[k + 1]
<1>1. toClient \in Seq(DrawData \cup {FontTexture})
  BY DEF TypeOK
<1>2. Len(toClient) \in Nat \ {0}
  BY <1>1, EmptySeq
<1>3. Head(toClient) = toClient[1] /\ toClient[1] \in DrawData \cup {FontTexture}
  BY <1>1, <1>2, ElementOfSeq
<1> QED BY <1>1, <1>2, <1>3, HeadTailProperties

LEMMA StepType ==
  ASSUME TypeOK, [Next]_vars
  PROVE  TypeOK'
<1>1. CASE UNCHANGED vars
  BY <1>1 DEF TypeOK
<1>2. CASE NewFrame
  <2>1. drawn' \in Pictures
    <3>1. CASE drawn' = LaidOut(drawn)
      BY <3>1, LaidOutType DEF TypeOK
    <3>2. ASSUME NEW i \in Position, NEW b \in Body, drawn' = LaidOut([drawn EXCEPT ![i].body = b])
          PROVE  drawn' \in Pictures
      <4>1. [drawn EXCEPT ![i].body = b] \in Pictures
        BY DEF TypeOK, Pictures, Lists
      <4> QED BY <3>2, <4>1, LaidOutType
    <3> QED BY <1>2, <3>1, <3>2 DEF NewFrame
  <2> QED BY <1>2, <2>1 DEF TypeOK, NewFrame
<1>3. CASE TestRerender
  BY <1>3 DEF TypeOK, TestRerender
<1>4. CASE PackNext
  <2> DEFINE i == Len(written) + 1
             next == IF SameHash(i) THEN Nothing ELSE PackList(drawn[i], displaySize)
  <2>1. i \in Position /\ drawn[i] \in Lists
    BY <1>4, Constants DEF PackNext, TypeOK, Position, Pictures
  <2>2. next \in Packed \cup {Nothing}
    BY <2>1, PackType DEF TypeOK
  <2>3. written' = Append(written, next)
    BY <1>4 DEF PackNext
  <2> HIDE DEF next
  <2>4. written' \in Seq(Packed \cup {Nothing}) /\ Len(written') = Len(written) + 1
    BY <2>2, <2>3, AppendProperties DEF TypeOK
  <2>5. Len(written') <= NumLists
    BY <1>4, <2>4 DEF PackNext
  <2>6. sPrevDrawListHashes' \in [Position -> Lists \cup {Nothing}]
    BY <1>4, <2>1 DEF PackNext, TypeOK
  <2>7. sRerender' \in BOOLEAN
    BY <1>4 DEF PackNext, TypeOK
  <2> QED BY <1>4, <2>4, <2>5, <2>6, <2>7 DEF PackNext, TypeOK
<1>5. CASE SendDrawData
  <2>1. toClient' \in Seq(DrawData \cup {FontTexture})
    BY <1>5, PacketsType DEF SendDrawData, TypeOK
  <2>2. written' = <<>> /\ <<>> \in Seq(Packed \cup {Nothing}) /\ Len(<<>>) <= NumLists
    BY <1>5, Constants DEF SendDrawData
  <2>3. missed' \subseteq Position /\ fontSent' \in BOOLEAN
    BY <1>5 DEF SendDrawData, TypeOK, Full
  <2> QED BY <1>5, <2>1, <2>2, <2>3 DEF SendDrawData, TypeOK
<1>6. CASE HandlePacket
  <2>1. Head(toServer) \in Size \cup {Hello} /\ Tail(toServer) \in Seq(Size \cup {Hello})
    BY <1>6, HeadTailProperties DEF HandlePacket, TypeOK
  <2> QED BY <1>6, <2>1 DEF HandlePacket, TypeOK
<1>7. CASE HandleOthers
  BY <1>7 DEF HandleOthers, Use, TypeOK
<1>8. CASE Connect
  <2>1. <<Hello>> \in Seq(Size \cup {Hello})
    OBVIOUS
  <2> QED BY <1>8, <2>1 DEF Connect, TypeOK
<1>9. CASE UpdateSize
  <2>1. PICK s \in Size \ {size} : size' = s /\ toServer' = Append(toServer, s) /\ Use(s)
    BY <1>9 DEF UpdateSize
  <2>2. toServer' \in Seq(Size \cup {Hello})
    BY <2>1, AppendProperties DEF TypeOK
  <2> QED BY <1>9, <2>1, <2>2 DEF UpdateSize, Use, TypeOK
<1>10. CASE ReceiveDrawData
  <2> DEFINE packet == Head(toClient)
  <2>1. packet \in DrawData /\ toClient' \in Seq(DrawData \cup {FontTexture})
    BY <1>10, ReceivedType DEF ReceiveDrawData
  <2>2. packet.picture \in Pictures /\ packet.lists \in [Position -> Packed \cup {Nothing}]
    BY <2>1 DEF DrawData
  <2>3. UnpackDrawData(packet.lists) \in [Position -> Shown \cup {Nothing}]
    BY <2>2, UnpackType DEF UnpackDrawData, TypeOK
  <2> HIDE DEF packet
  <2>4. /\ shown' = UnpackDrawData(packet.lists) /\ latest' = packet.picture
        /\ missed' = missed \ Full(packet.lists) /\ first' = FALSE
    BY <1>10 DEF ReceiveDrawData, packet
  <2> QED BY <1>10, <2>1, <2>2, <2>3, <2>4 DEF ReceiveDrawData, TypeOK
<1>11. CASE ReceiveFontTexture
  BY <1>11, ReceivedType DEF ReceiveFontTexture, TypeOK
<1>12. ASSUME CutLink,
              \/ UNCHANGED <<displaySize, sRerender, sPrevDrawListHashes, lastDrawDataHash, renderPc, written>>
              \/ Restart
       PROVE  TypeOK'
  <2>1. /\ <<>> \in Seq(Size \cup {Hello}) /\ <<>> \in Seq(DrawData \cup {FontTexture})
        /\ <<>> \in Seq(Packed \cup {Nothing}) /\ Len(<<>>) <= NumLists
    BY Constants
  <2>2. missed' \subseteq Position
    BY <1>12 DEF CutLink, TypeOK, Full
  <2>3. CASE UNCHANGED <<displaySize, sRerender, sPrevDrawListHashes, lastDrawDataHash, renderPc, written>>
    BY <1>12, <2>1, <2>2, <2>3 DEF CutLink, TypeOK
  <2>4. CASE Restart
    BY <1>12, <2>1, <2>2, <2>4, Constants DEF CutLink, Restart, TypeOK
  <2> QED BY <1>12, <2>3, <2>4
<1> QED
  BY <1>1, <1>2, <1>3, <1>4, <1>5, <1>6, <1>7, <1>8, <1>9, <1>10, <1>11, <1>12
  DEF Next, LoseLink, Restart

-----------------------------------------------------------------------------
(* Textures. *)

LEMMA StepTexture ==
  ASSUME TypeOK, TextureFollows, TextureIsExplained, [Next]_vars
  PROVE  TextureFollows' /\ TextureIsExplained'
<1>1. CASE UNCHANGED <<link, first, fontSent, toClient, texID, shown>>
  BY <1>1 DEF TextureFollows, TextureIsExplained
<1>2. CASE SendDrawData
  <2>1. CASE link = "up"
    <3>1. Len(written) = NumLists /\ toClient' = toClient \o Packets
      BY <1>2, <2>1 DEF SendDrawData
    <3>2. /\ Packets \in Seq(DrawData \cup {FontTexture})
          /\ Packets[1] # FontTexture
          /\ Len(Packets) = IF fontSent THEN 1 ELSE 2
          /\ ~fontSent => Packets[2] = FontTexture
      <4>1. Packets[1] \in DrawData
        BY <3>1, PacketsType, WrittenType DEF TypeOK, DrawData
      <4> QED BY <3>1, <4>1, PacketsType, DistinctAssumption
    <3>3. /\ Len(toClient) \in Nat /\ Len(toClient') = Len(toClient) + Len(Packets)
          /\ \A k \in 1 .. Len(toClient) + Len(Packets) :
               toClient'[k] = IF k <= Len(toClient) THEN toClient[k] ELSE Packets[k - Len(toClient)]
      <4>1. toClient \in Seq(DrawData \cup {FontTexture})
        BY DEF TypeOK
      <4> QED BY <3>1, <3>2, <4>1, LenProperties, ConcatProperties
    <3>4. toClient' # <<>> /\ fontSent' /\ link' = "up" /\ UNCHANGED <<first, texID, shown>>
      <4>1. Len(toClient') # 0
        BY <3>2, <3>3
      <4> QED BY <1>2, <2>1, <4>1 DEF SendDrawData
    <3>5. CASE toClient = <<>>
      <4>1. Len(toClient) = 0
        BY <3>5
      <4>2. (first /\ ~fontSent) \/ (~first /\ texID)
        BY <2>1, <3>5 DEF TextureFollows
      <4>3. first => toClient'[1] # FontTexture /\ toClient'[2] = FontTexture /\ Len(toClient') >= 2
        BY <3>2, <3>3, <4>1, <4>2
      <4> QED BY <3>4, <4>2, <4>3 DEF TextureFollows, TextureIsExplained
    <3>6. CASE toClient # <<>>
      <4>1. Len(toClient) >= 1 /\ toClient'[1] = toClient[1]
        BY <3>2, <3>3, <3>6, ReceivedType
      <4>2. first => toClient'[2] = toClient[2] /\ Len(toClient') >= 2
        BY <3>2, <3>3, <3>6 DEF TextureFollows
      <4> QED BY <2>1, <3>4, <3>6, <4>1, <4>2 DEF TextureFollows, TextureIsExplained
    <3> QED BY <3>5, <3>6
  <2>2. CASE link # "up"
    BY <1>2, <2>2 DEF SendDrawData, TextureFollows, TextureIsExplained
  <2> QED BY <2>1, <2>2
<1>3. CASE Connect
  BY <1>3 DEF Connect, TextureFollows, TextureIsExplained
<1>4. CASE ReceiveDrawData
  <2>1. /\ toClient # <<>> /\ toClient[1] # FontTexture /\ toClient[1] \in DrawData /\ ~first'
        /\ link = "up" /\ UNCHANGED <<link, fontSent, texID>>
    BY <1>4, ReceivedType DEF ReceiveDrawData, TextureFollows, TypeOK
  <2>2. ASSUME first PROVE TextureFollows'
    <3>1. toClient' = Tail(toClient) /\ Len(toClient) >= 2 /\ toClient[2] = FontTexture
      BY <1>4, <2>1, <2>2 DEF ReceiveDrawData, TextureFollows
    <3>2. Len(toClient') # 0 /\ toClient'[1] = FontTexture
      <4>0. Len(Tail(toClient)) = Len(toClient) - 1 /\ Len(toClient) \in Nat
        BY <2>1, ReceivedType
      <4>1. Len(toClient') = Len(toClient) - 1 /\ Len(toClient) \in Nat /\ 1 \in 1 .. Len(toClient) - 1
        BY <3>1, <4>0
      <4>2. toClient'[1] = toClient[1 + 1]
        BY <2>1, <3>1, <4>1, ReceivedType
      <4> QED BY <3>1, <4>1, <4>2
    <3>3. toClient' # <<>>
      BY <3>2
    <3> QED BY <2>1, <3>2, <3>3 DEF TextureFollows
  <2>3. ASSUME ~first PROVE TextureFollows'
    BY <2>1, <2>3 DEF TextureFollows
  <2>4. TextureIsExplained'
    <3> SUFFICES ASSUME NEW i \in Position, shown'[i] # Nothing, ~shown'[i].textureId
                 PROVE  shown'[i].inFirst
      BY DEF TextureIsExplained
    <3>1. shown'[i] = IF toClient[1].lists[i] = Nothing THEN shown[i] ELSE UnpackList(toClient[1].lists[i])
      BY <1>4, <2>1, ReceivedType DEF ReceiveDrawData, UnpackDrawData
    <3>2. texID \/ first
      BY <2>1 DEF TextureFollows
    <3> QED BY <3>1, <3>2 DEF TextureIsExplained, UnpackList
  <2> QED BY <2>2, <2>3, <2>4
<1>5. CASE ReceiveFontTexture
  <2>1. toClient # <<>> /\ toClient[1] = FontTexture
    BY <1>5, ReceivedType DEF ReceiveFontTexture
  <2>2. ~first /\ link = "up" /\ texID' /\ UNCHANGED <<link, first, shown>>
    BY <1>5, <2>1 DEF ReceiveFontTexture, TextureFollows, TypeOK
  <2> QED BY <2>2 DEF TextureFollows, TextureIsExplained
<1>6. CASE CutLink
  BY <1>6 DEF CutLink, TextureFollows, TextureIsExplained
<1> QED
  BY <1>1, <1>2, <1>3, <1>4, <1>5, <1>6
  DEF Next, NewFrame, TestRerender, PackNext, HandlePacket, HandleOthers, UpdateSize, LoseLink, Restart

-----------------------------------------------------------------------------
(* Lists that are kept. *)

LEMMA HasThenType == ASSUME TypeOK PROVE Len(toClient) \in Nat
BY LenProperties DEF TypeOK

\* A packet is handled: those behind it come one position forward, and what the client
\* will have stays the same.
LEMMA ReceiveKeeps ==
  ASSUME TypeOK, ReceiveDrawData \/ ReceiveFontTexture,
         NEW i \in Position, NEW k \in 0 .. Len(toClient) - 1, NEW v, HasThen(i, k + 1, v)
  PROVE  HasThen(i, k, v)'
<1>1. /\ toClient # <<>> /\ toClient' = Tail(toClient) /\ Head(toClient) = toClient[1]
      /\ Len(toClient) \in Nat \ {0}
      /\ \A l \in 1 .. Len(toClient) - 1 : Tail(toClient)[l] = toClient[l + 1]
  BY ReceivedType DEF ReceiveDrawData, ReceiveFontTexture
<1>2. \A l \in 1 .. k : toClient'[l] = toClient[l + 1]
  BY <1>1
<1>3. \A l \in 1 .. k : FullAt(i, l)' <=> FullAt(i, l + 1)
  BY <1>2 DEF FullAt
<1>4. FullAt(i, 1) => shown'[i] = UnpackList(toClient[1].lists[i])
  BY <1>1 DEF FullAt, ReceiveDrawData, ReceiveFontTexture, UnpackDrawData
<1>5. ~FullAt(i, 1) => shown'[i] = shown[i] /\ (i \in missed => i \in missed')
  <2>1. CASE ReceiveFontTexture
    BY <2>1 DEF ReceiveFontTexture
  <2>2. CASE ReceiveDrawData
    BY <1>1, <2>2 DEF FullAt, ReceiveDrawData, UnpackDrawData, Full
  <2> QED BY <2>1, <2>2
<1>6. ASSUME NEW j \in 1 .. k + 1, FullAt(i, j), toClient[j].lists[i].list = v,
             \A l \in j + 1 .. k + 1 : ~FullAt(i, l)
      PROVE  HasThen(i, k, v)'
  <2>1. CASE j = 1
    <3>1. \A l \in 1 .. k : ~FullAt(i, l)'
      BY <1>3, <1>6, <2>1
    <3>2. shown'[i].list = v
      BY <1>4, <1>6, <2>1 DEF UnpackList
    <3> QED BY <3>1, <3>2 DEF HasThen
  <2>2. CASE j # 1
    <3>1. j - 1 \in 1 .. k /\ j = (j - 1) + 1
      BY <2>2
    <3>2. FullAt(i, j - 1)' /\ toClient'[j - 1].lists[i].list = v
      BY <1>2, <1>3, <1>6, <3>1
    <3>3. \A l \in (j - 1) + 1 .. k : ~FullAt(i, l)'
      BY <1>3, <1>6, <3>1
    <3> QED BY <3>1, <3>2, <3>3 DEF HasThen
  <2> QED BY <2>1, <2>2
<1>7. ASSUME \A l \in 1 .. k + 1 : ~FullAt(i, l), i \in missed \/ shown[i] = Nothing \/ shown[i].list = v
      PROVE  HasThen(i, k, v)'
  <2>1. \A l \in 1 .. k : ~FullAt(i, l)'
    BY <1>3, <1>7
  <2>2. ~FullAt(i, 1)
    BY <1>7
  <2> QED BY <1>5, <1>7, <2>1, <2>2 DEF HasThen
<1> QED BY <1>6, <1>7 DEF HasThen

\* Steps that touch none of this, but may start a connection or change a flag.
LEMMA StaleUnchanged ==
  ASSUME IInv, UNCHANGED <<toClient, missed, shown, latest, written, sPrevDrawListHashes>>
  PROVE  /\ PicturesAgree' /\ HashesAgree' /\ StaleIsExplained'
         /\ \A i \in Position : \A k \in 0 .. Len(toClient) : \A v : HasThen(i, k, v)' <=> HasThen(i, k, v)
BY DEF IInv, PicturesAgree, HashesAgree, StaleIsExplained, HasThen, FullAt

LEMMA StalePackNext ==
  ASSUME IInv, PackNext
  PROVE  PicturesAgree' /\ HashesAgree' /\ WrittenIsDrawn' /\ StaleIsExplained'
<1> DEFINE n == Len(written) + 1
           next == IF SameHash(n) THEN Nothing ELSE PackList(drawn[n], displaySize)
<1>1. /\ n \in Position /\ drawn[n] \in Lists /\ Len(written) \in Nat
      /\ written \in Seq(Packed \cup {Nothing})
  BY Constants DEF PackNext, IInv, TypeOK, Position, Pictures
<1>2. /\ next # Nothing => next.list = drawn[n] /\ ~SameHash(n)
      /\ next = Nothing => SameHash(n)
      /\ next \in Packed \cup {Nothing}
  BY <1>1, PackType, DistinctAssumption DEF IInv, TypeOK, PackList
<1>3. written' = Append(written, next) /\ sPrevDrawListHashes' = [sPrevDrawListHashes EXCEPT ![n] = drawn[n]]
      /\ renderPc = "pack" /\ UNCHANGED <<toClient, missed, shown, latest, drawn, renderPc>>
  BY DEF PackNext
<1> HIDE DEF next
<1>4. /\ Len(written') = n
      /\ written'[n] = next
      /\ \A i \in 1 .. Len(written) : written'[i] = written[i]
  BY <1>1, <1>2, <1>3, AppendProperties
<1>5. /\ sPrevDrawListHashes'[n] = drawn[n]
      /\ \A i \in Position : i # n => sPrevDrawListHashes'[i] = sPrevDrawListHashes[i]
  BY <1>1, <1>3 DEF IInv, TypeOK
<1>6. PicturesAgree' /\ StaleIsExplained'
  BY <1>3 DEF IInv, PicturesAgree, StaleIsExplained, HasThen, FullAt
<1>7. WrittenIsDrawn'
  <2> SUFFICES ASSUME NEW i \in 1 .. n
               PROVE  /\ sPrevDrawListHashes'[i] = drawn[i]
                      /\ written'[i] # Nothing => written'[i].list = drawn[i]
    BY <1>3, <1>4 DEF WrittenIsDrawn
  <2>1. CASE i = n
    BY <1>2, <1>4, <1>5, <2>1
  <2>2. CASE i # n
    <3>1. i \in 1 .. Len(written) /\ i \in Position
      BY <1>1, <2>2, Constants DEF Position
    <3> QED BY <1>4, <1>5, <2>2, <3>1 DEF IInv, WrittenIsDrawn
  <2> QED BY <2>1, <2>2
<1>8. HashesAgree'
  <2> SUFFICES ASSUME NEW i \in Position, sPrevDrawListHashes'[i] # Nothing,
                      i > Len(written') \/ written'[i] = Nothing
               PROVE  HasThen(i, Len(toClient), sPrevDrawListHashes'[i])
    BY <1>3 DEF HashesAgree, HasThen, FullAt
  <2>1. CASE i = n
    <3>1. next = Nothing
      BY <1>1, <1>4, <2>1
    <3>2. drawn[n] = sPrevDrawListHashes[n] /\ n > Len(written) /\ sPrevDrawListHashes[n] # Nothing
      BY <1>1, <1>2, <1>5, <2>1, <3>1 DEF SameHash
    <3> QED BY <1>5, <2>1, <3>2 DEF IInv, HashesAgree
  <2>2. CASE i # n
    <3>1. i > Len(written) \/ written[i] = Nothing
      BY <1>1, <1>4, <2>2 DEF Position
    <3> QED BY <1>5, <2>2, <3>1 DEF IInv, HashesAgree
  <2> QED BY <2>1, <2>2
<1> QED BY <1>6, <1>7, <1>8

LEMMA StaleReceive ==
  ASSUME IInv, ReceiveDrawData \/ ReceiveFontTexture
  PROVE  PicturesAgree' /\ HashesAgree' /\ StaleIsExplained'
<1>1. TypeOK /\ toClient # <<>> /\ toClient' = Tail(toClient)
  BY DEF IInv, ReceiveDrawData, ReceiveFontTexture
<1>2. /\ Len(toClient) \in Nat \ {0} /\ Len(toClient') = Len(toClient) - 1
      /\ \A k \in 1 .. Len(toClient) - 1 : toClient'[k] = toClient[k + 1]
      /\ Head(toClient) = toClient[1]
  BY <1>1, ReceivedType
<1>3. PicturesAgree'
  <2> SUFFICES ASSUME NEW i \in Position, NEW k \in 1 .. Len(toClient) - 1, toClient'[k] # FontTexture
               PROVE  HasThen(i, k, toClient[k].picture[i])'
    BY <1>2 DEF PicturesAgree
  <2>1. PICK v : v = toClient[k + 1].picture[i]
    OBVIOUS
  <2>2. toClient'[k].picture[i] = v /\ k + 1 \in 1 .. Len(toClient) /\ k \in 0 .. Len(toClient) - 1
    BY <1>2, <2>1
  <2>3. HasThen(i, k + 1, v)
    BY <1>2, <2>1, <2>2 DEF IInv, PicturesAgree
  <2>4. HasThen(i, k, v)'
    BY <1>1, <2>2, <2>3, ReceiveKeeps
  <2> QED BY <2>2, <2>4 DEF HasThen
<1>4. HashesAgree'
  <2>1. UNCHANGED <<sPrevDrawListHashes, written>>
    BY DEF ReceiveDrawData, ReceiveFontTexture
  <2> SUFFICES ASSUME NEW i \in Position, sPrevDrawListHashes[i] # Nothing,
                      i > Len(written) \/ written[i] = Nothing
               PROVE  HasThen(i, Len(toClient), sPrevDrawListHashes[i])'
    BY <2>1 DEF HashesAgree
  <2>2. PICK v : v = sPrevDrawListHashes[i]
    OBVIOUS
  <2>3. PICK k : k = Len(toClient) - 1
    OBVIOUS
  <2>4. k \in 0 .. Len(toClient) - 1 /\ k + 1 = Len(toClient) /\ Len(toClient') = k
    BY <1>2, <2>3
  <2>5. HasThen(i, k + 1, v)
    BY <2>2, <2>4 DEF IInv, HashesAgree
  <2>6. HasThen(i, k, v)'
    BY <1>1, <2>4, <2>5, ReceiveKeeps
  <2> QED BY <2>1, <2>2, <2>4, <2>6 DEF HasThen
<1>5. StaleIsExplained'
  <2>1. CASE ReceiveFontTexture
    BY <2>1 DEF IInv, StaleIsExplained, ReceiveFontTexture
  <2>2. CASE ReceiveDrawData
    <3> SUFFICES ASSUME NEW i \in Position
                 PROVE  i \in missed' \/ shown'[i] = Nothing \/ shown'[i].list = latest'[i]
      BY DEF StaleIsExplained
    <3>1. PICK v : v = toClient[1].picture[i]
      OBVIOUS
    <3>2. v = latest'[i] /\ toClient[1] # FontTexture
      BY <1>2, <2>2, <3>1 DEF ReceiveDrawData
    <3>3. HasThen(i, 0 + 1, v)
      <4>1. 1 \in 1 .. Len(toClient) /\ 0 + 1 = 1
        BY <1>2
      <4>2. HasThen(i, 1, v)
        BY <3>1, <3>2, <4>1 DEF IInv, PicturesAgree
      <4> QED BY <4>1, <4>2
    <3>4. 0 \in 0 .. Len(toClient) - 1
      BY <1>2
    <3>5. HasThen(i, 0, v)'
      BY <1>1, <3>3, <3>4, ReceiveKeeps
    <3>6. ~ \E j \in 1 .. 0 : TRUE
      OBVIOUS
    <3> QED BY <3>2, <3>5, <3>6 DEF HasThen
  <2> QED BY <2>1, <2>2
<1> QED BY <1>3, <1>4, <1>5

\* Packets are added behind those on their way.
LEMMA AppendKeeps ==
  ASSUME TypeOK, UNCHANGED <<missed, shown>>,
         Len(toClient') \in Nat, Len(toClient) <= Len(toClient'),
         \A l \in 1 .. Len(toClient) : toClient'[l] = toClient[l],
         NEW i \in Position, NEW v, NEW k \in 0 .. Len(toClient), HasThen(i, k, v),
         NEW m \in Nat, k <= m, \A l \in k + 1 .. m : ~FullAt(i, l)'
  PROVE  HasThen(i, m, v)'
<1>1. \A l \in 1 .. k : FullAt(i, l)' <=> FullAt(i, l)
  BY HasThenType DEF FullAt
<1>2. ASSUME NEW j \in 1 .. k, FullAt(i, j), toClient[j].lists[i].list = v,
             \A l \in j + 1 .. k : ~FullAt(i, l)
      PROVE  HasThen(i, m, v)'
  <2>1. \A l \in j + 1 .. m : ~FullAt(i, l)'
    BY <1>1, <1>2
  <2>2. FullAt(i, j)' /\ toClient'[j].lists[i].list = v /\ j \in 1 .. m
    BY <1>1, <1>2, HasThenType
  <2> QED BY <2>1, <2>2 DEF HasThen
<1>3. ASSUME \A l \in 1 .. k : ~FullAt(i, l), i \in missed \/ shown[i] = Nothing \/ shown[i].list = v
      PROVE  HasThen(i, m, v)'
  <2>1. \A l \in 1 .. m : ~FullAt(i, l)'
    BY <1>1, <1>3
  <2> QED BY <1>3, <2>1 DEF HasThen
<1> QED BY <1>2, <1>3 DEF HasThen

LEMMA StaleSend ==
  ASSUME IInv, SendDrawData, link = "up"
  PROVE  PicturesAgree' /\ HashesAgree' /\ StaleIsExplained'
<1>0. PICK n : n = Len(toClient)
  OBVIOUS
<1> DEFINE data == [picture |-> drawn, lists |-> written]
<1>1. /\ TypeOK /\ Len(written) = NumLists /\ toClient' = toClient \o Packets /\ written' = <<>>
      /\ UNCHANGED <<missed, shown, latest, sPrevDrawListHashes>> /\ renderPc = "pack"
  BY DEF IInv, SendDrawData
<1>2. /\ n \in Nat /\ Len(toClient') \in {n + 1, n + 2} /\ n <= Len(toClient')
      /\ \A l \in 1 .. n : toClient'[l] = toClient[l]
      /\ toClient'[n + 1] = data
      /\ Len(toClient') = n + 2 => toClient'[n + 2] = FontTexture
  <2>1. toClient \in Seq(DrawData \cup {FontTexture}) /\ n \in Nat
    BY <1>0, <1>1, LenProperties DEF TypeOK
  <2>2. /\ Packets \in Seq(DrawData \cup {FontTexture})
        /\ Packets[1] = data
        /\ Len(Packets) = IF fontSent THEN 1 ELSE 2
        /\ ~fontSent => Packets[2] = FontTexture
    BY <1>1, PacketsType
  <2> HIDE DEF data
  <2>3. /\ Len(toClient') = n + Len(Packets)
        /\ \A k \in 1 .. n + Len(Packets) :
             toClient'[k] = IF k <= n THEN toClient[k] ELSE Packets[k - n]
    BY <1>0, <1>1, <2>1, <2>2, ConcatProperties
  <2>4. \A l \in 1 .. n : toClient'[l] = toClient[l]
    BY <1>0, <2>1, <2>2, <2>3
  <2>5. toClient'[n + 1] = data
    BY <2>1, <2>2, <2>3
  <2>6. Len(toClient') = n + 2 => toClient'[n + 2] = FontTexture
    BY <2>1, <2>2, <2>3
  <2> QED BY <1>0, <2>1, <2>2, <2>3, <2>4, <2>5, <2>6
<1>3. data \in DrawData /\ data # FontTexture
  BY <1>1, WrittenType, DistinctAssumption DEF TypeOK, DrawData
<1>4. \A i \in Position : i \in 1 .. Len(written)
  BY <1>1 DEF Position
<1>5. \A i \in Position : FullAt(i, n + 1)' <=> written[i] # Nothing
  BY <1>2, <1>3 DEF FullAt
<1>6. ASSUME NEW i \in Position, NEW v, v = drawn[i], NEW m \in {n + 1, n + 2},
             Len(toClient') = n + 1 => m = n + 1
      PROVE  HasThen(i, m, v)'
  <2>1. \A l \in n + 2 .. m : ~FullAt(i, l)'
    BY <1>2, <1>6 DEF FullAt
  <2>2. CASE written[i] # Nothing
    <3>1. toClient'[n + 1].lists[i].list = v /\ FullAt(i, n + 1)'
      BY <1>2, <1>4, <1>5, <1>6, <2>2 DEF IInv, WrittenIsDrawn
    <3>2. n + 1 \in 1 .. m /\ (n + 1) + 1 = n + 2
      BY <1>2
    <3> QED BY <2>1, <3>1, <3>2 DEF HasThen
  <2>3. CASE written[i] = Nothing
    <3>1. sPrevDrawListHashes[i] = v /\ v # Nothing
      <4>1. drawn[i] \in Lists
        BY <1>1 DEF TypeOK, Pictures
      <4> QED BY <1>4, <1>6, <4>1, DistinctAssumption DEF IInv, WrittenIsDrawn
    <3>2. HasThen(i, n, v)
      BY <1>0, <2>3, <3>1 DEF IInv, HashesAgree
    <3>3. \A l \in n + 1 .. m : ~FullAt(i, l)'
      BY <1>2, <1>5, <2>1, <2>3
    <3>4. n \in 0 .. Len(toClient) /\ m \in Nat /\ n <= m
      BY <1>0, <1>2
    <3> QED BY <1>0, <1>1, <1>2, <3>2, <3>3, <3>4, AppendKeeps
  <2> QED BY <2>2, <2>3
<1>7. PicturesAgree'
  <2> SUFFICES ASSUME NEW i \in Position, NEW k \in 1 .. Len(toClient'), toClient'[k] # FontTexture
               PROVE  HasThen(i, k, toClient[k].picture[i])'
    BY DEF PicturesAgree
  <2>1. PICK v : v = toClient'[k].picture[i]
    OBVIOUS
  <2>2. CASE k \in 1 .. n
    <3>1. HasThen(i, k, v)
      BY <1>0, <1>2, <2>1, <2>2 DEF IInv, PicturesAgree
    <3>2. /\ k \in 0 .. Len(toClient) /\ k \in Nat /\ k <= k
          /\ \A l \in k + 1 .. k : ~FullAt(i, l)'
      BY <1>0, <1>2, <2>2
    <3>3. HasThen(i, k, v)'
      BY <1>0, <1>1, <1>2, <3>1, <3>2, AppendKeeps
    <3> QED BY <2>1, <3>3 DEF HasThen
  <2>3. CASE k = n + 1
    <3>1. v = drawn[i]
      BY <1>2, <2>1, <2>3
    <3>2. HasThen(i, k, v)'
      BY <1>6, <2>3, <3>1
    <3> QED BY <2>1, <3>2 DEF HasThen
  <2> QED BY <1>2, <2>2, <2>3
<1>8. HashesAgree'
  <2> SUFFICES ASSUME NEW i \in Position
               PROVE  HasThen(i, Len(toClient), sPrevDrawListHashes[i])'
    BY DEF HashesAgree
  <2>1. PICK v : v = drawn[i]
    OBVIOUS
  <2>2. sPrevDrawListHashes'[i] = v
    BY <1>1, <1>4, <2>1 DEF IInv, WrittenIsDrawn
  <2>3. PICK m : m = Len(toClient')
    OBVIOUS
  <2>4. HasThen(i, m, v)'
    BY <1>2, <1>6, <2>1, <2>3
  <2> QED BY <2>2, <2>3, <2>4 DEF HasThen
<1>9. StaleIsExplained'
  BY <1>1 DEF IInv, StaleIsExplained
<1> QED BY <1>7, <1>8, <1>9

\* Nothing is on its way, and a list is missed if it was packed in full, or was on its way.
LEMMA StaleLost ==
  ASSUME IInv, toClient' = <<>>, UNCHANGED <<shown, latest>>, missed \subseteq missed',
         \A i \in Position : (\E k \in 1 .. Len(toClient) : FullAt(i, k)) => i \in missed'
  PROVE  /\ PicturesAgree' /\ StaleIsExplained'
         /\ \A i \in Position : \A v : HasThen(i, Len(toClient), v) => HasThen(i, 0, v)'
<1>1. Len(toClient') = 0 /\ 1 .. 0 = {}
  OBVIOUS
<1>2. PicturesAgree' /\ StaleIsExplained'
  BY <1>1 DEF PicturesAgree, IInv, StaleIsExplained
<1>3. ASSUME NEW i \in Position, NEW v, HasThen(i, Len(toClient), v) PROVE HasThen(i, 0, v)'
  <2>1. i \in missed' \/ shown[i] = Nothing \/ shown[i].list = v
    BY <1>3 DEF HasThen
  <2> QED BY <1>1, <2>1 DEF HasThen
<1> QED BY <1>2, <1>3

LEMMA StaleSendNowhere ==
  ASSUME IInv, SendDrawData, link # "up"
  PROVE  PicturesAgree' /\ HashesAgree' /\ StaleIsExplained'
<1>1. /\ TypeOK /\ Len(written) = NumLists /\ toClient = <<>> /\ written' = <<>>
      /\ missed' = missed \cup Full(written) /\ renderPc = "pack"
      /\ UNCHANGED <<toClient, shown, latest, sPrevDrawListHashes>>
  BY DEF IInv, SendDrawData, TypeOK, TextureFollows
<1>2. Len(toClient) = 0 /\ Len(toClient') = 0 /\ 1 .. 0 = {}
  BY <1>1
<1>3. missed \subseteq missed'
  BY <1>1
<1>4. /\ PicturesAgree' /\ StaleIsExplained'
      /\ \A i \in Position : \A v : HasThen(i, Len(toClient), v) => HasThen(i, 0, v)'
  BY <1>1, <1>2, <1>3, StaleLost
<1>5. HashesAgree'
  <2> SUFFICES ASSUME NEW i \in Position
               PROVE  HasThen(i, Len(toClient), sPrevDrawListHashes[i])'
    BY DEF HashesAgree
  <2>1. PICK v : v = sPrevDrawListHashes[i]
    OBVIOUS
  <2>2. i \in 1 .. Len(written) /\ v # Nothing
    <3>1. i \in 1 .. Len(written) /\ drawn[i] \in Lists
      BY <1>1 DEF Position, TypeOK, Pictures
    <3> QED BY <2>1, <3>1, DistinctAssumption DEF IInv, WrittenIsDrawn
  <2>3. HasThen(i, 0, v)'
    <3>1. CASE written[i] = Nothing
      <4>1. HasThen(i, Len(toClient), v)
        BY <2>1, <2>2, <3>1 DEF IInv, HashesAgree
      <4> QED BY <1>4, <4>1
    <3>2. CASE written[i] # Nothing
      <4>1. i \in missed'
        BY <1>1, <3>2 DEF Full
      <4> QED BY <1>2, <4>1 DEF HasThen
    <3> QED BY <3>1, <3>2
  <2> QED BY <1>1, <1>2, <2>1, <2>3 DEF HasThen
<1> QED BY <1>4, <1>5

LEMMA StaleCut ==
  ASSUME IInv, LoseLink \/ Restart
  PROVE  PicturesAgree' /\ HashesAgree' /\ StaleIsExplained'
<1>1. /\ TypeOK /\ toClient' = <<>> /\ UNCHANGED <<shown, latest>>
      /\ missed' = missed \cup UNION {Full(toClient[k].lists) :
                                         k \in {j \in DOMAIN toClient : toClient[j] # FontTexture}}
  BY DEF IInv, LoseLink, Restart, CutLink
<1>2. DOMAIN toClient = 1 .. Len(toClient)
  BY <1>1, LenProperties DEF TypeOK
<1>3. missed \subseteq missed'
  BY <1>1
<1>4. ASSUME NEW i \in Position, NEW k \in 1 .. Len(toClient), FullAt(i, k) PROVE i \in missed'
  <2>1. i \in Full(toClient[k].lists) /\ k \in {j \in DOMAIN toClient : toClient[j] # FontTexture}
    BY <1>2, <1>4 DEF FullAt, Full
  <2> QED BY <1>1, <2>1
<1>5. /\ PicturesAgree' /\ StaleIsExplained'
      /\ \A i \in Position : \A v : HasThen(i, Len(toClient), v) => HasThen(i, 0, v)'
  BY <1>1, <1>3, <1>4, StaleLost
<1>6. CASE LoseLink
  <2>1. UNCHANGED <<sPrevDrawListHashes, written>> /\ Len(toClient') = 0
    BY <1>1, <1>6 DEF LoseLink
  <2> SUFFICES ASSUME NEW i \in Position, sPrevDrawListHashes[i] # Nothing,
                      i > Len(written) \/ written[i] = Nothing
               PROVE  HasThen(i, Len(toClient), sPrevDrawListHashes[i])'
    BY <1>5, <2>1 DEF HashesAgree
  <2>2. PICK v : v = sPrevDrawListHashes[i]
    OBVIOUS
  <2>3. HasThen(i, 0, v)'
    BY <1>5, <2>2 DEF IInv, HashesAgree
  <2> QED BY <2>1, <2>2, <2>3 DEF HasThen
<1>7. CASE Restart
  <2>1. \A i \in Position : sPrevDrawListHashes'[i] = Nothing
    BY <1>7 DEF Restart
  <2> QED BY <1>5, <2>1 DEF HashesAgree
<1> QED BY <1>6, <1>7

LEMMA StepStale ==
  ASSUME IInv, [Next]_vars
  PROVE  PicturesAgree' /\ HashesAgree' /\ WrittenIsDrawn' /\ StaleIsExplained'
<1>1. CASE UNCHANGED <<toClient, missed, shown, latest, written, sPrevDrawListHashes, drawn, renderPc>>
  BY <1>1, StaleUnchanged DEF IInv, WrittenIsDrawn
<1>2. CASE NewFrame \/ TestRerender
  <2>1. WrittenIsDrawn'
    <3>1. written = <<>> /\ UNCHANGED written
      BY <1>2 DEF NewFrame, TestRerender, IInv, WrittenIsDrawn
    <3>2. 1 .. Len(written') = {}
      BY <3>1
    <3> QED BY <3>1, <3>2 DEF WrittenIsDrawn
  <2> QED BY <1>2, <2>1, StaleUnchanged DEF NewFrame, TestRerender
<1>3. CASE PackNext
  BY <1>3, StalePackNext
<1>4. CASE SendDrawData
  <2>1. WrittenIsDrawn'
    <3>1. written' = <<>>
      BY <1>4 DEF SendDrawData
    <3>2. 1 .. Len(written') = {}
      BY <3>1
    <3> QED BY <3>1, <3>2 DEF WrittenIsDrawn
  <2> QED BY <1>4, <2>1, StaleSend, StaleSendNowhere
<1>5. CASE ReceiveDrawData \/ ReceiveFontTexture
  <2>1. WrittenIsDrawn'
    BY <1>5 DEF ReceiveDrawData, ReceiveFontTexture, IInv, WrittenIsDrawn
  <2> QED BY <1>5, <2>1, StaleReceive
<1>6. CASE LoseLink \/ Restart
  <2>1. WrittenIsDrawn'
    <3>1. CASE LoseLink
      BY <3>1 DEF LoseLink, CutLink, IInv, WrittenIsDrawn
    <3>2. CASE Restart
      <4>1. written' = <<>> /\ 1 .. Len(<<>>) = {}
        BY <3>2 DEF Restart
      <4> QED BY <4>1 DEF WrittenIsDrawn
    <3> QED BY <1>6, <3>1, <3>2
  <2> QED BY <1>6, <2>1, StaleCut
<1> QED
  BY <1>1, <1>2, <1>3, <1>4, <1>5, <1>6
  DEF Next, HandlePacket, HandleOthers, Connect, UpdateSize

-----------------------------------------------------------------------------
(* Theorems. *)

LEMMA InitInv == Init => IInv
<1> SUFFICES ASSUME Init PROVE IInv
  OBVIOUS
<1>1. 1 .. Len(<<>>) = {}
  OBVIOUS
<1> QED BY <1>1, InitType
        DEF Init, IInv, TextureFollows, TextureIsExplained, PicturesAgree, HashesAgree, WrittenIsDrawn,
            StaleIsExplained

LEMMA StepInv == IInv /\ [Next]_vars => IInv'
<1> SUFFICES ASSUME IInv, [Next]_vars PROVE IInv'
  OBVIOUS
<1>1. TypeOK'
  BY StepType DEF IInv
<1>2. TextureFollows' /\ TextureIsExplained'
  BY StepTexture DEF IInv
<1> QED BY <1>1, <1>2, StepStale DEF IInv

LEMMA Invariance == Spec => []IInv
BY InitInv, StepInv, PTL DEF Spec

\* Whatever the sizes are, a packed vertex and a packed clip rectangle fit their 12 bits,
\* and what is unpacked lies within the client's window, or at -1 before it has one.
THEOREM TypeCorrect == Spec => []TypeOK
<1>1. IInv => TypeOK
  BY DEF IInv
<1> QED BY <1>1, Invariance, PTL

\* Whatever is lost, and however often the client or the sysmodule starts again, the list
\* that a client keeps for three zeros is the one that was drawn, unless one that was
\* sent in full did not reach it.
THEOREM StaleIsAlwaysExplained == Spec => []StaleIsExplained
<1>1. IInv => StaleIsExplained
  BY DEF IInv
<1> QED BY <1>1, Invariance, PTL

\* On every connection the font texture comes right behind the first picture: only the
\* lists of that one can be without it.
THEOREM TextureIsAlwaysExplained == Spec => []TextureIsExplained
<1>1. IInv => TextureIsExplained
  BY DEF IInv
<1> QED BY <1>1, Invariance, PTL

-----------------------------------------------------------------------------
(* Coordinates. *)

\* Lists that were packed and not unpacked yet, and those the client shows.
InTransit ==
  {p \in Packed :
     \/ \E k \in 1 .. Len(written) : written[k] = p
     \/ \E k \in 1 .. Len(toClient) : \E i \in Position :
          toClient[k] # FontTexture /\ toClient[k].lists[i] = p}
OnScreen == {v \in Shown : \E i \in Position : shown[i] = v}

\* Sizes that lists were laid out for, or the next will be.
EdgesSeen ==
  {displaySize} \cup {drawn[i].edge : i \in Position}
    \cup {p.list.edge : p \in InTransit} \cup {v.list.edge : v \in OnScreen}

\* A size that is somewhere has been in use.
SeenAreUsed ==
  /\ EdgesSeen \subseteq used
  /\ size \in used \cup {NoSize}
  /\ \A k \in 1 .. Len(toServer) : toServer[k] \in used \cup {Hello}
  /\ DefaultSize \in used
  /\ size = DefaultSize => DefaultSize \in reused

\* If it was so only once, nothing is laid out for it before the sysmodule has heard of it.
SentAreUnseen ==
  \A k \in 1 .. Len(toServer) :
    toServer[k] # Hello /\ toServer[k] \notin reused =>
      /\ toServer[k] \notin EdgesSeen
      /\ \A j \in 1 .. Len(toServer) : toServer[j] = toServer[k] => j = k

\* From then on, as long as the sysmodule and the client keep it, all that is laid out for
\* it is packed and unpacked for it.
ExactSinceUsed ==
  size = displaySize /\ size \notin reused =>
    /\ \A p \in InTransit : p.list.edge = size => p.pos = PosBound /\ p.clip = PosBound
    /\ \A v \in OnScreen : v.list.edge = size => v.pos = size /\ v.clip = size

\* Between two pictures, the hashes kept are those of the last.
HashesOfLast ==
  written = <<>> /\ ~sRerender =>
    \A i \in Position : sPrevDrawListHashes[i] = lastDrawDataHash[i]

SizeInv == SeenAreUsed /\ SentAreUnseen /\ ExactSinceUsed /\ HashesOfLast

-----------------------------------------------------------------------------
\* The right edge of the display is the largest number of 12 bits, and back.
LEMMA EdgeIsExact ==
  ASSUME NEW list \in Lists, NEW width \in Size, list.edge = width
  PROVE  /\ PackList(list, width).pos = PosBound /\ PackList(list, width).clip = PosBound
         /\ Unpack(PosBound, width) = width
<1>1. ASSUME NEW a \in Nat, NEW b \in Nat \ {0} PROVE (b * a) \div b = a /\ (a * b) \div b = a
  OBVIOUS
<1>2. /\ width \in Nat \ {0} /\ PosBound \in Nat \ {0} /\ Smaller(width, width) = width
  BY Constants DEF Smaller
<1>3. (width * PosBound) \div width = PosBound /\ (PosBound * width) \div PosBound = width
  BY <1>1, <1>2
<1>4. PosBound % (PosBound + 1) = PosBound
  BY <1>2
<1> QED BY <1>2, <1>3, <1>4 DEF PackList, PackPos, PackClip, Unpack

\* A list gets into the render thread's packet only when it is packed.
LEMMA PackNextTransit ==
  ASSUME TypeOK, PackNext
  PROVE  InTransit' \subseteq InTransit \cup {PackList(drawn[i], displaySize) : i \in Position}
<1> DEFINE i == Len(written) + 1
           new == IF SameHash(i) THEN Nothing ELSE PackList(drawn[i], displaySize)
<1>1. written' = Append(written, new) /\ toClient' = toClient /\ i <= NumLists
  BY DEF PackNext
<1>2. written \in Seq(Packed \cup {Nothing}) /\ Len(written) \in Nat
  BY DEF TypeOK
<1>3. i \in Position
  BY <1>1, <1>2, Constants DEF Position
<1>4. \A k \in 1 .. Len(written') : written'[k] = new \/ (k \in 1 .. Len(written) /\ written'[k] = written[k])
  <2>1. ASSUME NEW q \in Seq(Packed \cup {Nothing}), NEW x
        PROVE  \A k \in 1 .. Len(Append(q, x)) :
                 Append(q, x)[k] = x \/ (k \in 1 .. Len(q) /\ Append(q, x)[k] = q[k])
    OBVIOUS
  <2> HIDE DEF new
  <2> QED BY <1>1, <1>2, <2>1
<1>5. new \in Packed => new \in {PackList(drawn[j], displaySize) : j \in Position}
  BY <1>3, DistinctAssumption
<1> HIDE DEF new, i
<1> QED BY <1>1, <1>4, <1>5 DEF InTransit

\* The packets that are added hold what the render thread has packed.
LEMMA SendTransit ==
  ASSUME TypeOK, SendDrawData
  PROVE  InTransit' \subseteq InTransit
<1>1. Len(written) = NumLists /\ written' = <<>> /\ 1 .. Len(<<>>) = {}
  BY DEF SendDrawData
<1>2. CASE UNCHANGED toClient
  BY <1>1, <1>2 DEF InTransit
<1>3. CASE toClient' = toClient \o Packets
  <2> DEFINE data == [picture |-> drawn, lists |-> written]
  <2>1. /\ Packets \in Seq(DrawData \cup {FontTexture}) /\ toClient \in Seq(DrawData \cup {FontTexture})
        /\ Packets[1] = data
        /\ Len(Packets) \in {1, 2} /\ (Len(Packets) = 2 => Packets[2] = FontTexture)
    BY <1>1, PacketsType DEF TypeOK
  <2>2. data.lists = written
    OBVIOUS
  <2> HIDE DEF data
  <2>3. /\ Len(toClient') = Len(toClient) + Len(Packets) /\ Len(toClient) \in Nat
        /\ \A k \in 1 .. Len(toClient) + Len(Packets) :
             toClient'[k] = IF k <= Len(toClient) THEN toClient[k] ELSE Packets[k - Len(toClient)]
    BY <1>3, <2>1, ConcatProperties, LenProperties
  <2>4. \A k \in 1 .. Len(toClient') :
          \/ k \in 1 .. Len(toClient) /\ toClient'[k] = toClient[k]
          \/ toClient'[k] = data \/ toClient'[k] = FontTexture
    <3> SUFFICES ASSUME NEW k \in 1 .. Len(toClient'), ~(k <= Len(toClient))
                 PROVE  toClient'[k] = data \/ toClient'[k] = FontTexture
      BY <2>3
    <3>1. k - Len(toClient) \in 1 .. Len(Packets)
      BY <2>1, <2>3
    <3>2. k - Len(toClient) = 1 \/ (k - Len(toClient) = 2 /\ Len(Packets) = 2)
      <4>1. Len(Packets) = 1 \/ Len(Packets) = 2
        BY <2>1
      <4>2. CASE Len(Packets) = 1
        BY <2>3, <3>1, <4>2
      <4>3. CASE Len(Packets) = 2
        BY <2>3, <3>1, <4>3
      <4> QED BY <4>1, <4>2, <4>3
    <3> QED BY <2>1, <2>3, <3>2
  <2>5. Position = 1 .. Len(written)
    BY <1>1 DEF Position
  <2> QED BY <1>1, <2>2, <2>4, <2>5 DEF InTransit
<1> QED BY <1>2, <1>3 DEF SendDrawData

\* What is received was on its way.
LEMMA ReceiveTransit ==
  ASSUME TypeOK, ReceiveDrawData \/ ReceiveFontTexture
  PROVE  /\ InTransit' \subseteq InTransit
         /\ OnScreen' \subseteq OnScreen \cup {UnpackList(p) : p \in InTransit}
<1>1. /\ toClient # <<>> /\ toClient' = Tail(toClient) /\ written' = written
  BY DEF ReceiveDrawData, ReceiveFontTexture
<1>2. /\ Head(toClient) = toClient[1] /\ Len(toClient) \in Nat \ {0}
      /\ Head(toClient) # FontTexture => Head(toClient) \in DrawData
      /\ Len(toClient') = Len(toClient) - 1
      /\ \A k \in 1 .. Len(toClient) - 1 : toClient'[k] = toClient[k + 1]
  BY <1>1, ReceivedType
<1>3. \A k \in 1 .. Len(toClient') : k + 1 \in 1 .. Len(toClient) /\ toClient'[k] = toClient[k + 1]
  BY <1>2
<1>4. InTransit' \subseteq InTransit
  BY <1>1, <1>3 DEF InTransit
<1>5. ASSUME NEW i \in Position, shown'[i] \in Shown
      PROVE  shown'[i] \in OnScreen \cup {UnpackList(p) : p \in InTransit}
  <2>1. CASE ReceiveFontTexture
    BY <1>5, <2>1 DEF ReceiveFontTexture, OnScreen
  <2>2. CASE ReceiveDrawData
    <3>1. /\ Head(toClient) # FontTexture
          /\ shown'[i] = IF toClient[1].lists[i] = Nothing THEN shown[i]
                                                           ELSE UnpackList(toClient[1].lists[i])
      BY <1>2, <2>2 DEF ReceiveDrawData, UnpackDrawData
    <3>2. toClient[1].lists[i] # Nothing => toClient[1].lists[i] \in InTransit
      <4>1. toClient[1].lists[i] \in Packed \cup {Nothing} /\ 1 \in 1 .. Len(toClient)
        BY <1>2, <3>1 DEF DrawData
      <4> QED BY <1>2, <3>1, <4>1 DEF InTransit
    <3> QED BY <1>5, <3>1, <3>2 DEF OnScreen
  <2> QED BY <2>1, <2>2
<1> QED BY <1>4, <1>5 DEF OnScreen

\* Where lists come from, in any step.
LEMMA StepLists ==
  ASSUME TypeOK, [Next]_vars
  PROVE  /\ InTransit' \subseteq InTransit \cup {PackList(drawn[i], displaySize) : i \in Position}
         /\ OnScreen' \subseteq OnScreen \cup {UnpackList(p) : p \in InTransit}
         /\ \A i \in Position : drawn'[i].edge \in {drawn[i].edge, displaySize}
<1>1. CASE PackNext
  <2>1. UNCHANGED <<shown, drawn>>
    BY <1>1 DEF PackNext
  <2> QED BY <1>1, <2>1, PackNextTransit DEF OnScreen
<1>2. CASE SendDrawData
  <2>1. UNCHANGED <<shown, drawn>>
    BY <1>2 DEF SendDrawData
  <2> QED BY <1>2, <2>1, SendTransit DEF OnScreen
<1>3. CASE ReceiveDrawData \/ ReceiveFontTexture
  <2>1. UNCHANGED drawn
    BY <1>3 DEF ReceiveDrawData, ReceiveFontTexture
  <2> QED BY <1>3, <2>1, ReceiveTransit
<1>4. CASE LoseLink \/ Restart
  <2>1. /\ toClient' = <<>> /\ UNCHANGED <<shown, drawn>> /\ (written' = written \/ written' = <<>>)
        /\ 1 .. Len(<<>>) = {}
    BY <1>4 DEF LoseLink, Restart, CutLink
  <2> QED BY <2>1 DEF InTransit, OnScreen
<1>5. CASE NewFrame
  <2>1. UNCHANGED <<shown, written, toClient>>
    BY <1>5 DEF NewFrame
  <2>2. \A i \in Position : drawn'[i].edge = displaySize
    <3>1. ASSUME NEW picture \in Pictures, NEW i \in Position
          PROVE  LaidOut(picture)[i].edge = displaySize
      <4>1. picture[i] \in Lists
        BY DEF Pictures
      <4> QED BY <4>1 DEF LaidOut, Lists
    <3>2. drawn \in Pictures
      BY DEF TypeOK
    <3>3. ASSUME NEW i \in Position, NEW b \in Body PROVE [drawn EXCEPT ![i].body = b] \in Pictures
      BY <3>2 DEF Pictures, Lists
    <3>4. \E picture \in Pictures : drawn' = LaidOut(picture)
      BY <1>5, <3>2, <3>3 DEF NewFrame
    <3> QED BY <3>1, <3>4
  <2> QED BY <2>1, <2>2 DEF InTransit, OnScreen
<1>6. CASE UNCHANGED <<shown, written, toClient, drawn>>
  BY <1>6 DEF InTransit, OnScreen
<1> QED
  BY <1>1, <1>2, <1>3, <1>4, <1>5, <1>6
  DEF Next, TestRerender, HandlePacket, HandleOthers, Connect, UpdateSize

\* Sizes come into lists from the sysmodule's display size only.
LEMMA StepEdges ==
  ASSUME TypeOK, [Next]_vars
  PROVE  EdgesSeen' \subseteq EdgesSeen \cup {displaySize'}
<1>1. \A i \in Position : PackList(drawn[i], displaySize).list = drawn[i]
  BY DEF PackList
<1>2. \A p \in InTransit : UnpackList(p).list = p.list
  BY DEF UnpackList
<1>3. \A p \in InTransit' : p.list.edge \in EdgesSeen
  BY <1>1, StepLists DEF EdgesSeen
<1>4. \A v \in OnScreen' : v.list.edge \in EdgesSeen
  BY <1>2, StepLists DEF EdgesSeen
<1>5. \A i \in Position : drawn'[i].edge \in EdgesSeen
  BY StepLists DEF EdgesSeen
<1> QED BY <1>3, <1>4, <1>5 DEF EdgesSeen

LEMMA InitSizes == Init => SizeInv
<1> SUFFICES ASSUME Init PROVE SizeInv
  OBVIOUS
<1>1. 1 .. Len(<<>>) = {}
  OBVIOUS
<1>2. InTransit = {} /\ OnScreen = {}
  BY <1>1, DistinctAssumption DEF Init, InTransit, OnScreen
<1>3. EdgesSeen = {DefaultSize}
  BY <1>2, Constants DEF Init, EdgesSeen, Position
<1>4. NoSize # DefaultSize
  BY Constants DEF NoSize
<1> QED BY <1>1, <1>2, <1>3, <1>4 DEF Init, SizeInv, SeenAreUsed, SentAreUnseen, ExactSinceUsed, HashesOfLast

\* The first packet to the sysmodule is handled: those behind it move forward.
LEMMA HandledSize ==
  ASSUME TypeOK, HandlePacket
  PROVE  /\ Head(toServer) = toServer[1] /\ 1 \in 1 .. Len(toServer)
         /\ \A k \in 1 .. Len(toServer') :
              /\ k + 1 \in 1 .. Len(toServer) /\ k + 1 # 1 /\ k \in Nat
              /\ toServer'[k] = toServer[k + 1]
<1>1. toServer \in Seq(Size \cup {Hello}) /\ toServer # <<>> /\ toServer' = Tail(toServer)
  BY DEF TypeOK, HandlePacket
<1>2. Len(toServer) \in Nat \ {0} /\ Head(toServer) = toServer[1]
  BY <1>1, EmptySeq
<1>3. Len(toServer') = Len(toServer) - 1 /\ \A k \in 1 .. Len(toServer) - 1 : toServer'[k] = toServer[k + 1]
  BY <1>1, HeadTailProperties
<1> QED BY <1>2, <1>3

\* Another size is sent behind all others.
LEMMA SentSize ==
  ASSUME TypeOK, NEW s \in Size, toServer' = Append(toServer, s)
  PROVE  \A k \in 1 .. Len(toServer') :
           \/ k = Len(toServer) + 1 /\ toServer'[k] = s
           \/ k \in 1 .. Len(toServer) /\ toServer'[k] = toServer[k]
<1>1. toServer \in Seq(Size \cup {Hello}) /\ Len(toServer) \in Nat
  BY LenProperties DEF TypeOK
<1> QED BY <1>1, AppendProperties

\* Hello, or a size.
LEMMA PacketsToServer ==
  ASSUME TypeOK
  PROVE  /\ \A k \in 1 .. Len(toServer) : toServer[k] \in Size \cup {Hello}
         /\ Hello \notin Size /\ NoSize \notin Size
<1>1. toServer \in Seq(Size \cup {Hello})
  BY DEF TypeOK
<1>2. \A k \in 1 .. Len(toServer) : toServer[k] \in Size \cup {Hello}
  BY <1>1, ElementOfSeq
<1> QED BY <1>2, Constants DEF Hello, NoSize

\* Steps in which neither end hears of a size.
LEMMA SizesUnchanged ==
  ASSUME IInv, SizeInv, [Next]_vars, UNCHANGED <<displaySize, size, used, reused>>,
         toServer' = toServer \/ toServer' = <<>> \/ toServer' = <<Hello>>
  PROVE  SeenAreUsed' /\ SentAreUnseen' /\ ExactSinceUsed'
<1>0. TypeOK
  BY DEF IInv
<1>1. EdgesSeen' \subseteq EdgesSeen
  BY <1>0, StepEdges DEF EdgesSeen
<1>2. \A k \in 1 .. Len(toServer') :
        toServer'[k] = Hello \/ (k \in 1 .. Len(toServer) /\ toServer' = toServer)
  <2>1. 1 .. Len(<<>>) = {} /\ \A k \in 1 .. Len(<<Hello>>) : <<Hello>>[k] = Hello
    OBVIOUS
  <2>2. CASE toServer' = toServer
    BY <2>2
  <2>3. CASE toServer' = <<>>
    BY <2>1, <2>3
  <2>4. CASE toServer' = <<Hello>>
    BY <2>1, <2>4
  <2> QED BY <2>2, <2>3, <2>4
<1>3. SeenAreUsed'
  BY <1>1, <1>2 DEF SizeInv, SeenAreUsed
<1>4. SentAreUnseen'
  BY <1>1, <1>2 DEF SizeInv, SentAreUnseen
<1>5. ExactSinceUsed'
  <2> SUFFICES ASSUME size = displaySize, size \notin reused
               PROVE  /\ \A p \in InTransit' : p.list.edge = size => p.pos = PosBound /\ p.clip = PosBound
                      /\ \A v \in OnScreen' : v.list.edge = size => v.pos = size /\ v.clip = size
    BY DEF ExactSinceUsed
  <2>1. size \in Size /\ \A i \in Position : drawn[i] \in Lists
    BY <1>0 DEF TypeOK, Pictures
  <2>2. \A i \in Position :
          /\ PackList(drawn[i], displaySize).list = drawn[i]
          /\ drawn[i].edge = size =>
               PackList(drawn[i], displaySize).pos = PosBound /\ PackList(drawn[i], displaySize).clip = PosBound
    BY <2>1, EdgeIsExact DEF PackList
  <2>3. \A p \in InTransit : p.list.edge = size => p.pos = PosBound /\ p.clip = PosBound
    BY DEF SizeInv, ExactSinceUsed
  <2>4. \A p \in InTransit : p.list.edge = size => UnpackList(p).pos = size /\ UnpackList(p).clip = size
    <3>1. Unpack(PosBound, size) = size
      <4>1. PICK b : b \in Body
        BY <1>0, Constants DEF TypeOK, Pictures, Lists, Position
      <4>2. [body |-> b, edge |-> size] \in Lists /\ [body |-> b, edge |-> size].edge = size
        BY <2>1, <4>1 DEF Lists
      <4> QED BY <2>1, <4>2, EdgeIsExact
    <3> QED BY <2>3, <3>1 DEF UnpackList
  <2>5. \A p \in InTransit : UnpackList(p).list = p.list
    BY DEF UnpackList
  <2>6. \A v \in OnScreen : v.list.edge = size => v.pos = size /\ v.clip = size
    BY DEF SizeInv, ExactSinceUsed
  <2> QED BY <1>0, <2>2, <2>3, <2>4, <2>5, <2>6, StepLists
<1> QED BY <1>3, <1>4, <1>5

\* The client, or another, has another size.
LEMMA SizeIsUsed ==
  ASSUME IInv, SizeInv, [Next]_vars, NEW s \in Size, Use(s),
         \/ displaySize' = s /\ UNCHANGED <<toServer, size>>
         \/ size' = s /\ toServer' = Append(toServer, s) /\ UNCHANGED displaySize
  PROVE  SeenAreUsed' /\ SentAreUnseen' /\ ExactSinceUsed'
<1>0. TypeOK /\ SeenAreUsed
  BY DEF IInv, SizeInv
<1>1. used' = used \cup {s} /\ reused' = reused \cup ({s} \cap used)
  BY DEF Use
<1>2. EdgesSeen' \subseteq EdgesSeen \cup {displaySize'} /\ displaySize \in EdgesSeen
      /\ displaySize' \in EdgesSeen'
  BY <1>0, StepEdges DEF EdgesSeen
<1>3. displaySize' \in {displaySize, s} /\ size' \in {size, s}
      /\ \A k \in 1 .. Len(toServer') :
           toServer'[k] = s \/ (k \in 1 .. Len(toServer) /\ toServer'[k] = toServer[k])
  BY <1>0, SentSize
<1>4. SeenAreUsed'
  <2>1. size' = DefaultSize => DefaultSize \in reused'
    BY <1>0, <1>1, <1>3 DEF SeenAreUsed
  <2> QED BY <1>0, <1>1, <1>2, <1>3, <2>1 DEF SeenAreUsed
<1>5. SentAreUnseen'
  <2> SUFFICES ASSUME NEW k \in 1 .. Len(toServer'), toServer'[k] # Hello, toServer'[k] \notin reused'
               PROVE  /\ toServer'[k] \notin EdgesSeen'
                      /\ \A j \in 1 .. Len(toServer') : toServer'[j] = toServer'[k] => j = k
    BY DEF SentAreUnseen
  <2>1. CASE displaySize' = s /\ UNCHANGED <<toServer, size>>
    <3>1. toServer[k] \in used /\ toServer[k] # s /\ toServer[k] \notin reused
      BY <1>0, <1>1, <2>1 DEF SeenAreUsed
    <3> QED BY <1>2, <2>1, <3>1 DEF SizeInv, SentAreUnseen
  <2>2. CASE size' = s /\ toServer' = Append(toServer, s) /\ UNCHANGED displaySize
    <3>1. /\ \/ k = Len(toServer) + 1 /\ toServer'[k] = s
             \/ k \in 1 .. Len(toServer) /\ toServer'[k] = toServer[k]
          /\ \A j \in 1 .. Len(toServer') :
               \/ j = Len(toServer) + 1 /\ toServer'[j] = s
               \/ j \in 1 .. Len(toServer) /\ toServer'[j] = toServer[j]
      BY <1>0, <2>2, SentSize
    <3>2. EdgesSeen' \subseteq EdgesSeen
      BY <1>2, <2>2
    <3>3. \A j \in 1 .. Len(toServer) : toServer[j] \in used \cup {Hello}
      BY <1>0 DEF SeenAreUsed
    <3>4. CASE toServer'[k] = s
      <4>1. s \notin used /\ s # Hello
        BY <1>0, <1>1, <2>2, <3>4, PacketsToServer
      <4>2. s \notin EdgesSeen'
        BY <1>0, <3>2, <4>1 DEF SeenAreUsed
      <4> QED BY <3>1, <3>3, <3>4, <4>1, <4>2
    <3>5. CASE toServer'[k] # s
      <4>1. k \in 1 .. Len(toServer) /\ toServer'[k] = toServer[k] /\ toServer[k] \notin reused
        BY <1>1, <3>1, <3>5
      <4> QED BY <3>1, <3>2, <3>5, <4>1 DEF SizeInv, SentAreUnseen
    <3> QED BY <3>4, <3>5
  <2> QED BY <2>1, <2>2
<1>6. ExactSinceUsed'
  <2> SUFFICES ASSUME size' = displaySize', size' \notin reused' PROVE FALSE
    BY DEF ExactSinceUsed
  <2>1. size' = s /\ displaySize' = s /\ s \notin used
    BY <1>1, <1>3
  <2>2. displaySize \in used /\ size \in used \cup {NoSize} /\ s # NoSize
    BY <1>0, <1>2, PacketsToServer DEF SeenAreUsed
  <2> QED BY <2>1, <2>2
<1> QED BY <1>4, <1>5, <1>6

\* The sysmodule hears of a size.
LEMMA SizeIsHandled ==
  ASSUME IInv, SizeInv, HandlePacket
  PROVE  SeenAreUsed' /\ SentAreUnseen' /\ ExactSinceUsed'
<1>0. TypeOK /\ SeenAreUsed /\ [Next]_vars
  BY DEF IInv, SizeInv, Next
<1>1. /\ UNCHANGED <<size, used, reused, written, toClient, shown, drawn>>
      /\ displaySize' = IF Head(toServer) = Hello THEN displaySize ELSE Head(toServer)
  BY DEF HandlePacket
<1>2. /\ Head(toServer) = toServer[1] /\ 1 \in 1 .. Len(toServer)
      /\ \A k \in 1 .. Len(toServer') :
           k + 1 \in 1 .. Len(toServer) /\ k + 1 # 1 /\ k \in Nat /\ toServer'[k] = toServer[k + 1]
  BY <1>0, HandledSize
<1>3. EdgesSeen' \subseteq EdgesSeen \cup {displaySize'} /\ InTransit' = InTransit /\ OnScreen' = OnScreen
      /\ displaySize \in EdgesSeen
  BY <1>0, <1>1, StepEdges DEF InTransit, OnScreen, EdgesSeen
<1>4. SeenAreUsed'
  BY <1>0, <1>1, <1>2, <1>3 DEF SeenAreUsed
<1>5. SentAreUnseen'
  <2> SUFFICES ASSUME NEW k \in 1 .. Len(toServer'), toServer'[k] # Hello, toServer'[k] \notin reused
               PROVE  /\ toServer'[k] \notin EdgesSeen'
                      /\ \A j \in 1 .. Len(toServer') : toServer'[j] = toServer'[k] => j = k
    BY <1>1 DEF SentAreUnseen
  <2>1. /\ k + 1 \in 1 .. Len(toServer) /\ k + 1 # 1 /\ k \in Nat /\ toServer'[k] = toServer[k + 1]
        /\ toServer[k + 1] \notin EdgesSeen
        /\ \A j \in 1 .. Len(toServer) : toServer[j] = toServer[k + 1] => j = k + 1
    BY <1>2 DEF SizeInv, SentAreUnseen
  <2>2. toServer[1] # toServer[k + 1]
    BY <1>2, <2>1
  <2>3. toServer'[k] \notin EdgesSeen'
    BY <1>1, <1>2, <1>3, <2>1, <2>2
  <2>4. \A j \in 1 .. Len(toServer') : toServer'[j] = toServer'[k] => j = k
    <3> SUFFICES ASSUME NEW j \in 1 .. Len(toServer'), toServer'[j] = toServer'[k] PROVE j = k
      OBVIOUS
    <3>1. j + 1 = k + 1 /\ j \in Nat
      BY <1>2, <2>1
    <3> QED BY <2>1, <3>1
  <2> QED BY <2>3, <2>4
<1>6. ExactSinceUsed'
  <2>1. CASE Head(toServer) = Hello
    BY <1>1, <1>3, <2>1 DEF SizeInv, ExactSinceUsed
  <2>2. CASE Head(toServer) # Hello
    <3> SUFFICES ASSUME size = displaySize', size \notin reused
                 PROVE  /\ \A p \in InTransit : p.list.edge # size
                        /\ \A v \in OnScreen : v.list.edge # size
      BY <1>1, <1>3 DEF ExactSinceUsed
    <3>1. size = toServer[1]
      BY <1>1, <1>2, <2>2
    <3>2. size \notin EdgesSeen
      BY <1>2, <2>2, <3>1 DEF SizeInv, SentAreUnseen
    <3> QED BY <3>2 DEF EdgesSeen
  <2> QED BY <2>1, <2>2
<1> QED BY <1>4, <1>5, <1>6

\* The sysmodule starts again, with a size that the client cannot have had only once.
LEMMA SizeIsDefault ==
  ASSUME IInv, SizeInv, Restart
  PROVE  SeenAreUsed' /\ SentAreUnseen' /\ ExactSinceUsed'
<1>0. TypeOK /\ SeenAreUsed /\ [Next]_vars
  BY DEF IInv, SizeInv, Next
<1>1. /\ UNCHANGED <<size, used, reused>> /\ displaySize' = DefaultSize
      /\ toServer' = <<>> /\ 1 .. Len(<<>>) = {}
  BY DEF Restart, CutLink
<1>2. EdgesSeen' \subseteq EdgesSeen \cup {DefaultSize}
  BY <1>0, <1>1, StepEdges
<1>3. SeenAreUsed' /\ SentAreUnseen'
  BY <1>0, <1>1, <1>2 DEF SeenAreUsed, SentAreUnseen
<1>4. ExactSinceUsed'
  BY <1>0, <1>1 DEF SeenAreUsed, ExactSinceUsed
<1> QED BY <1>3, <1>4

\* The hashes kept when a picture has been packed are its own.
LEMMA StepHashes ==
  ASSUME IInv, HashesOfLast, [Next]_vars
  PROVE  HashesOfLast'
<1>1. CASE SendDrawData
  <2>1. /\ lastDrawDataHash' = drawn /\ UNCHANGED sPrevDrawListHashes /\ Len(written) = NumLists
    BY <1>1 DEF SendDrawData
  <2>2. \A i \in Position : sPrevDrawListHashes[i] = drawn[i]
    BY <2>1 DEF IInv, WrittenIsDrawn, Position
  <2> QED BY <2>1, <2>2 DEF HashesOfLast
<1>2. CASE PackNext
  <2>1. written' # <<>>
    <3>1. written \in Seq(Packed \cup {Nothing})
      BY DEF IInv, TypeOK
    <3>2. ASSUME NEW q \in Seq(Packed \cup {Nothing}), NEW x PROVE Append(q, x) # <<>>
      <4>1. Len(Append(q, x)) = Len(q) + 1 /\ Len(q) \in Nat /\ Len(<<>>) = 0
        OBVIOUS
      <4> QED BY <4>1
    <3> QED BY <1>2, <3>1, <3>2 DEF PackNext
  <2> QED BY <2>1 DEF HashesOfLast
<1>3. CASE Restart
  BY <1>3 DEF Restart, HashesOfLast
<1>4. CASE /\ UNCHANGED <<written, lastDrawDataHash, sPrevDrawListHashes>>
           /\ sRerender' = sRerender \/ sRerender'
  BY <1>4 DEF HashesOfLast
<1> QED
  BY <1>1, <1>2, <1>3, <1>4
  DEF Next, NewFrame, TestRerender, HandlePacket, HandleOthers, Connect, UpdateSize, ReceiveDrawData,
      ReceiveFontTexture, LoseLink, CutLink

LEMMA StepSizes ==
  ASSUME IInv, SizeInv, [Next]_vars
  PROVE  SizeInv'
<1>1. CASE HandlePacket
  BY <1>1, SizeIsHandled, StepHashes DEF SizeInv
<1>2. CASE Restart
  BY <1>2, SizeIsDefault, StepHashes DEF SizeInv
<1>3. CASE HandleOthers
  <2>1. PICK s \in Size : displaySize' = s /\ Use(s)
    BY <1>3 DEF HandleOthers
  <2>2. UNCHANGED <<toServer, size>>
    BY <1>3 DEF HandleOthers
  <2> QED BY <2>1, <2>2, SizeIsUsed, StepHashes DEF SizeInv
<1>4. CASE UpdateSize
  <2>1. PICK s \in Size : size' = s /\ toServer' = Append(toServer, s) /\ Use(s)
    BY <1>4 DEF UpdateSize
  <2>2. UNCHANGED displaySize
    BY <1>4 DEF UpdateSize
  <2> QED BY <2>1, <2>2, SizeIsUsed, StepHashes DEF SizeInv
<1>5. CASE /\ UNCHANGED <<displaySize, size, used, reused>>
           /\ toServer' = toServer \/ toServer' = <<>> \/ toServer' = <<Hello>>
  BY <1>5, SizesUnchanged, StepHashes DEF SizeInv
<1> QED
  BY <1>1, <1>2, <1>3, <1>4, <1>5
  DEF Next, NewFrame, TestRerender, PackNext, SendDrawData, Connect, ReceiveDrawData,
      ReceiveFontTexture, LoseLink, CutLink

\* When all has arrived, the client shows what was drawn, and for the size it has.
LEMMA ExactWhenSettled == IInv /\ SizeInv => SettledIsExact
<1> SUFFICES ASSUME IInv, SizeInv, Settled, size \notin reused, NEW i \in Position, i \notin missed,
                    shown[i] # Nothing
             PROVE  shown[i].pos = size /\ shown[i].clip = size
  BY DEF SettledIsExact
<1>1. /\ toClient = <<>> /\ renderPc = "frame" /\ drawn = LaidOut(drawn) /\ lastDrawDataHash = drawn
      /\ displaySize = size
  BY DEF Settled
<1>2. TypeOK /\ written = <<>> /\ Len(<<>>) = 0
  BY <1>1 DEF IInv, WrittenIsDrawn
<1>3. drawn \in Pictures /\ drawn[i] \in Lists /\ shown[i] \in Shown
  BY <1>2 DEF TypeOK, Pictures
<1>4. sPrevDrawListHashes[i] = drawn[i]
  BY <1>1, <1>2 DEF SizeInv, HashesOfLast, Settled
<1>5. HasThen(i, 0, drawn[i])
  <2>1. i > 0 /\ drawn[i] # Nothing
    BY <1>3, DistinctAssumption, Constants DEF Position
  <2> QED BY <1>1, <1>2, <1>4, <2>1 DEF IInv, HashesAgree
<1>6. shown[i].list = drawn[i]
  BY <1>5 DEF HasThen
<1>7. drawn[i].edge = size
  BY <1>1, <1>3 DEF LaidOut, Lists
<1>8. shown[i] \in OnScreen
  BY <1>3 DEF OnScreen
<1> QED BY <1>1, <1>6, <1>7, <1>8 DEF SizeInv, ExactSinceUsed

\* Whatever sizes the clients' windows have, and however layout, packing and unpacking fall
\* between their changes: once all has arrived, what a client shows fits its window, unless
\* the size is one that was in use before.
THEOREM SettledIsAlwaysExact == Spec => []SettledIsExact
<1>1. IInv /\ SizeInv /\ [Next]_vars => SizeInv'
  BY StepSizes
<1> QED BY <1>1, InitSizes, Invariance, ExactWhenSettled, PTL DEF Spec
=============================================================================
