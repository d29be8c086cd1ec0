-------------------------- MODULE DrawMirrorProofs --------------------------
(***************************************************************************)
(* Proofs about DrawMirror, for any clients, any buffers and any number    *)
(* of lists, frames, inputs and erased clients.                            *)
(***************************************************************************)
EXTENDS DrawMirror, TLAPS, FiniteSetTheorems, SequenceTheorems

\* A packed list is the list, or stands for the one before it at its position.
FramesFollow ==
  \A k \in 1 .. Len(frames) :
    /\ DOMAIN frames[k].lists = DOMAIN frames[k].picture
    /\ \A i \in DOMAIN frames[k].lists :
         /\ frames[k].lists[i] \in {frames[k].picture[i], Unchanged}
         /\ (frames[k].lists[i] = Unchanged /\ k > 1 /\ i \in DOMAIN frames[k - 1].picture)
              => frames[k].picture[i] = frames[k - 1].picture[i]

\* As far as the last picture reaches, the hashes are those of its lists.
HashesOfLastFrame ==
  frames # <<>> =>
    \A i \in DOMAIN frames[Len(frames)].picture :
      sPrevDrawListHashes[i] = HashImDrawList(frames[Len(frames)].picture[i])

DrawnBeforePacked == renderPc \in {"test", "pack"} => drawn # <<>>

NothingShownYet == \A c \in Client \ torn : latest[c] = 0 => shown[c] = <<>>

FirstIsFirst == \A c \in Client : IF latest[c] = 0 THEN first[c] = 0
                                                   ELSE gap[c] \/ first[c] \in 1 .. latest[c]

\* Position i has not been packed in full, in any of the frames from a to b, without the
\* picture having been too short for it later.
NotSince(i, a, b) ==
  \A j \in a .. b :
    \/ i \notin DOMAIN frames[j].lists
    \/ frames[j].lists[i] = Unchanged
    \/ \E k \in j .. b : i \notin DOMAIN frames[k].lists

\* The loop stays within the slots it started with, which nobody removes.
LoopInBounds ==
  /\ ~InLoop => freed = <<>>
  /\ cursor >= 1
  /\ InLoop /\ renderPc # "send" => cursor <= loopEnd
  /\ InLoop => loopEnd <= Len(LoopMemory)
  /\ InLoop /\ ~raced => loopEnd <= (IF freed = <<>> THEN size ELSE Len(freed))

IInv ==
  /\ TypeOK
  /\ DrawnBeforePacked
  /\ FramesFollow
  /\ HashesOfLastFrame
  /\ NothingShownYet
  /\ NeverStale
  /\ FirstIsFirst
  /\ BlankIsExplained

-----------------------------------------------------------------------------
(* Lemmas about the operators. *)

LEMMA PictureDomain ==
  \A p \in Pictures : \E n \in 1 .. MaxLists : p \in [1 .. n -> Content]
BY DEF Pictures

\* What the buffers at each place of a draw list may contain.
PartBuffer == <<VtxBuffer, IdxBuffer, CmdBuffer>>

\* A draw list is none of the values that stand for something else.
LEMMA ContentIsTriple ==
  ASSUME NEW l \in Content
  PROVE  /\ l[1] \in VtxBuffer /\ l[2] \in IdxBuffer /\ l[3] \in CmdBuffer
         /\ l = <<l[1], l[2], l[3]>>
         /\ l # Unchanged /\ l # Blank /\ l # Garbage
<1>1. /\ l[1] \in VtxBuffer /\ l[2] \in IdxBuffer /\ l[3] \in CmdBuffer
      /\ l = <<l[1], l[2], l[3]>>
  BY DEF Content
<1>2. Len(l) = 3 /\ Len(Unchanged) = 1 /\ Len(Blank) = 1 /\ Len(Garbage) = 1
  BY <1>1 DEF Unchanged, Blank, Garbage
<1> QED BY <1>1, <1>2

LEMMA MarksDiffer == Unchanged # Blank /\ Unchanged # Garbage /\ Blank # Garbage
BY DEF Unchanged, Blank, Garbage

\* A buffer tells by what it contains which of the three it is.
LEMMA PartInHash ==
  ASSUME NEW part \in Part, NEW l \in Content
  PROVE  /\ l[part] \in PartBuffer[part] /\ PartBuffer[part] \subseteq Buffer
         /\ \A b \in PartBuffer[part] : b \in HashImDrawList(l) <=> l[part] = b
<1>1. l[1] \in VtxBuffer /\ l[2] \in IdxBuffer /\ l[3] \in CmdBuffer
  BY ContentIsTriple
<1>2. PartBuffer[1] = VtxBuffer /\ PartBuffer[2] = IdxBuffer /\ PartBuffer[3] = CmdBuffer
  BY DEF PartBuffer
<1>3. part = 1 \/ part = 2 \/ part = 3
  BY DEF Part
<1>4. l[part] \in PartBuffer[part] /\ PartBuffer[part] \subseteq Buffer
  BY <1>1, <1>2, <1>3 DEF Buffer
<1>5. ASSUME NEW b \in PartBuffer[part] PROVE b \in HashImDrawList(l) <=> l[part] = b
  BY <1>1, <1>2, <1>3, <1>5, MirrorAssumption DEF HashImDrawList
<1> QED BY <1>4, <1>5

\* Two lists of the same hash are the same list, as far as one list goes.
LEMMA HashTellsList ==
  ASSUME NEW l \in Content
  PROVE  /\ HashImDrawList(l) \in SUBSET Buffer
         /\ \A k \in Content : HashImDrawList(k) = HashImDrawList(l) => k = l
<1>1. HashImDrawList(l) \in SUBSET Buffer
  BY ContentIsTriple DEF HashImDrawList, Buffer
<1>2. ASSUME NEW k \in Content, HashImDrawList(k) = HashImDrawList(l)
      PROVE  k = l
  <2>1. \A part \in Part : k[part] = l[part]
    BY <1>2, PartInHash
  <2>2. k[1] = l[1] /\ k[2] = l[2] /\ k[3] = l[3]
    BY <2>1 DEF Part
  <2> QED BY <2>2, ContentIsTriple
<1> QED BY <1>1, <1>2

LEMMA HashType ==
  ASSUME NEW p \in Pictures \cup {<<>>}
  PROVE  CalcDrawDataHash(p) \in [Buffer -> Nat]
<1>1. PICK n \in Nat : DOMAIN p = 1 .. n
  <2>1. CASE p = <<>>
    BY <2>1
  <2>2. CASE p \in Pictures
    BY <2>2, PictureDomain, MirrorAssumption
  <2> QED BY <2>1, <2>2
<1>2. ASSUME NEW b \in Buffer
      PROVE  Cardinality({i \in DOMAIN p : b \in HashImDrawList(p[i])}) \in Nat
  <2>1. IsFiniteSet(DOMAIN p)
    BY <1>1, FS_Interval
  <2>2. IsFiniteSet({i \in DOMAIN p : b \in HashImDrawList(p[i])})
    BY <2>1, FS_Subset
  <2> QED BY <2>2, FS_CardinalityType
<1> QED BY <1>2 DEF CalcDrawDataHash

\* What PackImDrawData appends.
LEMMA PackedFrame ==
  ASSUME drawn \in Pictures,
         sPrevDrawListHashes \in [1 .. MaxLists -> SUBSET Buffer]
  PROVE  /\ [picture |-> drawn, lists |-> PackedLists] \in Frame
         /\ DOMAIN PackedLists = DOMAIN drawn
         /\ DOMAIN drawn \subseteq 1 .. MaxLists
         /\ PackedHashes \in [1 .. MaxLists -> SUBSET Buffer]
<1>1. PICK n \in 1 .. MaxLists : drawn \in [1 .. n -> Content]
  BY PictureDomain
<1>2. PackedLists \in [1 .. n -> Content \cup {Unchanged}]
  BY <1>1 DEF PackedLists
<1>3. PackedLists \in PackedPictures
  BY <1>2 DEF PackedPictures
<1>4. DOMAIN drawn \subseteq 1 .. MaxLists
  BY <1>1, MirrorAssumption
<1>5. PackedHashes \in [1 .. MaxLists -> SUBSET Buffer]
  <2>1. \A i \in DOMAIN drawn : HashImDrawList(drawn[i]) \in SUBSET Buffer
    BY <1>1, HashTellsList
  <2> QED BY <1>1, <1>4, <2>1 DEF PackedHashes
<1> QED BY <1>1, <1>2, <1>3, <1>4, <1>5 DEF Frame

\* What a client shows after a packed picture has as many lists as the picture.
LEMMA UnpackType ==
  ASSUME NEW c \in Client,
         shown \in [Client -> Seq(Content \cup {Blank, Garbage})],
         NEW f \in Frame
  PROVE  /\ UnpackDrawData(c, f.lists) \in Seq(Content \cup {Blank, Garbage})
         /\ DOMAIN UnpackDrawData(c, f.lists) = DOMAIN f.lists
<1>1. f.lists \in PackedPictures
  BY DEF Frame
<1>2. PICK n \in 1 .. MaxLists : f.lists \in [1 .. n -> Content \cup {Unchanged}]
  BY <1>1 DEF PackedPictures
<1>3. \A i \in 1 .. n : ListAt(c, i) \in Content \cup {Blank, Garbage}
  <2>1. shown[c] \in Seq(Content \cup {Blank, Garbage})
    OBVIOUS
  <2> QED BY <2>1, ElementOfSeq DEF ListAt
<1>4. UnpackDrawData(c, f.lists) \in [1 .. n -> Content \cup {Blank, Garbage}]
  BY <1>2, <1>3 DEF UnpackDrawData
<1>5. n \in Nat
  BY MirrorAssumption
<1> QED BY <1>2, <1>4, <1>5

-----------------------------------------------------------------------------
(* Type correctness. *)

USE DEF vars, renderVars, vectorVars, clientVars, countVars

LEMMA InitType == Init => TypeOK
<1> SUFFICES ASSUME Init PROVE TypeOK
  OBVIOUS
<1>1. <<>> \in Seq(Frame) /\ <<>> \in Seq(Slots) /\ <<>> \in Seq(Content \cup {Blank, Garbage})
  OBVIOUS
<1>2. Len(frames) = 0 /\ Len(memory) = 0
  BY DEF Init
<1>3. \A S : <<>> \in Seq(S)
  OBVIOUS
<1>4. lastDrawDataHash \in [Buffer -> Nat]
  BY HashType DEF Init
<1>5. /\ size \in 0 .. Len(memory)
      /\ first \in [Client -> 0 .. Len(frames)] /\ latest \in [Client -> 0 .. Len(frames)]
  BY <1>2 DEF Init
<1>6. inFlight \in [Client -> Seq(0 .. Len(frames))]
  BY <1>3 DEF Init
<1>7. sPrevDrawListHashes \in [1 .. MaxLists -> SUBSET Buffer]
  BY DEF Init, NoHash
<1> QED BY <1>1, <1>4, <1>5, <1>6, <1>7 DEF Init, TypeOK

LEMMA VectorFacts ==
  ASSUME TypeOK
  PROVE  /\ memory \in Seq(Slots) /\ freed \in Seq(Slots)
         /\ Len(memory) \in Nat /\ Len(freed) \in Nat
         /\ size \in Nat /\ size <= Len(memory) /\ loopEnd \in Nat /\ cursor \in Nat
BY DEF TypeOK

\* The slot the loop stands at is a slot.
LEMMA SlotInLoop ==
  ASSUME TypeOK, LoopInBounds, InLoop, cursor <= loopEnd
  PROVE  /\ cursor \in 1 .. loopEnd /\ cursor \in 1 .. Len(LoopMemory)
         /\ mFd \in Client
         /\ LoopMemory \in Seq(Slots)
<1>1. LoopMemory \in Seq(Slots)
  BY VectorFacts DEF LoopMemory
<1>2. cursor \in 1 .. loopEnd /\ cursor \in 1 .. Len(LoopMemory)
  BY <1>1, VectorFacts DEF LoopInBounds
<1>3. LoopMemory[cursor] \in Slots
  BY <1>1, <1>2, ElementOfSeq
<1> QED BY <1>1, <1>2, <1>3 DEF Slots, mFd

\* What Transmit leaves in flight.
LEMMA TransmitType ==
  ASSUME TypeOK, NEW c, NEW p \in 0 .. Len(frames), Transmit(c, p)
  PROVE  inFlight' \in [Client -> Seq(0 .. Len(frames))]
<1>1. \A d \in Client : Append(inFlight[d], p) \in Seq(0 .. Len(frames))
  BY DEF TypeOK
<1> QED BY <1>1 DEF Transmit, TypeOK

\* Of whom the header was sent to and whom the payload is sent to, nothing is known yet.
LEMMA SendPayloadType ==
  ASSUME TypeOK, mFd \in Client, SendPayload
  PROVE  receiver' \in SUBSET Client /\ torn' \in SUBSET Client
BY DEF SendPayload, TypeOK

LEMMA PayloadSentType ==
  ASSUME TypeOK, NEW p \in 0 .. Len(frames), PayloadSent(p)
  PROVE  inFlight' \in [Client -> Seq(0 .. Len(frames))] /\ receiver' = {}
BY TransmitType DEF PayloadSent

\* The slots after an element is removed or put in.
LEMMA SlotsType ==
  ASSUME TypeOK
  PROVE  /\ mClients \in Seq(Slots)
         /\ Len(mClients) = size
<1>1. memory \in Seq(Slots) /\ size \in Nat /\ size <= Len(memory) /\ Len(memory) \in Nat
  BY DEF TypeOK
<1>2. \A i \in 1 .. size : memory[i] \in Slots
  BY <1>1, ElementOfSeq
<1>3. 1 \in 1 .. Len(memory) + 1 /\ size \in 1 - 1 .. Len(memory)
  BY <1>1
<1> QED BY <1>1, <1>2, <1>3, SubSeqProperties DEF mClients

\* Writing the flag of a slot leaves the slots where they are.
LEMMA FlagSet ==
  ASSUME NEW m \in Seq(Slots), NEW n \in Nat
  PROVE  /\ [m EXCEPT ![n].mHasSentFontTexture = TRUE] \in Seq(Slots)
         /\ Len([m EXCEPT ![n].mHasSentFontTexture = TRUE]) = Len(m)
         /\ \A i \in 1 .. Len(m) : [m EXCEPT ![n].mHasSentFontTexture = TRUE][i].client = m[i].client
<1>1. CASE n \in 1 .. Len(m)
  <2> DEFINE s == [m[n] EXCEPT !.mHasSentFontTexture = TRUE]
  <2>1. m[n] \in Slots
    BY <1>1, ElementOfSeq
  <2>2. s \in Slots
    BY <2>1, Zenon DEF Slots
  <2>3. s.client = m[n].client
    BY <2>1 DEF Slots
  <2>4. [m EXCEPT ![n].mHasSentFontTexture = TRUE] = [m EXCEPT ![n] = s]
    OBVIOUS
  <2> HIDE DEF s
  <2>5. /\ [m EXCEPT ![n] = s] \in Seq(Slots)
        /\ Len([m EXCEPT ![n] = s]) = Len(m)
        /\ \A i \in 1 .. Len(m) : [m EXCEPT ![n] = s][i] = IF i = n THEN s ELSE m[i]
    BY <1>1, <2>2, ExceptSeq
  <2>6. \A i \in 1 .. Len(m) : [m EXCEPT ![n] = s][i].client = m[i].client
    BY <2>3, <2>5
  <2> QED BY <2>4, <2>5, <2>6
<1>2. CASE n \notin 1 .. Len(m)
  <2>1. [m EXCEPT ![n].mHasSentFontTexture = TRUE] = m
    BY <1>2
  <2> QED BY <2>1
<1> QED BY <1>1, <1>2

\* TypeOK by whom the variables belong to.
RenderType ==
  /\ drawn \in Pictures \cup {<<>>}
  /\ sPrevDrawListHashes \in [1 .. MaxLists -> SUBSET Buffer]
  /\ lastDrawDataHash \in [Buffer -> Nat]
  /\ frames \in Seq(Frame)
  /\ renderPc \in {"frame", "test", "pack", "iterate",
                  "send", "data", "room", "font", "pixels", "fontRoom", "sent"}
  /\ receiver \in SUBSET Client
  /\ cursor \in Nat
  /\ loopEnd \in Nat

VectorType ==
  /\ memory \in Seq(Slots)
  /\ size \in 0 .. Len(memory)
  /\ freed \in Seq(Slots)

ClientType ==
  /\ life \in [Client -> {"new", "on", "off"}]
  /\ inFlight \in [Client -> Seq(0 .. Len(frames))]
  /\ shown \in [Client -> Seq(Content \cup {Blank, Garbage})]
  /\ texture \in [Client -> BOOLEAN]
  /\ first \in [Client -> 0 .. Len(frames)]
  /\ latest \in [Client -> 0 .. Len(frames)]
  /\ gap \in [Client -> BOOLEAN]
  /\ torn \in SUBSET Client

FlagType ==
  /\ sRerender \in BOOLEAN
  /\ hello \in [Client -> BOOLEAN]
  /\ raced \in BOOLEAN
  /\ changes \in Nat
  /\ inputs \in Nat
  /\ erased \in Nat

LEMMA TypeParts == TypeOK <=> RenderType /\ VectorType /\ ClientType /\ FlagType
BY DEF TypeOK, RenderType, VectorType, ClientType, FlagType

LEMMA TypePartsNext == TypeOK' <=> RenderType' /\ VectorType' /\ ClientType' /\ FlagType'
BY DEF TypeOK, RenderType, VectorType, ClientType, FlagType

LEMMA Unmoved ==
  /\ RenderType /\ UNCHANGED renderVars => RenderType'
  /\ VectorType /\ UNCHANGED vectorVars => VectorType'
  /\ ClientType /\ UNCHANGED clientVars /\ UNCHANGED frames => ClientType'
BY DEF RenderType, VectorType, ClientType

LEMMA RenderStepType == TypeOK /\ DrawnBeforePacked /\ LoopInBounds /\ Render => TypeOK'
<1> SUFFICES ASSUME TypeOK, DrawnBeforePacked, LoopInBounds, Render PROVE TypeOK'
  OBVIOUS
<1> USE TypeParts, TypePartsNext
<1>1. CASE NewFrame
  <2>1. RenderType'
    BY <1>1 DEF NewFrame, RenderType
  <2>2. VectorType' /\ ClientType'
    BY <1>1, Unmoved DEF NewFrame
  <2>3. FlagType'
    BY <1>1 DEF NewFrame, FlagType
  <2> QED BY <2>1, <2>2, <2>3
<1>2. CASE TestRerender
  <2>1. CalcDrawDataHash(drawn) \in [Buffer -> Nat]
    BY HashType DEF RenderType
  <2>2. RenderType'
    BY <1>2, <2>1 DEF TestRerender, RenderType
  <2>3. VectorType' /\ ClientType'
    BY <1>2, Unmoved DEF TestRerender
  <2>4. FlagType'
    BY <1>2 DEF TestRerender, FlagType
  <2> QED BY <2>2, <2>3, <2>4
<1>3. CASE PackImDrawData
  <2>1. drawn \in Pictures
    BY <1>3 DEF PackImDrawData, RenderType, DrawnBeforePacked
  <2>2. [picture |-> drawn, lists |-> PackedLists] \in Frame
    BY <2>1, PackedFrame DEF RenderType
  <2>3. PackedHashes \in [1 .. MaxLists -> SUBSET Buffer]
    BY <2>1, PackedFrame DEF RenderType
  <2>4. frames' \in Seq(Frame) /\ Len(frames') = Len(frames) + 1
    BY <1>3, <2>2 DEF PackImDrawData, RenderType
  <2>5. RenderType'
    BY <1>3, <2>3, <2>4 DEF PackImDrawData, RenderType
  <2>6. VectorType'
    BY <1>3, Unmoved DEF PackImDrawData
  <2>7. Len(frames) \in Nat /\ 0 .. Len(frames) \subseteq 0 .. Len(frames')
    BY <2>4 DEF RenderType
  <2>8. inFlight' \in [Client -> Seq(0 .. Len(frames'))]
    <3>1. Seq(0 .. Len(frames)) \subseteq Seq(0 .. Len(frames'))
      BY <2>7, SeqMonotonic
    <3> QED BY <1>3, <3>1 DEF PackImDrawData, ClientType
  <2>9. first' \in [Client -> 0 .. Len(frames')] /\ latest' \in [Client -> 0 .. Len(frames')]
    BY <1>3, <2>7 DEF PackImDrawData, ClientType
  <2>10. ClientType'
    BY <1>3, <2>8, <2>9 DEF PackImDrawData, ClientType
  <2>11. FlagType'
    BY <1>3 DEF PackImDrawData, FlagType
  <2> QED BY <2>5, <2>6, <2>10, <2>11
<1>4. CASE StartIterating
  <2>1. RenderType'
    BY <1>4 DEF StartIterating, LoopEnd, RenderType, VectorType
  <2>2. VectorType' /\ ClientType'
    BY <1>4, Unmoved DEF StartIterating
  <2>3. FlagType'
    BY <1>4 DEF StartIterating, FlagType
  <2> QED BY <2>1, <2>2, <2>3
<1>5. CASE SendHeader
  <2>1. receiver' \in SUBSET Client
    BY <1>5, SlotInLoop DEF SendHeader, WriteHeader, InLoop
  <2>2. RenderType'
    BY <1>5, <2>1 DEF SendHeader, RenderType
  <2>3. VectorType' /\ ClientType'
    BY <1>5, Unmoved DEF SendHeader
  <2>4. FlagType'
    BY <1>5 DEF SendHeader, FlagType
  <2> QED BY <2>2, <2>3, <2>4
<1>6. CASE SendDrawData \/ SendFontTexture
  <2>1. mFd \in Client
    BY <1>6, SlotInLoop DEF SendDrawData, SendFontTexture, InLoop, LoopInBounds
  <2>2. receiver' \in SUBSET Client /\ torn' \in SUBSET Client
    BY <1>6, <2>1, SendPayloadType DEF SendDrawData, SendFontTexture
  <2>3. RenderType'
    BY <1>6, <2>2 DEF SendDrawData, SendFontTexture, RenderType
  <2>4. VectorType'
    BY <1>6, Unmoved DEF SendDrawData, SendFontTexture
  <2>5. ClientType'
    BY <1>6, <2>2 DEF SendDrawData, SendFontTexture, ClientType
  <2>6. FlagType'
    BY <1>6 DEF SendDrawData, SendFontTexture, FlagType
  <2> QED BY <2>3, <2>4, <2>5, <2>6
<1>7. CASE DrawDataSent
  <2>1. Len(frames) \in 0 .. Len(frames)
    BY DEF RenderType
  <2>2. inFlight' \in [Client -> Seq(0 .. Len(frames))] /\ receiver' = {}
    BY <1>7, <2>1, PayloadSentType DEF DrawDataSent, FrameSent
  <2>3. RenderType'
    BY <1>7, <2>2 DEF DrawDataSent, RenderType
  <2>4. VectorType'
    BY <1>7, Unmoved DEF DrawDataSent
  <2>5. ClientType'
    BY <1>7, <2>2 DEF DrawDataSent, ClientType
  <2>6. FlagType'
    BY <1>7 DEF DrawDataSent, FlagType
  <2> QED BY <2>3, <2>4, <2>5, <2>6
<1>8. CASE SendFontHeader
  <2>1. receiver' \in SUBSET Client
    BY <1>8, SlotInLoop DEF SendFontHeader, WriteHeader, InLoop, LoopInBounds, RenderType
  <2>2. RenderType'
    BY <1>8, <2>1 DEF SendFontHeader, NextClient, RenderType
  <2>3. VectorType' /\ ClientType'
    BY <1>8, Unmoved DEF SendFontHeader
  <2>4. FlagType'
    BY <1>8 DEF SendFontHeader, FlagType
  <2> QED BY <2>2, <2>3, <2>4
<1>9. CASE FontTextureSent
  <2>1. FontTexture \in 0 .. Len(frames)
    BY DEF RenderType, FontTexture
  <2>2. inFlight' \in [Client -> Seq(0 .. Len(frames))] /\ receiver' = {}
    BY <1>9, <2>1, PayloadSentType DEF FontTextureSent
  <2>3. RenderType'
    BY <1>9, <2>2 DEF FontTextureSent, RenderType
  <2>4. VectorType'
    BY <1>9, Unmoved DEF FontTextureSent
  <2>5. ClientType'
    BY <1>9, <2>2 DEF FontTextureSent, ClientType
  <2>6. FlagType'
    BY <1>9 DEF FontTextureSent, FlagType
  <2> QED BY <2>3, <2>4, <2>5, <2>6
<1>10. CASE SetHasSentFontTexture
  <2>1. RenderType'
    BY <1>10 DEF SetHasSentFontTexture, NextClient, RenderType
  <2>2. VectorType'
    <3>1. \A m \in Seq(Slots) :
            /\ [m EXCEPT ![cursor].mHasSentFontTexture = TRUE] \in Seq(Slots)
            /\ Len([m EXCEPT ![cursor].mHasSentFontTexture = TRUE]) = Len(m)
      BY FlagSet DEF RenderType
    <3> QED BY <1>10, <3>1 DEF SetHasSentFontTexture, VectorType
  <2>3. ClientType'
    BY <1>10, Unmoved DEF SetHasSentFontTexture
  <2>4. FlagType'
    BY <1>10 DEF SetHasSentFontTexture, FlagType
  <2> QED BY <2>1, <2>2, <2>3, <2>4
<1>11. CASE FinishFrame
  <2>1. CalcDrawDataHash(drawn) \in [Buffer -> Nat]
    BY HashType DEF RenderType
  <2>2. RenderType'
    BY <1>11, <2>1 DEF FinishFrame, RenderType
  <2>3. VectorType'
    BY <1>11, SlotsType DEF FinishFrame, VectorType
  <2>4. ClientType'
    BY <1>11, Unmoved DEF FinishFrame
  <2>5. FlagType'
    BY <1>11 DEF FinishFrame, KeepsRequests, FlagType
  <2> QED BY <2>2, <2>3, <2>4, <2>5
<1> QED BY <1>1, <1>2, <1>3, <1>4, <1>5, <1>6, <1>7, <1>8, <1>9, <1>10, <1>11 DEF Render

LEMMA SlotPutAtEnd ==
  ASSUME NEW n \in Nat, NEW slot \in Slots, NEW m,
         \A i \in 1 .. n : m[i] \in Slots
  PROVE  LET front == [i \in 1 .. n + 1 |-> IF i = n + 1 THEN slot ELSE m[i]]
         IN  front \in Seq(Slots) /\ Len(front) = n + 1
<1> DEFINE front == [i \in 1 .. n + 1 |-> IF i = n + 1 THEN slot ELSE m[i]]
<1>1. ASSUME NEW i \in 1 .. n + 1
      PROVE  front[i] \in Slots
  <2>1. CASE i = n + 1
    BY <2>1
  <2>2. CASE i # n + 1
    BY <2>2
  <2> QED BY <2>1, <2>2
<1>2. front \in [1 .. n + 1 -> Slots]
  BY <1>1
<1> QED BY <1>2

LEMMA ServerStepType == TypeOK /\ Run => TypeOK'
<1> SUFFICES ASSUME TypeOK, Run PROVE TypeOK'
  OBVIOUS
<1> USE TypeParts, TypePartsNext
<1>a. memory \in Seq(Slots) /\ size \in Nat /\ size <= Len(memory) /\ Len(memory) \in Nat
  BY DEF VectorType
<1>b. \A i \in 1 .. Len(memory) : memory[i] \in Slots
  BY <1>a, ElementOfSeq
<1>1. CASE Join
  <2>1. PICK c \in Client :
          LET slot == [client |-> c, mHasSentFontTexture |-> FALSE]
          IN  \/ /\ memory' = [i \in 1 .. size + 1 |-> IF i = size + 1 THEN slot ELSE memory[i]]
                                \o SubSeq(memory, size + 2, Len(memory))
                 /\ UNCHANGED freed
              \/ /\ freed' = memory
                 /\ memory' = Append(mClients, slot)
    BY <1>1 DEF Join
  <2> DEFINE slot == [client |-> c, mHasSentFontTexture |-> FALSE]
             front == [i \in 1 .. size + 1 |-> IF i = size + 1 THEN slot ELSE memory[i]]
             rest == SubSeq(memory, size + 2, Len(memory))
  <2>2. slot \in Slots
    BY DEF Slots
  <2>3. front \in Seq(Slots) /\ Len(front) = size + 1
    <3>1. \A i \in 1 .. size : memory[i] \in Slots
      BY <1>a, <1>b
    <3> HIDE DEF slot
    <3> QED BY <1>a, <2>2, <3>1, SlotPutAtEnd
  <2>4. rest \in Seq(Slots) /\ Len(rest) \in Nat
    <3>1. \A i \in size + 2 .. Len(memory) : memory[i] \in Slots
      BY <1>a, <1>b
    <3>2. rest \in Seq(Slots)
      BY <1>a, <3>1, SubSeqProperties
    <3> QED BY <3>2
  <2>5. memory' \in Seq(Slots) /\ size + 1 \in 0 .. Len(memory') /\ freed' \in Seq(Slots)
    <3>1. CASE memory' = front \o rest /\ UNCHANGED freed
      <4>1. front \o rest \in Seq(Slots) /\ Len(front \o rest) = Len(front) + Len(rest)
        BY <2>3, <2>4, ConcatProperties
      <4> HIDE DEF front, rest
      <4> QED BY <1>a, <2>3, <2>4, <3>1, <4>1 DEF VectorType
    <3>2. CASE freed' = memory /\ memory' = Append(mClients, slot)
      <4> HIDE DEF slot
      <4> QED BY <1>a, <2>2, <3>2, SlotsType
    <3> QED BY <2>1, <3>1, <3>2
  <2>6. VectorType'
    BY <1>1, <2>5 DEF Join, VectorType
  <2>7. RenderType'
    BY <1>1, Unmoved DEF Join
  <2>8. ClientType' /\ FlagType'
    BY <1>1, SMTT(30) DEF Join, ClientType, FlagType
  <2> QED BY <2>6, <2>7, <2>8
<1>2. CASE HandleHello
  <2>1. RenderType' /\ VectorType' /\ ClientType'
    BY <1>2, Unmoved DEF HandleHello
  <2>2. FlagType'
    BY <1>2 DEF HandleHello, FlagType
  <2> QED BY <2>1, <2>2
<1>3. CASE HandleInput
  <2>1. RenderType' /\ VectorType' /\ ClientType'
    BY <1>3, Unmoved DEF HandleInput
  <2>2. FlagType'
    BY <1>3 DEF HandleInput, FlagType
  <2> QED BY <2>1, <2>2
<1>4. CASE Erase
  <2> DEFINE n == IF InLoop THEN Len(memory) ELSE size - 1
  <2>1. PICK i \in 1 .. size :
          memory' = [j \in 1 .. n |-> IF i <= j /\ j < size THEN memory[j + 1] ELSE memory[j]]
    BY <1>4 DEF Erase
  <2>2. size \in Nat \ {0} /\ n \in Nat /\ size - 1 <= n /\ n <= Len(memory)
    BY <1>a, <2>1
  <2>3. memory' \in [1 .. n -> Slots]
    <3>1. \A j \in 1 .. n : j \in 1 .. Len(memory) /\ (j < size => j + 1 \in 1 .. Len(memory))
      BY <1>a, <2>2
    <3> HIDE DEF n
    <3> QED BY <2>1, <3>1, <1>b
  <2>4. memory' \in Seq(Slots) /\ Len(memory') = n
    <3> HIDE DEF n
    <3> QED BY <2>2, <2>3
  <2>5. VectorType'
    <3> HIDE DEF n
    <3> QED BY <1>4, <1>a, <2>2, <2>4 DEF Erase, VectorType
  <2>6. RenderType' /\ ClientType'
    BY <1>4, Unmoved DEF Erase
  <2>7. raced' \in BOOLEAN
    BY <1>4 DEF Erase, InLoop, FlagType
  <2>8. FlagType'
    BY <1>4, <2>7 DEF Erase, FlagType
  <2> QED BY <2>5, <2>6, <2>8
<1> QED BY <1>1, <1>2, <1>3, <1>4 DEF Run

\* What a client that reads finds in its packet.
LEMMA HeadOfFlight ==
  ASSUME TypeOK, NEW c \in Client, inFlight[c] # <<>>
  PROVE  /\ Head(inFlight[c]) \in 0 .. Len(frames)
         /\ Tail(inFlight[c]) \in Seq(0 .. Len(frames))
         /\ Head(inFlight[c]) # FontTexture =>
              /\ Head(inFlight[c]) \in 1 .. Len(frames)
              /\ frames[Head(inFlight[c])] \in Frame
<1>1. inFlight[c] \in Seq(0 .. Len(frames)) /\ frames \in Seq(Frame) /\ Len(frames) \in Nat
  BY DEF TypeOK
<1>2. Head(inFlight[c]) \in 0 .. Len(frames) /\ Tail(inFlight[c]) \in Seq(0 .. Len(frames))
  BY <1>1, HeadTailProperties
<1> QED BY <1>1, <1>2, ElementOfSeq DEF FontTexture

LEMMA ClientStepType ==
  ASSUME TypeOK, NEW c \in Client, Receive(c) \/ Quit(c)
  PROVE  TypeOK'
<1> USE TypeParts, TypePartsNext
<1>1. CASE ReceiveDrawData(c)
  <2> DEFINE k == Head(inFlight[c])
  <2>1. k \in 1 .. Len(frames) /\ frames[k] \in Frame /\ k \in 0 .. Len(frames)
    BY <1>1, HeadOfFlight DEF ReceiveDrawData
  <2>2. UnpackDrawData(c, frames[k].lists) \in Seq(Content \cup {Blank, Garbage})
    BY <2>1, UnpackType DEF ClientType
  <2>3. shown' \in [Client -> Seq(Content \cup {Blank, Garbage})]
    BY <1>1, <2>2 DEF ReceiveDrawData, ClientType
  <2>4. inFlight' \in [Client -> Seq(0 .. Len(frames))]
    BY <1>1, HeadOfFlight DEF ReceiveDrawData, ClientType
  <2>5. first' \in [Client -> 0 .. Len(frames)] /\ latest' \in [Client -> 0 .. Len(frames)]
    BY <1>1, <2>1 DEF ReceiveDrawData, ClientType
  <2>6. gap' \in [Client -> BOOLEAN]
    BY <1>1, Zenon DEF ReceiveDrawData, ClientType
  <2>7. ClientType'
    BY <1>1, <2>3, <2>4, <2>5, <2>6 DEF ReceiveDrawData, ClientType
  <2>8. RenderType' /\ VectorType'
    BY <1>1, Unmoved DEF ReceiveDrawData
  <2>9. FlagType'
    BY <1>1 DEF ReceiveDrawData, FlagType
  <2> QED BY <2>7, <2>8, <2>9
<1>2. CASE ReceiveFontTexture(c)
  <2>1. inFlight' \in [Client -> Seq(0 .. Len(frames))]
    BY <1>2, HeadOfFlight DEF ReceiveFontTexture, ClientType
  <2>2. ClientType'
    BY <1>2, <2>1 DEF ReceiveFontTexture, ClientType
  <2>3. RenderType' /\ VectorType'
    BY <1>2, Unmoved DEF ReceiveFontTexture
  <2>4. FlagType'
    BY <1>2 DEF ReceiveFontTexture, FlagType
  <2> QED BY <2>2, <2>3, <2>4
<1>3. CASE ReceiveGarbage(c)
  <2>1. inFlight' \in [Client -> Seq(0 .. Len(frames))]
    BY <1>3, HeadOfFlight DEF ReceiveGarbage, ClientType
  <2>2. shown' \in [Client -> Seq(Content \cup {Blank, Garbage})]
    <3>1. <<Garbage>> \in Seq(Content \cup {Blank, Garbage})
      OBVIOUS
    <3> QED BY <1>3, <3>1 DEF ReceiveGarbage, ClientType
  <2>3. ClientType'
    BY <1>3, <2>1, <2>2 DEF ReceiveGarbage, ClientType
  <2>4. RenderType' /\ VectorType'
    BY <1>3, Unmoved DEF ReceiveGarbage
  <2>5. FlagType'
    BY <1>3 DEF ReceiveGarbage, FlagType
  <2> QED BY <2>3, <2>4, <2>5
<1>4. CASE Quit(c)
  <2>1. Len(frames) \in Nat /\ 0 \in 0 .. Len(frames)
    BY DEF RenderType
  <2>2. first' \in [Client -> 0 .. Len(frames)] /\ latest' \in [Client -> 0 .. Len(frames)]
    BY <1>4, <2>1 DEF Quit, ClientType
  <2>3. ClientType'
    BY <1>4, <2>2 DEF Quit, ClientType
  <2>4. RenderType' /\ VectorType'
    BY <1>4, Unmoved DEF Quit
  <2>5. FlagType'
    BY <1>4 DEF Quit, FlagType
  <2> QED BY <2>3, <2>4, <2>5
<1> QED BY <1>1, <1>2, <1>3, <1>4 DEF Receive

-----------------------------------------------------------------------------
(* Nothing outdated is shown. *)

LEMMA InitIInv == Init => IInv
<1> SUFFICES ASSUME Init PROVE IInv
  OBVIOUS
<1>1. TypeOK
  BY InitType
<1>2. FramesFollow
  BY DEF Init, FramesFollow
<1>3. /\ DrawnBeforePacked /\ HashesOfLastFrame /\ NothingShownYet /\ NeverStale
      /\ FirstIsFirst /\ BlankIsExplained
  BY DEF Init, DrawnBeforePacked, HashesOfLastFrame, NothingShownYet, NeverStale, FirstIsFirst,
         BlankIsExplained, Whole
<1> QED BY <1>1, <1>2, <1>3 DEF IInv

\* The frames packed before stay as they are.
LEMMA FramesOnlyGrow ==
  ASSUME TypeOK, PackImDrawData
  PROVE  /\ Len(frames') = Len(frames) + 1
         /\ Len(frames) \in Nat
         /\ \A k \in 1 .. Len(frames) : frames'[k] = frames[k]
         /\ frames'[Len(frames) + 1] = [picture |-> drawn, lists |-> PackedLists]
<1>1. frames \in Seq(Frame)
  BY DEF TypeOK
<1> QED BY <1>1 DEF PackImDrawData

LEMMA PackKeepsFrames ==
  IInv /\ PackImDrawData =>
    FramesFollow' /\ HashesOfLastFrame' /\ NeverStale' /\ FirstIsFirst' /\ BlankIsExplained'
<1> SUFFICES ASSUME IInv, PackImDrawData
             PROVE  /\ FramesFollow' /\ HashesOfLastFrame' /\ NeverStale'
                    /\ FirstIsFirst' /\ BlankIsExplained'
  OBVIOUS
<1>0. TypeOK /\ FramesFollow /\ HashesOfLastFrame /\ NeverStale
  BY DEF IInv
<1> DEFINE n == Len(frames)
<1>1. /\ Len(frames') = n + 1 /\ n \in Nat
      /\ \A k \in 1 .. n : frames'[k] = frames[k]
      /\ frames'[n + 1] = [picture |-> drawn, lists |-> PackedLists]
  BY <1>0, FramesOnlyGrow
<1>2. drawn \in Pictures
  BY DEF IInv, TypeOK, DrawnBeforePacked, PackImDrawData
<1>3. DOMAIN PackedLists = DOMAIN drawn /\ DOMAIN drawn \subseteq 1 .. MaxLists
  BY <1>0, <1>2, PackedFrame DEF TypeOK
<1>4. \A i \in DOMAIN drawn :
        /\ PackedLists[i] \in {drawn[i], Unchanged}
        /\ PackedLists[i] = Unchanged => HashImDrawList(drawn[i]) = sPrevDrawListHashes[i]
        /\ drawn[i] \in Content
  <2>1. \A i \in DOMAIN drawn : drawn[i] \in Content
    BY <1>2, PictureDomain
  <2>2. \A i \in DOMAIN drawn : drawn[i] # Unchanged
    BY <2>1, ContentIsTriple
  <2> QED BY <2>1, <2>2 DEF PackedLists
<1>5. FramesFollow'
  <2> SUFFICES ASSUME NEW k \in 1 .. n + 1
               PROVE  /\ DOMAIN frames'[k].lists = DOMAIN frames'[k].picture
                      /\ \A i \in DOMAIN frames'[k].lists :
                           /\ frames'[k].lists[i] \in {frames'[k].picture[i], Unchanged}
                           /\ (frames'[k].lists[i] = Unchanged /\ k > 1
                                 /\ i \in DOMAIN frames'[k - 1].picture)
                                => frames'[k].picture[i] = frames'[k - 1].picture[i]
    BY <1>1 DEF FramesFollow
  <2>1. CASE k \in 1 .. n
    <3>1. frames'[k] = frames[k] /\ (k > 1 => frames'[k - 1] = frames[k - 1])
      BY <1>1, <2>1
    <3> QED BY <1>0, <2>1, <3>1 DEF FramesFollow
  <2>2. CASE k = n + 1
    <3>1. frames'[k].picture = drawn /\ frames'[k].lists = PackedLists
      BY <1>1, <2>2
    <3>2. k > 1 => n \in 1 .. n /\ k - 1 = n /\ frames'[k - 1] = frames[n] /\ frames # <<>>
      BY <1>1, <2>2
    <3>3. k > 1 => \A i \in DOMAIN frames[n].picture :
                     /\ sPrevDrawListHashes[i] = HashImDrawList(frames[n].picture[i])
                     /\ frames[n].picture[i] \in Content
      <4>1. k > 1 => frames[n].picture \in Pictures
        <5>1. frames \in Seq(Frame) /\ n = Len(frames)
          BY <1>0 DEF TypeOK
        <5>2. k > 1 => frames[n] \in Frame
          BY <3>2, <5>1, ElementOfSeq
        <5> QED BY <5>2 DEF Frame
      <4> QED BY <1>0, <3>2, <4>1, PictureDomain DEF HashesOfLastFrame
    <3>4. \A l, m \in Content : HashImDrawList(l) = HashImDrawList(m) => l = m
      BY HashTellsList
    <3> QED BY <1>3, <1>4, <3>1, <3>2, <3>3, <3>4
  <2> QED BY <1>1, <2>1, <2>2
<1>6. HashesOfLastFrame'
  <2>1. frames'[Len(frames')].picture = drawn
    BY <1>1
  <2>2. \A i \in DOMAIN drawn : sPrevDrawListHashes'[i] = HashImDrawList(drawn[i])
    BY <1>3 DEF PackImDrawData, PackedHashes
  <2> QED BY <2>1, <2>2 DEF HashesOfLastFrame
<1>7. NeverStale'
  <2>1. \A c \in Client : latest[c] # 0 => frames'[latest[c]] = frames[latest[c]]
    BY <1>0, <1>1 DEF TypeOK
  <2> QED BY <1>0, <2>1 DEF NeverStale, Whole, PackImDrawData
<1>8. FirstIsFirst'
  BY DEF IInv, FirstIsFirst, PackImDrawData
<1>9. BlankIsExplained'
  <2> SUFFICES ASSUME NEW c \in Client, Whole(c),
                      NEW i \in DOMAIN shown[c], shown[c][i] = Blank
               PROVE  NotSince(i, first[c], latest[c])'
    BY DEF BlankIsExplained, NotSince, Whole, PackImDrawData
  <2>1. NotSince(i, first[c], latest[c])
    BY DEF IInv, BlankIsExplained, NotSince
  <2>2. first[c] \in 1 .. latest[c] /\ latest[c] \in 0 .. n
    BY DEF IInv, FirstIsFirst, TypeOK, Whole
  <2>3. \A j \in first[c] .. latest[c] : j \in 1 .. n /\ frames'[j] = frames[j]
    BY <1>1, <2>2
  <2>4. \A j \in first[c] .. latest[c] : \A k \in j .. latest[c] : k \in first[c] .. latest[c]
    BY <1>1, <2>2
  <2>5. UNCHANGED <<first, latest>>
    BY DEF PackImDrawData
  <2> QED BY <2>1, <2>3, <2>4, <2>5 DEF NotSince
<1> QED BY <1>5, <1>6, <1>7, <1>8, <1>9

LEMMA ReceiveKeepsFresh ==
  ASSUME IInv, NEW c \in Client, ReceiveDrawData(c)
  PROVE  NothingShownYet' /\ NeverStale'
<1>0. TypeOK /\ FramesFollow /\ NothingShownYet /\ NeverStale
  BY DEF IInv
<1> DEFINE k == Head(inFlight[c])
           f == frames[k]
<1>1. k \in 1 .. Len(frames) /\ f \in Frame /\ Len(frames) \in Nat
  <2>1. inFlight[c] # <<>> /\ k # FontTexture
    BY DEF ReceiveDrawData
  <2>2. k \in 1 .. Len(frames) /\ f \in Frame
    BY <1>0, <2>1, HeadOfFlight
  <2>3. frames \in Seq(Frame)
    BY <1>0 DEF TypeOK
  <2> QED BY <2>2, <2>3
<1>2. shown' = [shown EXCEPT ![c] = UnpackDrawData(c, f.lists)]
      /\ latest' = [latest EXCEPT ![c] = k] /\ UNCHANGED <<frames, torn>> /\ c \notin torn
  BY DEF ReceiveDrawData
<1>3. shown'[c] = UnpackDrawData(c, f.lists) /\ latest'[c] = k
  BY <1>0, <1>2 DEF TypeOK
<1>4. \A d \in Client \ {c} :
        shown'[d] = shown[d] /\ latest'[d] = latest[d] /\ gap'[d] = gap[d]
  BY <1>0, <1>2 DEF TypeOK, ReceiveDrawData
<1>5. ~gap'[c] => ~gap[c] /\ latest[c] \in {0, k - 1, k}
  BY <1>0, Zenon DEF ReceiveDrawData, TypeOK
<1>6. ASSUME ~gap'[c]
      PROVE  /\ DOMAIN shown'[c] = DOMAIN f.picture
             /\ \A i \in DOMAIN shown'[c] : shown'[c][i] \in {f.picture[i], Blank}
  <2>1. DOMAIN shown'[c] = DOMAIN f.lists /\ DOMAIN f.lists = DOMAIN f.picture
    BY <1>0, <1>1, <1>3, UnpackType DEF TypeOK, FramesFollow
  <2>2. ASSUME NEW i \in DOMAIN f.lists
        PROVE  shown'[c][i] \in {f.picture[i], Blank}
    <3>1. shown'[c][i] = IF f.lists[i] = Unchanged THEN ListAt(c, i) ELSE f.lists[i]
      BY <1>3 DEF UnpackDrawData
    <3>2. CASE f.lists[i] # Unchanged
      BY <1>0, <1>1, <3>1, <3>2 DEF FramesFollow
    <3>3. CASE f.lists[i] = Unchanged /\ i \notin DOMAIN shown[c]
      BY <3>1, <3>3 DEF ListAt
    <3>4. CASE f.lists[i] = Unchanged /\ i \in DOMAIN shown[c]
      <4>1. shown'[c][i] = shown[c][i]
        BY <3>1, <3>4 DEF ListAt
      <4>2. latest[c] # 0
        BY <1>0, <1>2, <3>4 DEF NothingShownYet
      <4>3. latest[c] = k \/ latest[c] = k - 1
        BY <1>5, <1>6, <4>2
      <4>4. /\ i \in DOMAIN frames[latest[c]].picture
            /\ shown[c][i] \in {frames[latest[c]].picture[i], Blank}
        BY <1>0, <1>2, <1>5, <1>6, <3>4, <4>2 DEF NeverStale, Whole
      <4>5. CASE latest[c] = k
        BY <4>1, <4>4, <4>5
      <4>6. CASE latest[c] = k - 1
        <5>1. k > 1
          BY <1>1, <4>2, <4>6
        <5>2. f.picture[i] = frames[k - 1].picture[i]
          BY <1>0, <1>1, <3>4, <4>4, <4>6, <5>1 DEF FramesFollow
        <5> QED BY <4>1, <4>4, <4>6, <5>2
      <4> QED BY <4>3, <4>5, <4>6
    <3> QED BY <3>2, <3>3, <3>4
  <2> QED BY <2>1, <2>2
<1>7. NeverStale'
  <2> HIDE DEF f
  <2> SUFFICES ASSUME NEW d \in Client, latest'[d] # 0, ~gap'[d], d \notin torn
               PROVE  /\ DOMAIN shown'[d] = DOMAIN frames[latest'[d]].picture
                      /\ \A i \in DOMAIN shown'[d] :
                           shown'[d][i] \in {frames[latest'[d]].picture[i], Blank}
    BY <1>2 DEF NeverStale, Whole
  <2>1. CASE d = c
    BY <1>3, <1>6, <2>1 DEF f
  <2>2. CASE d # c
    BY <1>0, <1>4, <2>2 DEF NeverStale, Whole
  <2> QED BY <2>1, <2>2
<1>8. NothingShownYet'
  BY <1>0, <1>1, <1>2, <1>3, <1>4 DEF NothingShownYet
<1> QED BY <1>7, <1>8

\* A frame that is unpacked leaves a position blank only if it was blank, or not there.
LEMMA ReceiveKeepsBlank ==
  ASSUME IInv, NEW c \in Client, ReceiveDrawData(c)
  PROVE  FirstIsFirst' /\ BlankIsExplained'
<1>0. TypeOK /\ FramesFollow /\ NeverStale /\ FirstIsFirst /\ BlankIsExplained
  BY DEF IInv
<1> DEFINE k == Head(inFlight[c])
           f == frames[k]
<1>1. k \in 1 .. Len(frames) /\ f \in Frame /\ Len(frames) \in Nat
  <2>1. inFlight[c] # <<>> /\ k # FontTexture
    BY DEF ReceiveDrawData
  <2>2. k \in 1 .. Len(frames) /\ f \in Frame
    BY <1>0, <2>1, HeadOfFlight
  <2>3. frames \in Seq(Frame)
    BY <1>0 DEF TypeOK
  <2> QED BY <2>2, <2>3
<1>2. /\ shown'[c] = UnpackDrawData(c, f.lists)
      /\ latest'[c] = k
      /\ first'[c] = IF first[c] = 0 THEN k ELSE first[c]
      /\ UNCHANGED <<frames, torn>> /\ c \notin torn
  BY <1>0 DEF TypeOK, ReceiveDrawData
<1>3. \A d \in Client \ {c} :
        /\ shown'[d] = shown[d] /\ first'[d] = first[d] /\ latest'[d] = latest[d]
        /\ gap'[d] = gap[d]
  BY <1>0 DEF TypeOK, ReceiveDrawData
<1>4. ~gap'[c] => ~gap[c] /\ latest[c] \in {0, k - 1, k}
  BY <1>0, Zenon DEF ReceiveDrawData, TypeOK
<1>5. latest[c] \in 0 .. Len(frames)
  BY <1>0 DEF TypeOK
<1>6. ~gap'[c] => first'[c] \in 1 .. k
  BY <1>0, <1>1, <1>2, <1>4, <1>5 DEF FirstIsFirst
<1>7. FirstIsFirst'
  BY <1>0, <1>1, <1>2, <1>3, <1>6 DEF FirstIsFirst
<1>8. ASSUME ~gap'[c], NEW i \in DOMAIN shown'[c], shown'[c][i] = Blank
      PROVE  NotSince(i, first'[c], k)
  <2>1. i \in DOMAIN f.lists /\ f.lists[i] = Unchanged /\ ListAt(c, i) = Blank
    <3>1. i \in DOMAIN f.lists
      BY <1>2, <1>8 DEF UnpackDrawData
    <3>2. f.lists[i] # Blank
      <4>1. PICK n \in 1 .. MaxLists : f.lists \in [1 .. n -> Content \cup {Unchanged}]
        BY <1>1 DEF Frame, PackedPictures
      <4>2. f.lists[i] \in Content \cup {Unchanged}
        BY <3>1, <4>1
      <4> QED BY <4>2, ContentIsTriple, MarksDiffer
    <3> QED BY <1>2, <1>8, <3>1, <3>2 DEF UnpackDrawData
  <2>2. CASE latest[c] = 0
    <3>1. first'[c] = k
      BY <1>0, <1>2, <2>2 DEF FirstIsFirst
    <3> QED BY <1>1, <2>1, <3>1 DEF NotSince
  <2>3. CASE latest[c] # 0
    <3>1. ~gap[c] /\ latest[c] \in {k - 1, k} /\ first[c] \in 1 .. latest[c] /\ first'[c] = first[c]
      BY <1>0, <1>2, <1>4, <1>8, <2>3 DEF FirstIsFirst
    <3>2. DOMAIN shown[c] = DOMAIN frames[latest[c]].lists
      <4>1. latest[c] \in 1 .. Len(frames)
        BY <1>5, <2>3
      <4> QED BY <1>0, <1>2, <2>3, <3>1, <4>1 DEF NeverStale, Whole, FramesFollow
    <3>3. NotSince(i, first[c], latest[c])
      <4>1. CASE i \in DOMAIN shown[c]
        <5>1. shown[c][i] = Blank
          BY <2>1, <4>1 DEF ListAt
        <5> QED BY <1>0, <1>2, <2>3, <3>1, <4>1, <5>1 DEF BlankIsExplained, Whole, NotSince
      <4>2. CASE i \notin DOMAIN shown[c]
        <5>1. \A j \in first[c] .. latest[c] : latest[c] \in j .. latest[c]
          BY <1>5, <3>1
        <5> QED BY <3>2, <4>2, <5>1 DEF NotSince
      <4> QED BY <4>1, <4>2
    <3>4. \A j \in first[c] .. k : j \in first[c] .. latest[c] \/ j = k
      BY <1>1, <1>5, <3>1
    <3>5. \A j \in first[c] .. latest[c] : \A l \in j .. latest[c] : l \in j .. k
      BY <1>1, <1>5, <3>1
    <3> QED BY <2>1, <3>1, <3>3, <3>4, <3>5 DEF NotSince
  <2> QED BY <2>2, <2>3
<1>9. BlankIsExplained'
  <2> HIDE DEF f
  <2> SUFFICES ASSUME NEW d \in Client, latest'[d] # 0, ~gap'[d], d \notin torn,
                      NEW i \in DOMAIN shown'[d], shown'[d][i] = Blank
               PROVE  NotSince(i, first'[d], latest'[d])
    BY <1>2 DEF BlankIsExplained, Whole, NotSince
  <2>1. CASE d = c
    BY <1>2, <1>8, <2>1
  <2>2. CASE d # c
    BY <1>0, <1>3, <2>2 DEF BlankIsExplained, Whole, NotSince
  <2> QED BY <2>1, <2>2
<1> QED BY <1>7, <1>9

\* The steps that unpack no frame: nobody has more to answer for than before.
LEMMA LessToAnswerFor ==
  ASSUME IInv, UNCHANGED <<frames, sPrevDrawListHashes, first, latest, gap>>,
         ASSUME NEW c \in Client, c \notin torn'
         PROVE  c \notin torn /\ shown'[c] = shown[c]
  PROVE  /\ FramesFollow' /\ HashesOfLastFrame' /\ NothingShownYet' /\ NeverStale'
         /\ FirstIsFirst' /\ BlankIsExplained'
<1>1. FramesFollow' /\ HashesOfLastFrame' /\ FirstIsFirst'
  BY DEF IInv, FramesFollow, HashesOfLastFrame, FirstIsFirst
<1>2. \A c \in Client : Whole(c)' => Whole(c) /\ shown'[c] = shown[c]
  BY DEF Whole
<1>3. NothingShownYet' /\ NeverStale' /\ BlankIsExplained'
  BY <1>2 DEF IInv, NothingShownYet, NeverStale, BlankIsExplained
<1> QED BY <1>1, <1>3

LEMMA QuitKeepsIInv ==
  ASSUME IInv, NEW c \in Client, Quit(c)
  PROVE  /\ FramesFollow' /\ HashesOfLastFrame' /\ NothingShownYet' /\ NeverStale'
         /\ FirstIsFirst' /\ BlankIsExplained'
<1>0. TypeOK
  BY DEF IInv
<1>1. UNCHANGED <<frames, sPrevDrawListHashes>>
  BY DEF Quit
<1>2. latest'[c] = 0 /\ shown'[c] = <<>> /\ first'[c] = 0
  BY <1>0 DEF Quit, TypeOK
<1>3. \A d \in Client \ {c} :
        /\ shown'[d] = shown[d] /\ latest'[d] = latest[d] /\ gap'[d] = gap[d]
        /\ first'[d] = first[d] /\ (d \in torn' <=> d \in torn)
  BY <1>0 DEF Quit, TypeOK
<1>4. FramesFollow' /\ HashesOfLastFrame' /\ NothingShownYet' /\ FirstIsFirst'
  BY <1>1, <1>2, <1>3 DEF IInv, FramesFollow, HashesOfLastFrame, NothingShownYet, FirstIsFirst
<1>5. NeverStale' /\ BlankIsExplained'
  BY <1>1, <1>2, <1>3 DEF IInv, NeverStale, BlankIsExplained, Whole
<1> QED BY <1>4, <1>5

LEMMA NextIInv == IInv /\ LoopInBounds /\ [Next]_vars => IInv'
<1> SUFFICES ASSUME IInv, LoopInBounds, [Next]_vars PROVE IInv'
  OBVIOUS
<1>0. TypeOK /\ DrawnBeforePacked
  BY DEF IInv
<1>1. TypeOK'
  <2>1. CASE UNCHANGED vars
    BY <1>0, <2>1 DEF TypeOK
  <2> QED BY <1>0, <2>1, RenderStepType, ServerStepType, ClientStepType DEF Next
<1>2. DrawnBeforePacked'
  <2>1. CASE NewFrame
    BY <1>0, <2>1 DEF NewFrame, DrawnBeforePacked, TypeOK, Pictures
  <2>2. CASE Render /\ ~NewFrame
    BY <1>0, <2>2 DEF DrawnBeforePacked, Render, TestRerender, PackImDrawData, StartIterating,
       SendHeader, SendDrawData, DrawDataSent, SendFontHeader, SendFontTexture, FontTextureSent,
       NextClient, SetHasSentFontTexture, FinishFrame
  <2>3. CASE UNCHANGED <<renderPc, drawn>>
    BY <1>0, <2>3 DEF DrawnBeforePacked
  <2>4. CASE Run \/ UNCHANGED vars
    BY <2>3, <2>4 DEF Run, Join, HandleHello, HandleInput, Erase
  <2>5. ASSUME NEW c \in Client, Receive(c) \/ Quit(c)
        PROVE  DrawnBeforePacked'
    BY <2>3, <2>5 DEF Receive, ReceiveDrawData, ReceiveFontTexture, ReceiveGarbage, Quit
  <2> QED BY <2>1, <2>2, <2>4, <2>5 DEF Next
<1>3. CASE PackImDrawData
  <2>1. NothingShownYet'
    BY <1>3 DEF IInv, NothingShownYet, PackImDrawData
  <2> QED BY <1>1, <1>2, <1>3, <2>1, PackKeepsFrames DEF IInv
<1>4. CASE (Render /\ ~PackImDrawData) \/ Run \/ UNCHANGED vars
  <2>1. /\ UNCHANGED <<frames, sPrevDrawListHashes, shown, first, latest, gap>>
        /\ torn \subseteq torn'
    BY <1>4 DEF Render, Run, NewFrame, TestRerender, StartIterating, SendHeader, SendDrawData,
       DrawDataSent, SendFontHeader, SendFontTexture, FontTextureSent, SendPayload,
       SetHasSentFontTexture, FinishFrame, Join, HandleHello, HandleInput, Erase
  <2> QED BY <1>1, <1>2, <2>1, LessToAnswerFor DEF IInv
<1>5. ASSUME NEW c \in Client, Receive(c)
      PROVE  IInv'
  <2>1. CASE ReceiveDrawData(c)
    <3>1. UNCHANGED <<frames, sPrevDrawListHashes>>
      BY <2>1 DEF ReceiveDrawData
    <3>2. FramesFollow' /\ HashesOfLastFrame'
      BY <3>1 DEF IInv, FramesFollow, HashesOfLastFrame
    <3> QED BY <1>1, <1>2, <2>1, <3>2, ReceiveKeepsFresh, ReceiveKeepsBlank DEF IInv
  <2>2. CASE ReceiveFontTexture(c)
    <3>1. UNCHANGED <<frames, sPrevDrawListHashes, shown, first, latest, gap, torn>>
      BY <2>2 DEF ReceiveFontTexture
    <3> QED BY <1>1, <1>2, <3>1, LessToAnswerFor DEF IInv
  <2>3. CASE ReceiveGarbage(c)
    <3>1. /\ UNCHANGED <<frames, sPrevDrawListHashes, first, latest, gap, torn>> /\ c \in torn
          /\ \A d \in Client \ {c} : shown'[d] = shown[d]
      BY <1>0, <2>3 DEF ReceiveGarbage, TypeOK
    <3> QED BY <1>1, <1>2, <3>1, LessToAnswerFor DEF IInv
  <2> QED BY <1>5, <2>1, <2>2, <2>3 DEF Receive
<1>6. ASSUME NEW c \in Client, Quit(c)
      PROVE  IInv'
  BY <1>1, <1>2, <1>6, QuitKeepsIInv DEF IInv
<1> QED BY <1>3, <1>4, <1>5, <1>6 DEF Next

-----------------------------------------------------------------------------
(* What the connections, the loop and the hash have to do with the frames. *)

\* The frames a client has unpacked last or has on their way.
Sent(c) == ({latest[c]} \cup {inFlight[c][i] : i \in 1 .. Len(inFlight[c])}) \ {FontTexture}

NewestFrame == Len(frames)

\* The client has the newest frame, or the one before it, or none at all yet.
HasNewest(c) == Sent(c) = {} \/ NewestFrame \in Sent(c)
HasPrevious(c) == HasNewest(c) \/ NewestFrame - 1 \in Sent(c)

\* The loop goes through the client's slot, and has not got to it yet.
IsInLoop(c) == \E j \in 1 .. loopEnd : LoopMemory[j].client = c
IsDue(c) ==
  \E j \in (IF renderPc \in {"send", "data", "room"} THEN cursor ELSE cursor + 1) .. loopEnd :
    LoopMemory[j].client = c

\* Nothing is on its way to a client that is not connected, and it shows nothing.
OnlyConnectedHavePackets ==
  \A c \in Client : life[c] # "on" => inFlight[c] = <<>> /\ latest[c] = 0 /\ ~texture[c]

\* The frames of a connection are in the order they were packed in.
FramesInOrder ==
  \A c \in Client : \A i \in 1 .. Len(inFlight[c]) : inFlight[c][i] # FontTexture =>
    /\ latest[c] <= inFlight[c][i]
    /\ \A j \in i .. Len(inFlight[c]) : inFlight[c][j] # FontTexture => inFlight[c][i] <= inFlight[c][j]

\* Between two frames of a client there is no frame it will not get.
NoFrameLeftOut ==
  ~raced => \A c \in Client : \A a, b \in Sent(c) : \A m \in a .. b : m \in Sent(c)

\* No slot is left of a client that has not connected yet.
NewcomersUnlisted ==
  \A c \in Client : life[c] = "new" =>
    /\ \A i \in 1 .. Len(memory) : memory[i].client # c
    /\ \A i \in 1 .. Len(freed) : freed[i].client # c

\* Between two rounds of the loop every client in the vector has the newest frame; during
\* one, a client that has it not is due.  The loop sends to nobody who missed the last.
ListedUpToDate ==
  ~raced => \A c \in Client :
    /\ IsClient(c) =>
         /\ renderPc \in {"frame", "test", "pack"} => HasNewest(c)
         /\ renderPc = "iterate" => HasPrevious(c)
         /\ InLoop => HasNewest(c) \/ (HasPrevious(c) /\ IsDue(c))
    /\ InLoop /\ IsInLoop(c) => HasPrevious(c)

\* The font texture has a picture before it, on its way or unpacked.
FontBehindPicture ==
  ~raced => \A c \in Client :
    /\ \A i \in 1 .. Len(inFlight[c]) : inFlight[c][i] = FontTexture =>
         latest[c] # 0 \/ \E j \in 1 .. i : inFlight[c][j] # FontTexture
    /\ renderPc \in {"font", "pixels", "fontRoom"} /\ mFd = c => life[c] # "on" \/ Sent(c) # {}

\* From its header to its payload a packet stays with the client at the cursor.
ReceiverKept == ~raced /\ renderPc \in {"data", "room", "pixels", "fontRoom"} => receiver = {mFd}

\* From packing to the end of render() the picture is that of the last frame.
PictureInUse == renderPc = "iterate" \/ InLoop => frames # <<>> /\ frames[Len(frames)].picture = drawn
\* lastDrawDataHash is that of the last frame, whatever pictures were drawn in between.
HashOfLastPicture ==
  frames # <<>> =>
    /\ renderPc \in {"frame", "test"} => lastDrawDataHash = CalcDrawDataHash(frames[Len(frames)].picture)
    /\ renderPc = "frame" => lastDrawDataHash = CalcDrawDataHash(drawn)

DeliveryInv == OnlyConnectedHavePackets /\ FramesInOrder /\ NoFrameLeftOut /\ LoopInBounds
  /\ NewcomersUnlisted /\ ListedUpToDate /\ FontBehindPicture /\ ReceiverKept /\ GapNeedsRace
  /\ FontNeedsWindow

-----------------------------------------------------------------------------
(* Two pictures with the same hash have the same buffers. *)

Embeds(p, q, part) ==
  \E f \in [DOMAIN p -> DOMAIN q] :
    /\ \A i, j \in DOMAIN p : f[i] = f[j] => i = j
    /\ \A i \in DOMAIN p : p[i][part] = q[f[i]][part]

\* A sum of hashes tells how often each buffer is in a picture, and no buffer is both
\* vertices and indices: so each of p finds one of its own in q.
LEMMA SameHashEmbeds ==
  ASSUME NEW m \in Nat, NEW n \in Nat, NEW part \in Part,
         NEW p \in [1 .. m -> Content], NEW q \in [1 .. n -> Content],
         CalcDrawDataHash(p) = CalcDrawDataHash(q)
  PROVE  Embeds(p, q, part)
<1> DEFINE P(x) == {i \in 1 .. m : p[i][part] = x}
           Q(x) == {i \in 1 .. n : q[i][part] = x}
<1>1. ASSUME NEW x \in PartBuffer[part]
      PROVE  \E b : b \in Bijection(P(x), Q(x))
  <2>1. IsFiniteSet(1 .. m) /\ IsFiniteSet(1 .. n)
    BY FS_Interval
  <2>2. IsFiniteSet(P(x)) /\ IsFiniteSet(Q(x))
    BY <2>1, FS_Subset
  <2>3. /\ {i \in 1 .. m : x \in HashImDrawList(p[i])} = P(x)
        /\ {i \in 1 .. n : x \in HashImDrawList(q[i])} = Q(x)
    BY PartInHash
  <2>4. \A l \in Content : PartBuffer[part] \subseteq Buffer
    BY PartInHash
  <2>5. CASE m = 0 /\ n = 0
    <3>1. P(x) = {} /\ Q(x) = {}
      BY <2>5
    <3>2. Cardinality(P(x)) = Cardinality(Q(x))
      BY <3>1
    <3> HIDE DEF P, Q
    <3> QED BY <2>2, <3>2, FS_SameCardinalityBij DEF ExistsBijection
  <2>6. CASE m # 0 \/ n # 0
    <3>1. x \in Buffer
      <4>1. p[1] \in Content \/ q[1] \in Content
        BY <2>6
      <4> QED BY <2>4, <4>1
    <3>2. /\ CalcDrawDataHash(p)[x] = Cardinality({i \in 1 .. m : x \in HashImDrawList(p[i])})
          /\ CalcDrawDataHash(q)[x] = Cardinality({i \in 1 .. n : x \in HashImDrawList(q[i])})
      BY <3>1 DEF CalcDrawDataHash
    <3>3. Cardinality(P(x)) = Cardinality(Q(x))
      BY <2>3, <3>2
    <3> HIDE DEF P, Q
    <3> QED BY <2>2, <3>3, FS_SameCardinalityBij DEF ExistsBijection
  <2> QED BY <2>5, <2>6
<1> DEFINE g == [x \in PartBuffer[part] |-> CHOOSE b : b \in Bijection(P(x), Q(x))]
           f == [i \in 1 .. m |-> g[p[i][part]][i]]
<1>2. \A x \in PartBuffer[part] : g[x] \in Bijection(P(x), Q(x))
  BY <1>1
<1>3. \A x \in PartBuffer[part] : /\ g[x] \in [P(x) -> Q(x)]
                         /\ \A i, j \in P(x) : g[x][i] = g[x][j] => i = j
  <2> HIDE DEF g, P, Q
  <2> QED BY <1>2 DEF Bijection, Injection, IsInjective
<1>4. ASSUME NEW i \in 1 .. m
      PROVE  f[i] \in 1 .. n /\ q[f[i]][part] = p[i][part]
  <2>1. p[i][part] \in PartBuffer[part] /\ i \in P(p[i][part])
    BY PartInHash
  <2>2. f[i] = g[p[i][part]][i]
    OBVIOUS
  <2>3. f[i] \in Q(p[i][part])
    <3> HIDE DEF f, g, P, Q
    <3> QED BY <1>3, <2>1, <2>2
  <2> HIDE DEF f, g, P
  <2> QED BY <2>3
<1>5. ASSUME NEW i \in 1 .. m, NEW j \in 1 .. m, f[i] = f[j]
      PROVE  i = j
  <2>1. p[i][part] = p[j][part]
    <3> HIDE DEF f
    <3> QED BY <1>4, <1>5
  <2>2. /\ p[i][part] \in PartBuffer[part] /\ i \in P(p[i][part]) /\ j \in P(p[i][part])
        /\ g[p[i][part]][i] = g[p[i][part]][j]
    BY <1>5, <2>1, PartInHash
  <2> HIDE DEF f, g, P, Q
  <2> QED BY <1>3, <2>2
<1>6. f \in [1 .. m -> 1 .. n]
  BY <1>4
<1>7. DOMAIN p = 1 .. m /\ DOMAIN q = 1 .. n
  OBVIOUS
<1> HIDE DEF f, g, P, Q
<1> QED BY <1>4, <1>5, <1>6, <1>7 DEF Embeds

LEMMA PictureIsSequence ==
  ASSUME NEW p \in Pictures \cup {<<>>}
  PROVE  \E n \in Nat : p \in [1 .. n -> Content]
<1>1. CASE p = <<>>
  <2>1. p \in [1 .. 0 -> Content]
    BY <1>1
  <2> QED BY <2>1
<1>2. CASE p \in Pictures
  BY <1>2, PictureDomain, MirrorAssumption
<1> QED BY <1>1, <1>2

LEMMA SameHashSameBuffers ==
  ASSUME NEW p \in Pictures \cup {<<>>}, NEW q \in Pictures \cup {<<>>},
         CalcDrawDataHash(p) = CalcDrawDataHash(q)
  PROVE  DOMAIN p = DOMAIN q /\ \A part \in Part : SameBuffers(p, q, part)
<1>1. PICK m \in Nat : p \in [1 .. m -> Content]
  BY PictureIsSequence
<1>2. PICK n \in Nat : q \in [1 .. n -> Content]
  BY PictureIsSequence
<1>3. DOMAIN p = 1 .. m /\ DOMAIN q = 1 .. n
  BY <1>1, <1>2
<1>4. \A part \in Part : Embeds(p, q, part) /\ Embeds(q, p, part)
  BY <1>1, <1>2, SameHashEmbeds
<1>5. (\E f : f \in Injection(1 .. m, 1 .. n)) /\ \E g : g \in Injection(1 .. n, 1 .. m)
  <2>1. 1 \in Part
    BY DEF Part
  <2>2. Embeds(p, q, 1) /\ Embeds(q, p, 1)
    BY <1>4, <2>1
  <2>3. \E f \in [1 .. m -> 1 .. n] : \A i, j \in 1 .. m : f[i] = f[j] => i = j
    BY <1>3, <2>2, ZenonT(60) DEF Embeds
  <2>4. \E g \in [1 .. n -> 1 .. m] : \A i, j \in 1 .. n : g[i] = g[j] => i = j
    BY <1>3, <2>2, ZenonT(60) DEF Embeds
  <2> QED BY <2>3, <2>4 DEF Injection, IsInjective
<1>6. /\ IsFiniteSet(1 .. m) /\ Cardinality(1 .. m) = m
      /\ IsFiniteSet(1 .. n) /\ Cardinality(1 .. n) = n
  BY FS_Interval
<1>7. m <= n /\ n <= m
  BY <1>5, <1>6, FS_Injection
<1>8. DOMAIN p = DOMAIN q
  BY <1>3, <1>7
<1> QED BY <1>4, <1>8 DEF SameBuffers, Embeds

HashInv == PictureInUse /\ HashOfLastPicture

LEMMA InitHashInv == Init => HashInv
BY DEF Init, HashInv, PictureInUse, HashOfLastPicture, InLoop

LEMMA NextHashInv == TypeOK /\ HashInv /\ [Next]_vars => HashInv'
<1> SUFFICES ASSUME TypeOK, HashInv, [Next]_vars PROVE HashInv'
  OBVIOUS
<1> USE DEF HashInv, PictureInUse, HashOfLastPicture, InLoop
<1>1. CASE NewFrame
  BY <1>1 DEF NewFrame
<1>2. CASE TestRerender
  BY <1>2 DEF TestRerender
<1>3. CASE PackImDrawData
  <2>1. frames' # <<>> /\ frames'[Len(frames')].picture = drawn
    BY <1>3, FramesOnlyGrow DEF PackImDrawData
  <2> QED BY <1>3, <2>1 DEF PackImDrawData
<1>4. CASE StartIterating \/ SendHeader \/ SendDrawData \/ DrawDataSent \/ SendFontHeader
           \/ SendFontTexture \/ FontTextureSent \/ SetHasSentFontTexture
  BY <1>4 DEF StartIterating, SendHeader, SendDrawData, DrawDataSent, SendFontHeader,
     SendFontTexture, FontTextureSent, SetHasSentFontTexture, NextClient
<1>5. CASE FinishFrame
  BY <1>5 DEF FinishFrame
<1>6. CASE Run \/ UNCHANGED vars
  <2>1. UNCHANGED renderVars
    BY <1>6 DEF Run, Join, HandleHello, HandleInput, Erase
  <2> QED BY <2>1
<1>7. ASSUME NEW c \in Client, Receive(c) \/ Quit(c)
      PROVE  HashInv'
  <2>1. UNCHANGED renderVars
    BY <1>7 DEF Receive, ReceiveDrawData, ReceiveFontTexture, ReceiveGarbage, Quit
  <2> QED BY <2>1
<1> QED BY <1>1, <1>2, <1>3, <1>4, <1>5, <1>6, <1>7 DEF Next, Render

LEMMA SameHashSkips == TypeOK /\ HashInv => SkipsOnlyExchanges
<1> SUFFICES ASSUME TypeOK, HashInv, renderPc = "frame", frames # <<>>
             PROVE  LET sent == frames[Len(frames)].picture
                    IN  /\ DOMAIN drawn = DOMAIN sent
                        /\ \A part \in Part : SameBuffers(drawn, sent, part)
  BY DEF SkipsOnlyExchanges
<1>1. frames[Len(frames)] \in Frame
  BY ElementOfSeq DEF TypeOK
<1>2. frames[Len(frames)].picture \in Pictures
  BY <1>1 DEF Frame
<1> QED BY <1>2, SameHashSameBuffers DEF TypeOK, HashInv, HashOfLastPicture

-----------------------------------------------------------------------------
(* Every client that is listed gets every frame, unless one is erased under the loop. *)

LEMMA FlightType ==
  ASSUME TypeOK, NEW c \in Client
  PROVE  /\ inFlight[c] \in Seq(0 .. NewestFrame)
         /\ Len(inFlight[c]) \in Nat
         /\ \A i \in 1 .. Len(inFlight[c]) : inFlight[c][i] \in 0 .. NewestFrame
         /\ latest[c] \in 0 .. NewestFrame
         /\ NewestFrame \in Nat
<1>1. frames \in Seq(Frame) /\ inFlight[c] \in Seq(0 .. Len(frames)) /\ latest[c] \in 0 .. Len(frames)
  BY DEF TypeOK
<1>2. Len(inFlight[c]) \in Nat /\ Len(frames) \in Nat
  BY <1>1
<1>3. \A i \in 1 .. Len(inFlight[c]) : inFlight[c][i] \in 0 .. NewestFrame
  BY <1>1, ElementOfSeq DEF NewestFrame
<1> QED BY <1>1, <1>2, <1>3 DEF NewestFrame

LEMMA SentType ==
  ASSUME TypeOK, NEW c \in Client
  PROVE  Sent(c) \subseteq 1 .. NewestFrame
BY FlightType DEF Sent, FontTexture

\* A packet that is sent is the last on its way; without a connection nothing is sent.
LEMMA TransmitAppends ==
  ASSUME TypeOK, NEW d \in Client, NEW p \in 0 .. NewestFrame, Transmit(d, p)
  PROVE  /\ \A c \in Client : c # d \/ life[d] # "on" => inFlight'[c] = inFlight[c]
         /\ life[d] = "on" =>
              /\ inFlight'[d] = Append(inFlight[d], p)
              /\ Len(inFlight'[d]) = Len(inFlight[d]) + 1
              /\ \A i \in 1 .. Len(inFlight[d]) : inFlight'[d][i] = inFlight[d][i]
              /\ inFlight'[d][Len(inFlight[d]) + 1] = p
<1>1. inFlight[d] \in Seq(0 .. NewestFrame)
  BY FlightType
<1>2. \A c \in Client : c # d \/ life[d] # "on" => inFlight'[c] = inFlight[c]
  BY DEF Transmit, TypeOK
<1>3. ASSUME life[d] = "on" PROVE inFlight'[d] = Append(inFlight[d], p)
  BY <1>3 DEF Transmit, TypeOK
<1> QED BY <1>1, <1>2, <1>3

LEMMA TransmitSent ==
  ASSUME TypeOK, NEW d \in Client, NEW p \in 0 .. NewestFrame, Transmit(d, p),
         UNCHANGED latest, NEW c \in Client
  PROVE  Sent(c)' = IF c = d /\ life[d] = "on" THEN Sent(c) \cup ({p} \ {FontTexture}) ELSE Sent(c)
<1>1. CASE c # d \/ life[d] # "on"
  BY <1>1, TransmitAppends DEF Sent
<1>2. CASE c = d /\ life[d] = "on"
  <2>1. \A i : i \in 1 .. Len(inFlight'[d]) <=> i \in 1 .. Len(inFlight[d]) \/ i = Len(inFlight[d]) + 1
    BY <1>2, FlightType, TransmitAppends
  <2>2. {inFlight'[d][i] : i \in 1 .. Len(inFlight'[d])}
          = {inFlight[d][i] : i \in 1 .. Len(inFlight[d])} \cup {p}
    <3> DEFINE old == inFlight[d]  new == inFlight'[d]  n == Len(old)  m == Len(new)
    <3>1. (\A i \in 1 .. n : new[i] = old[i]) /\ new[n + 1] = p
      BY <1>2, TransmitAppends
    <3>2. \A i : i \in 1 .. m <=> i \in 1 .. n \/ i = n + 1
      BY <2>1
    <3> HIDE DEF old, new, n, m
    <3>3. {new[i] : i \in 1 .. m} = {old[i] : i \in 1 .. n} \cup {p}
      BY <3>1, <3>2
    <3> QED BY <3>3 DEF old, new, n, m
  <2> QED BY <1>2, <2>2 DEF Sent
<1> QED BY <1>1, <1>2

LEMMA TransmitKeepsOrder ==
  ASSUME TypeOK, FramesInOrder, NEW d \in Client, NEW p \in {FontTexture, NewestFrame}, Transmit(d, p),
         UNCHANGED latest
  PROVE  FramesInOrder'
<1>1. p \in 0 .. NewestFrame
  BY FlightType DEF FontTexture
<1> SUFFICES ASSUME NEW c \in Client,
                    NEW i \in 1 .. Len(inFlight'[c]), inFlight'[c][i] # FontTexture
             PROVE  /\ latest[c] <= inFlight'[c][i]
                    /\ \A j \in i .. Len(inFlight'[c]) :
                         inFlight'[c][j] # FontTexture => inFlight'[c][i] <= inFlight'[c][j]
  BY DEF FramesInOrder
<1>2. CASE c # d \/ life[d] # "on"
  BY <1>1, <1>2, TransmitAppends DEF FramesInOrder
<1>3. CASE c = d /\ life[d] = "on"
  <2> DEFINE n == Len(inFlight[c])
  <2>1. /\ Len(inFlight'[c]) = n + 1 /\ inFlight'[c][n + 1] = p /\ n \in Nat
        /\ \A j \in 1 .. n : inFlight'[c][j] = inFlight[c][j] /\ inFlight[c][j] \in 0 .. NewestFrame
        /\ latest[c] \in 0 .. NewestFrame /\ NewestFrame \in Nat
    BY <1>1, <1>3, TransmitAppends, FlightType
  <2>2. CASE i = n + 1
    <3>1. p = NewestFrame /\ \A j \in i .. n + 1 : j = i
      BY <2>1, <2>2
    <3> QED BY <2>1, <2>2, <3>1
  <2>3. CASE i \in 1 .. n
    <3>1. /\ latest[c] <= inFlight[c][i]
          /\ \A j \in i .. n : inFlight[c][j] # FontTexture => inFlight[c][i] <= inFlight[c][j]
      BY <2>1, <2>3 DEF FramesInOrder
    <3>2. \A j \in i .. n + 1 : j \in i .. n \/ j = n + 1
      BY <2>1
    <3>3. \A j \in i .. n : j \in 1 .. n
      BY <2>1, <2>3
    <3>4. inFlight'[c][n + 1] # FontTexture => inFlight[c][i] <= inFlight'[c][n + 1]
      BY <2>1, <2>3
    <3> QED BY <2>1, <2>3, <3>1, <3>2, <3>3, <3>4
  <2> QED BY <2>1, <2>2, <2>3
<1> QED BY <1>2, <1>3

\* The packet that is read is no longer on its way.
LEMMA ReadTakesFirst ==
  ASSUME TypeOK, NEW c \in Client, inFlight[c] # <<>>,
         inFlight' = [inFlight EXCEPT ![c] = Tail(@)]
  PROVE  /\ \A d \in Client \ {c} : inFlight'[d] = inFlight[d]
         /\ Len(inFlight[c]) \in Nat \ {0}
         /\ Len(inFlight'[c]) = Len(inFlight[c]) - 1
         /\ \A i \in 1 .. Len(inFlight'[c]) : inFlight'[c][i] = inFlight[c][i + 1]
         /\ Head(inFlight[c]) = inFlight[c][1]
<1>1. inFlight[c] \in Seq(0 .. NewestFrame)
  BY FlightType
<1>2. inFlight'[c] = Tail(inFlight[c]) /\ \A d \in Client \ {c} : inFlight'[d] = inFlight[d]
  BY DEF TypeOK
<1>3. Len(inFlight[c]) \in Nat \ {0}
  BY <1>1, EmptySeq
<1>4. /\ Len(Tail(inFlight[c])) = Len(inFlight[c]) - 1
      /\ \A i \in 1 .. Len(Tail(inFlight[c])) : Tail(inFlight[c])[i] = inFlight[c][i + 1]
  BY <1>1, HeadTailProperties
<1>5. Head(inFlight[c]) = inFlight[c][1]
  BY <1>1, <1>3
<1> QED BY <1>2, <1>3, <1>4, <1>5

LEMMA ReadSent ==
  ASSUME TypeOK, NEW c \in Client, inFlight[c] # <<>>, FramesInOrder,
         inFlight' = [inFlight EXCEPT ![c] = Tail(@)],
         \A d \in Client \ {c} : latest'[d] = latest[d],
         latest'[c] = IF Head(inFlight[c]) = FontTexture THEN latest[c] ELSE Head(inFlight[c])
  PROVE  /\ FramesInOrder'
         /\ \A d \in Client \ {c} : Sent(d)' = Sent(d)
         /\ Sent(c)' = {x \in Sent(c) : x >= latest'[c]}
         /\ latest'[c] # 0 => latest'[c] \in Sent(c)
         /\ latest[c] <= latest'[c]
<1> DEFINE k == Head(inFlight[c])
           n == Len(inFlight[c])
           q == inFlight[c]
           r == inFlight'[c]
<1>1. /\ n \in Nat \ {0} /\ Len(r) = n - 1
      /\ \A i \in 1 .. n - 1 : r[i] = q[i + 1]
      /\ k = q[1]
      /\ \A d \in Client \ {c} : inFlight'[d] = inFlight[d]
  BY ReadTakesFirst
<1>2. /\ \A i \in 1 .. n : q[i] \in 0 .. NewestFrame
      /\ latest[c] \in 0 .. NewestFrame /\ NewestFrame \in Nat
  BY FlightType
<1>3. \A i \in 1 .. n : q[i] # FontTexture =>
        /\ latest[c] <= q[i]
        /\ \A j \in i .. n : q[j] # FontTexture => q[i] <= q[j]
  BY DEF FramesInOrder
<1>4. 1 \in 1 .. n /\ \A i \in 1 .. n - 1 : i + 1 \in 1 .. n
  BY <1>1
<1>5. k \in 0 .. NewestFrame /\ latest'[c] \in 0 .. NewestFrame /\ latest[c] <= latest'[c]
  BY <1>1, <1>2, <1>3, <1>4 DEF FontTexture
<1>6. \A i \in 1 .. n - 1 : r[i] # FontTexture =>
        /\ latest'[c] <= r[i]
        /\ \A j \in i .. n - 1 : r[j] # FontTexture => r[i] <= r[j]
  <2> SUFFICES ASSUME NEW i \in 1 .. n - 1, r[i] # FontTexture
               PROVE  /\ latest'[c] <= r[i]
                      /\ \A j \in i .. n - 1 : r[j] # FontTexture => r[i] <= r[j]
    OBVIOUS
  <2>1. i + 1 \in 1 .. n /\ i + 1 \in 1 .. n /\ r[i] = q[i + 1]
    BY <1>1, <1>4
  <2>2. latest'[c] <= r[i]
    BY <1>1, <1>3, <1>4, <2>1
  <2>3. \A j \in i .. n - 1 : r[j] = q[j + 1] /\ j + 1 \in i + 1 .. n
    BY <1>1
  <2> QED BY <1>3, <2>1, <2>2, <2>3
<1>7. FramesInOrder'
  <2> SUFFICES ASSUME NEW d \in Client, NEW i \in 1 .. Len(inFlight'[d]), inFlight'[d][i] # FontTexture
               PROVE  /\ latest'[d] <= inFlight'[d][i]
                      /\ \A j \in i .. Len(inFlight'[d]) :
                           inFlight'[d][j] # FontTexture => inFlight'[d][i] <= inFlight'[d][j]
    BY DEF FramesInOrder
  <2>1. CASE d = c
    BY <1>1, <1>6, <2>1
  <2>2. CASE d # c
    BY <1>1, <2>2 DEF FramesInOrder
  <2> QED BY <2>1, <2>2
<1>8. \A d \in Client \ {c} : Sent(d)' = Sent(d)
  BY <1>1 DEF Sent
<1>9. \A i \in 1 .. n : i = 1 \/ (i - 1 \in 1 .. n - 1 /\ q[i] = r[i - 1])
  BY <1>1
<1>10. \A x : x \in Sent(c) <=> x # FontTexture /\ (x = latest[c] \/ \E i \in 1 .. n : x = q[i])
  BY DEF Sent
<1>11. \A x : x \in Sent(c)' <=> x # FontTexture /\ (x = latest'[c] \/ \E i \in 1 .. n - 1 : x = r[i])
  BY <1>1 DEF Sent
<1>12. latest'[c] # 0 => latest'[c] \in Sent(c)
  BY <1>1, <1>4, <1>10 DEF FontTexture
<1>13. ASSUME NEW x \in Sent(c)' PROVE x \in Sent(c) /\ x >= latest'[c]
  <2>1. CASE x = latest'[c]
    BY <1>5, <1>11, <1>12, <1>13, <2>1 DEF FontTexture
  <2>2. CASE x # latest'[c]
    <3>1. PICK i \in 1 .. n - 1 : x = r[i] /\ x # FontTexture
      BY <1>11, <1>13, <2>2
    <3>2. i + 1 \in 1 .. n /\ x = q[i + 1] /\ x \in 0 .. NewestFrame
      BY <1>1, <1>2, <1>4, <3>1
    <3> QED BY <1>2, <1>5, <1>6, <1>10, <3>1, <3>2
  <2> QED BY <2>1, <2>2
<1>14. ASSUME NEW x \in Sent(c), x >= latest'[c] PROVE x \in Sent(c)'
  <2>1. x \in 1 .. NewestFrame
    BY SentType
  <2>2. CASE x = latest[c]
    BY <1>2, <1>5, <1>10, <1>11, <1>14, <2>1, <2>2
  <2>3. CASE x # latest[c]
    <3>1. PICK i \in 1 .. n : x = q[i] /\ x # FontTexture
      BY <1>10, <2>3
    <3>2. CASE i = 1
      BY <1>1, <1>11, <3>1, <3>2
    <3>3. CASE i # 1
      BY <1>9, <1>11, <3>1, <3>3
    <3> QED BY <3>2, <3>3
  <2> QED BY <2>2, <2>3
<1>15. Sent(c)' = {x \in Sent(c) : x >= latest'[c]}
  BY <1>13, <1>14
<1> QED BY <1>5, <1>7, <1>8, <1>12, <1>15

\* A client unpacks a frame: if none was left out it follows the one before it.
LEMMA ReceiveKeepsDelivery ==
  ASSUME TypeOK, DeliveryInv, NEW c \in Client, ReceiveDrawData(c) \/ ReceiveFontTexture(c)
  PROVE  DeliveryInv'
<1>0. /\ OnlyConnectedHavePackets /\ FramesInOrder /\ NoFrameLeftOut /\ LoopInBounds
      /\ NewcomersUnlisted /\ ListedUpToDate /\ FontBehindPicture /\ ReceiverKept /\ GapNeedsRace
      /\ FontNeedsWindow
  BY DEF DeliveryInv
<1> DEFINE k == Head(inFlight[c])
           q == inFlight[c]
<1>1. /\ inFlight[c] # <<>>
      /\ inFlight' = [inFlight EXCEPT ![c] = Tail(@)]
      /\ \A d \in Client \ {c} : latest'[d] = latest[d] /\ texture'[d] = texture[d] /\ gap'[d] = gap[d]
      /\ latest'[c] = IF k = FontTexture THEN latest[c] ELSE k
      /\ texture'[c] = (texture[c] \/ k = FontTexture)
      /\ UNCHANGED <<renderVars, vectorVars, life, torn, raced>>
  <2>1. CASE ReceiveDrawData(c)
    BY <2>1 DEF ReceiveDrawData, TypeOK
  <2>2. CASE ReceiveFontTexture(c)
    BY <2>2 DEF ReceiveFontTexture, TypeOK
  <2> QED BY <2>1, <2>2
<1>2. gap'[c] => gap[c] \/ (k # FontTexture /\ latest[c] \notin {0, k - 1, k})
  BY DEF ReceiveDrawData, ReceiveFontTexture, TypeOK
<1>3. /\ FramesInOrder'
      /\ \A d \in Client \ {c} : Sent(d)' = Sent(d)
      /\ Sent(c)' = {x \in Sent(c) : x >= latest'[c]}
      /\ latest'[c] # 0 => latest'[c] \in Sent(c)
      /\ latest[c] <= latest'[c]
  BY <1>0, <1>1, ReadSent
<1>4. life[c] = "on"
  BY <1>0, <1>1 DEF OnlyConnectedHavePackets
<1>5. OnlyConnectedHavePackets'
  <2>1. \A d \in Client \ {c} : inFlight'[d] = inFlight[d]
    BY <1>1, ReadTakesFirst
  <2> QED BY <1>0, <1>1, <1>4, <2>1 DEF OnlyConnectedHavePackets
<1>6. NoFrameLeftOut'
  <2> SUFFICES ASSUME ~raced, NEW d \in Client, NEW a \in Sent(d)', NEW b \in Sent(d)', NEW m \in a .. b
               PROVE  m \in Sent(d)'
    BY <1>1 DEF NoFrameLeftOut
  <2>1. a \in Sent(d) /\ b \in Sent(d)
    BY <1>3
  <2>2. m \in Sent(d) /\ a \in Nat /\ m >= a
    BY <1>0, <2>1, SentType DEF NoFrameLeftOut
  <2>3. d = c => m >= latest'[c]
    <3>1. latest'[c] \in Nat
      BY <1>1, HeadOfFlight, FlightType
    <3> QED BY <1>3, <2>2, <3>1
  <2> QED BY <1>3, <2>2, <2>3
<1>7. LoopInBounds'
  BY <1>0, <1>1 DEF LoopInBounds, LoopMemory, InLoop
<1>7a. NewcomersUnlisted'
  BY <1>0, <1>1 DEF NewcomersUnlisted
<1>8. ASSUME NEW d \in Client
      PROVE  HasNewest(d) => HasNewest(d)'
  <2>1. CASE d # c
    BY <1>1, <1>3, <2>1 DEF HasNewest, NewestFrame
  <2>2. CASE d = c
    <3>1. latest'[c] <= NewestFrame
      BY <1>1, HeadOfFlight, FlightType DEF NewestFrame
    <3>2. NewestFrame' = NewestFrame
      BY <1>1 DEF NewestFrame
    <3> QED BY <1>3, <2>2, <3>1, <3>2 DEF HasNewest
  <2> QED BY <2>1, <2>2
<1>9. ASSUME NEW d \in Client
      PROVE  HasPrevious(d) => HasPrevious(d)'
  <2>1. CASE d # c
    BY <1>1, <1>3, <2>1 DEF HasPrevious, HasNewest, NewestFrame
  <2>2. CASE d = c /\ NewestFrame - 1 \in Sent(c)
    <3>1. latest'[c] \in 0 .. NewestFrame /\ NewestFrame \in Nat
      BY <1>1, HeadOfFlight, FlightType DEF NewestFrame
    <3>2. NewestFrame' = NewestFrame
      BY <1>1 DEF NewestFrame
    <3>3. CASE latest'[c] = NewestFrame
      <4>1. NewestFrame # 0
        BY <2>2, <3>1, SentType
      <4>2. NewestFrame \in Sent(c)'
        BY <1>3, <3>1, <3>3, <4>1
      <4> QED BY <2>2, <3>2, <4>2 DEF HasPrevious, HasNewest
    <3>4. CASE latest'[c] <= NewestFrame - 1
      BY <1>3, <2>2, <3>1, <3>2, <3>4 DEF HasPrevious
    <3> QED BY <3>1, <3>3, <3>4
  <2> QED BY <1>8, <2>1, <2>2 DEF HasPrevious
<1>10. LoopMemory' = LoopMemory /\ mFd' = mFd /\ ReceiverKept'
  BY <1>0, <1>1 DEF LoopMemory, mFd, ReceiverKept
<1>11. ListedUpToDate'
  <2>1. \A d : /\ IsDue(d)' <=> IsDue(d)
               /\ IsInLoop(d)' <=> IsInLoop(d)
               /\ IsClient(d)' <=> IsClient(d)
    BY <1>1, <1>10 DEF IsDue, IsInLoop, IsClient
  <2> QED BY <1>0, <1>1, <1>8, <1>9, <2>1 DEF ListedUpToDate, InLoop
<1>12. FontBehindPicture'
  <2> SUFFICES ASSUME ~raced PROVE FontBehindPicture'
    BY <1>1 DEF FontBehindPicture
  <2>1. ASSUME NEW d \in Client, NEW i \in 1 .. Len(inFlight'[d]), inFlight'[d][i] = FontTexture
        PROVE  latest'[d] # 0 \/ \E j \in 1 .. i : inFlight'[d][j] # FontTexture
    <3>1. CASE d # c
      BY <1>0, <1>1, <2>1, <3>1, ReadTakesFirst DEF FontBehindPicture
    <3>2. CASE d = c /\ latest'[c] = 0
      <4>1. k = FontTexture /\ latest[c] = 0
        BY <1>1, <3>2 DEF FontTexture
      <4>2. /\ Len(inFlight'[c]) = Len(q) - 1 /\ Len(q) \in Nat \ {0}
            /\ \A j \in 1 .. Len(inFlight'[c]) : inFlight'[c][j] = q[j + 1]
            /\ k = q[1]
        BY <1>1, ReadTakesFirst
      <4>3. i + 1 \in 1 .. Len(q) /\ q[i + 1] = FontTexture
        BY <2>1, <3>2, <4>2
      <4>4. PICK j \in 1 .. i + 1 : q[j] # FontTexture
        BY <1>0, <4>1, <4>3 DEF FontBehindPicture
      <4>5. j # 1
        BY <4>1, <4>2, <4>4
      <4>6. j - 1 \in 1 .. i /\ j - 1 \in 1 .. Len(inFlight'[c]) /\ (j - 1) + 1 = j
        BY <2>1, <3>2, <4>2, <4>5
      <4> QED BY <3>2, <4>2, <4>4, <4>6
    <3> QED BY <3>1, <3>2
  <2>2. ASSUME NEW d \in Client
        PROVE  Sent(d) # {} => Sent(d)' # {}
    <3>1. CASE d = c
      <4>1. CASE latest'[c] # 0
        BY <1>1, <3>1, <4>1, HeadOfFlight, FlightType DEF Sent, FontTexture
      <4>2. CASE latest'[c] = 0
        BY <1>3, <3>1, <4>2, SentType
      <4> QED BY <4>1, <4>2
    <3> QED BY <1>3, <3>1
  <2>3. ASSUME NEW d \in Client, renderPc \in {"font", "pixels", "fontRoom"}, mFd = d
        PROVE  life[d] # "on" \/ Sent(d)' # {}
    BY <1>0, <2>2, <2>3 DEF FontBehindPicture
  <2> QED BY <1>1, <1>10, <2>1, <2>3 DEF FontBehindPicture
<1>13. GapNeedsRace'
  <2> SUFFICES ASSUME ~raced, gap'[c], ~gap[c] PROVE FALSE
    BY <1>0, <1>1 DEF GapNeedsRace
  <2>1. k # FontTexture /\ latest[c] # 0 /\ latest[c] < k - 1 /\ latest'[c] = k
        /\ k \in Nat /\ latest[c] \in Nat
    <3>1. k # FontTexture /\ latest[c] \notin {0, k - 1, k} /\ latest'[c] = k /\ latest[c] <= k
      BY <1>1, <1>2, <1>3
    <3>2. k \in Nat /\ latest[c] \in Nat
      BY <1>1, FlightType, HeadOfFlight
    <3> QED BY <3>1, <3>2
  <2>2. latest[c] \in Sent(c) /\ k \in Sent(c)
    BY <1>3, <2>1 DEF Sent, FontTexture
  <2>3. latest[c] + 1 \in Sent(c)
    BY <1>0, <2>1, <2>2 DEF NoFrameLeftOut
  <2>4. PICK i \in 1 .. Len(q) : q[i] = latest[c] + 1
    BY <2>1, <2>3 DEF Sent
  <2>5. q[1] = k /\ Len(q) \in Nat \ {0}
    BY <1>1, ReadTakesFirst
  <2>6. q[1] <= q[i]
    BY <1>0, <2>1, <2>4, <2>5 DEF FramesInOrder, FontTexture
  <2> QED BY <2>1, <2>4, <2>5, <2>6
<1>14. FontNeedsWindow'
  <2> SUFFICES ASSUME ~raced, texture'[c], ~texture[c] PROVE latest'[c] # 0
    <3>1. latest[c] \in Nat /\ (latest'[c] # 0 => latest'[c] \in Nat)
      BY <1>3, FlightType, SentType
    <3>2. latest[c] # 0 => latest'[c] # 0
      BY <1>3, <3>1
    <3> QED BY <1>0, <1>1, <3>2 DEF FontNeedsWindow
  <2>1. k = FontTexture /\ latest'[c] = latest[c]
    BY <1>1
  <2>2. 1 \in 1 .. Len(q) /\ q[1] = FontTexture /\ \A j \in 1 .. 1 : j = 1
    BY <1>1, <2>1, ReadTakesFirst
  <2> QED BY <1>0, <2>1, <2>2 DEF FontBehindPicture
<1> QED BY <1>3, <1>5, <1>6, <1>7, <1>7a, <1>10, <1>11, <1>12, <1>13, <1>14 DEF DeliveryInv

\* A client that reads garbage was sent to in pieces, which takes an erasure under the loop.
LEMMA GarbageKeepsDelivery ==
  ASSUME TypeOK, DeliveryInv, NEW c \in Client, ReceiveGarbage(c)
  PROVE  DeliveryInv'
<1>0. /\ OnlyConnectedHavePackets /\ FramesInOrder /\ NoFrameLeftOut /\ LoopInBounds
      /\ NewcomersUnlisted /\ ListedUpToDate /\ FontBehindPicture /\ ReceiverKept /\ GapNeedsRace
      /\ FontNeedsWindow
  BY DEF DeliveryInv
<1>1. /\ c \in torn /\ inFlight[c] # <<>>
      /\ inFlight' = [inFlight EXCEPT ![c] = Tail(@)]
      /\ UNCHANGED <<renderVars, vectorVars, life, texture, first, latest, gap, torn, raced>>
  BY DEF ReceiveGarbage
<1>2. raced /\ raced'
  BY <1>0, <1>1 DEF GapNeedsRace
<1>3. life[c] = "on"
  BY <1>0, <1>1 DEF OnlyConnectedHavePackets
<1>4. /\ \A d \in Client \ {c} : inFlight'[d] = inFlight[d]
      /\ Len(inFlight[c]) \in Nat \ {0}
      /\ Len(inFlight'[c]) = Len(inFlight[c]) - 1
      /\ \A i \in 1 .. Len(inFlight'[c]) : inFlight'[c][i] = inFlight[c][i + 1]
  BY <1>1, ReadTakesFirst
<1>5. OnlyConnectedHavePackets'
  BY <1>0, <1>1, <1>3, <1>4 DEF OnlyConnectedHavePackets
<1>6. FramesInOrder'
  <2> SUFFICES ASSUME NEW d \in Client, NEW i \in 1 .. Len(inFlight'[d]), inFlight'[d][i] # FontTexture
               PROVE  /\ latest[d] <= inFlight'[d][i]
                      /\ \A j \in i .. Len(inFlight'[d]) :
                           inFlight'[d][j] # FontTexture => inFlight'[d][i] <= inFlight'[d][j]
    BY <1>1 DEF FramesInOrder
  <2>1. CASE d # c
    BY <1>0, <1>4, <2>1 DEF FramesInOrder
  <2>2. CASE d = c
    <3>1. /\ i + 1 \in 1 .. Len(inFlight[c]) /\ inFlight'[c][i] = inFlight[c][i + 1]
          /\ inFlight[c][i + 1] # FontTexture
      BY <1>4, <2>2
    <3>2. /\ latest[c] <= inFlight[c][i + 1]
          /\ \A j \in i + 1 .. Len(inFlight[c]) :
               inFlight[c][j] # FontTexture => inFlight[c][i + 1] <= inFlight[c][j]
      BY <1>0, <3>1 DEF FramesInOrder
    <3>3. \A j \in i .. Len(inFlight'[c]) :
            j \in 1 .. Len(inFlight'[c]) /\ j + 1 \in i + 1 .. Len(inFlight[c])
      BY <1>4, <2>2
    <3> QED BY <1>4, <2>2, <3>1, <3>2, <3>3
  <2> QED BY <2>1, <2>2
<1>7. LoopInBounds' /\ NewcomersUnlisted'
  BY <1>0, <1>1 DEF LoopInBounds, LoopMemory, InLoop, NewcomersUnlisted
<1>8. NoFrameLeftOut' /\ ListedUpToDate' /\ FontBehindPicture' /\ ReceiverKept' /\ GapNeedsRace'
      /\ FontNeedsWindow'
  BY <1>2 DEF NoFrameLeftOut, ListedUpToDate, FontBehindPicture, ReceiverKept, GapNeedsRace,
              FontNeedsWindow
<1> QED BY <1>5, <1>6, <1>7, <1>8 DEF DeliveryInv

LEMMA QuitKeepsDelivery ==
  ASSUME TypeOK, DeliveryInv, NEW c \in Client, Quit(c)
  PROVE  DeliveryInv'
<1>0. /\ OnlyConnectedHavePackets /\ FramesInOrder /\ NoFrameLeftOut /\ LoopInBounds
      /\ NewcomersUnlisted /\ ListedUpToDate /\ FontBehindPicture /\ ReceiverKept /\ GapNeedsRace
      /\ FontNeedsWindow
  BY DEF DeliveryInv
<1>1. /\ inFlight'[c] = <<>> /\ latest'[c] = 0 /\ ~texture'[c] /\ ~gap'[c] /\ life'[c] = "off"
      /\ \A d \in Client \ {c} : /\ inFlight'[d] = inFlight[d] /\ latest'[d] = latest[d]
                                 /\ texture'[d] = texture[d] /\ gap'[d] = gap[d] /\ life'[d] = life[d]
      /\ torn' = torn \ {c}
      /\ UNCHANGED <<renderVars, vectorVars, raced>>
  BY DEF Quit, TypeOK
<1>2. Len(inFlight'[c]) = 0 /\ 1 .. 0 = {}
  BY <1>1
<1>3. Sent(c)' = {} /\ \A d \in Client \ {c} : Sent(d)' = Sent(d)
  BY <1>1, <1>2 DEF Sent, FontTexture
<1>4. \A d \in Client : (HasNewest(d) => HasNewest(d)') /\ (HasPrevious(d) => HasPrevious(d)')
  BY <1>1, <1>3 DEF HasNewest, HasPrevious, NewestFrame
<1>5. /\ \A d : IsDue(d)' <=> IsDue(d)
      /\ \A d : IsInLoop(d)' <=> IsInLoop(d)
      /\ \A d : IsClient(d)' <=> IsClient(d)
      /\ LoopMemory' = LoopMemory /\ mFd' = mFd /\ ReceiverKept'
  BY <1>0, <1>1 DEF IsDue, IsInLoop, IsClient, LoopMemory, mFd, ReceiverKept
<1>6. OnlyConnectedHavePackets' /\ GapNeedsRace' /\ FontNeedsWindow' /\ NewcomersUnlisted'
  BY <1>0, <1>1 DEF OnlyConnectedHavePackets, GapNeedsRace, FontNeedsWindow, NewcomersUnlisted
<1>7. FramesInOrder'
  BY <1>0, <1>1, <1>2 DEF FramesInOrder
<1>8. NoFrameLeftOut'
  BY <1>0, <1>1, <1>3 DEF NoFrameLeftOut
<1>9. LoopInBounds'
  BY <1>0, <1>1, <1>5 DEF LoopInBounds, InLoop
<1>10. ListedUpToDate'
  BY <1>0, <1>1, <1>4, <1>5 DEF ListedUpToDate, InLoop
<1>11. FontBehindPicture'
  BY <1>0, <1>1, <1>2, <1>3, <1>5 DEF FontBehindPicture
<1> QED BY <1>5, <1>6, <1>7, <1>8, <1>9, <1>10, <1>11 DEF DeliveryInv

\* The parts of the invariant that the vector and the render thread do not touch.
LEMMA ConnectionsUnmoved ==
  ASSUME DeliveryInv, UNCHANGED <<frames, inFlight, latest, texture, gap>>,
         raced \/ UNCHANGED torn, raced => raced', \A c \in Client : life'[c] # "on" => life[c] # "on"
  PROVE  /\ \A c \in Client : /\ Sent(c)' = Sent(c)
                              /\ HasNewest(c)' <=> HasNewest(c)
                              /\ HasPrevious(c)' <=> HasPrevious(c)
         /\ OnlyConnectedHavePackets' /\ FramesInOrder' /\ NoFrameLeftOut'
         /\ GapNeedsRace' /\ FontNeedsWindow'
<1>1. \A c \in Client : Sent(c)' = Sent(c)
  BY DEF Sent
<1>2. NewestFrame' = NewestFrame
  BY DEF NewestFrame
<1>3. \A c \in Client : (HasNewest(c)' <=> HasNewest(c)) /\ (HasPrevious(c)' <=> HasPrevious(c))
  BY <1>1, <1>2 DEF HasNewest, HasPrevious
<1>4. OnlyConnectedHavePackets' /\ FramesInOrder' /\ GapNeedsRace' /\ FontNeedsWindow'
  BY DEF DeliveryInv, OnlyConnectedHavePackets, FramesInOrder, GapNeedsRace, FontNeedsWindow
<1>5. NoFrameLeftOut'
  BY <1>1 DEF DeliveryInv, NoFrameLeftOut
<1> QED BY <1>1, <1>3, <1>4, <1>5

\* push_back without moving the vector: the slots behind the new one stay.
LEMMA PushBackInPlace ==
  ASSUME NEW m \in Seq(Slots), NEW n \in Nat, n <= Len(m), NEW slot \in Slots
  PROVE  LET front == [i \in 1 .. n + 1 |-> IF i = n + 1 THEN slot ELSE m[i]]
             all == front \o SubSeq(m, n + 2, Len(m))
         IN  /\ all[n + 1] = slot
             /\ \A i \in 1 .. Len(all) : i # n + 1 => i \in 1 .. Len(m) /\ all[i] = m[i]
             /\ Len(all) \in Nat /\ Len(all) >= n + 1 /\ Len(all) >= Len(m)
<1> DEFINE front == [i \in 1 .. n + 1 |-> IF i = n + 1 THEN slot ELSE m[i]]
           rest == SubSeq(m, n + 2, Len(m))
           all == front \o rest
<1>1. Len(m) \in Nat /\ \A i \in 1 .. Len(m) : m[i] \in Slots
  BY ElementOfSeq
<1>2. front \in Seq(Slots) /\ Len(front) = n + 1
  <2>1. \A i \in 1 .. n : m[i] \in Slots
    BY <1>1
  <2> QED BY <2>1, SlotPutAtEnd
<1>3. /\ front[n + 1] = slot
      /\ \A i \in 1 .. n : front[i] = m[i]
  OBVIOUS
<1>4. /\ rest \in Seq(Slots)
      /\ Len(rest) = (IF n + 2 <= Len(m) THEN Len(m) - (n + 2) + 1 ELSE 0)
      /\ \A i \in 1 .. Len(m) - (n + 2) + 1 : rest[i] = m[n + 2 + i - 1]
  <2>1. \A i \in n + 2 .. Len(m) : m[i] \in Slots
    BY <1>1
  <2> QED BY <1>1, <2>1, SubSeqProperties
<1>5. /\ Len(rest) \in Nat
      /\ Len(rest) >= Len(m) - n - 1
      /\ Len(rest) > 0 => n + 1 + Len(rest) = Len(m)
      /\ \A i \in 1 .. Len(rest) : rest[i] = m[n + 1 + i]
  BY <1>1, <1>4
<1> HIDE DEF front, rest
<1>6. /\ Len(all) = n + 1 + Len(rest)
      /\ \A i \in 1 .. n + 1 + Len(rest) :
           all[i] = IF i <= n + 1 THEN front[i] ELSE rest[i - (n + 1)]
  <2>1. /\ Len(front \o rest) = Len(front) + Len(rest)
        /\ \A i \in 1 .. Len(front) + Len(rest) :
             (front \o rest)[i] = IF i <= Len(front) THEN front[i] ELSE rest[i - Len(front)]
    BY <1>2, <1>4, ConcatProperties
  <2> QED BY <1>2, <2>1
<1> HIDE DEF all
<1>7. all[n + 1] = slot
  BY <1>3, <1>5, <1>6
<1>8. ASSUME NEW i \in 1 .. Len(all), i # n + 1
      PROVE  i \in 1 .. Len(m) /\ all[i] = m[i]
  <2>1. CASE i <= n
    BY <1>1, <1>3, <1>5, <1>6, <2>1
  <2>2. CASE i > n
    <3> DEFINE r == Len(rest)
    <3>0. /\ n \in Nat /\ r \in Nat /\ i \in 1 .. n + 1 + r /\ i # n + 1
      BY <1>5, <1>6, <1>8
    <3>1. i - (n + 1) \in 1 .. r /\ n + 1 + (i - (n + 1)) = i
      <4> HIDE DEF r
      <4> QED BY <2>2, <3>0, SMTT(30)
    <3> QED BY <1>5, <1>6, <1>8, <2>2, <3>1
  <2> QED BY <1>5, <1>6, <2>1, <2>2
<1>9. Len(all) \in Nat /\ Len(all) >= n + 1 /\ Len(all) >= Len(m)
  BY <1>1, <1>5, <1>6
<1> QED BY <1>7, <1>8, <1>9 DEF all, front, rest

\* Where push_back puts a client that joins, in place or into new slots.
LEMMA JoinedAtEnd ==
  ASSUME TypeOK, NEW slot \in Slots,
         LET front == [i \in 1 .. size + 1 |-> IF i = size + 1 THEN slot ELSE memory[i]]
             rest == SubSeq(memory, size + 2, Len(memory))
         IN  \/ memory' = front \o rest /\ UNCHANGED freed
             \/ /\ InLoop /\ freed = <<>>
                /\ freed' = memory
                /\ memory' = Append(mClients, slot)
  PROVE  /\ memory'[size + 1] = slot
         /\ \A i \in 1 .. Len(memory') : i # size + 1 => i \in 1 .. Len(memory) /\ memory'[i] = memory[i]
         /\ Len(memory') \in Nat /\ Len(memory') >= size + 1
         /\ UNCHANGED freed => Len(memory') >= Len(memory)
<1> USE VectorFacts
<1> DEFINE front == [i \in 1 .. size + 1 |-> IF i = size + 1 THEN slot ELSE memory[i]]
           rest == SubSeq(memory, size + 2, Len(memory))
<1>1. CASE memory' = front \o rest /\ UNCHANGED freed
  <2>1. LET all == front \o rest
        IN  /\ all[size + 1] = slot
            /\ \A i \in 1 .. Len(all) : i # size + 1 => i \in 1 .. Len(memory) /\ all[i] = memory[i]
            /\ Len(all) \in Nat /\ Len(all) >= size + 1 /\ Len(all) >= Len(memory)
    BY PushBackInPlace, Zenon
  <2> HIDE DEF front, rest
  <2> QED BY <1>1, <2>1
<1>2. CASE InLoop /\ freed = <<>> /\ freed' = memory /\ memory' = Append(mClients, slot)
  <2>1. mClients \in Seq(Slots) /\ Len(mClients) = size
    BY SlotsType
  <2>2. \A i \in 1 .. size : mClients[i] = memory[i]
    BY DEF mClients
  <2>3. UNCHANGED freed => Len(memory) = 0
    BY <1>2
  <2> QED BY <1>2, <2>1, <2>2, <2>3
<1> QED BY <1>1, <1>2

\* A client that joins is behind those the loop goes through.
LEMMA JoinKeepsDelivery ==
  ASSUME TypeOK, DeliveryInv, Join
  PROVE  DeliveryInv'
<1>0. /\ OnlyConnectedHavePackets /\ FramesInOrder /\ NoFrameLeftOut /\ LoopInBounds
      /\ NewcomersUnlisted /\ ListedUpToDate /\ FontBehindPicture /\ ReceiverKept /\ GapNeedsRace
      /\ FontNeedsWindow
  BY DEF DeliveryInv
<1> USE VectorFacts
<1> DEFINE slot(c) == [client |-> c, mHasSentFontTexture |-> FALSE]
           front(c) == [i \in 1 .. size + 1 |-> IF i = size + 1 THEN slot(c) ELSE memory[i]]
           rest == SubSeq(memory, size + 2, Len(memory))
<1>1. PICK c \in Client :
        /\ life[c] = "new"
        /\ life' = [life EXCEPT ![c] = "on"]
        /\ size' = size + 1
        /\ \/ memory' = front(c) \o rest /\ UNCHANGED freed
           \/ /\ InLoop /\ freed = <<>>
              /\ freed' = memory
              /\ memory' = Append(mClients, slot(c))
        /\ UNCHANGED <<renderVars, inFlight, texture, latest, gap, torn, raced>>
  BY DEF Join
<1>2. /\ memory'[size + 1] = slot(c)
      /\ \A i \in 1 .. Len(memory') : i # size + 1 => i \in 1 .. Len(memory) /\ memory'[i] = memory[i]
      /\ Len(memory') \in Nat /\ Len(memory') >= size + 1
      /\ UNCHANGED freed => Len(memory') >= Len(memory)
  <2>1. slot(c) \in Slots
    BY DEF Slots
  <2> HIDE DEF slot
  <2> QED BY <1>1, <2>1, JoinedAtEnd
<1>2a. \A i \in 1 .. size : i \in 1 .. Len(memory') /\ memory'[i] = memory[i]
  BY <1>2
<1>2b. NewcomersUnlisted'
  <2> SUFFICES ASSUME NEW d \in Client, life'[d] = "new"
               PROVE  /\ \A i \in 1 .. Len(memory') : memory'[i].client # d
                      /\ \A i \in 1 .. Len(freed') : freed'[i].client # d
    BY DEF NewcomersUnlisted
  <2>1. life[d] = "new" /\ d # c
    BY <1>1 DEF TypeOK
  <2>2. slot(c).client = c
    OBVIOUS
  <2>3. \A i \in 1 .. Len(memory') : memory'[i].client # d
    <3> HIDE DEF slot
    <3> QED BY <1>0, <1>2, <2>1, <2>2 DEF NewcomersUnlisted
  <2> QED BY <1>0, <1>1, <2>1, <2>3 DEF NewcomersUnlisted
<1>3. /\ \A d \in Client : /\ Sent(d)' = Sent(d)
                           /\ HasNewest(d)' <=> HasNewest(d)
                           /\ HasPrevious(d)' <=> HasPrevious(d)
      /\ OnlyConnectedHavePackets' /\ FramesInOrder' /\ NoFrameLeftOut'
      /\ GapNeedsRace' /\ FontNeedsWindow'
  <2>1. \A d \in Client : life'[d] # "on" => life[d] # "on"
    BY <1>1 DEF TypeOK
  <2> QED BY <1>1, <2>1, ConnectionsUnmoved
<1>4. LoopInBounds'
  BY <1>0, <1>1, <1>2, <1>2a DEF LoopInBounds, InLoop, LoopMemory
<1>5. ASSUME InLoop, ~raced, NEW j \in 1 .. loopEnd
      PROVE  LoopMemory'[j] = LoopMemory[j]
  BY <1>0, <1>1, <1>2a, <1>5 DEF LoopInBounds, LoopMemory
<1>6. Sent(c) = {}
  BY <1>0, <1>1 DEF OnlyConnectedHavePackets, Sent, FontTexture
<1>7. ASSUME NEW d \in Client, IsClient(d)' PROVE IsClient(d) \/ d = c
  <2>1. PICK i \in 1 .. size + 1 : memory'[i].client = d
    BY <1>1, <1>7 DEF IsClient
  <2>2. CASE i = size + 1
    BY <1>2, <2>1, <2>2
  <2>3. CASE i # size + 1
    BY <1>2a, <2>1, <2>3 DEF IsClient
  <2> QED BY <2>2, <2>3
<1>8. ASSUME InLoop, ~raced, NEW d \in Client
      PROVE  (IsDue(d) => IsDue(d)') /\ (IsInLoop(d)' => IsInLoop(d))
  <2>1. /\ cursor .. loopEnd \subseteq 1 .. loopEnd
        /\ cursor + 1 .. loopEnd \subseteq 1 .. loopEnd
    BY <1>0 DEF LoopInBounds
  <2> QED BY <1>1, <1>5, <1>8, <2>1 DEF IsDue, IsInLoop
<1>9. ListedUpToDate'
  <2> SUFFICES ASSUME ~raced, NEW d \in Client
               PROVE  /\ IsClient(d)' =>
                           /\ renderPc \in {"frame", "test", "pack"} => HasNewest(d)'
                           /\ renderPc = "iterate" => HasPrevious(d)'
                           /\ InLoop => HasNewest(d)' \/ (HasPrevious(d)' /\ IsDue(d)')
                      /\ InLoop /\ IsInLoop(d)' => HasPrevious(d)'
    BY <1>1 DEF ListedUpToDate, InLoop
  <2>1. HasNewest(c) /\ HasPrevious(c)
    BY <1>6 DEF HasNewest, HasPrevious
  <2> QED BY <1>0, <1>3, <1>7, <1>8, <2>1 DEF ListedUpToDate
<1>10. InLoop /\ ~raced /\ renderPc # "send" => mFd' = mFd
  BY <1>0, <1>1, <1>5 DEF LoopInBounds, mFd
<1>11. ReceiverKept'
  BY <1>0, <1>1, <1>10 DEF ReceiverKept, InLoop
<1>12. FontBehindPicture'
  <2> SUFFICES ASSUME ~raced PROVE FontBehindPicture'
    BY <1>1 DEF FontBehindPicture
  <2>1. ASSUME NEW d \in Client, renderPc \in {"font", "pixels", "fontRoom"}, mFd' = d
        PROVE  life'[d] # "on" \/ Sent(d)' # {}
    <3>1. mFd = d
      BY <1>10, <2>1 DEF InLoop
    <3>2. life[d] # "on" \/ Sent(d) # {}
      BY <1>0, <2>1, <3>1 DEF FontBehindPicture
    <3>3. d # c
      BY <1>0, <1>1, <2>1, <3>1 DEF LoopInBounds, InLoop, LoopMemory, mFd, NewcomersUnlisted
    <3>4. life'[d] = life[d]
      BY <1>1, <3>3 DEF TypeOK
    <3> QED BY <1>3, <3>2, <3>4
  <2> QED BY <1>0, <1>1, <2>1 DEF FontBehindPicture
<1> QED BY <1>2b, <1>3, <1>4, <1>9, <1>11, <1>12 DEF DeliveryInv

\* What the slots and the render thread have to do with a client.
LEMMA VectorUnmoved ==
  ASSUME DeliveryInv, UNCHANGED <<frames, inFlight, latest, texture, gap, life, raced>>,
         raced \/ UNCHANGED torn, NewcomersUnlisted', LoopInBounds', ReceiverKept',
         ASSUME ~raced, NEW c \in Client
         PROVE  /\ IsClient(c)' => IsClient(c)
                /\ renderPc' \in {"frame", "test", "pack"} /\ IsClient(c) => HasNewest(c)
                /\ renderPc' = "iterate" /\ IsClient(c) => HasPrevious(c)
                /\ InLoop' /\ IsClient(c) => HasNewest(c) \/ (HasPrevious(c) /\ IsDue(c)')
                /\ InLoop' /\ IsInLoop(c)' => HasPrevious(c)
                /\ renderPc' \in {"font", "pixels", "fontRoom"} /\ mFd' = c
                     => life[c] # "on" \/ Sent(c) # {}
  PROVE  DeliveryInv'
<1>1. /\ \A c \in Client : /\ Sent(c)' = Sent(c)
                           /\ HasNewest(c)' <=> HasNewest(c)
                           /\ HasPrevious(c)' <=> HasPrevious(c)
      /\ OnlyConnectedHavePackets' /\ FramesInOrder' /\ NoFrameLeftOut'
      /\ GapNeedsRace' /\ FontNeedsWindow'
  BY ConnectionsUnmoved
<1>2. ListedUpToDate'
  BY <1>1 DEF ListedUpToDate
<1>3. FontBehindPicture'
  BY <1>1 DEF DeliveryInv, FontBehindPicture
<1> QED BY <1>1, <1>2, <1>3 DEF DeliveryInv

LEMMA ServerKeepsDelivery ==
  ASSUME TypeOK, DeliveryInv, Run
  PROVE  DeliveryInv'
<1>0. /\ OnlyConnectedHavePackets /\ FramesInOrder /\ NoFrameLeftOut /\ LoopInBounds
      /\ NewcomersUnlisted /\ ListedUpToDate /\ FontBehindPicture /\ ReceiverKept /\ GapNeedsRace
      /\ FontNeedsWindow
  BY DEF DeliveryInv
<1>1. CASE Join
  BY <1>1, JoinKeepsDelivery
<1>2. CASE HandleHello \/ HandleInput
  <2>1. UNCHANGED <<renderVars, vectorVars, clientVars, raced>>
    BY <1>2 DEF HandleHello, HandleInput
  <2>2. NewcomersUnlisted' /\ LoopInBounds'
    BY <1>0, <2>1 DEF NewcomersUnlisted, LoopInBounds, InLoop, LoopMemory
  <2>3. /\ \A c : (IsDue(c)' <=> IsDue(c)) /\ (IsInLoop(c)' <=> IsInLoop(c)) /\ (IsClient(c)' <=> IsClient(c))
        /\ LoopMemory' = LoopMemory /\ mFd' = mFd /\ ReceiverKept'
    BY <1>0, <2>1 DEF IsDue, IsInLoop, IsClient, LoopMemory, mFd, ReceiverKept
  <2> QED BY <1>0, <2>1, <2>2, <2>3, VectorUnmoved DEF ListedUpToDate, FontBehindPicture, InLoop
<1>3. CASE Erase
  <2> DEFINE n == IF InLoop THEN Len(memory) ELSE size - 1
  <2>1. PICK i \in 1 .. size :
          memory' = [j \in 1 .. n |-> IF i <= j /\ j < size THEN memory[j + 1] ELSE memory[j]]
    BY <1>3 DEF Erase
  <2>2. /\ size' = size - 1 /\ raced' = (raced \/ InLoop)
        /\ UNCHANGED <<renderVars, freed, clientVars>>
    BY <1>3 DEF Erase
  <2>3. size \in Nat \ {0} /\ n \in Nat /\ size - 1 <= n /\ n <= Len(memory) /\ size <= Len(memory)
    BY <2>1, VectorFacts
  <2>4. Len(memory') = n
    <3> HIDE DEF n
    <3> QED BY <2>1, <2>3
  <2>5. \A j \in 1 .. n : \/ memory'[j] = memory[j]
                          \/ j < size /\ memory'[j] = memory[j + 1]
    <3> HIDE DEF n
    <3> QED BY <2>1
  <2>6. NewcomersUnlisted'
    <3>1. \A j \in 1 .. n : j \in 1 .. Len(memory) /\ (j < size => j + 1 \in 1 .. Len(memory))
      BY <2>3, VectorFacts
    <3> HIDE DEF n
    <3> QED BY <1>0, <2>2, <2>4, <2>5, <3>1 DEF NewcomersUnlisted
  <2>7. LoopInBounds'
    <3>1. InLoop => Len(LoopMemory') = Len(LoopMemory)
      BY <2>2, <2>4 DEF LoopMemory
    <3> QED BY <1>0, <2>2, <3>1 DEF LoopInBounds, InLoop
  <2>8. CASE InLoop
    <3>1. raced'
      BY <2>2, <2>8
    <3>2. OnlyConnectedHavePackets' /\ FramesInOrder' /\ NoFrameLeftOut'
          /\ GapNeedsRace' /\ FontNeedsWindow'
      BY <2>2, ConnectionsUnmoved
    <3> QED BY <2>6, <2>7, <3>1, <3>2 DEF DeliveryInv, ListedUpToDate, FontBehindPicture, ReceiverKept
  <2>9. CASE ~InLoop
    <3>1. ASSUME NEW c \in Client, IsClient(c)'
          PROVE  IsClient(c)
      <4>1. PICK j \in 1 .. size - 1 : memory'[j].client = c
        BY <2>2, <3>1 DEF IsClient
      <4>2. j \in 1 .. n /\ j \in 1 .. size /\ j + 1 \in 1 .. size
        BY <2>3
      <4> QED BY <2>5, <4>1, <4>2 DEF IsClient
    <3>2. ~InLoop' /\ renderPc' \notin {"font", "pixels", "fontRoom"} /\ ReceiverKept'
      BY <2>2, <2>9 DEF InLoop, ReceiverKept
    <3>3. raced \in BOOLEAN
      BY DEF TypeOK
    <3>4. raced' = raced
      BY <2>2, <2>9, <3>3
    <3> QED BY <1>0, <2>2, <2>6, <2>7, <3>1, <3>2, <3>4, VectorUnmoved DEF ListedUpToDate
  <2> QED BY <2>8, <2>9
<1> QED BY <1>1, <1>2, <1>3 DEF Run

\* The steps of the render thread that send nothing.
LEMMA RenderKeepsDelivery ==
  ASSUME TypeOK, DeliveryInv,
         NewFrame \/ TestRerender \/ StartIterating \/ FinishFrame
  PROVE  DeliveryInv'
<1>0. /\ OnlyConnectedHavePackets /\ FramesInOrder /\ NoFrameLeftOut /\ LoopInBounds
      /\ NewcomersUnlisted /\ ListedUpToDate /\ FontBehindPicture /\ ReceiverKept /\ GapNeedsRace
      /\ FontNeedsWindow
  BY DEF DeliveryInv
<1>1. UNCHANGED <<frames, size, clientVars, raced>> /\ ReceiverKept'
  BY DEF ReceiverKept, NewFrame, TestRerender, StartIterating, FinishFrame
<1>2. CASE NewFrame \/ TestRerender
  <2>1. /\ renderPc \in {"frame", "test"} /\ renderPc' \in {"test", "pack", "frame"}
        /\ UNCHANGED <<vectorVars, cursor, loopEnd>>
    BY <1>2 DEF NewFrame, TestRerender
  <2>2. NewcomersUnlisted' /\ LoopInBounds'
    BY <1>0, <1>1, <2>1 DEF NewcomersUnlisted, LoopInBounds, InLoop
  <2>3. \A c : IsClient(c)' <=> IsClient(c)
    BY <2>1 DEF IsClient
  <2> QED BY <1>0, <1>1, <2>1, <2>2, <2>3, VectorUnmoved DEF ListedUpToDate, InLoop
<1>3. CASE StartIterating
  <2>1. /\ renderPc = "iterate" /\ renderPc' = "send" /\ cursor' = 1 /\ loopEnd' = size
        /\ UNCHANGED vectorVars
    BY <1>3 DEF StartIterating, LoopEnd
  <2>2. freed = <<>> /\ LoopMemory' = memory
    BY <1>0, <2>1 DEF LoopInBounds, InLoop, LoopMemory
  <2>3. NewcomersUnlisted' /\ LoopInBounds'
    BY <1>0, <1>1, <2>1, <2>2, VectorFacts DEF NewcomersUnlisted, LoopInBounds, InLoop
  <2>4. \A c : (IsClient(c)' <=> IsClient(c)) /\ (IsDue(c)' <=> IsClient(c)) /\ (IsInLoop(c)' <=> IsClient(c))
    BY <1>1, <2>1, <2>2 DEF IsClient, IsDue, IsInLoop
  <2> QED BY <1>0, <1>1, <2>1, <2>3, <2>4, VectorUnmoved DEF ListedUpToDate, InLoop
<1>4. CASE FinishFrame
  <2>1. /\ renderPc = "send" /\ cursor > loopEnd /\ renderPc' = "frame"
        /\ cursor' = 1 /\ memory' = mClients /\ freed' = <<>>
    BY <1>4 DEF FinishFrame
  <2>2. /\ Len(mClients) = size
        /\ \A i \in 1 .. size : mClients[i] = memory[i] /\ i \in 1 .. Len(memory)
    BY SlotsType, VectorFacts DEF mClients
  <2>3. NewcomersUnlisted'
    BY <1>0, <1>1, <2>1, <2>2 DEF NewcomersUnlisted
  <2>4. LoopInBounds'
    BY <2>1 DEF LoopInBounds, InLoop
  <2>5. \A c : IsClient(c)' => IsClient(c)
    BY <1>1, <2>1, <2>2 DEF IsClient
  <2>6. \A c : ~IsDue(c)
    BY <2>1, VectorFacts DEF IsDue
  <2> QED BY <1>0, <1>1, <2>1, <2>3, <2>4, <2>5, <2>6, VectorUnmoved DEF ListedUpToDate, InLoop
<1> QED BY <1>2, <1>3, <1>4

\* Whoever has the newest picture has the one before the next.
LEMMA PackKeepsDelivery ==
  ASSUME TypeOK, DeliveryInv, PackImDrawData
  PROVE  DeliveryInv'
<1>0. /\ OnlyConnectedHavePackets /\ FramesInOrder /\ NoFrameLeftOut /\ LoopInBounds
      /\ NewcomersUnlisted /\ ListedUpToDate /\ FontBehindPicture /\ ReceiverKept /\ GapNeedsRace
      /\ FontNeedsWindow
  BY DEF DeliveryInv
<1>1. /\ renderPc = "pack" /\ renderPc' = "iterate"
      /\ UNCHANGED <<cursor, loopEnd, vectorVars, clientVars, raced>>
  BY DEF PackImDrawData
<1>2. NewestFrame' = NewestFrame + 1 /\ NewestFrame \in Nat
  BY FramesOnlyGrow DEF NewestFrame
<1>3. \A c \in Client : Sent(c)' = Sent(c)
  BY <1>1 DEF Sent
<1>4. \A c : IsClient(c)' <=> IsClient(c)
  BY <1>1 DEF IsClient
<1>5. ASSUME NEW c \in Client, HasNewest(c) PROVE HasPrevious(c)'
  BY <1>2, <1>3, <1>5 DEF HasNewest, HasPrevious
<1>6. OnlyConnectedHavePackets' /\ FramesInOrder' /\ GapNeedsRace' /\ FontNeedsWindow' /\ NewcomersUnlisted'
  BY <1>0, <1>1 DEF OnlyConnectedHavePackets, FramesInOrder, GapNeedsRace, FontNeedsWindow, NewcomersUnlisted
<1>7. NoFrameLeftOut' /\ LoopInBounds'
  BY <1>0, <1>1, <1>3 DEF NoFrameLeftOut, LoopInBounds, InLoop
<1>8. ListedUpToDate'
  BY <1>0, <1>1, <1>4, <1>5 DEF ListedUpToDate, InLoop
<1>9. FontBehindPicture' /\ ReceiverKept'
  BY <1>0, <1>1 DEF FontBehindPicture, ReceiverKept
<1> QED BY <1>6, <1>7, <1>8, <1>9 DEF DeliveryInv

\* The steps of the loop that send a header, or start to send a payload.
LEMMA PiecesKeepDelivery ==
  ASSUME TypeOK, DeliveryInv, SendHeader \/ SendDrawData \/ SendFontHeader \/ SendFontTexture
  PROVE  DeliveryInv'
<1>0. /\ OnlyConnectedHavePackets /\ FramesInOrder /\ NoFrameLeftOut /\ LoopInBounds
      /\ NewcomersUnlisted /\ ListedUpToDate /\ FontBehindPicture /\ ReceiverKept /\ GapNeedsRace
      /\ FontNeedsWindow
  BY DEF DeliveryInv
<1>1. /\ InLoop /\ InLoop' /\ cursor <= loopEnd
      /\ UNCHANGED <<frames, inFlight, latest, texture, gap, life, raced>>
      /\ UNCHANGED <<vectorVars, loopEnd>> /\ LoopMemory' = LoopMemory
  BY <1>0 DEF SendHeader, SendDrawData, SendFontHeader, SendFontTexture, NextClient, InLoop,
     LoopInBounds, LoopMemory
<1>2. /\ \A d : IsClient(d)' <=> IsClient(d)
      /\ \A d : IsInLoop(d)' <=> IsInLoop(d)
      /\ NewcomersUnlisted'
  BY <1>0, <1>1 DEF IsClient, IsInLoop, NewcomersUnlisted
<1>3. ASSUME UNCHANGED cursor, receiver' = {mFd},
             UNCHANGED torn \/ (SendPayload /\ renderPc \in {"data", "pixels"}),
             \/ renderPc \in {"send", "data"} /\ renderPc' \in {"data", "room"}
             \/ renderPc \in {"font", "pixels"} /\ renderPc' \in {"pixels", "fontRoom"}
      PROVE  DeliveryInv'
  <2>1. mFd' = mFd
    BY <1>1, <1>3 DEF mFd
  <2>2. ReceiverKept' /\ LoopInBounds'
    BY <1>0, <1>1, <1>3, <2>1 DEF ReceiverKept, LoopInBounds, InLoop
  <2>3. raced \/ UNCHANGED torn
    BY <1>0, <1>3 DEF SendPayload, ReceiverKept
  <2>4. \A d : IsDue(d)' <=> IsDue(d)
    BY <1>1, <1>3 DEF IsDue
  <2>5. renderPc' \in {"font", "pixels", "fontRoom"} => renderPc \in {"font", "pixels", "fontRoom"}
    BY <1>3
  <2>6. renderPc' \notin {"frame", "test", "pack", "iterate"}
    BY <1>3
  <2> QED BY <1>0, <1>1, <1>2, <2>1, <2>2, <2>3, <2>4, <2>5, <2>6, VectorUnmoved
          DEF ListedUpToDate, FontBehindPicture
<1>4. CASE SendHeader
  <2>1. /\ UNCHANGED <<cursor, torn>> /\ receiver' = {mFd}
        /\ renderPc = "send" /\ renderPc' = "data"
    BY <1>4 DEF SendHeader, WriteHeader
  <2> QED BY <1>3, <2>1
<1>5. CASE SendDrawData \/ SendFontTexture
  <2>1. /\ UNCHANGED cursor /\ receiver' = {mFd} /\ SendPayload
        /\ \/ renderPc = "data" /\ renderPc' = "room"
           \/ renderPc = "pixels" /\ renderPc' = "fontRoom"
    BY <1>5 DEF SendDrawData, SendFontTexture, SendPayload
  <2> QED BY <1>3, <2>1
<1>6. CASE SendFontHeader
  <2>1. CASE UNCHANGED cursor /\ WriteHeader /\ renderPc' = "pixels"
    <3>1. UNCHANGED torn /\ receiver' = {mFd} /\ renderPc = "font"
      BY <1>6, <2>1 DEF SendFontHeader, WriteHeader
    <3> QED BY <1>3, <2>1, <3>1
  <2>2. CASE NextClient
    <3>1. renderPc = "font" /\ renderPc' = "send" /\ cursor' = cursor + 1 /\ UNCHANGED torn
      BY <1>6, <2>2 DEF SendFontHeader, NextClient
    <3>2. ReceiverKept' /\ LoopInBounds'
      BY <1>0, <1>1, <3>1, VectorFacts DEF ReceiverKept, LoopInBounds, InLoop
    <3>3. \A d : IsDue(d)' <=> IsDue(d)
      BY <1>1, <3>1 DEF IsDue
    <3> QED BY <1>0, <1>1, <1>2, <3>1, <3>2, <3>3, VectorUnmoved DEF ListedUpToDate
  <2> QED BY <1>6, <2>1, <2>2 DEF SendFontHeader
<1> QED BY <1>4, <1>5, <1>6

\* The client at the cursor gets the newest frame.
LEMMA SendKeepsDelivery ==
  ASSUME TypeOK, DeliveryInv, frames # <<>>, DrawDataSent
  PROVE  DeliveryInv'
<1>0. /\ OnlyConnectedHavePackets /\ FramesInOrder /\ NoFrameLeftOut /\ LoopInBounds
      /\ NewcomersUnlisted /\ ListedUpToDate /\ FontBehindPicture /\ ReceiverKept /\ GapNeedsRace
      /\ FontNeedsWindow
  BY DEF DeliveryInv
<1>1. /\ renderPc = "room" /\ renderPc' = "font" /\ cursor <= loopEnd /\ InLoop
      /\ PayloadSent(NewestFrame)
      /\ UNCHANGED <<frames, cursor, loopEnd, vectorVars, life, texture, latest, gap, torn, raced>>
  BY <1>0 DEF DrawDataSent, FrameSent, LoopInBounds, InLoop, NewestFrame
<1>2. cursor \in 1 .. loopEnd
  BY <1>0, <1>1, SlotInLoop
<1>3. NewestFrame \in 1 .. NewestFrame /\ NewestFrame' = NewestFrame
  <2>1. frames \in Seq(Frame)
    BY DEF TypeOK
  <2>2. Len(frames) \in Nat \ {0}
    BY <2>1, EmptySeq
  <2> QED BY <1>1, <2>2 DEF NewestFrame
<1>4. NewestFrame \in 0 .. NewestFrame
  BY <1>3
<1>5. LoopMemory' = LoopMemory /\ mFd' = mFd /\ ReceiverKept'
  BY <1>1 DEF LoopMemory, mFd, ReceiverKept
<1>5a. receiver \in SUBSET Client
  BY DEF TypeOK
<1>5b. PICK e \in Client : Transmit(e, NewestFrame) /\ (~raced => mFd = e)
  BY <1>0, <1>1, <1>5a DEF PayloadSent, ReceiverKept
<1>6. \A d \in Client :
        Sent(d)' = IF d = e /\ life[e] = "on" THEN Sent(d) \cup {NewestFrame} ELSE Sent(d)
  BY <1>1, <1>3, <1>4, <1>5b, TransmitSent DEF FontTexture
<1>7. /\ \A d \in Client : d # e \/ life[e] # "on" => inFlight'[d] = inFlight[d]
      /\ life[e] = "on" =>
           /\ Len(inFlight'[e]) = Len(inFlight[e]) + 1
           /\ \A i \in 1 .. Len(inFlight[e]) : inFlight'[e][i] = inFlight[e][i]
           /\ inFlight'[e][Len(inFlight[e]) + 1] = NewestFrame
  BY <1>4, <1>5b, TransmitAppends
<1>8. FramesInOrder'
  BY <1>0, <1>1, <1>5b, TransmitKeepsOrder
<1>9. OnlyConnectedHavePackets' /\ GapNeedsRace' /\ FontNeedsWindow' /\ NewcomersUnlisted'
  BY <1>0, <1>1, <1>7 DEF OnlyConnectedHavePackets, GapNeedsRace, FontNeedsWindow, NewcomersUnlisted
<1>10. LoopInBounds'
  BY <1>0, <1>1, <1>5 DEF LoopInBounds, InLoop
<1>11. ~raced => HasPrevious(e)
  BY <1>0, <1>1, <1>2, <1>5b DEF ListedUpToDate, IsInLoop, mFd
<1>12. NoFrameLeftOut'
  <2> SUFFICES ASSUME ~raced, NEW d \in Client, NEW a \in Sent(d)', NEW b \in Sent(d)', NEW m \in a .. b
               PROVE  m \in Sent(d)'
    BY <1>1 DEF NoFrameLeftOut
  <2>1. CASE d # e \/ life[e] # "on"
    BY <1>0, <1>6, <2>1 DEF NoFrameLeftOut
  <2>2. CASE d = e /\ life[e] = "on"
    <3>1. Sent(e)' = Sent(e) \cup {NewestFrame} /\ Sent(e) \subseteq 1 .. NewestFrame
      BY <1>6, <2>2, SentType
    <3>2. CASE m = NewestFrame
      BY <2>2, <3>1, <3>2
    <3>3. CASE m # NewestFrame
      <4>1. a \in 1 .. NewestFrame - 1 /\ m \in a .. NewestFrame - 1 /\ b \in 1 .. NewestFrame
        BY <1>3, <2>2, <3>1, <3>3
      <4>2. a \in Sent(e)
        BY <2>2, <3>1, <4>1
      <4>3. \/ NewestFrame \in Sent(e) /\ m \in a .. NewestFrame
            \/ NewestFrame - 1 \in Sent(e) /\ m \in a .. NewestFrame - 1
        BY <1>3, <1>11, <4>1, <4>2 DEF HasPrevious, HasNewest
      <4>4. m \in Sent(e)
        BY <1>0, <4>2, <4>3 DEF NoFrameLeftOut
      <4> QED BY <2>2, <3>1, <4>4
    <3> QED BY <3>2, <3>3
  <2> QED BY <2>1, <2>2
<1>13. HasNewest(e)'
  <2>1. CASE life[e] = "on"
    BY <1>3, <1>6, <2>1 DEF HasNewest
  <2>2. CASE life[e] # "on"
    <3>1. Len(inFlight[e]) = 0 /\ latest[e] = 0 /\ 1 .. 0 = {}
      BY <1>0, <2>2 DEF OnlyConnectedHavePackets
    <3>2. Sent(e) = {}
      BY <3>1 DEF Sent, FontTexture
    <3> QED BY <1>6, <2>2, <3>2 DEF HasNewest
  <2> QED BY <2>1, <2>2
<1>14. \A d \in Client : d # e => (HasNewest(d)' <=> HasNewest(d)) /\ (HasPrevious(d)' <=> HasPrevious(d))
  BY <1>3, <1>6 DEF HasNewest, HasPrevious
<1>15. /\ \A d : (IsClient(d)' <=> IsClient(d)) /\ (IsInLoop(d)' <=> IsInLoop(d))
       /\ ~raced => \A d : d # e /\ IsDue(d) => IsDue(d)'
  <2>1. \A j \in cursor .. loopEnd : j = cursor \/ j \in cursor + 1 .. loopEnd
    BY VectorFacts
  <2> QED BY <1>1, <1>5, <1>5b, <2>1 DEF IsClient, IsInLoop, IsDue, mFd
<1>16. ListedUpToDate'
  <2>1. HasPrevious(e)'
    BY <1>13 DEF HasPrevious
  <2> QED BY <1>0, <1>1, <1>13, <1>14, <1>15, <2>1 DEF ListedUpToDate, InLoop
<1>17. FontBehindPicture'
  <2> SUFFICES ASSUME ~raced PROVE FontBehindPicture'
    BY <1>1 DEF FontBehindPicture
  <2>1. ASSUME NEW d \in Client, NEW i \in 1 .. Len(inFlight'[d]), inFlight'[d][i] = FontTexture
        PROVE  latest[d] # 0 \/ \E j \in 1 .. i : inFlight'[d][j] # FontTexture
    <3>1. CASE d # e \/ life[e] # "on"
      BY <1>0, <1>7, <2>1, <3>1 DEF FontBehindPicture
    <3>2. CASE d = e /\ life[e] = "on"
      <4>1. i \in 1 .. Len(inFlight[e]) /\ \A j \in 1 .. i : j \in 1 .. Len(inFlight[e])
        BY <1>3, <1>7, <2>1, <3>2, FlightType DEF FontTexture
      <4> QED BY <1>0, <1>7, <2>1, <3>2, <4>1 DEF FontBehindPicture
    <3> QED BY <3>1, <3>2
  <2>2. life[e] # "on" \/ Sent(e)' # {}
    BY <1>6
  <2> QED BY <1>1, <1>5, <1>5b, <2>1, <2>2 DEF FontBehindPicture
<1> QED BY <1>5, <1>8, <1>9, <1>10, <1>12, <1>16, <1>17 DEF DeliveryInv

LEMMA FontKeepsDelivery ==
  ASSUME TypeOK, DeliveryInv, FontTextureSent
  PROVE  DeliveryInv'
<1>0. /\ OnlyConnectedHavePackets /\ FramesInOrder /\ NoFrameLeftOut /\ LoopInBounds
      /\ NewcomersUnlisted /\ ListedUpToDate /\ FontBehindPicture /\ ReceiverKept /\ GapNeedsRace
      /\ FontNeedsWindow
  BY DEF DeliveryInv
<1>1. /\ renderPc = "fontRoom" /\ renderPc' = "sent" /\ cursor <= loopEnd /\ InLoop
      /\ PayloadSent(FontTexture)
      /\ UNCHANGED <<frames, cursor, loopEnd, vectorVars, life, texture, latest, gap, torn, raced>>
      /\ LoopMemory' = LoopMemory
  BY <1>0 DEF FontTextureSent, InLoop, LoopMemory, LoopInBounds
<1>2. /\ \A d : (IsClient(d)' <=> IsClient(d)) /\ (IsInLoop(d)' <=> IsInLoop(d)) /\ (IsDue(d)' <=> IsDue(d))
      /\ NewcomersUnlisted' /\ LoopInBounds' /\ ReceiverKept'
  BY <1>0, <1>1, VectorFacts DEF IsClient, IsInLoop, IsDue, NewcomersUnlisted, LoopInBounds,
     ReceiverKept, InLoop
<1>2a. receiver \in SUBSET Client
  BY DEF TypeOK
<1>2b. PICK e \in Client : Transmit(e, FontTexture) /\ (~raced => mFd = e)
  BY <1>0, <1>1, <1>2a DEF PayloadSent, ReceiverKept
<1>3. FontTexture \in 0 .. NewestFrame
  BY FlightType DEF FontTexture
<1>4. \A d \in Client : Sent(d)' = Sent(d)
  BY <1>1, <1>2b, <1>3, TransmitSent
<1>5. /\ \A d \in Client : d # e \/ life[e] # "on" => inFlight'[d] = inFlight[d]
      /\ life[e] = "on" =>
           /\ Len(inFlight'[e]) = Len(inFlight[e]) + 1
           /\ \A i \in 1 .. Len(inFlight[e]) : inFlight'[e][i] = inFlight[e][i]
           /\ inFlight'[e][Len(inFlight[e]) + 1] = FontTexture
  BY <1>2b, <1>3, TransmitAppends
<1>6. FramesInOrder'
  BY <1>0, <1>1, <1>2b, TransmitKeepsOrder
<1>7. OnlyConnectedHavePackets' /\ GapNeedsRace' /\ FontNeedsWindow' /\ NoFrameLeftOut'
  BY <1>0, <1>1, <1>4, <1>5 DEF OnlyConnectedHavePackets, GapNeedsRace, FontNeedsWindow, NoFrameLeftOut
<1>8. \A d \in Client : (HasNewest(d)' <=> HasNewest(d)) /\ (HasPrevious(d)' <=> HasPrevious(d))
  BY <1>1, <1>4 DEF HasNewest, HasPrevious, NewestFrame
<1>9. ListedUpToDate'
  BY <1>0, <1>1, <1>2, <1>8 DEF ListedUpToDate, InLoop
<1>10. FontBehindPicture'
  <2> SUFFICES ASSUME ~raced, NEW d \in Client, NEW i \in 1 .. Len(inFlight'[d]),
                      inFlight'[d][i] = FontTexture
               PROVE  latest[d] # 0 \/ \E j \in 1 .. i : inFlight'[d][j] # FontTexture
    BY <1>1, <1>2 DEF FontBehindPicture
  <2>1. CASE d # e \/ life[e] # "on"
    BY <1>0, <1>5, <2>1 DEF FontBehindPicture
  <2>2. CASE d = e /\ life[e] = "on" /\ i \in 1 .. Len(inFlight[e])
    <3>1. \A j \in 1 .. i : j \in 1 .. Len(inFlight[e])
      BY <2>2, FlightType
    <3> QED BY <1>0, <1>5, <2>2, <3>1 DEF FontBehindPicture
  <2>3. CASE d = e /\ life[e] = "on" /\ i = Len(inFlight[e]) + 1
    <3>1. Sent(e) # {}
      BY <1>0, <1>1, <1>2b, <2>3 DEF FontBehindPicture
    <3>2. latest[e] # 0 \/ \E j \in 1 .. Len(inFlight[e]) : inFlight[e][j] # FontTexture
      BY <3>1 DEF Sent, FontTexture
    <3>3. \A j \in 1 .. Len(inFlight[e]) : j \in 1 .. i
      BY <2>3, FlightType
    <3> QED BY <1>5, <2>3, <3>2, <3>3
  <2>4. d = e /\ life[e] = "on" => i \in 1 .. Len(inFlight[e]) \/ i = Len(inFlight[e]) + 1
    BY <1>5, FlightType
  <2> QED BY <2>1, <2>2, <2>3, <2>4
<1> QED BY <1>2, <1>6, <1>7, <1>9, <1>10 DEF DeliveryInv

\* Setting mHasSentFontTexture leaves every slot to its client.
LEMMA SlotsAfterFont ==
  ASSUME TypeOK, SetHasSentFontTexture
  PROVE  /\ Len(memory') = Len(memory) /\ Len(freed') = Len(freed)
         /\ \A i \in 1 .. Len(memory) : memory'[i].client = memory[i].client
         /\ \A i \in 1 .. Len(freed) : freed'[i].client = freed[i].client
         /\ freed = <<>> <=> freed' = <<>>
<1> USE VectorFacts
<1>1. CASE freed = <<>>
  <2>1. memory' = [memory EXCEPT ![cursor].mHasSentFontTexture = TRUE] /\ freed' = freed
    BY <1>1 DEF SetHasSentFontTexture
  <2> QED BY <1>1, <2>1, FlagSet
<1>2. CASE freed # <<>>
  <2>1. freed' = [freed EXCEPT ![cursor].mHasSentFontTexture = TRUE] /\ memory' = memory
    BY <1>2 DEF SetHasSentFontTexture
  <2>2. /\ freed' \in Seq(Slots) /\ Len(freed') = Len(freed)
        /\ \A i \in 1 .. Len(freed) : freed'[i].client = freed[i].client
    BY <2>1, FlagSet
  <2>3. Len(freed) # 0
    BY <1>2, EmptySeq
  <2> QED BY <1>2, <2>1, <2>2, <2>3
<1> QED BY <1>1, <1>2

LEMMA SentKeepsDelivery ==
  ASSUME TypeOK, DeliveryInv, SetHasSentFontTexture
  PROVE  DeliveryInv'
<1>0. /\ OnlyConnectedHavePackets /\ FramesInOrder /\ NoFrameLeftOut /\ LoopInBounds
      /\ NewcomersUnlisted /\ ListedUpToDate /\ FontBehindPicture /\ ReceiverKept /\ GapNeedsRace
      /\ FontNeedsWindow
  BY DEF DeliveryInv
<1>1. /\ renderPc = "sent" /\ renderPc' = "send" /\ cursor' = cursor + 1 /\ InLoop
      /\ UNCHANGED <<frames, loopEnd, size, clientVars, raced>>
      /\ cursor <= loopEnd
  BY <1>0 DEF SetHasSentFontTexture, NextClient, InLoop, LoopInBounds
<1>2. /\ Len(memory') = Len(memory) /\ Len(freed') = Len(freed)
      /\ \A i \in 1 .. Len(memory) : memory'[i].client = memory[i].client
      /\ \A i \in 1 .. Len(freed) : freed'[i].client = freed[i].client
      /\ freed = <<>> <=> freed' = <<>>
  BY SlotsAfterFont
<1>3. \A i \in 1 .. Len(LoopMemory) : LoopMemory'[i].client = LoopMemory[i].client
  BY <1>2 DEF LoopMemory
<1>4. Len(LoopMemory') = Len(LoopMemory)
  BY <1>2 DEF LoopMemory
<1>5. NewcomersUnlisted' /\ LoopInBounds' /\ ReceiverKept'
  <2>1. NewcomersUnlisted'
    BY <1>0, <1>1, <1>2 DEF NewcomersUnlisted
  <2>2. LoopInBounds'
    BY <1>0, <1>1, <1>2, <1>4, VectorFacts DEF LoopInBounds, InLoop
  <2>3. ReceiverKept'
    BY <1>1 DEF ReceiverKept
  <2> QED BY <2>1, <2>2, <2>3
<1>6. \A d : (IsClient(d)' <=> IsClient(d)) /\ (IsInLoop(d)' => IsInLoop(d)) /\ (IsDue(d) => IsDue(d)')
  <2>1. loopEnd <= Len(LoopMemory) /\ loopEnd \in Nat /\ cursor \in Nat /\ size \in Nat /\ size <= Len(memory)
    BY <1>0, <1>1, VectorFacts DEF LoopInBounds
  <2>2. Len(LoopMemory) \in Nat
    BY VectorFacts DEF LoopMemory
  <2>3. \A j \in 1 .. loopEnd : LoopMemory'[j].client = LoopMemory[j].client
    BY <1>3, <2>1, <2>2
  <2>4. \A j \in cursor + 1 .. loopEnd : j \in 1 .. loopEnd
    BY <2>1
  <2>5. /\ \A d : IsDue(d) <=> \E j \in cursor + 1 .. loopEnd : LoopMemory[j].client = d
        /\ \A d : IsDue(d)' <=> \E j \in cursor + 1 .. loopEnd : LoopMemory'[j].client = d
    BY <1>1 DEF IsDue
  <2>6. \A d : IsDue(d) => IsDue(d)'
    BY <2>3, <2>4, <2>5
  <2>7. \A i \in 1 .. size : memory'[i].client = memory[i].client
    BY <1>2, <2>1, VectorFacts
  <2>8. \A d : IsClient(d)' <=> IsClient(d)
    BY <1>1, <2>7 DEF IsClient
  <2>9. \A d : IsInLoop(d)' => IsInLoop(d)
    BY <1>1, <2>3 DEF IsInLoop
  <2> QED BY <2>6, <2>8, <2>9
<1> QED BY <1>0, <1>1, <1>5, <1>6, VectorUnmoved DEF ListedUpToDate, InLoop

LEMMA InitDelivery == Init => DeliveryInv
<1> SUFFICES ASSUME Init PROVE DeliveryInv
  OBVIOUS
<1> USE DEF Init
<1>1. size = 0 /\ Len(memory) = 0 /\ Len(freed) = 0 /\ 1 .. 0 = {}
  OBVIOUS
<1>2. \A c \in Client : Sent(c) = {} /\ ~IsClient(c) /\ Len(inFlight[c]) = 0
  BY <1>1 DEF Sent, IsClient, FontTexture
<1>3. OnlyConnectedHavePackets /\ FramesInOrder /\ NoFrameLeftOut /\ LoopInBounds
  BY <1>1, <1>2 DEF OnlyConnectedHavePackets, FramesInOrder, NoFrameLeftOut, LoopInBounds, InLoop
<1>4. NewcomersUnlisted /\ ListedUpToDate /\ FontBehindPicture /\ ReceiverKept /\ GapNeedsRace
      /\ FontNeedsWindow
  BY <1>1, <1>2 DEF NewcomersUnlisted, ListedUpToDate, FontBehindPicture, ReceiverKept,
                    GapNeedsRace, FontNeedsWindow, InLoop
<1> QED BY <1>3, <1>4 DEF DeliveryInv

LEMMA NextDelivery == TypeOK /\ HashInv /\ DeliveryInv /\ [Next]_vars => DeliveryInv'
<1> SUFFICES ASSUME TypeOK, HashInv, DeliveryInv, [Next]_vars PROVE DeliveryInv'
  OBVIOUS
<1>1. CASE Render
  <2>1. DrawDataSent => frames # <<>>
    BY DEF HashInv, PictureInUse, InLoop, DrawDataSent
  <2> QED BY <1>1, <2>1, RenderKeepsDelivery, PackKeepsDelivery, PiecesKeepDelivery, SendKeepsDelivery,
            FontKeepsDelivery, SentKeepsDelivery DEF Render
<1>2. CASE Run
  BY <1>2, ServerKeepsDelivery
<1>3. ASSUME NEW c \in Client, Receive(c) \/ Quit(c)
      PROVE  DeliveryInv'
  BY <1>3, ReceiveKeepsDelivery, GarbageKeepsDelivery, QuitKeepsDelivery DEF Receive
<1>4. CASE UNCHANGED vars
  <2>1. UNCHANGED <<renderVars, vectorVars, clientVars, raced>>
    BY <1>4
  <2>2. NewcomersUnlisted' /\ LoopInBounds'
    BY <2>1 DEF DeliveryInv, NewcomersUnlisted, LoopInBounds, InLoop, LoopMemory
  <2>3. /\ \A c : (IsDue(c)' <=> IsDue(c)) /\ (IsInLoop(c)' <=> IsInLoop(c)) /\ (IsClient(c)' <=> IsClient(c))
        /\ LoopMemory' = LoopMemory /\ mFd' = mFd /\ ReceiverKept'
    BY <2>1 DEF DeliveryInv, IsDue, IsInLoop, IsClient, LoopMemory, mFd, ReceiverKept
  <2> QED BY <2>1, <2>2, <2>3, VectorUnmoved DEF DeliveryInv, ListedUpToDate, FontBehindPicture, InLoop
<1> QED BY <1>1, <1>2, <1>3, <1>4 DEF Next

-----------------------------------------------------------------------------
(* The theorems. *)

\* What is shown depends on the loop staying within its slots, and where the loop is sent
\* to on the types: the parts are inductive together.
WholeInv == IInv /\ HashInv /\ DeliveryInv

LEMMA WholeInvHolds == Spec => []WholeInv
<1>1. Init => WholeInv
  BY InitIInv, InitHashInv, InitDelivery DEF WholeInv
<1>2. WholeInv /\ [Next]_vars => WholeInv'
  <2> SUFFICES ASSUME WholeInv, [Next]_vars PROVE WholeInv'
    OBVIOUS
  <2>1. IInv /\ TypeOK /\ LoopInBounds /\ HashInv /\ DeliveryInv
    BY DEF WholeInv, IInv, DeliveryInv
  <2> QED BY <2>1, NextIInv, NextHashInv, NextDelivery DEF WholeInv
<1> HIDE DEF vars
<1> QED BY <1>1, <1>2, PTL DEF Spec

\* The state of the render thread, of the vector and of the clients is well typed, for
\* any number of clients, buffers and lists.
THEOREM TypeCorrect == Spec => []TypeOK
<1>1. WholeInv => TypeOK
  BY DEF WholeInv, IInv
<1> QED BY <1>1, WholeInvHolds, PTL

\* A client that missed no frame and got each in one piece shows no outdated list, although
\* packImDrawData computes its deltas from static hashes and not from what the client has.
THEOREM NeverShowsStaleLists == Spec => []NeverStale
<1>1. WholeInv => NeverStale
  BY DEF WholeInv, IInv
<1> QED BY <1>1, WholeInvHolds, PTL

\* A client that missed no frame and got each in one piece shows nothing at a position only
\* if that list was never packed in full since the client came, or the picture has been too
\* short for it since.
THEOREM BlankIsAlwaysExplained == Spec => []BlankIsExplained
<1>1. WholeInv => BlankIsExplained
  BY DEF WholeInv, IInv
<1> QED BY <1>1, WholeInvHolds, PTL

\* What render() leaves unsent because no hash has changed has as many lists as what was
\* sent, and the same vertices, indices and commands, for any number of lists and any
\* buffers.
THEOREM SkipsAreExchanges == Spec => []SkipsOnlyExchanges
<1>1. WholeInv => SkipsOnlyExchanges
  BY SameHashSkips DEF WholeInv, IInv
<1> QED BY <1>1, WholeInvHolds, PTL

\* However joins and the loop of the render thread interleave, a client misses a frame or
\* gets a header without its payload only if one is erased under the loop, for any number
\* of clients.
THEOREM GapsNeedRaces == Spec => []GapNeedsRace
<1>1. WholeInv => GapNeedsRace
  BY DEF WholeInv, DeliveryInv
<1> QED BY <1>1, WholeInvHolds, PTL

\* The font texture never reaches a client before its first picture, unless a client is
\* erased under the loop.
THEOREM FontsNeedWindows == Spec => []FontNeedsWindow
<1>1. WholeInv => FontNeedsWindow
  BY DEF WholeInv, DeliveryInv
<1> QED BY <1>1, WholeInvHolds, PTL

-----------------------------------------------------------------------------
(* DrawMirror implements ClientVector. *)

\* A sequence of clients written as a function.
LEMMA ClientsFromFunction ==
  ASSUME NEW n \in Nat, NEW f \in [1 .. n -> Client]
  PROVE  f \in Seq(Client) /\ Len(f) = n
OBVIOUS

\* A client that joins is the last in the vector, and new to it.
LEMMA JoinedSlots ==
  ASSUME TypeOK, Join
  PROVE  \E c \in Client :
           /\ life[c] = "new" /\ size' = size + 1 /\ memory'[size + 1].client = c
           /\ \A i \in 1 .. size : memory'[i] = memory[i]
<1> USE VectorFacts
<1> DEFINE slot(c) == [client |-> c, mHasSentFontTexture |-> FALSE]
           front(c) == [i \in 1 .. size + 1 |-> IF i = size + 1 THEN slot(c) ELSE memory[i]]
           rest == SubSeq(memory, size + 2, Len(memory))
<1>1. PICK c \in Client :
        /\ life[c] = "new" /\ size' = size + 1
        /\ \/ memory' = front(c) \o rest /\ UNCHANGED freed
           \/ /\ InLoop /\ freed = <<>>
              /\ freed' = memory
              /\ memory' = Append(mClients, slot(c))
  BY DEF Join
<1>2. /\ memory'[size + 1] = slot(c)
      /\ \A i \in 1 .. Len(memory') : i # size + 1 => i \in 1 .. Len(memory) /\ memory'[i] = memory[i]
      /\ Len(memory') \in Nat /\ Len(memory') >= size + 1
  <2>1. slot(c) \in Slots
    BY DEF Slots
  <2> HIDE DEF slot
  <2> QED BY <1>1, <2>1, JoinedAtEnd
<1>3. slot(c).client = c
  OBVIOUS
<1>4. \A i \in 1 .. size : i \in 1 .. Len(memory') /\ i # size + 1
  BY <1>2
<1> HIDE DEF slot, front, rest
<1>5. memory'[size + 1].client = c /\ \A i \in 1 .. size : memory'[i] = memory[i]
  BY <1>2, <1>3, <1>4
<1> QED BY <1>1, <1>5

LEMMA ListedType ==
  ASSUME TypeOK
  PROVE  /\ Len(ListedClients) = size /\ DOMAIN ListedClients = 1 .. size
         /\ ListedClients \in Seq(Client)
         /\ \A k \in 1 .. size : ListedClients[k] = memory[k].client
<1>1. \A k \in 1 .. size : memory[k].client \in Client
  <2>1. \A k \in 1 .. size : memory[k] \in Slots
    BY VectorFacts, ElementOfSeq
  <2> QED BY <2>1 DEF Slots
<1>2. ListedClients \in [1 .. size -> Client] /\ size \in Nat
  BY <1>1, VectorFacts DEF ListedClients
<1> QED BY <1>2 DEF ListedClients

\* The slots of the vector keep their clients.
LEMMA SameListed ==
  ASSUME TypeOK, size' = size,
         \A k \in 1 .. Len(memory) : memory'[k].client = memory[k].client
  PROVE  ListedClients' = ListedClients
<1>1. \A k \in 1 .. size : memory'[k].client = memory[k].client
  BY VectorFacts
<1> QED BY <1>1 DEF ListedClients

\* A client that joins is put behind those in the vector, where it was not before.
LEMMA JoinIsPushBack ==
  ASSUME TypeOK, DeliveryInv, Join
  PROVE  TheVector!VecNext
<1> USE VectorFacts
<1>1. PICK c \in Client :
        /\ life[c] = "new" /\ size' = size + 1 /\ memory'[size + 1].client = c
        /\ \A i \in 1 .. size : memory'[i] = memory[i]
  BY JoinedSlots
<1>2. \A i \in 1 .. size : memory[i].client # c
  BY <1>1 DEF DeliveryInv, NewcomersUnlisted
<1>3. ~TheVector!IsIn(c)
  BY <1>2, ListedType DEF TheVector!IsIn
<1>4. ListedClients' = [k \in 1 .. size + 1 |-> memory'[k].client]
  BY <1>1 DEF ListedClients
<1>5. \A k \in 1 .. size + 1 : k \in 1 .. size \/ k = size + 1
  OBVIOUS
<1>6. \A k \in 1 .. size + 1 : memory'[k].client = IF k = size + 1 THEN c ELSE ListedClients[k]
  BY <1>1, <1>5, ListedType
<1>7. ListedClients' \in Seq(Client) /\ Len(ListedClients') = size + 1
  <2>1. \A k \in 1 .. size : ListedClients[k] \in Client
    BY ListedType, ElementOfSeq
  <2>2. \A k \in 1 .. size + 1 : memory'[k].client \in Client
    BY <1>5, <1>6, <2>1
  <2>3. ListedClients' \in [1 .. size + 1 -> Client] /\ size + 1 \in Nat
    BY <1>4, <2>2
  <2> QED BY <2>3, ClientsFromFunction
<1>8. /\ Append(ListedClients, c) \in Seq(Client) /\ Len(Append(ListedClients, c)) = size + 1
      /\ \A k \in 1 .. size : Append(ListedClients, c)[k] = ListedClients[k]
      /\ Append(ListedClients, c)[size + 1] = c
  BY ListedType
<1>9. \A k \in 1 .. size + 1 : ListedClients'[k] = Append(ListedClients, c)[k]
  BY <1>4, <1>5, <1>6, <1>8
<1>10. ListedClients' = Append(ListedClients, c)
  BY <1>7, <1>8, <1>9, SeqEqual
<1> QED BY <1>3, <1>10 DEF TheVector!VecNext, TheVector!PushBack

LEMMA EraseIsTake ==
  ASSUME TypeOK, Erase
  PROVE  TheVector!VecNext
<1> USE VectorFacts
<1> DEFINE n == IF InLoop THEN Len(memory) ELSE size - 1
<1>1. PICK i \in 1 .. size :
        memory' = [j \in 1 .. n |-> IF i <= j /\ j < size THEN memory[j + 1] ELSE memory[j]]
  BY DEF Erase
<1>2. size' = size - 1
  BY DEF Erase
<1>3. \A j \in 1 .. size - 1 : j \in 1 .. n /\ j < size /\ j \in 1 .. size /\ j + 1 \in 1 .. size
  OBVIOUS
<1> HIDE DEF n
<1>4. \A j \in 1 .. size - 1 :
        memory'[j].client = IF j < i THEN ListedClients[j] ELSE ListedClients[j + 1]
  BY <1>1, <1>3, ListedType
<1>5. ListedClients' = [j \in 1 .. size - 1 |-> memory'[j].client]
  BY <1>2 DEF ListedClients
<1>6. TheVector!Take(i)
  BY <1>4, <1>5, ListedType DEF TheVector!Take
<1> QED BY <1>6, ListedType DEF TheVector!VecNext

LEMMA StepIsVectorStep ==
  ASSUME TypeOK, DeliveryInv, [Next]_vars
  PROVE  [TheVector!VecNext]_ListedClients
<1>1. CASE Join
  BY <1>1, JoinIsPushBack
<1>2. CASE Erase
  BY <1>2, EraseIsTake
<1>3. CASE SetHasSentFontTexture
  <2>1. size' = size /\ \A i \in 1 .. Len(memory) : memory'[i].client = memory[i].client
    BY <1>3, SlotsAfterFont DEF SetHasSentFontTexture
  <2> QED BY <2>1, SameListed
<1>4. CASE FinishFrame
  <2>1. size' = size /\ memory' = SubSeq(memory, 1, size)
    BY <1>4 DEF FinishFrame, mClients
  <2>2. \A k \in 1 .. size : memory'[k] = memory[k]
    BY <2>1, VectorFacts
  <2> QED BY <2>1, <2>2 DEF ListedClients
<1>5. CASE UNCHANGED <<memory, size>>
  BY <1>5 DEF ListedClients
<1>6. CASE NewFrame \/ TestRerender \/ PackImDrawData \/ StartIterating \/ SendHeader
           \/ SendDrawData \/ DrawDataSent \/ SendFontHeader \/ SendFontTexture
           \/ FontTextureSent \/ HandleHello \/ HandleInput \/ UNCHANGED vars
  <2>1. UNCHANGED vectorVars
    BY <1>6 DEF NewFrame, TestRerender, PackImDrawData, StartIterating, SendHeader, SendDrawData,
                DrawDataSent, SendFontHeader, SendFontTexture, FontTextureSent, HandleHello,
                HandleInput, vars
  <2> QED BY <1>5, <2>1 DEF vectorVars
<1>7. ASSUME NEW c \in Client, Receive(c) \/ Quit(c)
      PROVE  UNCHANGED <<memory, size>>
  BY <1>7 DEF Receive, ReceiveDrawData, ReceiveFontTexture, ReceiveGarbage, Quit, vectorVars
<1> QED BY <1>1, <1>2, <1>3, <1>4, <1>5, <1>6, <1>7 DEF Next, Render, Run

\* What the render thread is assumed to suffer from the server thread is no more than
\* what the server thread is shown to do to the vector, and its own steps leave the
\* vector's clients alone.
THEOREM PictureKeepsVector == Spec => VectorIsKept
<1>1. Init => TheVector!VecInit
  BY DEF Init, TheVector!VecInit, ListedClients
<1>2. WholeInv /\ [Next]_vars => [TheVector!VecNext]_ListedClients
  BY StepIsVectorStep DEF WholeInv, IInv
<1> HIDE DEF vars
<1> QED BY <1>1, <1>2, WholeInvHolds, PTL DEF Spec, VectorIsKept, TheVector!VecSpec
=============================================================================
