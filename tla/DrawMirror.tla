----------------------------- MODULE DrawMirror -----------------------------
(***************************************************************************)
(* How the picture reaches the desktop clients.                            *)
(*                                                                         *)
(* The sysmodule's render thread draws a picture, a sequence of ImGui draw *)
(* lists, packs it as a delta against what it packed before, and sends the *)
(* delta to every client it holds.  There is one delta for all of them:    *)
(* the hashes it is computed from are static variables.  A client unpacks  *)
(* it onto the copy of the lists it kept.  The server thread meanwhile     *)
(* adds clients to the same vector, removes them from it, and asks for a   *)
(* new picture through the flag sRerender; nothing synchronises the two    *)
(* threads, and a step of the render thread below is what it does between  *)
(* two accesses to what they share.                                        *)
(*                                                                         *)
(* A draw list is three buffers, and a hash is a sum over buffers: of the  *)
(* three of one list, or of all those of a picture.  Two buffers of the    *)
(* same hash are left out, two pictures of the same sum are not.           *)
(*                                                                         *)
(* A packet is sent in two calls, its header and then its payload, and     *)
(* each reads from the vector whom to send it to.  A client is one run of  *)
(* the client program on one connection, whose framing PacketStream        *)
(* models; a descriptor is not reused while a loop runs.                   *)
(***************************************************************************)
EXTENDS Naturals, Sequences, FiniteSets

CONSTANTS
  Client,      \* runs of the client program
  VtxBuffer, IdxBuffer, CmdBuffer,  \* what the buffers of a draw list may contain
  MaxLists,    \* sMaxDrawLists: 128
  SocketCap,   \* packets a connection holds before send() blocks
  MaxChanges,  \* bound: times the picture changes
  MaxInputs,   \* bound: inputs that ask for a new picture
  MaxErased    \* bound: clients the server erases

Part == 1 .. 3
Buffer == VtxBuffer \cup IdxBuffer \cup CmdBuffer
Content == VtxBuffer \X IdxBuffer \X CmdBuffer

Unchanged == <<"Unchanged">>
Blank == <<"Blank">>
Garbage == <<"Garbage">>
NoHash == {}
FontTexture == 0

ASSUME MirrorAssumption ==
  /\ MaxLists \in Nat \ {0}
  /\ SocketCap \in Nat \ {0}
  /\ MaxChanges \in Nat
  /\ MaxInputs \in Nat
  /\ MaxErased \in Nat
  \* The bytes of vertices are no indices, and neither are commands.
  /\ VtxBuffer \cap IdxBuffer = {}
  /\ VtxBuffer \cap CmdBuffer = {}
  /\ IdxBuffer \cap CmdBuffer = {}

VARIABLES
  drawn,                \* the picture ImGui::Render() made: draw lists in drawing order
  sPrevDrawListHashes,  \* per position, the hash of the list last packed in full
  lastDrawDataHash,     \* the sum of the hashes of the last picture
  sRerender,
  frames,               \* pictures packed so far, each as drawn and as packed
  renderPc,             \* where render() is
  receiver,             \* whom the header was sent to, and then whom the payload is sent to
  cursor,               \* iterateClients: the slot its reference `client' points to
  loopEnd,              \* iterateClients: the end it read when it started
  memory,               \* slots of the vector mClients; those after the first size are stale
  size,                 \* mClients.size()
  freed,                \* the slots iterateClients goes through if push_back moved the vector
  life,                 \* a client: "new", "on" (connected) or "off" (ended)
  hello,                \* its Hello packet has not been handled yet
  inFlight,             \* packets on their way to it: a number in frames, or FontTexture
  shown,                \* its sDrawDataPrev: the lists it shows
  texture,              \* it has called loadFontTextureRGBA32
  first, latest,        \* history: the first and the latest frame it unpacked, or 0
  gap,                  \* history: some frame did not follow the one before
  torn,                 \* history: clients that got a header without its payload, or a payload
                        \* without its header, and can tell packets from bytes no more
  raced,                \* history: a client was erased while iterateClients ran
  changes, inputs, erased  \* counts, for the bounds

renderVars == <<drawn, sPrevDrawListHashes, lastDrawDataHash, frames, renderPc, receiver, cursor,
                loopEnd>>
vectorVars == <<memory, size, freed>>
clientVars == <<life, inFlight, shown, texture, first, latest, gap, torn>>
countVars == <<raced, changes, inputs, erased>>
vars == <<renderVars, sRerender, vectorVars, clientVars, hello, countVars>>

Pictures == UNION {[1 .. n -> Content] : n \in 1 .. MaxLists}

PackedPictures == UNION {[1 .. n -> Content \cup {Unchanged}] : n \in 1 .. MaxLists}

Frame == [picture : Pictures, lists : PackedPictures]

Slots == [client : Client, mHasSentFontTexture : BOOLEAN]

mClients == SubSeq(memory, 1, size)
IsClient(c) == \E i \in 1 .. size : memory[i].client = c

\* The hashes of the three buffers, added up.
HashImDrawList(list) == {list[1], list[2], list[3]}

HashIsNumberOfLists(picture) == [b \in Buffer |-> Len(picture)]
\* The hashes of the lists, added up: how often each buffer is in the picture, and neither
\* in which order, nor which of them make a list.
CalcDrawDataHash(picture) ==
  [b \in Buffer |-> Cardinality({i \in DOMAIN picture : b \in HashImDrawList(picture[i])})]

-----------------------------------------------------------------------------
(* The render thread: render(), one pass of it per frame. *)

\* NewFrame .. Render: the components draw the picture, changed or not.
NewFrame ==
  /\ renderPc = "frame"
  /\ size # 0
  /\ \/ drawn # <<>> /\ UNCHANGED <<drawn, changes>>
     \/ /\ changes < MaxChanges
        /\ drawn' \in Pictures \ {drawn}
        /\ changes' = changes + 1
  /\ renderPc' = "test"
  /\ UNCHANGED <<sPrevDrawListHashes, lastDrawDataHash, frames, receiver, cursor, loopEnd,
                 sRerender, vectorVars, clientVars, hello, raced, inputs, erased>>

TestRerender ==
  /\ renderPc = "test"
  /\ IF sRerender \/ lastDrawDataHash # CalcDrawDataHash(drawn)
     THEN renderPc' = "pack"  /\ UNCHANGED lastDrawDataHash
     ELSE renderPc' = "frame" /\ lastDrawDataHash' = CalcDrawDataHash(drawn)
  /\ UNCHANGED <<drawn, sPrevDrawListHashes, frames, receiver, cursor, loopEnd, sRerender,
                 vectorVars, clientVars, hello, countVars>>

UnchangedIfSeenAnywhere ==
  [i \in DOMAIN drawn |->
     IF \E j \in 1 .. MaxLists : HashImDrawList(drawn[i]) = sPrevDrawListHashes[j]
     THEN Unchanged ELSE drawn[i]]
\* packImDrawData: an unchanged list is three zeros, any other is packed in full.
PackedLists ==
  [i \in DOMAIN drawn |->
     IF HashImDrawList(drawn[i]) = sPrevDrawListHashes[i] THEN Unchanged ELSE drawn[i]]

\* Positions the picture does not reach keep the hash they have.
PackedHashes ==
  [i \in 1 .. MaxLists |-> IF i \in DOMAIN drawn THEN HashImDrawList(drawn[i])
                                                 ELSE sPrevDrawListHashes[i]]

PackImDrawData ==
  /\ renderPc = "pack"
  /\ sRerender' = FALSE
  /\ frames' = Append(frames, [picture |-> drawn, lists |-> PackedLists])
  /\ sPrevDrawListHashes' = PackedHashes
  /\ renderPc' = "iterate"
  /\ UNCHANGED <<drawn, lastDrawDataHash, receiver, cursor, loopEnd, vectorVars, clientVars,
                 hello, countVars>>

InLoop == renderPc \in {"send", "data", "room", "font", "pixels", "fontRoom", "sent"}

LoopEnd == size

\* iterateClients reads begin() and end() of the vector.
StartIterating ==
  /\ renderPc = "iterate"
  /\ cursor' = 1
  /\ loopEnd' = LoopEnd
  /\ renderPc' = "send"
  /\ UNCHANGED <<drawn, sPrevDrawListHashes, lastDrawDataHash, frames, receiver, sRerender,
                 vectorVars, clientVars, hello, countVars>>

\* The slots the loop's pointers point to.
LoopMemory == IF freed = <<>> THEN memory ELSE freed

\* What client.mFd is at this moment: each of the two calls of sendPacketImpl reads it.
mFd == LoopMemory[cursor].client

TransmitOrDrop(c, packet) ==
  inFlight' = [inFlight EXCEPT ![c] =
                 IF life[c] = "on" /\ Len(@) < SocketCap THEN Append(@, packet) ELSE @]
\* send() waits for room.  A packet for a client that has ended goes nowhere.
Transmit(c, packet) ==
  /\ Len(inFlight[c]) < SocketCap
  /\ inFlight' = [inFlight EXCEPT ![c] = IF life[c] = "on" THEN Append(@, packet) ELSE @]

\* write(mFd, &hdr, sizeof(hdr)).  That it may block is not told from the thread being at
\* the next line, as the client does nothing with a header alone.
WriteHeader == receiver' = {mFd}

\* send(mFd, buffer, size, 0) is called.  The slot may have another client by now.
SendPayload ==
  /\ receiver' = {mFd}
  /\ torn' = IF receiver = {mFd} THEN torn
             ELSE torn \cup {c \in receiver \cup {mFd} : life[c] = "on"}

\* It returns when the packet is on its way.
PayloadSent(packet) ==
  /\ \E c \in receiver : Transmit(c, packet)
  /\ receiver' = {}

SendHeader ==
  /\ renderPc = "send"
  /\ cursor <= loopEnd
  /\ WriteHeader
  /\ renderPc' = "data"
  /\ UNCHANGED <<drawn, sPrevDrawListHashes, lastDrawDataHash, frames, cursor, loopEnd, sRerender,
                 vectorVars, clientVars, hello, countVars>>

SendDrawData ==
  /\ renderPc = "data"
  /\ SendPayload
  /\ renderPc' = "room"
  /\ UNCHANGED <<drawn, sPrevDrawListHashes, lastDrawDataHash, frames, cursor, loopEnd, sRerender,
                 vectorVars, life, hello, inFlight, shown, texture, first, latest, gap,
                 countVars>>

AllUnchanged == \A i \in DOMAIN drawn : frames[Len(frames)].lists[i] = Unchanged

SentIfChanged == IF AllUnchanged THEN receiver' = {} /\ UNCHANGED inFlight
                                 ELSE PayloadSent(Len(frames))
FrameSent == PayloadSent(Len(frames))

DrawDataSent ==
  /\ renderPc = "room"
  /\ FrameSent
  /\ renderPc' = "font"
  /\ UNCHANGED <<drawn, sPrevDrawListHashes, lastDrawDataHash, frames, cursor, loopEnd, sRerender,
                 vectorVars, life, hello, shown, texture, first, latest, gap, torn, countVars>>

NextClient == cursor' = cursor + 1 /\ renderPc' = "send"

\* sendFontTexture, if the client has not got it: the header, then the texture.
SendFontHeader ==
  /\ renderPc = "font"
  /\ \/ /\ LoopMemory[cursor].mHasSentFontTexture
        /\ NextClient
        /\ UNCHANGED receiver
     \/ /\ ~LoopMemory[cursor].mHasSentFontTexture
        /\ WriteHeader
        /\ renderPc' = "pixels"
        /\ UNCHANGED cursor
  /\ UNCHANGED <<drawn, sPrevDrawListHashes, lastDrawDataHash, frames, loopEnd, sRerender,
                 vectorVars, clientVars, hello, countVars>>

SendFontTexture ==
  /\ renderPc = "pixels"
  /\ SendPayload
  /\ renderPc' = "fontRoom"
  /\ UNCHANGED <<drawn, sPrevDrawListHashes, lastDrawDataHash, frames, cursor, loopEnd, sRerender,
                 vectorVars, life, hello, inFlight, shown, texture, first, latest, gap,
                 countVars>>

FontTextureSent ==
  /\ renderPc = "fontRoom"
  /\ PayloadSent(FontTexture)
  /\ renderPc' = "sent"
  /\ UNCHANGED <<drawn, sPrevDrawListHashes, lastDrawDataHash, frames, cursor, loopEnd, sRerender,
                 vectorVars, life, hello, shown, texture, first, latest, gap, torn, countVars>>

\* The end of sendFontTexture, once the texture has been sent.
SetHasSentFontTexture ==
  /\ renderPc = "sent"
  /\ NextClient
  /\ IF freed = <<>>
     THEN memory' = [memory EXCEPT ![cursor].mHasSentFontTexture = TRUE] /\ UNCHANGED freed
     ELSE freed' = [freed EXCEPT ![cursor].mHasSentFontTexture = TRUE] /\ UNCHANGED memory
  /\ UNCHANGED <<drawn, sPrevDrawListHashes, lastDrawDataHash, frames, receiver, loopEnd,
                 sRerender, size, clientVars, hello, countVars>>

KeepsRequests == UNCHANGED sRerender

\* The end of render().  What the loop alone could still see is dropped.
FinishFrame ==
  /\ renderPc = "send"
  /\ cursor > loopEnd
  /\ lastDrawDataHash' = CalcDrawDataHash(drawn)
  /\ renderPc' = "frame"
  /\ cursor' = 1
  /\ loopEnd' = 0
  /\ memory' = mClients
  /\ freed' = <<>>
  /\ KeepsRequests
  /\ UNCHANGED <<drawn, sPrevDrawListHashes, frames, receiver, size, clientVars, hello,
                 countVars>>

-----------------------------------------------------------------------------
(* The server thread. *)

\* A client connects and run() accepts it: push_back, in place or into new slots.
Join ==
  \E c \in Client :
    LET slot == [client |-> c, mHasSentFontTexture |-> FALSE]
    IN  /\ life[c] = "new"
        /\ life' = [life EXCEPT ![c] = "on"]
        /\ hello' = [hello EXCEPT ![c] = TRUE]
        /\ size' = size + 1
        /\ \/ /\ memory' = [i \in 1 .. size + 1 |-> IF i = size + 1 THEN slot ELSE memory[i]]
                             \o SubSeq(memory, size + 2, Len(memory))
              /\ UNCHANGED freed
           \/ /\ InLoop /\ freed = <<>>
              /\ freed' = memory
              /\ memory' = Append(mClients, slot)
  /\ UNCHANGED <<renderVars, sRerender, inFlight, shown, texture, first, latest, gap, torn,
                 countVars>>

\* handlePacket: Hello.
HandleHello ==
  /\ \E c \in Client :
       /\ IsClient(c)
       /\ hello[c]
       /\ hello' = [hello EXCEPT ![c] = FALSE]
  /\ sRerender' = TRUE
  /\ UNCHANGED <<renderVars, vectorVars, clientVars, countVars>>

\* handlePacket: UpdateMouse and UpdateDisplaySize.
HandleInput ==
  /\ size # 0
  /\ inputs < MaxInputs
  /\ inputs' = inputs + 1
  /\ sRerender' = TRUE
  /\ UNCHANGED <<renderVars, vectorVars, clientVars, hello, raced, changes, erased>>

\* run() erases a client that closed its connection or has been silent for 15 s:
\* the slots after it move down, the one left over keeps its bytes.
Erase ==
  /\ erased < MaxErased
  /\ erased' = erased + 1
  /\ \E i \in 1 .. size :
       memory' = [j \in 1 .. (IF InLoop THEN Len(memory) ELSE size - 1) |->
                    IF i <= j /\ j < size THEN memory[j + 1] ELSE memory[j]]
  /\ size' = size - 1
  /\ raced' = (raced \/ InLoop)
  /\ UNCHANGED <<renderVars, sRerender, freed, clientVars, hello, changes, inputs>>

-----------------------------------------------------------------------------
(* The clients. *)

ListAt(c, i) == IF i \in DOMAIN shown[c] THEN shown[c][i] ELSE Blank

UnpackOntoNothing(c, lists) ==
  [i \in DOMAIN lists |-> IF lists[i] = Unchanged THEN Blank ELSE lists[i]]
\* unpackDrawData: three zeros stand for the list kept from before, if there is one.
UnpackDrawData(c, lists) ==
  [i \in DOMAIN lists |-> IF lists[i] = Unchanged THEN ListAt(c, i) ELSE lists[i]]

ReceiveDrawData(c) ==
  /\ c \notin torn
  /\ inFlight[c] # <<>>
  /\ Head(inFlight[c]) # FontTexture
  /\ LET k == Head(inFlight[c])
     IN  /\ shown' = [shown EXCEPT ![c] = UnpackDrawData(c, frames[k].lists)]
         /\ first' = [first EXCEPT ![c] = IF @ = 0 THEN k ELSE @]
         /\ latest' = [latest EXCEPT ![c] = k]
         /\ gap' = [gap EXCEPT ![c] = @ \/ latest[c] \notin {0, k - 1, k}]
  /\ inFlight' = [inFlight EXCEPT ![c] = Tail(@)]
  /\ UNCHANGED <<renderVars, sRerender, vectorVars, life, hello, texture, torn, countVars>>

ReceiveFontTexture(c) ==
  /\ c \notin torn
  /\ inFlight[c] # <<>>
  /\ Head(inFlight[c]) = FontTexture
  /\ texture' = [texture EXCEPT ![c] = TRUE]
  /\ inFlight' = [inFlight EXCEPT ![c] = Tail(@)]
  /\ UNCHANGED <<renderVars, sRerender, vectorVars, life, hello, shown, first, latest, gap,
                 torn, countVars>>

\* It takes bytes of a payload for a header, and unpacks what they say is a packet.
ReceiveGarbage(c) ==
  /\ c \in torn
  /\ inFlight[c] # <<>>
  /\ shown' = [shown EXCEPT ![c] = <<Garbage>>]
  /\ inFlight' = [inFlight EXCEPT ![c] = Tail(@)]
  /\ UNCHANGED <<renderVars, sRerender, vectorVars, life, hello, texture, first, latest, gap,
                 torn, countVars>>

\* The user closes the window: nothing is left of the client.
Quit(c) ==
  /\ life[c] = "on"
  /\ life' = [life EXCEPT ![c] = "off"]
  /\ inFlight' = [inFlight EXCEPT ![c] = <<>>]
  /\ shown' = [shown EXCEPT ![c] = <<>>]
  /\ texture' = [texture EXCEPT ![c] = FALSE]
  /\ first' = [first EXCEPT ![c] = 0]
  /\ latest' = [latest EXCEPT ![c] = 0]
  /\ gap' = [gap EXCEPT ![c] = FALSE]
  /\ torn' = torn \ {c}
  /\ UNCHANGED <<renderVars, sRerender, vectorVars, hello, countVars>>

-----------------------------------------------------------------------------
Init ==
  /\ drawn = <<>>
  /\ sPrevDrawListHashes = [i \in 1 .. MaxLists |-> NoHash]
  /\ lastDrawDataHash = CalcDrawDataHash(<<>>)
  /\ sRerender = TRUE
  /\ frames = <<>>
  /\ renderPc = "frame"
  /\ receiver = {}
  /\ cursor = 1
  /\ loopEnd = 0
  /\ memory = <<>>
  /\ size = 0
  /\ freed = <<>>
  /\ life = [c \in Client |-> "new"]
  /\ hello = [c \in Client |-> FALSE]
  /\ inFlight = [c \in Client |-> <<>>]
  /\ shown = [c \in Client |-> <<>>]
  /\ texture = [c \in Client |-> FALSE]
  /\ first = [c \in Client |-> 0]
  /\ latest = [c \in Client |-> 0]
  /\ gap = [c \in Client |-> FALSE]
  /\ torn = {}
  /\ raced = FALSE
  /\ changes = 0
  /\ inputs = 0
  /\ erased = 0

Render ==
  \/ NewFrame
  \/ TestRerender
  \/ PackImDrawData
  \/ StartIterating
  \/ SendHeader
  \/ SendDrawData
  \/ DrawDataSent
  \/ SendFontHeader
  \/ SendFontTexture
  \/ FontTextureSent
  \/ SetHasSentFontTexture
  \/ FinishFrame

Run == Join \/ HandleHello \/ HandleInput \/ Erase

Receive(c) == ReceiveDrawData(c) \/ ReceiveFontTexture(c) \/ ReceiveGarbage(c)

Next == Render \/ Run \/ \E c \in Client : Receive(c) \/ Quit(c)

Spec == Init /\ [][Next]_vars

-----------------------------------------------------------------------------
(* Properties. *)

\* Type correctness of what the two threads share, of the packets and of the clients.
TypeOK ==
  /\ drawn \in Pictures \cup {<<>>}
  /\ sPrevDrawListHashes \in [1 .. MaxLists -> SUBSET Buffer]
  /\ lastDrawDataHash \in [Buffer -> Nat]
  /\ sRerender \in BOOLEAN
  /\ frames \in Seq(Frame)
  /\ renderPc \in {"frame", "test", "pack", "iterate",
                  "send", "data", "room", "font", "pixels", "fontRoom", "sent"}
  /\ receiver \in SUBSET Client
  /\ cursor \in Nat
  /\ loopEnd \in Nat
  /\ memory \in Seq(Slots)
  /\ size \in 0 .. Len(memory)
  /\ freed \in Seq(Slots)
  /\ life \in [Client -> {"new", "on", "off"}]
  /\ hello \in [Client -> BOOLEAN]
  /\ inFlight \in [Client -> Seq(0 .. Len(frames))]
  /\ shown \in [Client -> Seq(Content \cup {Blank, Garbage})]
  /\ texture \in [Client -> BOOLEAN]
  /\ first \in [Client -> 0 .. Len(frames)]
  /\ latest \in [Client -> 0 .. Len(frames)]
  /\ gap \in [Client -> BOOLEAN]
  /\ torn \in SUBSET Client
  /\ raced \in BOOLEAN
  /\ changes \in Nat
  /\ inputs \in Nat
  /\ erased \in Nat

\* The client got every frame since its first, each in one piece.
Whole(c) == latest[c] # 0 /\ ~gap[c] /\ c \notin torn

\* The delta is computed against what was packed last, not against what a client
\* has.  Still a client that missed no frame since its first never shows an outdated
\* list: what stands at a position is what the server drew there, or nothing.
NeverStale ==
  \A c \in Client :
    Whole(c) =>
      /\ DOMAIN shown[c] = DOMAIN frames[latest[c]].picture
      /\ \A i \in DOMAIN shown[c] : shown[c][i] \in {frames[latest[c]].picture[i], Blank}

\* And nothing stands there only if the list was never packed in full since the client
\* came, or the picture has been too short for it since then.
BlankIsExplained ==
  \A c \in Client : Whole(c) =>
    \A i \in DOMAIN shown[c] : shown[c][i] = Blank =>
      \A j \in first[c] .. latest[c] :
        \/ i \notin DOMAIN frames[j].lists
        \/ frames[j].lists[i] = Unchanged
        \/ \E k \in j .. latest[c] : i \notin DOMAIN frames[k].lists

\* iterateClients goes through the vector while the server thread adds to it: nobody
\* misses a frame by that, or gets one in pieces that do not belong together, only by a
\* client being erased under the loop.
GapNeedsRace == (\E c \in Client : gap[c] \/ c \in torn) => raced

\* loadFontTextureRGBA32 uses the ImGui backend, which the first picture creates: the
\* texture never comes before it, unless a client was erased under the loop.
FontNeedsWindow == \A c \in Client : texture[c] => latest[c] # 0 \/ raced

\* render() sends nothing if no hash changed.  What it leaves unsent is at most an exchange
\* of buffers: there are as many lists as in the picture sent last, with the same vertices,
\* the same indices and the same commands, in another order or in other lists.
SameBuffers(p, q, part) ==
  \E f \in [DOMAIN p -> DOMAIN q] :
    /\ \A i, j \in DOMAIN p : f[i] = f[j] => i = j
    /\ \A i \in DOMAIN p : p[i][part] = q[f[i]][part]

SkipsOnlyExchanges ==
  renderPc = "frame" /\ frames # <<>> =>
    LET sent == frames[Len(frames)].picture
    IN  DOMAIN drawn = DOMAIN sent /\ \A part \in Part : SameBuffers(drawn, sent, part)

\* The vector that render() goes through is changed by what the server thread does to it
\* (ServerLoop), and by nothing else.
ListedClients == [k \in 1 .. size |-> memory[k].client]

TheVector == INSTANCE ClientVector WITH listed <- ListedClients

VectorIsKept == TheVector!VecSpec
=============================================================================
