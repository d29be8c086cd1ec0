------------------------------ MODULE DrawList ------------------------------
(***************************************************************************)
(* What becomes of the coordinates and the texture of a draw list on its   *)
(* way to a desktop client.                                                *)
(*                                                                         *)
(* The sysmodule lays a picture out for io.DisplaySize, and divides the    *)
(* coordinates by io.DisplaySize when it packs them; in between, the       *)
(* server thread may have written another size there.  A client multiplies *)
(* them by its own io.DisplaySize, which is that of its window, and a list *)
(* that has not changed keeps the result, and the texture it was given.    *)
(* All this survives a reconnection: it is in static variables, and so is  *)
(* the size the client sent last.                                          *)
(*                                                                         *)
(* DrawMirror has the threads and the vector of clients in detail.  Here   *)
(* is one client; the others are the environment, which resizes the        *)
(* picture and asks for it.  A picture always has the same number of       *)
(* lists, and a list is its body and its right edge, at which a vertex and *)
(* a clip rectangle end: it fills the display.  ImGui clips every window   *)
(* to the display, so the size is part of every list's hash.               *)
(***************************************************************************)
EXTENDS Integers, Sequences

CONSTANTS
  Body,         \* what a list may contain besides its edge
  NumLists,     \* lists in a picture
  Size,         \* widths of a display
  DefaultSize,  \* 1280: of the sysmodule when it starts, and of a new window
  PosBound,     \* sBoundPos and sBoundClip: 4095, the largest number of 12 bits
  Nothing,      \* in the place of a list: no hash yet, three zeros, nothing to show
  FontTexture,  \* the packet
  SocketCap,    \* packets a connection holds in each direction
  MaxChanges,   \* bound: times a list changes
  MaxResizes,   \* bound: times some client resizes its window
  MaxLost       \* bound: connections lost, and restarts of the sysmodule

NoSize == -1    \* ImGuiIO's initial DisplaySize
Hello == 0

ASSUME DrawListAssumption ==
  /\ NumLists \in Nat \ {0}
  /\ PosBound \in Nat
  /\ Size \subseteq 1 .. PosBound
  /\ DefaultSize \in Size
  /\ SocketCap \in Nat \ {0, 1}
  /\ MaxChanges \in Nat
  /\ MaxResizes \in Nat
  /\ MaxLost \in Nat

VARIABLES
  (* the sysmodule *)
  displaySize,
  drawn,             \* the picture: a sequence of lists
  sPrevDrawListHashes,
  lastDrawDataHash,
  sRerender,
  renderPc,          \* "frame", "test" or "pack"
  written,           \* the lists packed so far
  (* the connection *)
  link,              \* "down" or "up"
  fontSent,          \* mHasSentFontTexture
  toServer, toClient,
  (* the client *)
  size,              \* io.DisplaySize, and sLastDisplaySize once it is a size
  texID,             \* Fonts->TexID is set
  shown,             \* sDrawDataPrev: per position what is drawn there
  (* history *)
  first,             \* no picture was unpacked on this connection yet
  latest,            \* the picture unpacked last, as it was drawn
  missed,            \* lists packed in full that did not arrive
  used, reused,      \* sizes that were in use; those that came into use again
  changes, resizes, lost  \* counts, for the bounds

renderVars == <<drawn, sPrevDrawListHashes, lastDrawDataHash, renderPc, written>>
linkVars == <<link, fontSent, toServer, toClient>>
clientVars == <<size, texID, shown>>
unpackVars == <<first, latest, missed>>
sizeVars == <<used, reused>>
countVars == <<changes, resizes, lost>>
vars == <<displaySize, sRerender, renderVars, linkVars, clientVars, unpackVars, sizeVars,
          countVars>>

Position == 1 .. NumLists
Lists == [body : Body, edge : Size]
Pictures == [Position -> Lists]

\* Lists as they are packed and as they are shown, and the packet they are in.
Packed == [list : Lists, pos : 0 .. PosBound, clip : 0 .. PosBound]
Shown == [list : Lists, pos : -1 .. PosBound, clip : -1 .. PosBound,
          textureId : BOOLEAN, inFirst : BOOLEAN]
DrawData == [picture : Pictures, lists : [Position -> Packed \cup {Nothing}]]

ASSUME DistinctAssumption ==
  /\ Nothing \notin Lists /\ Nothing \notin Packed /\ Nothing \notin Shown
  /\ FontTexture \notin DrawData

-----------------------------------------------------------------------------
(* Conversions *)

Smaller(a, b) == IF a < b THEN a ELSE b

\* packImDrawData: a vertex is clamped, a clip rectangle loses all but its low 12 bits.
PackPos(x, width) == (Smaller(x, width) * PosBound) \div width
PackClip(x, width) == ((x * PosBound) \div width) % (PosBound + 1)

PackList(list, width) ==
  [list |-> list, pos |-> PackPos(list.edge, width), clip |-> PackClip(list.edge, width)]

\* unpackDrawData, in whole pixels.
Unpack(x, width) == (x * width) \div PosBound

UnpackList(packed) ==
  [list |-> packed.list, pos |-> Unpack(packed.pos, size), clip |-> Unpack(packed.clip, size),
   textureId |-> texID, inFirst |-> first]

-----------------------------------------------------------------------------
(* The render thread of the sysmodule *)

\* NewFrame .. Render: the picture is laid out for the size there is now.
LaidOut(picture) == [i \in Position |-> [picture[i] EXCEPT !.edge = displaySize]]

NewFrame ==
  /\ renderPc = "frame"
  /\ \/ drawn' = LaidOut(drawn) /\ UNCHANGED changes
     \/ /\ changes < MaxChanges
        /\ \E i \in Position : \E b \in Body \ {drawn[i].body} :
             drawn' = LaidOut([drawn EXCEPT ![i].body = b])
        /\ changes' = changes + 1
  /\ renderPc' = "test"
  /\ UNCHANGED <<displaySize, sRerender, sPrevDrawListHashes, lastDrawDataHash, written, linkVars,
                 clientVars, unpackVars, sizeVars, resizes, lost>>

TestRerender ==
  /\ renderPc = "test"
  /\ renderPc' = IF sRerender \/ lastDrawDataHash # drawn THEN "pack" ELSE "frame"
  /\ UNCHANGED <<displaySize, sRerender, drawn, sPrevDrawListHashes, lastDrawDataHash, written,
                 linkVars, clientVars, unpackVars, sizeVars, countVars>>

SameBodies(i) ==
  sPrevDrawListHashes[i] # Nothing /\ drawn[i].body = sPrevDrawListHashes[i].body
SameHash(i) == drawn[i] = sPrevDrawListHashes[i]

\* sRerender is cleared, and packImDrawData takes one list after the other.  Its
\* displaySize is a reference to what the server thread writes.
PackNext ==
  LET i == Len(written) + 1
  IN  /\ renderPc = "pack"
      /\ i <= NumLists
      /\ sRerender' = (sRerender /\ i # 1)
      /\ written' = Append(written, IF SameHash(i)
                                    THEN Nothing ELSE PackList(drawn[i], displaySize))
      /\ sPrevDrawListHashes' = [sPrevDrawListHashes EXCEPT ![i] = drawn[i]]
  /\ UNCHANGED <<displaySize, drawn, lastDrawDataHash, renderPc, linkVars, clientVars, unpackVars,
                 sizeVars, countVars>>

Full(lists) == {i \in Position : lists[i] # Nothing}

PictureOnly == <<[picture |-> drawn, lists |-> written]>>
\* The picture, and after the first one the font texture.
Packets ==
  <<[picture |-> drawn, lists |-> written]>>
    \o (IF fontSent THEN <<>> ELSE <<FontTexture>>)

SendDrawData ==
  /\ renderPc = "pack"
  /\ Len(written) = NumLists
  /\ IF link = "up"
     THEN /\ Len(toClient \o Packets) <= SocketCap
          /\ toClient' = toClient \o Packets
          /\ fontSent' = TRUE
          /\ UNCHANGED missed
     ELSE /\ missed' = missed \cup Full(written)
          /\ UNCHANGED <<toClient, fontSent>>
  /\ lastDrawDataHash' = drawn
  /\ written' = <<>>
  /\ renderPc' = "frame"
  /\ UNCHANGED <<displaySize, sRerender, drawn, sPrevDrawListHashes, link, toServer, clientVars,
                 first, latest, sizeVars, countVars>>

-----------------------------------------------------------------------------
(* The server thread *)

\* handlePacket: Hello, UpdateDisplaySize.
HandlePacket ==
  /\ toServer # <<>>
  /\ toServer' = Tail(toServer)
  /\ displaySize' = IF Head(toServer) = Hello THEN displaySize ELSE Head(toServer)
  /\ sRerender' = TRUE
  /\ UNCHANGED <<renderVars, link, fontSent, toClient, clientVars, unpackVars, sizeVars,
                 countVars>>

Use(s) == used' = used \cup {s} /\ reused' = reused \cup ({s} \cap used)

\* The same packets from another client.
HandleOthers ==
  /\ resizes < MaxResizes
  /\ resizes' = resizes + 1
  /\ \E s \in Size : displaySize' = s /\ Use(s)
  /\ sRerender' = TRUE
  /\ UNCHANGED <<renderVars, linkVars, clientVars, unpackVars, changes, lost>>

-----------------------------------------------------------------------------
(* The client *)

\* start(), accepted at once.
Connect ==
  /\ link = "down"
  /\ link' = "up"
  /\ fontSent' = FALSE
  /\ toServer' = <<Hello>>
  /\ first' = TRUE
  /\ UNCHANGED <<displaySize, sRerender, renderVars, toClient, clientVars, latest, missed,
                 sizeVars, countVars>>

\* The first picture opens the window.
HasWindow == latest # <<>>

\* updateNetworkInput: the size of the window is taken over, and sent if it is another.
UpdateSize ==
  /\ HasWindow
  /\ link = "up"
  /\ Len(toServer) < SocketCap
  /\ \E s \in Size \ {size} :
       /\ \/ size = NoSize /\ s = DefaultSize /\ UNCHANGED resizes
          \/ resizes < MaxResizes /\ resizes' = resizes + 1
       /\ size' = s
       /\ toServer' = Append(toServer, s)
       /\ Use(s)
  /\ UNCHANGED <<displaySize, sRerender, renderVars, link, fontSent, toClient, texID, shown,
                 unpackVars, changes, lost>>

\* Three zeros stand for the list kept from before.
UnpackDrawData(lists) ==
  [i \in Position |-> IF lists[i] = Nothing THEN shown[i] ELSE UnpackList(lists[i])]

ReceiveDrawData ==
  /\ toClient # <<>>
  /\ Head(toClient) # FontTexture
  /\ shown' = UnpackDrawData(Head(toClient).lists)
  /\ latest' = Head(toClient).picture
  /\ missed' = missed \ Full(Head(toClient).lists)
  /\ first' = FALSE
  /\ toClient' = Tail(toClient)
  /\ UNCHANGED <<displaySize, sRerender, renderVars, link, fontSent, toServer, size, texID,
                 sizeVars, countVars>>

\* loadFontTextureRGBA32
ReceiveFontTexture ==
  /\ toClient # <<>>
  /\ Head(toClient) = FontTexture
  /\ texID' = TRUE
  /\ toClient' = Tail(toClient)
  /\ UNCHANGED <<displaySize, sRerender, renderVars, link, fontSent, toServer, size, shown,
                 unpackVars, sizeVars, countVars>>

-----------------------------------------------------------------------------
(* Connections that end *)

CutLink ==
  /\ lost < MaxLost
  /\ lost' = lost + 1
  /\ link' = "down"
  /\ toServer' = <<>>
  /\ toClient' = <<>>
  /\ missed' = missed \cup UNION {Full(toClient[k].lists) :
                                    k \in {j \in DOMAIN toClient : toClient[j] # FontTexture}}
  /\ UNCHANGED <<drawn, fontSent, clientVars, first, latest, sizeVars, changes, resizes>>

\* The network fails: recv() does, and the client sets State_NoSocket.
LoseLink ==
  /\ link = "up"
  /\ CutLink
  /\ UNCHANGED <<displaySize, sRerender, sPrevDrawListHashes, lastDrawDataHash, renderPc, written>>

\* The sysmodule ends and is started again.
Restart ==
  /\ CutLink
  /\ displaySize' = DefaultSize
  /\ sPrevDrawListHashes' = [i \in Position |-> Nothing]
  /\ lastDrawDataHash' = Nothing
  /\ sRerender' = TRUE
  /\ renderPc' = "frame"
  /\ written' = <<>>

-----------------------------------------------------------------------------
Init ==
  /\ displaySize = DefaultSize
  /\ \E b \in Body : drawn = [i \in Position |-> [body |-> b, edge |-> DefaultSize]]
  /\ sPrevDrawListHashes = [i \in Position |-> Nothing]
  /\ lastDrawDataHash = Nothing
  /\ sRerender = TRUE
  /\ renderPc = "frame"
  /\ written = <<>>
  /\ link = "down"
  /\ fontSent = FALSE
  /\ toServer = <<>>
  /\ toClient = <<>>
  /\ size = NoSize
  /\ texID = FALSE
  /\ shown = [i \in Position |-> Nothing]
  /\ first = TRUE
  /\ latest = <<>>
  /\ missed = {}
  /\ used = {DefaultSize}
  /\ reused = {}
  /\ changes = 0
  /\ resizes = 0
  /\ lost = 0

Next ==
  \/ NewFrame \/ TestRerender \/ PackNext \/ SendDrawData
  \/ HandlePacket \/ HandleOthers
  \/ Connect \/ UpdateSize \/ ReceiveDrawData \/ ReceiveFontTexture
  \/ LoseLink \/ Restart

Spec == Init /\ [][Next]_vars

-----------------------------------------------------------------------------
(* Properties *)

\* Types; in particular a packed coordinate fits its 12 bits.
TypeOK ==
  /\ displaySize \in Size
  /\ drawn \in Pictures
  /\ sPrevDrawListHashes \in [Position -> Lists \cup {Nothing}]
  /\ lastDrawDataHash \in Pictures \cup {Nothing}
  /\ sRerender \in BOOLEAN
  /\ renderPc \in {"frame", "test", "pack"}
  /\ written \in Seq(Packed \cup {Nothing}) /\ Len(written) <= NumLists
  /\ link \in {"down", "up"}
  /\ fontSent \in BOOLEAN
  /\ toServer \in Seq(Size \cup {Hello})
  /\ toClient \in Seq(DrawData \cup {FontTexture})
  /\ size \in Size \cup {NoSize}
  /\ texID \in BOOLEAN
  /\ shown \in [Position -> Shown \cup {Nothing}]
  /\ first \in BOOLEAN
  /\ latest \in Pictures \cup {<<>>}
  /\ missed \subseteq Position
  /\ used \subseteq Size
  /\ reused \subseteq used

\* The picture is laid out for the size of the client's window, and the client has
\* received all there is.
Settled ==
  /\ link = "up"
  /\ toServer = <<>> /\ toClient = <<>>
  /\ renderPc = "frame" /\ ~sRerender
  /\ drawn = LaidOut(drawn) /\ lastDrawDataHash = drawn
  /\ displaySize = size

\* The size may change between layout and packing, and between packing and unpacking.
\* What comes of it is put right by the lists laid out for the new size, as they all
\* change; only not if the size is one that was in use before, whose lists may be known.
SettledIsExact ==
  Settled /\ size \notin reused =>
    \A i \in Position \ missed :
      shown[i] = Nothing \/ (shown[i].pos = size /\ shown[i].clip = size)

\* sDrawDataPrev outlives a connection.  What the client shows is outdated only if the
\* list was sent in full while it was away, or on a connection that was lost.
StaleIsExplained ==
  \A i \in Position :
    latest # <<>> /\ shown[i] # Nothing /\ shown[i].list # latest[i] => i \in missed

\* The texture follows the first picture.  A list without one was in that picture, and
\* has not changed since.
TextureIsExplained ==
  \A i \in Position : shown[i] # Nothing /\ ~shown[i].textureId => shown[i].inFirst
=============================================================================
