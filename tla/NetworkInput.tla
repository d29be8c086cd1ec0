---------------------------- MODULE NetworkInput ----------------------------
(***************************************************************************)
(* Input and clipboard: updateNetworkInput and the GLFW callbacks of the   *)
(* desktop clients, Client::handlePacket of the sysmodule, and the         *)
(* clipboard functions it gives to ImGui.                                  *)
(*                                                                         *)
(* The sysmodule has one ImGuiIO and one clipboard string for all clients, *)
(* every client the clipboard of its desktop.  A text copied on a desktop  *)
(* is found by polling.  A text copied in the sysmodule's own windows goes *)
(* to the clients only: it can be pasted there once a client has put it on *)
(* its desktop, found it there, and sent it back.                          *)
(*                                                                         *)
(* Of the mouse there is one button and whether the cursor is over the     *)
(* picture, of the keyboard one key.  A text is the number of its copying. *)
(***************************************************************************)
EXTENDS Naturals, Sequences

CONSTANTS
  Client,
  SocketCap,  \* packets a connection holds in each direction
  MaxCopies,  \* bound: texts copied
  MaxEvents   \* bound: buttons and keys pressed or released, the cursor crossing the edge

NoHash == 0
Input == {"button", "key"}
Sysmodule == "sysmodule"

ASSUME InputAssumption ==
  /\ SocketCap \in Nat \ {0}
  /\ MaxCopies \in Nat
  /\ MaxEvents \in Nat
  /\ Sysmodule \notin Client

VARIABLES
  on,         \* the client runs and has a window
  inside,     \* its cursor is over the picture
  down,       \* what its user holds down
  desktop,    \* the text on its desktop's clipboard
  sLastClipboardStringHash,
  toServer, toClient,
  held,       \* what ImGui takes for held down
  sCurClipboardString,
  (* history *)
  copies,     \* what was copied where: a clipboard holds a position in this sequence
  unreleased, \* inputs whose release was not sent
  ended,      \* some client has ended
  events      \* count, for the bound

desktopVars == <<desktop, sLastClipboardStringHash>>
serverVars == <<held, sCurClipboardString>>
vars == <<on, inside, down, desktopVars, toServer, toClient, serverVars, copies, unreleased,
          ended, events>>

\* A long text needs more than 512 bytes.  If something else is on the clipboard,
\* glfwGetClipboardString returns nullptr.
Kind == {"text", "long", "other"}
Newest == Len(copies)
IsKind(kind, n) == n # NoHash /\ copies[n].kind = kind

Send(c, packet) ==
  /\ Len(toServer[c]) < SocketCap
  /\ toServer' = [toServer EXCEPT ![c] = Append(@, packet)]

-----------------------------------------------------------------------------
(* A client: the mouse and the keyboard *)

Count == events < MaxEvents /\ events' = events + 1

CrossEdge(c) ==
  /\ on[c]
  /\ Count
  /\ inside' = [inside EXCEPT ![c] = ~@]
  /\ UNCHANGED <<on, down, desktopVars, toServer, toClient, serverVars, copies, unreleased, ended>>

SentIfInside(c, input) == inside[c]    \* mutant
\* sendMouseEvent returns early if the cursor is not over the picture; sendKeyEvent does not.
IsSent(c, input) == input = "key" \/ inside[c]

\* mouseButtonCallback, keyCallback.
PressOrRelease(c, input) ==
  LET pressed == ~down[c][input]
      sent == input = "key" \/ inside[c]
  IN  /\ on[c]
      /\ Count
      /\ down' = [down EXCEPT ![c][input] = pressed]
      /\ IF IsSent(c, input)
         THEN Send(c, [type |-> input, pressed |-> pressed])
         ELSE UNCHANGED toServer
      /\ unreleased' = IF pressed \/ sent THEN unreleased ELSE unreleased \cup {input}
      /\ UNCHANGED <<on, inside, desktopVars, toClient, serverVars, copies, ended>>

\* The client ends: closed by its user, or crashed.
End(c) ==
  /\ on' = [on EXCEPT ![c] = FALSE]
  /\ toClient' = [toClient EXCEPT ![c] = <<>>]
  /\ unreleased' = unreleased \cup {input \in Input : down[c][input]}
  /\ ended' = TRUE
  /\ down' = [down EXCEPT ![c] = [input \in Input |-> FALSE]]

Quit(c) ==
  /\ on[c]
  /\ End(c)
  /\ UNCHANGED <<inside, desktopVars, toServer, serverVars, copies, events>>

-----------------------------------------------------------------------------
(* A client: the clipboard *)

Copy(where, kind) ==
  /\ Newest < MaxCopies
  /\ copies' = Append(copies, [where |-> where, kind |-> kind])

\* The user copies something in some program of the desktop.
CopyOnDesktop(c) ==
  /\ on[c]
  /\ \E kind \in Kind : Copy(c, kind)
  /\ desktop' = [desktop EXCEPT ![c] = Newest + 1]
  /\ UNCHANGED <<on, inside, down, sLastClipboardStringHash, toServer, toClient, serverVars,
                 unreleased, ended, events>>

Hash(c) == IF IsKind("other", desktop[c]) THEN NoHash ELSE desktop[c]

\* updateNetworkInput finds another text.  One that is too long is not sent, ever.
PollClipboard(c) ==
  /\ on[c]
  /\ ~IsKind("other", desktop[c])
  /\ Hash(c) # sLastClipboardStringHash[c]
  /\ IF IsKind("long", desktop[c])
     THEN UNCHANGED toServer
     ELSE Send(c, [type |-> "clipboard", text |-> desktop[c]])
  /\ sLastClipboardStringHash' = [sLastClipboardStringHash EXCEPT ![c] = Hash(c)]
  /\ UNCHANGED <<on, inside, down, desktop, toClient, serverVars, copies, unreleased, ended,
                 events>>

\* It finds none where there was one: strlen(nullptr).
PollNoText(c) ==
  /\ on[c]
  /\ IsKind("other", desktop[c])
  /\ Hash(c) # sLastClipboardStringHash[c]
  /\ End(c)
  /\ UNCHANGED <<inside, desktopVars, toServer, serverVars, copies, events>>

\* mutant: and is not sent back
ReceiveTextQuietly(c) ==
  /\ toClient[c] # <<>>
  /\ desktop' = [desktop EXCEPT ![c] = Head(toClient[c])]
  /\ sLastClipboardStringHash' = [sLastClipboardStringHash EXCEPT ![c] = Head(toClient[c])]
  /\ toClient' = [toClient EXCEPT ![c] = Tail(@)]
  /\ UNCHANGED <<on, inside, down, toServer, serverVars, copies, unreleased, ended, events>>

\* handlePacket: SetClipboardText.
ReceiveText(c) ==
  /\ toClient[c] # <<>>
  /\ desktop' = [desktop EXCEPT ![c] = Head(toClient[c])]
  /\ toClient' = [toClient EXCEPT ![c] = Tail(@)]
  /\ UNCHANGED <<on, inside, down, sLastClipboardStringHash, toServer, serverVars, copies,
                 unreleased, ended, events>>

-----------------------------------------------------------------------------
(* The sysmodule *)

\* Platform_SetClipboardTextFn: to every client, whatever its length.
CopyInSysmodule ==
  /\ \E c \in Client : on[c]
  /\ \E kind \in {"text", "long"} : Copy(Sysmodule, kind)
  /\ \A c \in Client : on[c] => Len(toClient[c]) < SocketCap
  /\ toClient' = [c \in Client |->
                    IF on[c] THEN Append(toClient[c], Newest + 1) ELSE toClient[c]]
  /\ UNCHANGED <<on, inside, down, desktopVars, toServer, serverVars, unreleased, ended, events>>

\* handlePacket: UpdateMouse, UpdateKey, SetClipboardText.
HandlePacket(c) ==
  /\ toServer[c] # <<>>
  /\ LET packet == Head(toServer[c])
     IN  IF packet.type = "clipboard"
         THEN /\ sCurClipboardString' = packet.text
              /\ UNCHANGED held
         ELSE /\ held' = [held EXCEPT ![packet.type] = packet.pressed]
              /\ UNCHANGED sCurClipboardString
  /\ toServer' = [toServer EXCEPT ![c] = Tail(@)]
  /\ UNCHANGED <<on, inside, down, desktopVars, toClient, copies, unreleased, ended, events>>

-----------------------------------------------------------------------------
Init ==
  /\ on = [c \in Client |-> TRUE]
  /\ inside \in [Client -> BOOLEAN]
  /\ down = [c \in Client |-> [input \in Input |-> FALSE]]
  /\ desktop = [c \in Client |-> NoHash]
  /\ sLastClipboardStringHash = [c \in Client |-> NoHash]
  /\ toServer = [c \in Client |-> <<>>]
  /\ toClient = [c \in Client |-> <<>>]
  /\ held = [input \in Input |-> FALSE]
  /\ sCurClipboardString = NoHash
  /\ copies = <<>>
  /\ unreleased = {}
  /\ ended = FALSE
  /\ events = 0

Next ==
  \/ CopyInSysmodule
  \/ \E c \in Client :
       \/ CrossEdge(c) \/ Quit(c) \/ CopyOnDesktop(c) \/ PollClipboard(c) \/ PollNoText(c)
       \/ ReceiveText(c) \/ HandlePacket(c)
       \/ \E input \in Input : PressOrRelease(c, input)

Spec == Init /\ [][Next]_vars

-----------------------------------------------------------------------------
(* Properties *)

Packet == [type : Input, pressed : BOOLEAN] \cup [type : {"clipboard"}, text : 1 .. Newest]

TypeOK ==
  /\ on \in [Client -> BOOLEAN]
  /\ inside \in [Client -> BOOLEAN]
  /\ down \in [Client -> [Input -> BOOLEAN]]
  /\ desktop \in [Client -> 0 .. Newest]
  /\ sLastClipboardStringHash \in [Client -> 0 .. Newest]
  /\ toServer \in [Client -> Seq(Packet)]
  /\ \A c \in Client : Len(toServer[c]) <= SocketCap
  /\ toClient \in [Client -> Seq(1 .. Newest)]
  /\ held \in [Input -> BOOLEAN]
  /\ sCurClipboardString \in 0 .. Newest
  /\ copies \in Seq([where : Client \cup {Sysmodule}, kind : Kind])
  /\ unreleased \subseteq Input
  /\ ended \in BOOLEAN
  /\ events \in 0 .. MaxEvents

Settled ==
  \A c \in Client :
    /\ toServer[c] = <<>> /\ toClient[c] = <<>>
    /\ on[c] => Hash(c) = sLastClipboardStringHash[c]

\* The sysmodule takes nothing for held that nobody holds, unless the button was released
\* outside of the picture, or a client ended while its user held it.
HeldIsExplained ==
  Settled =>
    \A input \in Input :
      held[input] => input \in unreleased \/ \E c \in Client : down[c][input]

Elsewhere(n) == n # NoHash /\ copies[n].where # copies[Newest].where

\* What was copied last is what is pasted in the sysmodule in the end.  If it was copied
\* there, it comes back from every client, after all that client sent before.  If it was
\* copied on a desktop, only a text copied elsewhere can replace it: one that arrives
\* later, or one that comes to that desktop before the client has looked.
LastCopyWins ==
  Settled /\ ~ended /\ IsKind("text", Newest) =>
    \/ sCurClipboardString = Newest
    \/ /\ copies[Newest].where \in Client
       /\ Elsewhere(sCurClipboardString) \/ Elsewhere(desktop[copies[Newest].where])
=============================================================================
