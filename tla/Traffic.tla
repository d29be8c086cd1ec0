------------------------------- MODULE Traffic -------------------------------
(***************************************************************************)
(* Who waits for whom.  Several desktop clients and the two threads of the *)
(* sysmodule, all of which send and receive with blocking calls:           *)
(*                                                                         *)
(*  - the server thread reads from one client after the other, and waits   *)
(*    for each of them;                                                    *)
(*  - the render thread sends a picture to one client after the other;     *)
(*  - a client sends what it has to send, and then waits for a picture.    *)
(*                                                                         *)
(* A picture is one packet here, and of the client's packets Hello and     *)
(* Mouse ask for a new one while Alive does not.  Nobody is erased: that   *)
(* needs a recv() to return first.  ServerLoop has erasures, ClientLink    *)
(* the times, DrawMirror the vector under the render thread.               *)
(***************************************************************************)
EXTENDS Naturals, Sequences

CONSTANTS
  Client,
  SocketCap,  \* packets a connection holds in each direction
  BufferCap,  \* pictures the mBuffer of a client holds
  InboxCap    \* packets the mBuffer of the server holds

ASSUME TrafficAssumption ==
  /\ SocketCap \in Nat \ {0}
  /\ BufferCap \in Nat \ {0}
  /\ InboxCap \in Nat \ {0}

VARIABLES
  (* the clients *)
  cpc,        \* "off", "send" or "recv"
  outbox,     \* what this round of run() still has to send
  buffered,   \* pictures in mBuffer
  window,     \* a picture was shown: there is input
  (* the connections *)
  toServer, toClient,
  (* the sysmodule *)
  backlog,    \* clients not accepted yet
  mClients,
  inbox,      \* per client, its mBuffer there
  spc,        \* server thread: "select", "visit" or "recv"
  turn,       \* the position of the client it visits
  sRerender,
  changed,    \* the picture differs from the last one that was sent
  rpc,        \* render thread: "test", "clear" or "send"
  receivers,  \* the clients iterateClients has still to call its function for
  asked       \* history: clients whose Hello was handled, and who had no picture since

clientVars == <<cpc, outbox, buffered, window>>
wireVars == <<toServer, toClient>>
serverVars == <<backlog, mClients, inbox, spc, turn>>
renderVars == <<changed, rpc, receivers>>
vars == <<clientVars, wireVars, serverVars, renderVars, sRerender, asked>>

Kind == {"Hello", "Alive", "Mouse"}
Visited == mClients[turn]

-----------------------------------------------------------------------------
(* The clients: Client::start and run *)

\* connect() needs no accept().
Start(c) ==
  /\ cpc[c] = "off"
  /\ backlog' = Append(backlog, c)
  /\ cpc' = [cpc EXCEPT ![c] = "send"]
  /\ outbox' = [outbox EXCEPT ![c] = <<"Hello">>]
  /\ UNCHANGED <<buffered, window, wireVars, mClients, inbox, spc, turn, renderVars, sRerender,
                 asked>>

SendPacket(c) ==
  /\ cpc[c] = "send"
  /\ outbox[c] # <<>>
  /\ Len(toServer[c]) < SocketCap
  /\ toServer' = [toServer EXCEPT ![c] = Append(@, Head(outbox[c]))]
  /\ outbox' = [outbox EXCEPT ![c] = Tail(@)]
  /\ UNCHANGED <<cpc, buffered, window, toClient, serverVars, renderVars, sRerender, asked>>

NotRemoved(n) == n
Removed(n) == IF n = 0 THEN 0 ELSE n - 1

\* handlePacket, if mBuffer holds a picture.  Then the loop waits for more.
HandlePicture(c) ==
  /\ cpc[c] = "send"
  /\ outbox[c] = <<>>
  /\ buffered' = [buffered EXCEPT ![c] = Removed(@)]
  /\ window' = [window EXCEPT ![c] = @ \/ buffered[c] # 0]
  /\ cpc' = [cpc EXCEPT ![c] = "recv"]
  /\ UNCHANGED <<outbox, wireVars, serverVars, renderVars, sRerender, asked>>

\* What the next round has to send: an Alive if 5 s have passed, the mouse if it moved.
Packets(c) == {<<>>, <<"Alive">>} \cup (IF window[c] THEN {<<"Mouse">>} ELSE {})

RecvPictures(c) ==
  /\ cpc[c] = "recv"
  /\ \E n \in 1 .. toClient[c] :
       /\ buffered[c] + n <= BufferCap
       /\ buffered' = [buffered EXCEPT ![c] = @ + n]
       /\ toClient' = [toClient EXCEPT ![c] = @ - n]
  /\ \E packets \in Packets(c) : outbox' = [outbox EXCEPT ![c] = packets]
  /\ cpc' = [cpc EXCEPT ![c] = "send"]
  /\ UNCHANGED <<window, toServer, serverVars, renderVars, sRerender, asked>>

-----------------------------------------------------------------------------
(* The server thread: Server::run and Client::handleEvent *)

PushFront(list, c) == <<c>> \o list      \* mutant
PushBack(list, c) == Append(list, c)

Select ==
  /\ spc = "select"
  /\ IF backlog # <<>>
     THEN /\ mClients' = PushBack(mClients, Head(backlog))
          /\ backlog' = Tail(backlog)
     ELSE UNCHANGED <<mClients, backlog>>
  /\ mClients' # <<>>
  /\ spc' = "visit"
  /\ turn' = 1
  /\ UNCHANGED <<clientVars, wireVars, inbox, renderVars, sRerender, asked>>

AsksForPicture(kind) == kind \in {"Hello", "Mouse"}

Visit ==
  /\ spc = "visit"
  /\ IF inbox[Visited] = <<>>
     THEN UNCHANGED <<inbox, sRerender, asked>>
     ELSE LET kind == Head(inbox[Visited])
          IN  /\ inbox' = [inbox EXCEPT ![Visited] = Tail(@)]
              /\ sRerender' = (sRerender \/ AsksForPicture(kind))
              /\ asked' = IF kind = "Hello" THEN asked \cup {Visited} ELSE asked
  /\ spc' = "recv"
  /\ UNCHANGED <<clientVars, wireVars, backlog, mClients, turn, renderVars>>

NextTurn ==
  IF turn = Len(mClients)
  THEN spc' = "select" /\ UNCHANGED turn
  ELSE spc' = "visit" /\ turn' = turn + 1

Polled(packets) == 0 .. Len(packets)
Arrived(packets) == 1 .. Len(packets)

\* recv() is called whether or not there is something to read, and blocks until there is.
RecvPackets ==
  /\ spc = "recv"
  /\ \E n \in Arrived(toServer[Visited]) :
       /\ Len(inbox[Visited]) + n <= InboxCap
       /\ inbox' = [inbox EXCEPT ![Visited] = @ \o SubSeq(toServer[Visited], 1, n)]
       /\ toServer' = [toServer EXCEPT ![Visited] = SubSeq(@, n + 1, Len(@))]
  /\ NextTurn
  /\ UNCHANGED <<clientVars, toClient, backlog, mClients, renderVars, sRerender, asked>>

-----------------------------------------------------------------------------
(* The render thread *)

ChangePicture ==
  /\ ~changed
  /\ changed' = TRUE
  /\ UNCHANGED <<clientVars, wireVars, serverVars, rpc, receivers, sRerender, asked>>

TestRerender ==
  /\ rpc = "test"
  /\ mClients # <<>>
  /\ sRerender \/ changed
  /\ rpc' = "clear"
  /\ UNCHANGED <<clientVars, wireVars, serverVars, changed, receivers, sRerender, asked>>

\* What packImDrawData packs now is sent to those who are in the vector now.
StartSending ==
  /\ rpc = "clear"
  /\ sRerender' = FALSE
  /\ changed' = FALSE
  /\ receivers' = mClients
  /\ rpc' = "send"
  /\ UNCHANGED <<clientVars, wireVars, serverVars, asked>>

HasRoom(c) == toClient[c] < SocketCap

ClearedWhenSent(rest) == IF rest = <<>> THEN FALSE ELSE sRerender
KeptWhenSent(rest) == sRerender

SendPicture ==
  /\ rpc = "send"
  /\ LET c == Head(receivers)
     IN  /\ HasRoom(c)
         /\ toClient' = [toClient EXCEPT ![c] = @ + 1]
         /\ asked' = asked \ {c}
  /\ receivers' = Tail(receivers)
  /\ rpc' = IF receivers' = <<>> THEN "test" ELSE "send"
  /\ sRerender' = KeptWhenSent(receivers')
  /\ UNCHANGED <<clientVars, toServer, serverVars, changed>>

-----------------------------------------------------------------------------
Init ==
  /\ cpc = [c \in Client |-> "off"]
  /\ outbox = [c \in Client |-> <<>>]
  /\ buffered = [c \in Client |-> 0]
  /\ window = [c \in Client |-> FALSE]
  /\ toServer = [c \in Client |-> <<>>]
  /\ toClient = [c \in Client |-> 0]
  /\ backlog = <<>>
  /\ mClients = <<>>
  /\ inbox = [c \in Client |-> <<>>]
  /\ spc = "select"
  /\ turn = 1
  /\ sRerender = TRUE
  /\ changed = TRUE
  /\ rpc = "test"
  /\ receivers = <<>>
  /\ asked = {}

ClientStep(c) == SendPacket(c) \/ HandlePicture(c) \/ RecvPictures(c)
ServerStep == Select \/ Visit \/ RecvPackets
RenderStep == TestRerender \/ StartSending \/ SendPicture

Threads == ServerStep \/ RenderStep \/ \E c \in Client : ClientStep(c)

Next == Threads \/ ChangePicture \/ \E c \in Client : Start(c)

Spec == Init /\ [][Next]_vars

\* Every thread runs; nobody need start another client.
FairSpec ==
  /\ Spec
  /\ WF_vars(ServerStep)
  /\ WF_vars(RenderStep)
  /\ \A c \in Client : WF_vars(ClientStep(c))

-----------------------------------------------------------------------------
(* Properties *)

TypeOK ==
  /\ cpc \in [Client -> {"off", "send", "recv"}]
  /\ outbox \in [Client -> Seq(Kind)]
  /\ buffered \in [Client -> 0 .. BufferCap]
  /\ window \in [Client -> BOOLEAN]
  /\ toServer \in [Client -> Seq(Kind)]
  /\ \A c \in Client : Len(toServer[c]) <= SocketCap
  /\ toClient \in [Client -> 0 .. SocketCap]
  /\ backlog \in Seq(Client)
  /\ mClients \in Seq(Client)
  /\ inbox \in [Client -> Seq(Kind)]
  /\ \A c \in Client : Len(inbox[c]) <= InboxCap
  /\ spc \in {"select", "visit", "recv"}
  /\ turn \in Nat /\ (spc # "select" => turn \in 1 .. Len(mClients))
  /\ sRerender \in BOOLEAN
  /\ changed \in BOOLEAN
  /\ rpc \in {"test", "clear", "send"}
  /\ receivers \in Seq(Client)
  /\ rpc = "clear" => mClients # <<>>
  /\ rpc = "send" => receivers # <<>>
  /\ asked \subseteq Client

ServerWaitsFor(c) == spc = "recv" /\ Visited = c /\ toServer[c] = <<>>
RenderWaitsFor(c) == rpc = "send" /\ Head(receivers) = c /\ toClient[c] = SocketCap
WaitsForPicture(c) == cpc[c] = "recv" /\ toClient[c] = 0
WaitsForServer(c) == cpc[c] = "send" /\ outbox[c] # <<>> /\ Len(toServer[c]) = SocketCap

\* Everyone waits for everyone: the server thread for a, a for the render thread, the
\* render thread for b, b for the server thread.
Circle ==
  \E a, b \in Client :
    ServerWaitsFor(a) /\ WaitsForPicture(a) /\ RenderWaitsFor(b) /\ WaitsForServer(b)

Idle == rpc = "test" /\ (mClients = <<>> \/ ~(sRerender \/ changed))

\* What lets each thread go on from where it is.
ServerGoesOn ==
  \/ spc = "select" /\ (backlog # <<>> \/ mClients # <<>>)
  \/ spc = "visit"
  \/ spc = "recv" /\ toServer[Visited] # <<>> /\ Len(inbox[Visited]) < InboxCap

RenderGoesOn ==
  \/ rpc = "test" /\ ~Idle
  \/ rpc = "clear"
  \/ rpc = "send" /\ HasRoom(Head(receivers))

ClientGoesOn(c) ==
  \/ cpc[c] = "send" /\ (outbox[c] # <<>> => Len(toServer[c]) < SocketCap)
  \/ cpc[c] = "recv" /\ toClient[c] > 0 /\ buffered[c] < BufferCap

Standstill == ~(ServerGoesOn \/ RenderGoesOn \/ \E c \in Client : ClientGoesOn(c))

\* If no thread can go on, either there is no picture to send, and who has sent
\* something that is not read waits because of another client that is silent; or it is
\* the circle, and that takes two clients.
StandstillIsExplained ==
  Standstill =>
    \/ Circle
    \/ /\ Idle
       /\ \A c \in Client :
            toServer[c] # <<>> => \E d \in Client \ {c} : ServerWaitsFor(d) /\ WaitsForPicture(d)

\* The circle is for good: the calls have no timeout, and nothing that another client
\* sends, receives or starts, and no change of the picture, lets one of the four go on.
CircleLasts == [][Circle => Circle']_vars

\* The flag is cleared before the picture is packed and before the vector is read: a client
\* whose Hello was handled is yet to be sent to in this round, or there is another round.
HelloIsKept ==
  \A c \in asked : sRerender \/ (rpc = "send" /\ \E k \in DOMAIN receivers : receivers[k] = c)

\* sRerender is set by one thread and cleared by the other with no lock: a Hello that was
\* handled is nevertheless answered with a picture, unless there is the circle.
HelloAnswered == \A c \in Client : c \in asked ~> c \notin asked \/ Circle

\* What a client that asked still has to wait for, in steps of the render thread: the
\* receivers before it; or else the rest of this round, and those before it in the next.
Position(c, seq) == CHOOSE k \in DOMAIN seq : seq[k] = c
IsReceiver(c) == rpc = "send" /\ \E k \in DOMAIN receivers : receivers[k] = c

AnswerLeft(c) ==
  IF IsReceiver(c)
  THEN Position(c, receivers)
  ELSE Position(c, mClients) + (CASE rpc = "clear" -> 1
                                  [] rpc = "test"  -> 2
                                  [] rpc = "send"  -> 2 + Len(receivers))

\* A Hello is never forgotten and nobody who comes later is preferred: each step of the
\* render thread, in this round or the next, brings the answer nearer, and no step of
\* another thread puts it off.
AnswerCountsDown ==
  [][\A c \in asked \cap asked' :
       \/ AnswerLeft(c)' < AnswerLeft(c)
       \/ UNCHANGED <<rpc, receivers, AnswerLeft(c)>>]_vars

\* As long as somebody waits for an answer, the render thread has work to do, and only a
\* full connection holds it up.
AnswerGoesOn ==
  \A c \in asked :
    /\ RenderGoesOn \/ RenderWaitsFor(Head(receivers))
    /\ AnswerLeft(c) \in 1 .. Len(mClients) + Len(receivers) + 2

\* The vector changes as ServerLoop shows: nobody is accepted twice.
TheVector == INSTANCE ClientVector WITH listed <- mClients

VectorIsKept == TheVector!VecSpec
=============================================================================
