------------------------- MODULE NetworkInputProofs -------------------------
(***************************************************************************)
(* Proofs about NetworkInput, for any clients, any number of texts copied, *)
(* and any number of events.                                               *)
(***************************************************************************)
EXTENDS NetworkInput, TLAPS, SequenceTheorems

Release(packet, input) == packet.type = input /\ ~packet.pressed
Press(packet, input) == packet.type = input /\ packet.pressed

\* Behind every press that is on its way, of something its user does not hold down any
\* more, comes its release.
PressesAreFollowed ==
  \A input \in Input \ unreleased : \A c \in Client :
    ~down[c][input] =>
      \A k \in DOMAIN toServer[c] :
        Press(toServer[c][k], input) =>
          \E j \in DOMAIN toServer[c] : k < j /\ Release(toServer[c][j], input)

\* What the sysmodule takes for held is held by somebody, or its release is on its way.
HeldIsBacked ==
  \A input \in Input \ unreleased :
    held[input] =>
      \E c \in Client :
        \/ down[c][input]
        \/ \E k \in DOMAIN toServer[c] : Release(toServer[c][k], input)

\* The clipboard of a desktop does not become empty again.
EmptyUntilCopied == \A c \in Client : desktop[c] = NoHash => sLastClipboardStringHash[c] = NoHash

IInv == TypeOK /\ EmptyUntilCopied /\ PressesAreFollowed /\ HeldIsBacked

USE DEF vars, desktopVars, serverVars

-----------------------------------------------------------------------------
(* Type correctness. *)

LEMMA InitType == Init => TypeOK
<1> SUFFICES ASSUME Init PROVE TypeOK
  OBVIOUS
<1>1. <<>> \in Seq(Packet) /\ <<>> \in Seq([where : Client \cup {Sysmodule}, kind : Kind])
      /\ <<>> \in Seq(1 .. Newest)
  OBVIOUS
<1>2. Newest = 0 /\ Len(<<>>) <= SocketCap
  BY InputAssumption DEF Init, Newest
<1>3. \A c \in Client : Len(toServer[c]) <= SocketCap
  <2>1. \A c \in Client : toServer[c] = <<>>
    BY DEF Init
  <2> QED BY <1>2, <2>1
<1>4. 0 \in 0 .. Newest /\ 0 \in 0 .. MaxEvents
  BY <1>2, InputAssumption
<1> QED BY <1>1, <1>3, <1>4 DEF Init, TypeOK, NoHash

\* A text that was copied stays copied: packets and clipboards keep their type.
LEMMA CopyType ==
  ASSUME TypeOK, NEW where \in Client \cup {Sysmodule}, NEW kind \in Kind, Copy(where, kind)
  PROVE  /\ copies' \in Seq([where : Client \cup {Sysmodule}, kind : Kind])
         /\ Newest \in Nat
         /\ Newest' = Newest + 1
         /\ Packet \subseteq Packet'
         /\ toServer \in [Client -> Seq(Packet')]
         /\ toClient \in [Client -> Seq(1 .. Newest')]
<1>1. [where |-> where, kind |-> kind] \in [where : Client \cup {Sysmodule}, kind : Kind]
  OBVIOUS
<1>2. /\ copies' \in Seq([where : Client \cup {Sysmodule}, kind : Kind])
      /\ Newest \in Nat /\ Newest' = Newest + 1
  BY <1>1 DEF TypeOK, Copy, Newest
<1>3. 1 .. Newest \subseteq 1 .. Newest'
  BY <1>2
<1>4. Packet \subseteq Packet'
  BY <1>3 DEF Packet
<1>5. toServer \in [Client -> Seq(Packet')]
  <2>1. \A c \in Client : toServer[c] \in Seq(Packet')
    <3> SUFFICES ASSUME NEW c \in Client PROVE toServer[c] \in Seq(Packet')
      OBVIOUS
    <3>1. toServer[c] \in Seq(Packet)
      BY DEF TypeOK
    <3> QED BY <1>4, <3>1, SeqMonotonic
  <2> QED BY <2>1 DEF TypeOK
<1>6. toClient \in [Client -> Seq(1 .. Newest')]
  <2>1. \A c \in Client : toClient[c] \in Seq(1 .. Newest')
    <3> SUFFICES ASSUME NEW c \in Client PROVE toClient[c] \in Seq(1 .. Newest')
      OBVIOUS
    <3>1. toClient[c] \in Seq(1 .. Newest)
      BY DEF TypeOK
    <3> QED BY <1>3, <3>1, SeqMonotonic
  <2> QED BY <2>1 DEF TypeOK
<1> QED BY <1>2, <1>4, <1>5, <1>6

LEMMA SendType ==
  ASSUME TypeOK, NEW c \in Client, NEW packet \in Packet, Send(c, packet)
  PROVE  /\ toServer' \in [Client -> Seq(Packet)]
         /\ \A d \in Client : Len(toServer'[d]) <= SocketCap
         /\ \A d \in Client \ {c} : toServer'[d] = toServer[d]
         /\ Len(toServer'[c]) = Len(toServer[c]) + 1
         /\ toServer'[c][Len(toServer[c]) + 1] = packet
         /\ \A k \in 1 .. Len(toServer[c]) : toServer'[c][k] = toServer[c][k]
<1>1. toServer[c] \in Seq(Packet) /\ Len(toServer[c]) \in Nat
  BY DEF TypeOK
<1>2. toServer'[c] = Append(toServer[c], packet) /\ Len(toServer[c]) < SocketCap
  BY DEF TypeOK, Send
<1>3. \A d \in Client \ {c} : toServer'[d] = toServer[d]
  BY DEF TypeOK, Send
<1>4. /\ toServer'[c] \in Seq(Packet)
      /\ Len(toServer'[c]) = Len(toServer[c]) + 1
      /\ toServer'[c][Len(toServer[c]) + 1] = packet
      /\ \A k \in 1 .. Len(toServer[c]) : toServer'[c][k] = toServer[c][k]
  BY <1>1, <1>2, AppendProperties
<1>5. \A d \in Client : Len(toServer'[d]) <= SocketCap
  <2>1. Len(toServer'[c]) <= SocketCap
    BY <1>1, <1>2, <1>4, InputAssumption
  <2> QED BY <1>3, <2>1 DEF TypeOK
<1>6. toServer' \in [Client -> Seq(Packet)]
  BY <1>3, <1>4 DEF TypeOK, Send
<1> QED BY <1>3, <1>4, <1>5, <1>6

\* What HandlePacket takes from the front of a connection.
LEMMA HandledPacket ==
  ASSUME TypeOK, NEW c \in Client, HandlePacket(c)
  PROVE  /\ Len(toServer[c]) \in Nat \ {0}
         /\ Head(toServer[c]) = toServer[c][1]
         /\ toServer[c][1] \in Packet
         /\ toServer' \in [Client -> Seq(Packet)]
         /\ \A d \in Client \ {c} : toServer'[d] = toServer[d]
         /\ Len(toServer'[c]) = Len(toServer[c]) - 1
         /\ \A k \in 1 .. Len(toServer[c]) - 1 : toServer'[c][k] = toServer[c][k + 1]
<1>1. toServer[c] \in Seq(Packet) /\ toServer[c] # <<>>
  BY DEF TypeOK, HandlePacket
<1>2. toServer'[c] = Tail(toServer[c]) /\ \A d \in Client \ {c} : toServer'[d] = toServer[d]
  BY DEF TypeOK, HandlePacket
<1>3. Len(toServer[c]) \in Nat \ {0} /\ Head(toServer[c]) = toServer[c][1]
  BY <1>1, EmptySeq
<1>4. /\ toServer'[c] \in Seq(Packet) /\ Len(toServer'[c]) = Len(toServer[c]) - 1
      /\ \A k \in 1 .. Len(toServer[c]) - 1 : toServer'[c][k] = toServer[c][k + 1]
  BY <1>1, <1>2, HeadTailProperties
<1>5. toServer[c][1] \in Packet
  BY <1>1, <1>3, ElementOfSeq
<1>6. toServer' \in [Client -> Seq(Packet)]
  BY <1>2, <1>4 DEF TypeOK, HandlePacket
<1> QED BY <1>2, <1>3, <1>4, <1>5, <1>6

LEMMA StepType ==
  ASSUME TypeOK, EmptyUntilCopied, [Next]_vars
  PROVE  TypeOK'
<1>0. Newest \in Nat /\ SocketCap \in Nat
  BY InputAssumption DEF TypeOK, Newest
<1>1. CASE UNCHANGED vars
  BY <1>1 DEF TypeOK, Newest, Packet
<1>2. CASE CopyInSysmodule
  <2>1. PICK kind \in {"text", "long"} : Copy(Sysmodule, kind)
    BY <1>2 DEF CopyInSysmodule
  <2>2. /\ copies' \in Seq([where : Client \cup {Sysmodule}, kind : Kind])
        /\ Newest' = Newest + 1
        /\ toServer' \in [Client -> Seq(Packet')]
        /\ toClient \in [Client -> Seq(1 .. Newest')]
    BY <1>2, <2>1, CopyType DEF CopyInSysmodule, Kind
  <2>3. toClient' \in [Client -> Seq(1 .. Newest')]
    <3>1. \A c \in Client : Append(toClient[c], Newest + 1) \in Seq(1 .. Newest')
      BY <1>0, <2>2, AppendProperties
    <3> QED BY <1>2, <2>2, <3>1 DEF CopyInSysmodule
  <2> QED BY <1>0, <1>2, <2>2, <2>3, SMTT(30) DEF TypeOK, CopyInSysmodule
<1>3. ASSUME NEW c \in Client, CrossEdge(c) PROVE TypeOK'
  BY <1>3, InputAssumption DEF TypeOK, CrossEdge, Count, Newest, Packet
<1>4. ASSUME NEW c \in Client, End(c), UNCHANGED <<inside, desktopVars, toServer, serverVars, copies, events>>
      PROVE TypeOK'
  <2>1. Newest' = Newest /\ Packet' = Packet
    BY <1>4 DEF Newest, Packet
  <2>2. toClient' \in [Client -> Seq(1 .. Newest)]
    BY <1>4 DEF TypeOK, End
  <2> QED BY <1>4, <2>1, <2>2 DEF TypeOK, End
<1>5. ASSUME NEW c \in Client, CopyOnDesktop(c) PROVE TypeOK'
  <2>1. PICK kind \in Kind : Copy(c, kind)
    BY <1>5 DEF CopyOnDesktop
  <2>2. /\ copies' \in Seq([where : Client \cup {Sysmodule}, kind : Kind])
        /\ Newest' = Newest + 1
        /\ toServer' \in [Client -> Seq(Packet')]
        /\ toClient' \in [Client -> Seq(1 .. Newest')]
    BY <1>5, <2>1, CopyType DEF CopyOnDesktop
  <2> QED BY <1>0, <1>5, <2>2 DEF TypeOK, CopyOnDesktop
<1>6. ASSUME NEW c \in Client, PollClipboard(c) PROVE TypeOK'
  <2>1. Newest' = Newest /\ Packet' = Packet
    BY <1>6 DEF PollClipboard, Newest, Packet
  <2>2. Hash(c) = desktop[c] /\ desktop[c] \in 0 .. Newest
    BY <1>6 DEF PollClipboard, Hash, TypeOK
  <2>3. toServer' \in [Client -> Seq(Packet)] /\ \A d \in Client : Len(toServer'[d]) <= SocketCap
    <3>1. CASE UNCHANGED toServer
      BY <3>1 DEF TypeOK
    <3>2. CASE Send(c, [type |-> "clipboard", text |-> desktop[c]]) /\ ~IsKind("long", desktop[c])
      <4>1. desktop[c] # NoHash
        BY <1>6, <2>2 DEF PollClipboard, EmptyUntilCopied
      <4>2. [type |-> "clipboard", text |-> desktop[c]] \in Packet
        BY <1>0, <2>2, <4>1 DEF Packet, NoHash
      <4> QED BY <3>2, <4>2, SendType
    <3> QED BY <1>6, <3>1, <3>2 DEF PollClipboard
  <2> QED BY <1>0, <1>6, <2>1, <2>2, <2>3 DEF TypeOK, PollClipboard
<1>7. ASSUME NEW c \in Client, ReceiveText(c) PROVE TypeOK'
  <2>1. Newest' = Newest /\ Packet' = Packet
    BY <1>7 DEF ReceiveText, Newest, Packet
  <2>2. toClient[c] \in Seq(1 .. Newest) /\ toClient[c] # <<>>
    BY <1>7 DEF ReceiveText, TypeOK
  <2>3. Head(toClient[c]) \in 0 .. Newest /\ Tail(toClient[c]) \in Seq(1 .. Newest)
    <3>1. Head(toClient[c]) \in 1 .. Newest /\ Tail(toClient[c]) \in Seq(1 .. Newest)
      BY <2>2, HeadTailProperties
    <3> QED BY <1>0, <3>1
  <2> QED BY <1>7, <2>1, <2>3 DEF TypeOK, ReceiveText
<1>8. ASSUME NEW c \in Client, HandlePacket(c) PROVE TypeOK'
  <2>1. Newest' = Newest /\ Packet' = Packet
    BY <1>8 DEF HandlePacket, Newest, Packet
  <2>2. /\ toServer' \in [Client -> Seq(Packet)]
        /\ \A d \in Client : Len(toServer'[d]) <= SocketCap
    <3>1. \A d \in Client : Len(toServer[d]) \in Nat
      BY DEF TypeOK
    <3>2. Len(toServer'[c]) <= SocketCap
      BY <1>0, <1>8, <3>1, HandledPacket DEF TypeOK
    <3>3. toServer' \in [Client -> Seq(Packet)] /\ \A d \in Client \ {c} : toServer'[d] = toServer[d]
      BY <1>8, HandledPacket
    <3> QED BY <3>2, <3>3 DEF TypeOK
  <2>3. held' \in [Input -> BOOLEAN] /\ sCurClipboardString' \in 0 .. Newest
    <3> DEFINE packet == toServer[c][1]
    <3>1. packet \in Packet /\ Head(toServer[c]) = packet
      BY <1>8, HandledPacket
    <3>2. CASE packet.type = "clipboard"
      <4>1. packet.text \in 1 .. Newest
        BY <3>1, <3>2 DEF Packet, Input
      <4> QED BY <1>0, <1>8, <3>1, <3>2, <4>1 DEF HandlePacket, TypeOK
    <3>3. CASE packet.type # "clipboard"
      <4>1. packet.type \in Input /\ packet.pressed \in BOOLEAN
        BY <3>1, <3>3 DEF Packet
      <4> QED BY <1>8, <3>1, <3>3, <4>1 DEF HandlePacket, TypeOK
    <3> QED BY <3>2, <3>3
  <2> QED BY <1>8, <2>1, <2>2, <2>3 DEF TypeOK, HandlePacket
<1>9. ASSUME NEW c \in Client, NEW input \in Input, PressOrRelease(c, input) PROVE TypeOK'
  <2>1. Newest' = Newest /\ Packet' = Packet
    BY <1>9 DEF PressOrRelease, Newest, Packet
  <2>2. [type |-> input, pressed |-> ~down[c][input]] \in Packet
    BY DEF Packet
  <2>3. /\ toServer' \in [Client -> Seq(Packet)]
        /\ \A d \in Client : Len(toServer'[d]) <= SocketCap
    BY <1>9, <2>2, SendType DEF PressOrRelease, TypeOK
  <2>4. down' \in [Client -> [Input -> BOOLEAN]] /\ unreleased' \subseteq Input
    BY <1>9 DEF PressOrRelease, TypeOK
  <2>5. events' \in 0 .. MaxEvents
    BY <1>9, InputAssumption DEF PressOrRelease, Count, TypeOK
  <2> QED BY <1>9, <2>1, <2>3, <2>4, <2>5 DEF TypeOK, PressOrRelease
<1> QED
  BY <1>1, <1>2, <1>3, <1>4, <1>5, <1>6, <1>7, <1>8, <1>9 DEF Next, Quit, PollNoText

-----------------------------------------------------------------------------
(* What is held. *)

\* Steps that do not touch buttons and keys.
LEMMA OtherStep ==
  ASSUME PressesAreFollowed, HeldIsBacked, UNCHANGED <<toServer, down, held, unreleased>>
  PROVE  PressesAreFollowed' /\ HeldIsBacked'
BY DEF PressesAreFollowed, HeldIsBacked

\* What was on its way to be handled still is, and what is sent comes behind it.
LEMMA SendKeepsOrder ==
  ASSUME IInv, NEW c \in Client, NEW packet \in Packet, Send(c, packet), NEW input \in Input
  PROVE  /\ \A d \in Client : \A k \in DOMAIN toServer[d] : toServer'[d][k] = toServer[d][k]
         /\ \A d \in Client : DOMAIN toServer[d] \subseteq DOMAIN toServer'[d]
         /\ \A d \in Client \ {c} : toServer'[d] = toServer[d]
         /\ \A k \in DOMAIN toServer'[c] :
              \/ k \in DOMAIN toServer[c]
              \/ k = Len(toServer[c]) + 1 /\ toServer'[c][k] = packet
         /\ Len(toServer[c]) + 1 \in DOMAIN toServer'[c]
         /\ toServer'[c][Len(toServer[c]) + 1] = packet
         /\ \A k \in DOMAIN toServer[c] : k < Len(toServer[c]) + 1
<1>0. TypeOK
  BY DEF IInv
<1>1. \A d \in Client : toServer[d] \in Seq(Packet) /\ Len(toServer[d]) \in Nat
                        /\ DOMAIN toServer[d] = 1 .. Len(toServer[d])
  BY <1>0 DEF TypeOK
<1>2. /\ \A d \in Client \ {c} : toServer'[d] = toServer[d]
      /\ Len(toServer'[c]) = Len(toServer[c]) + 1
      /\ toServer'[c][Len(toServer[c]) + 1] = packet
      /\ \A k \in 1 .. Len(toServer[c]) : toServer'[c][k] = toServer[c][k]
      /\ toServer' \in [Client -> Seq(Packet)]
  BY <1>0, SendType
<1>3. DOMAIN toServer'[c] = 1 .. Len(toServer[c]) + 1
  <2>1. toServer'[c] \in Seq(Packet)
    BY <1>2
  <2> QED BY <1>2, <2>1, LenProperties
<1>4. \A d \in Client : \A k \in DOMAIN toServer[d] : toServer'[d][k] = toServer[d][k]
  BY <1>1, <1>2
<1>5. \A d \in Client : DOMAIN toServer[d] \subseteq DOMAIN toServer'[d]
  <2>1. DOMAIN toServer[c] \subseteq DOMAIN toServer'[c]
    BY <1>1, <1>3
  <2> QED BY <1>2, <2>1
<1>6. \A k \in DOMAIN toServer'[c] :
        \/ k \in DOMAIN toServer[c]
        \/ k = Len(toServer[c]) + 1 /\ toServer'[c][k] = packet
  <2>1. \A k \in DOMAIN toServer'[c] : k \in DOMAIN toServer[c] \/ k = Len(toServer[c]) + 1
    BY <1>1, <1>3
  <2>2. \A k \in DOMAIN toServer'[c] : k = Len(toServer[c]) + 1 => toServer'[c][k] = packet
    BY <1>2
  <2> QED BY <2>1, <2>2
<1>7. Len(toServer[c]) + 1 \in DOMAIN toServer'[c] /\ \A k \in DOMAIN toServer[c] : k < Len(toServer[c]) + 1
  BY <1>1, <1>3
<1> QED BY <1>2, <1>4, <1>5, <1>6, <1>7

\* A packet that presses nothing, sent by one who may hold down something or not.
LEMMA SendsNoPress ==
  ASSUME IInv, NEW c \in Client, NEW packet \in Packet, Send(c, packet),
         NEW input \in Input, input \notin unreleased, ~Press(packet, input),
         down[c][input] => down'[c][input] \/ Release(packet, input),
         \A d \in Client \ {c} : down'[d][input] = down[d][input],
         UNCHANGED held
  PROVE  /\ \A d \in Client : ~down'[d][input] =>
              \A k \in DOMAIN toServer'[d] :
                Press(toServer'[d][k], input) =>
                  \E j \in DOMAIN toServer'[d] : k < j /\ Release(toServer'[d][j], input)
         /\ held'[input] =>
              \E d \in Client :
                \/ down'[d][input]
                \/ \E k \in DOMAIN toServer'[d] : Release(toServer'[d][k], input)
<1>1. ASSUME NEW d \in Client, ~down'[d][input], NEW k \in DOMAIN toServer'[d],
             Press(toServer'[d][k], input)
      PROVE  \E j \in DOMAIN toServer'[d] : k < j /\ Release(toServer'[d][j], input)
  <2>1. CASE d # c
    BY <1>1, <2>1, SendKeepsOrder DEF IInv, PressesAreFollowed
  <2>2. CASE d = c
    <3>1. k \in DOMAIN toServer[c] /\ Press(toServer[c][k], input)
      BY <1>1, <2>2, SendKeepsOrder
    <3>2. CASE down[c][input]
      BY <1>1, <2>2, <3>1, <3>2, SendKeepsOrder
    <3>3. CASE ~down[c][input]
      BY <2>2, <3>1, <3>3, SendKeepsOrder DEF IInv, PressesAreFollowed
    <3> QED BY <3>2, <3>3
  <2> QED BY <2>1, <2>2
<1>2. ASSUME held[input]
      PROVE  \E d \in Client :
               \/ down'[d][input]
               \/ \E k \in DOMAIN toServer'[d] : Release(toServer'[d][k], input)
  <2>1. PICK d \in Client :
          down[d][input] \/ \E k \in DOMAIN toServer[d] : Release(toServer[d][k], input)
    BY <1>2 DEF IInv, HeldIsBacked
  <2>2. CASE \E k \in DOMAIN toServer[d] : Release(toServer[d][k], input)
    BY <2>2, SendKeepsOrder
  <2>3. CASE down[d][input] /\ d # c
    BY <2>3
  <2>4. CASE down[d][input] /\ d = c
    BY <2>4, SendKeepsOrder
  <2> QED BY <2>1, <2>2, <2>3, <2>4
<1> QED BY <1>1, <1>2
\* A client ends, or its user lets go of something without a packet being sent.
LEMMA EndStep ==
  ASSUME IInv, NEW c \in Client, End(c), UNCHANGED <<toServer, held>>
  PROVE  PressesAreFollowed' /\ HeldIsBacked'
<1>1. /\ \A d \in Client \ {c} : down'[d] = down[d]
      /\ \A input \in Input : ~down'[c][input]
      /\ \A input \in Input \ unreleased' : input \notin unreleased /\ ~down[c][input]
  BY DEF IInv, TypeOK, End
<1>2. PressesAreFollowed'
  BY <1>1 DEF IInv, PressesAreFollowed
<1>3. HeldIsBacked'
  <2> SUFFICES ASSUME NEW input \in Input \ unreleased', held[input]
               PROVE  \E d \in Client : \/ down'[d][input]
                                        \/ \E k \in DOMAIN toServer[d] : Release(toServer[d][k], input)
    BY DEF HeldIsBacked
  <2>1. PICK d \in Client :
          down[d][input] \/ \E k \in DOMAIN toServer[d] : Release(toServer[d][k], input)
    BY <1>1 DEF IInv, HeldIsBacked
  <2>2. CASE down[d][input]
    <3>1. d # c
      BY <1>1, <2>2
    <3> QED BY <1>1, <2>2, <3>1
  <2>3. CASE \E k \in DOMAIN toServer[d] : Release(toServer[d][k], input)
    BY <2>3
  <2> QED BY <2>1, <2>2, <2>3
<1> QED BY <1>2, <1>3

LEMMA PollStep ==
  ASSUME IInv, NEW c \in Client, PollClipboard(c)
  PROVE  PressesAreFollowed' /\ HeldIsBacked'
<1>1. CASE UNCHANGED toServer
  BY <1>1, OtherStep DEF IInv, PollClipboard
<1>2. CASE Send(c, [type |-> "clipboard", text |-> desktop[c]])
  <2> DEFINE packet == [type |-> "clipboard", text |-> desktop[c]]
  <2>1. packet \in Packet
    <3>1. Newest \in Nat /\ desktop[c] \in 0 .. Newest /\ desktop[c] # NoHash
      BY DEF IInv, TypeOK, Newest, PollClipboard, Hash, EmptyUntilCopied
    <3> QED BY <3>1 DEF Packet, NoHash
  <2>2. \A input \in Input : ~Press(packet, input)
    BY DEF Press, Input
  <2>3. UNCHANGED <<down, held, unreleased>> /\ Send(c, packet)
    BY <1>2 DEF PollClipboard
  <2> HIDE DEF packet
  <2> QED BY <2>1, <2>2, <2>3, SendsNoPress DEF PressesAreFollowed, HeldIsBacked
<1> QED BY <1>1, <1>2 DEF PollClipboard

\* While a user holds something down, nothing has to be on its way.
LEMMA PressStep ==
  ASSUME IInv, NEW c \in Client, NEW pushed \in Input, PressOrRelease(c, pushed), ~down[c][pushed]
  PROVE  PressesAreFollowed' /\ HeldIsBacked'
<1>1. /\ down'[c][pushed]
      /\ \A d \in Client, input \in Input : down[d][input] => down'[d][input]
      /\ UNCHANGED <<held, unreleased>>
  BY DEF IInv, TypeOK, PressOrRelease
<1>2. /\ \A d \in Client : \A k \in DOMAIN toServer[d] : toServer'[d][k] = toServer[d][k]
      /\ \A d \in Client : DOMAIN toServer[d] \subseteq DOMAIN toServer'[d]
      /\ \A d \in Client : \A k \in DOMAIN toServer'[d] :
           \/ k \in DOMAIN toServer[d]
           \/ d = c /\ \A input \in Input : Press(toServer'[d][k], input) => input = pushed
  <2>1. CASE UNCHANGED toServer
    BY <2>1
  <2>2. CASE Send(c, [type |-> pushed, pressed |-> TRUE])
    <3>1. [type |-> pushed, pressed |-> TRUE] \in Packet
      BY DEF Packet
    <3> QED BY <2>2, <3>1, SendKeepsOrder DEF Press
  <2> QED BY <2>1, <2>2 DEF PressOrRelease
<1>3. PressesAreFollowed'
  <2> SUFFICES ASSUME NEW input \in Input, input \notin unreleased, NEW d \in Client, ~down'[d][input],
                      NEW k \in DOMAIN toServer'[d], Press(toServer'[d][k], input)
               PROVE  \E j \in DOMAIN toServer'[d] : k < j /\ Release(toServer'[d][j], input)
    BY <1>1 DEF PressesAreFollowed
  <2>1. ~down[d][input] /\ k \in DOMAIN toServer[d]
    BY <1>1, <1>2
  <2> QED BY <1>2, <2>1 DEF IInv, PressesAreFollowed
<1>4. HeldIsBacked'
  BY <1>1, <1>2 DEF IInv, HeldIsBacked
<1> QED BY <1>3, <1>4

LEMMA ReleaseStep ==
  ASSUME IInv, NEW c \in Client, NEW let \in Input, PressOrRelease(c, let), down[c][let]
  PROVE  PressesAreFollowed' /\ HeldIsBacked'
<1> DEFINE packet == [type |-> let, pressed |-> FALSE]
<1>1. /\ \A d \in Client, input \in Input : d # c \/ input # let => down'[d][input] = down[d][input]
      /\ UNCHANGED held
      /\ unreleased \subseteq unreleased'
  BY DEF IInv, TypeOK, PressOrRelease
<1>2. packet \in Packet /\ \A input \in Input : ~Press(packet, input)
  BY DEF Packet, Press
<1>3. Release(packet, let)
  BY DEF Release
<1>4. CASE Send(c, packet)
  <2> HIDE DEF packet
  <2>1. \A input \in Input : down[c][input] => down'[c][input] \/ Release(packet, input)
    BY <1>1, <1>3
  <2> QED BY <1>1, <1>2, <1>4, <2>1, SendsNoPress DEF PressesAreFollowed, HeldIsBacked
<1>5. CASE UNCHANGED toServer /\ let \in unreleased'
  BY <1>1, <1>5 DEF IInv, PressesAreFollowed, HeldIsBacked
<1> QED BY <1>4, <1>5 DEF PressOrRelease, IsSent

\* The first packet of a connection is handled: all that are behind it move forward.
LEMMA HandleStep ==
  ASSUME IInv, NEW c \in Client, HandlePacket(c)
  PROVE  PressesAreFollowed' /\ HeldIsBacked'
<1> DEFINE packet == toServer[c][1]
<1>1. /\ packet \in Packet /\ Head(toServer[c]) = packet
      /\ \A d \in Client \ {c} : toServer'[d] = toServer[d]
      /\ \A d \in Client : DOMAIN toServer[d] = 1 .. Len(toServer[d]) /\ Len(toServer[d]) \in Nat
      /\ 1 \in DOMAIN toServer[c]
      /\ DOMAIN toServer'[c] = 1 .. Len(toServer[c]) - 1
      /\ \A k \in DOMAIN toServer'[c] : toServer'[c][k] = toServer[c][k + 1]
  <2>1. toServer' \in [Client -> Seq(Packet)] /\ Len(toServer'[c]) = Len(toServer[c]) - 1
    BY HandledPacket DEF IInv
  <2>2. DOMAIN toServer'[c] = 1 .. Len(toServer[c]) - 1
    BY <2>1, LenProperties
  <2>3. \A d \in Client : DOMAIN toServer[d] = 1 .. Len(toServer[d]) /\ Len(toServer[d]) \in Nat
    BY DEF IInv, TypeOK
  <2>4. Len(toServer[c]) \in Nat \ {0}
    BY HandledPacket DEF IInv
  <2>5. 1 \in DOMAIN toServer[c]
    BY <2>3, <2>4
  <2> QED BY <2>2, <2>3, <2>5, HandledPacket DEF IInv
<1>2. /\ \A k \in DOMAIN toServer'[c] : k + 1 \in DOMAIN toServer[c]
      /\ \A k \in DOMAIN toServer[c] : k # 1 => k - 1 \in DOMAIN toServer'[c] /\ toServer'[c][k - 1] = toServer[c][k]
  BY <1>1
<1>3. UNCHANGED <<down, unreleased>>
  BY DEF HandlePacket
<1>4. PressesAreFollowed'
  <2> SUFFICES ASSUME NEW input \in Input, input \notin unreleased, NEW d \in Client, ~down[d][input],
                      NEW k \in DOMAIN toServer'[d], Press(toServer'[d][k], input)
               PROVE  \E j \in DOMAIN toServer'[d] : k < j /\ Release(toServer'[d][j], input)
    BY <1>3 DEF PressesAreFollowed
  <2>1. CASE d # c
    BY <1>1, <2>1 DEF IInv, PressesAreFollowed
  <2>2. CASE d = c
    <3>0. k \in DOMAIN toServer'[c] /\ Press(toServer'[c][k], input)
      BY <2>2
    <3>1. k + 1 \in DOMAIN toServer[c] /\ Press(toServer[c][k + 1], input)
      BY <1>1, <1>2, <3>0
    <3>2. PICK j \in DOMAIN toServer[c] : k + 1 < j /\ Release(toServer[c][j], input)
      BY <2>2, <3>1 DEF IInv, PressesAreFollowed
    <3>3. k < j - 1 /\ j # 1
      BY <1>1, <3>0, <3>2
    <3> QED BY <1>2, <2>2, <3>2, <3>3
  <2> QED BY <2>1, <2>2
<1>5. HeldIsBacked'
  <2> SUFFICES ASSUME NEW input \in Input, input \notin unreleased, held'[input]
               PROVE  \E d \in Client : \/ down[d][input]
                                        \/ \E k \in DOMAIN toServer'[d] : Release(toServer'[d][k], input)
    BY <1>3 DEF HeldIsBacked
  <2>1. CASE Press(packet, input)
    <3>1. CASE down[c][input]
      BY <3>1
    <3>2. CASE ~down[c][input]
      <4>1. PICK j \in DOMAIN toServer[c] : 1 < j /\ Release(toServer[c][j], input)
        BY <1>1, <2>1, <3>2 DEF IInv, PressesAreFollowed
      <4>2. j # 1
        BY <1>1, <4>1
      <4> QED BY <1>2, <4>1, <4>2
    <3> QED BY <3>1, <3>2
  <2>2. CASE ~Press(packet, input)
    <3>1. held[input] /\ ~Release(packet, input)
      <4>1. held \in [Input -> BOOLEAN]
        BY DEF IInv, TypeOK
      <4>2. CASE packet.type = "clipboard"
        BY <1>1, <4>2 DEF HandlePacket, Release, Input
      <4>3. CASE packet.type # "clipboard"
        BY <1>1, <2>2, <4>1, <4>3 DEF HandlePacket, Release, Press
      <4> QED BY <4>2, <4>3
    <3>2. PICK d \in Client :
            down[d][input] \/ \E k \in DOMAIN toServer[d] : Release(toServer[d][k], input)
      BY <3>1 DEF IInv, HeldIsBacked
    <3>3. CASE down[d][input]
      BY <3>3
    <3>4. ASSUME NEW k \in DOMAIN toServer[d], Release(toServer[d][k], input)
          PROVE  \E e \in Client : \E i \in DOMAIN toServer'[e] : Release(toServer'[e][i], input)
      <4>1. CASE d # c
        BY <1>1, <3>4, <4>1
      <4>2. CASE d = c
        <5>1. k # 1
          BY <3>1, <3>4, <4>2
        <5> QED BY <1>2, <3>4, <4>2, <5>1
      <4> QED BY <4>1, <4>2
    <3> QED BY <3>2, <3>3, <3>4
  <2> QED BY <2>1, <2>2
<1> QED BY <1>4, <1>5

LEMMA StepEmpty ==
  ASSUME TypeOK, EmptyUntilCopied, [Next]_vars
  PROVE  EmptyUntilCopied'
<1>0. Newest \in Nat
  BY DEF TypeOK, Newest
<1>1. ASSUME NEW c \in Client, CopyOnDesktop(c) PROVE EmptyUntilCopied'
  BY <1>0, <1>1 DEF EmptyUntilCopied, TypeOK, CopyOnDesktop, NoHash
<1>2. ASSUME NEW c \in Client, PollClipboard(c) PROVE EmptyUntilCopied'
  BY <1>2 DEF EmptyUntilCopied, TypeOK, PollClipboard, Hash, NoHash
<1>3. ASSUME NEW c \in Client, ReceiveText(c) PROVE EmptyUntilCopied'
  <2>1. toClient[c] \in Seq(1 .. Newest) /\ toClient[c] # <<>>
    BY <1>3 DEF ReceiveText, TypeOK
  <2>2. Head(toClient[c]) \in 1 .. Newest
    BY <2>1, HeadTailProperties
  <2>3. Head(toClient[c]) # NoHash
    BY <1>0, <2>2 DEF NoHash
  <2> QED BY <1>3, <2>3 DEF EmptyUntilCopied, TypeOK, ReceiveText
<1>4. CASE UNCHANGED desktopVars
  BY <1>4 DEF EmptyUntilCopied
<1> QED BY <1>1, <1>2, <1>3, <1>4
        DEF Next, CopyInSysmodule, CrossEdge, Quit, PollNoText, HandlePacket, PressOrRelease

LEMMA NothingIn == DOMAIN <<>> = {}
OBVIOUS

LEMMA InitInv == Init => IInv
<1> SUFFICES ASSUME Init PROVE IInv
  OBVIOUS
<1>1. TypeOK
  BY InitType
<1>2. EmptyUntilCopied /\ HeldIsBacked
  BY DEF Init, EmptyUntilCopied, HeldIsBacked
<1>3. PressesAreFollowed
  <2>1. \A c \in Client : toServer[c] = <<>>
    BY DEF Init
  <2> QED BY <2>1, NothingIn DEF PressesAreFollowed
<1> QED BY <1>1, <1>2, <1>3 DEF IInv

LEMMA StepInv == IInv /\ [Next]_vars => IInv'
<1> SUFFICES ASSUME IInv, [Next]_vars PROVE IInv'
  OBVIOUS
<1>1. TypeOK' /\ EmptyUntilCopied'
  BY StepType, StepEmpty DEF IInv
<1>2. PressesAreFollowed' /\ HeldIsBacked'
  <2>1. CASE UNCHANGED vars
    BY <2>1, OtherStep DEF IInv
  <2>2. CASE CopyInSysmodule
    BY <2>2, OtherStep DEF IInv, CopyInSysmodule
  <2>3. ASSUME NEW c \in Client, CrossEdge(c) \/ CopyOnDesktop(c) \/ ReceiveText(c)
        PROVE  PressesAreFollowed' /\ HeldIsBacked'
    BY <2>3, OtherStep DEF IInv, CrossEdge, CopyOnDesktop, ReceiveText
  <2>4. ASSUME NEW c \in Client, Quit(c) \/ PollNoText(c) PROVE PressesAreFollowed' /\ HeldIsBacked'
    BY <2>4, EndStep DEF Quit, PollNoText
  <2>5. ASSUME NEW c \in Client, NEW input \in Input, PressOrRelease(c, input)
        PROVE  PressesAreFollowed' /\ HeldIsBacked'
    BY <2>5, PressStep, ReleaseStep
  <2> QED BY <2>1, <2>2, <2>3, <2>4, <2>5, PollStep, HandleStep DEF Next
<1> QED BY <1>1, <1>2 DEF IInv

\* Once all has been handled, no release is on its way.
LEMMA BackedWhenSettled == IInv => HeldIsExplained
<1> SUFFICES ASSUME IInv, Settled, NEW input \in Input, held[input], input \notin unreleased
             PROVE  \E c \in Client : down[c][input]
  BY DEF HeldIsExplained
<1>1. \A c \in Client : toServer[c] = <<>>
  BY DEF Settled
<1> QED BY <1>1, NothingIn DEF IInv, HeldIsBacked

-----------------------------------------------------------------------------
(* Theorems. *)

LEMMA Invariance == Spec => []IInv
BY InitInv, StepInv, PTL DEF Spec

\* Every variable keeps its type: packets have one of the types that handlePacket tells
\* apart, and a clipboard holds nothing that was not copied.
THEOREM TypeCorrect == Spec => []TypeOK
<1>1. IInv => TypeOK
  BY DEF IInv
<1> QED BY <1>1, Invariance, PTL

\* With any number of desktops, a button or a key that the sysmodule takes for held once
\* everything has been handled is held by somebody, unless its release was never sent:
\* sendMouseEvent returned early, or the client ended.
THEOREM HeldIsAlwaysExplained == Spec => []HeldIsExplained
BY Invariance, BackedWhenSettled, PTL

-----------------------------------------------------------------------------
(* What is copied last. *)

Origin == copies[Newest].where
IsText(packet) == packet.type = "clipboard"

AllOn == ~ended => \A c \in Client : on[c]

\* A desktop has texts copied there or in the sysmodule, and sends no others.
SourcesKnown ==
  \A c \in Client :
    /\ desktop[c] # NoHash => copies[desktop[c]].where \in {c, Sysmodule}
    /\ \A k \in DOMAIN toServer[c] :
         IsText(toServer[c][k]) => copies[toServer[c][k].text].where \in {c, Sysmodule}
    /\ \A k \in DOMAIN toClient[c] : copies[toClient[c][k]].where = Sysmodule

\* The desktops the newest text comes to: where it was copied, or all of them.
GetsNewest(c) == Origin \in {c, Sysmodule}

\* A text that the newest replaces: not one from elsewhere if that comes from a desktop.
Outdated(n) == n # Newest /\ ~(Origin \in Client /\ Elsewhere(n))

\* It has come to each of them, is on its way, or was replaced by one from the sysmodule.
NewestArrives ==
  \A c \in Client : GetsNewest(c) =>
    \/ desktop[c] = Newest
    \/ Origin = Sysmodule /\ toClient[c] # <<>>
    \/ Origin = c /\ Elsewhere(desktop[c])

\* It comes last, and only once.
NewestComesLast ==
  \A c \in Client :
    /\ Origin = Sysmodule /\ toClient[c] # <<>> => toClient[c][Len(toClient[c])] = Newest
    /\ \A k \in DOMAIN toClient[c] : toClient[c][k] = Newest =>
         k = Len(toClient[c]) /\ desktop[c] # Newest /\ sLastClipboardStringHash[c] # Newest

\* A client that has found it sent it behind all that it replaces.
OutdatedAreFollowed ==
  \A c \in Client : GetsNewest(c) /\ sLastClipboardStringHash[c] = Newest =>
    \A k \in DOMAIN toServer[c] :
      IsText(toServer[c][k]) /\ Outdated(toServer[c][k].text) =>
        \E j \in DOMAIN toServer[c] :
          k < j /\ IsText(toServer[c][j]) /\ toServer[c][j].text = Newest

\* What can be pasted in the sysmodule, if it is outdated, will still be replaced.
IsComing(c) ==
  \/ desktop[c] # Newest
  \/ sLastClipboardStringHash[c] # Newest
  \/ \E k \in DOMAIN toServer[c] : IsText(toServer[c][k]) /\ toServer[c][k].text = Newest

PastedOrComing ==
  Outdated(sCurClipboardString) => \E c \in Client : GetsNewest(c) /\ IsComing(c)

NewestInv == NewestArrives /\ NewestComesLast /\ OutdatedAreFollowed /\ PastedOrComing

CopyInv == AllOn /\ SourcesKnown /\ (~ended /\ IsKind("text", Newest) => NewestInv)

-----------------------------------------------------------------------------
\* What the packets of a step are.
LEMMA PacketTypes ==
  ASSUME TypeOK
  PROVE  /\ Newest \in Nat
         /\ \A c \in Client : desktop[c] \in 0 .. Newest /\ sLastClipboardStringHash[c] \in 0 .. Newest
         /\ \A c \in Client : toServer[c] \in Seq(Packet)
         /\ \A c \in Client : \A k \in DOMAIN toServer[c] :
              k \in Nat /\ (IsText(toServer[c][k]) => toServer[c][k].text \in 1 .. Newest)
         /\ \A c \in Client : toClient[c] \in Seq(1 .. Newest)
         /\ \A c \in Client : \A k \in DOMAIN toClient[c] : toClient[c][k] \in 1 .. Newest
<1>1. /\ Newest \in Nat
      /\ \A c \in Client : desktop[c] \in 0 .. Newest /\ sLastClipboardStringHash[c] \in 0 .. Newest
      /\ \A c \in Client : toServer[c] \in Seq(Packet) /\ toClient[c] \in Seq(1 .. Newest)
  BY DEF TypeOK, Newest
<1>2. ASSUME NEW c \in Client, NEW k \in DOMAIN toServer[c]
      PROVE  k \in Nat /\ (IsText(toServer[c][k]) => toServer[c][k].text \in 1 .. Newest)
  <2>1. toServer[c][k] \in Packet /\ k \in Nat
    BY <1>1, <1>2
  <2>2. ASSUME NEW p \in Packet, IsText(p) PROVE p.text \in 1 .. Newest
    BY <2>2 DEF Packet, IsText, Input
  <2> QED BY <2>1, <2>2
<1>3. ASSUME NEW c \in Client, NEW k \in DOMAIN toClient[c]
      PROVE  toClient[c][k] \in 1 .. Newest
  <2>1. toClient[c] \in Seq(1 .. Newest)
    BY <1>1
  <2>2. k \in 1 .. Len(toClient[c])
    BY <1>3, <2>1, LenProperties
  <2> QED BY <2>1, <2>2, ElementOfSeq
<1> QED BY <1>1, <1>2, <1>3

\* Packets that are sent come last.
LEMMA SentBehind ==
  ASSUME IInv, NEW c \in Client, NEW packet \in Packet, Send(c, packet)
  PROVE  /\ \A d \in Client : \A k \in DOMAIN toServer[d] :
              k \in DOMAIN toServer'[d] /\ toServer'[d][k] = toServer[d][k]
         /\ \A d \in Client \ {c} : toServer'[d] = toServer[d]
         /\ \A k \in DOMAIN toServer'[c] :
              \/ k \in DOMAIN toServer[c] /\ k < Len(toServer[c]) + 1
              \/ k = Len(toServer[c]) + 1 /\ toServer'[c][k] = packet
         /\ Len(toServer[c]) + 1 \in DOMAIN toServer'[c]
         /\ toServer'[c][Len(toServer[c]) + 1] = packet
<1>1. "key" \in Input
  BY DEF Input
<1> QED BY <1>1, SendKeepsOrder

\* When the first packet is handled, all others move forward.
LEMMA HandledInFront ==
  ASSUME IInv, NEW c \in Client, HandlePacket(c)
  PROVE  /\ Head(toServer[c]) = toServer[c][1] /\ 1 \in DOMAIN toServer[c]
         /\ \A d \in Client \ {c} : toServer'[d] = toServer[d]
         /\ \A k \in DOMAIN toServer'[c] :
              k \in Nat /\ k + 1 \in DOMAIN toServer[c] /\ toServer'[c][k] = toServer[c][k + 1]
         /\ \A k \in DOMAIN toServer[c] :
              k \in Nat /\ (k # 1 => k - 1 \in DOMAIN toServer'[c] /\ toServer'[c][k - 1] = toServer[c][k])
<1>0. TypeOK
  BY DEF IInv
<1>1. /\ Len(toServer[c]) \in Nat \ {0} /\ Head(toServer[c]) = toServer[c][1]
      /\ toServer' \in [Client -> Seq(Packet)] /\ \A d \in Client \ {c} : toServer'[d] = toServer[d]
      /\ Len(toServer'[c]) = Len(toServer[c]) - 1
      /\ \A k \in 1 .. Len(toServer[c]) - 1 : toServer'[c][k] = toServer[c][k + 1]
  BY <1>0, HandledPacket
<1>2. DOMAIN toServer'[c] = 1 .. Len(toServer[c]) - 1
  BY <1>1, LenProperties
<1>3. DOMAIN toServer[c] = 1 .. Len(toServer[c])
  BY <1>0 DEF TypeOK
<1> QED BY <1>1, <1>2, <1>3

\* Nothing is copied.
LEMMA SameCopies ==
  ASSUME UNCHANGED copies
  PROVE  /\ Newest' = Newest /\ Origin' = Origin
         /\ \A n : Elsewhere(n)' <=> Elsewhere(n)
         /\ \A n : Outdated(n)' <=> Outdated(n)
         /\ \A c : GetsNewest(c)' <=> GetsNewest(c)
         /\ \A kind, n : IsKind(kind, n)' <=> IsKind(kind, n)
BY DEF Newest, Origin, Elsewhere, Outdated, GetsNewest, IsKind

\* A text is copied.
LEMMA NewCopy ==
  ASSUME TypeOK, NEW where \in Client \cup {Sysmodule}, NEW kind \in Kind, Copy(where, kind)
  PROVE  /\ Newest \in Nat /\ Newest' = Newest + 1
         /\ \A n \in 1 .. Newest : copies'[n] = copies[n]
         /\ Origin' = where
<1>1. [where |-> where, kind |-> kind] \in [where : Client \cup {Sysmodule}, kind : Kind]
  OBVIOUS
<1>2. copies \in Seq([where : Client \cup {Sysmodule}, kind : Kind])
  BY DEF TypeOK
<1>3. /\ Newest \in Nat /\ Newest' = Newest + 1
      /\ \A n \in 1 .. Newest : copies'[n] = copies[n]
      /\ copies'[Newest + 1] = [where |-> where, kind |-> kind]
  BY <1>1, <1>2 DEF Copy, Newest
<1> QED BY <1>3 DEF Origin

LEMMA InitCopyInv == Init => CopyInv
BY NothingIn DEF Init, CopyInv, AllOn, SourcesKnown, IsKind, Newest, NoHash

\* Steps that have nothing to do with texts.
LEMMA QuietStep ==
  ASSUME CopyInv, UNCHANGED <<on, ended, desktopVars, toServer, toClient, sCurClipboardString, copies>>
  PROVE  CopyInv'
BY DEF CopyInv, AllOn, SourcesKnown, NewestInv, NewestArrives, NewestComesLast, OutdatedAreFollowed,
       PastedOrComing, IsComing, GetsNewest, Outdated, Elsewhere, Origin, IsKind, Newest

LEMMA EndCopyStep ==
  ASSUME IInv, CopyInv, NEW c \in Client, Quit(c) \/ PollNoText(c)
  PROVE  CopyInv'
<1>1. /\ End(c) /\ UNCHANGED <<desktop, toServer, copies>> /\ ended'
  BY DEF Quit, PollNoText, End
<1>2. SourcesKnown'
  <2>1. \A d \in Client : d # c => toClient'[d] = toClient[d]
    BY <1>1 DEF IInv, TypeOK, End
  <2>2. toClient'[c] = <<>>
    BY <1>1 DEF IInv, TypeOK, End
  <2>3. \A d \in Client : DOMAIN toClient'[d] = {} \/ toClient'[d] = toClient[d]
    BY <2>1, <2>2, NothingIn
  <2> QED BY <1>1, <2>3 DEF CopyInv, SourcesKnown
<1> QED BY <1>1, <1>2 DEF CopyInv, AllOn

\* A text is copied: where the others come from is known as before.
LEMMA CopyKeepsSources ==
  ASSUME TypeOK, SourcesKnown, NEW where \in Client \cup {Sysmodule}, NEW kind \in Kind, Copy(where, kind)
  PROVE  \A c \in Client :
           /\ desktop[c] # NoHash => copies'[desktop[c]].where \in {c, Sysmodule}
           /\ \A k \in DOMAIN toServer[c] :
                IsText(toServer[c][k]) => copies'[toServer[c][k].text].where \in {c, Sysmodule}
           /\ \A k \in DOMAIN toClient[c] : copies'[toClient[c][k]].where = Sysmodule
<1>1. /\ Newest \in Nat /\ \A n \in 1 .. Newest : copies'[n] = copies[n]
      /\ \A c \in Client : desktop[c] \in 0 .. Newest
      /\ \A c \in Client : \A k \in DOMAIN toServer[c] :
           IsText(toServer[c][k]) => toServer[c][k].text \in 1 .. Newest
      /\ \A c \in Client : \A k \in DOMAIN toClient[c] : toClient[c][k] \in 1 .. Newest
  BY NewCopy, PacketTypes
<1>2. \A c \in Client : desktop[c] # NoHash => desktop[c] \in 1 .. Newest
  BY <1>1 DEF NoHash
<1> QED BY <1>1, <1>2 DEF SourcesKnown

LEMMA CopyOnDesktopStep ==
  ASSUME IInv, CopyInv, NEW w \in Client, CopyOnDesktop(w)
  PROVE  CopyInv'
<1>0. TypeOK /\ AllOn /\ SourcesKnown
  BY DEF IInv, CopyInv
<1>1. PICK kind \in Kind : Copy(w, kind)
  BY DEF CopyOnDesktop
<1>2. /\ Newest \in Nat /\ Newest' = Newest + 1 /\ Origin' = w /\ w # Sysmodule
  BY <1>0, <1>1, NewCopy, InputAssumption
<1>3. /\ desktop'[w] = Newest' /\ \A c \in Client : c # w => desktop'[c] = desktop[c]
      /\ UNCHANGED <<on, ended, sLastClipboardStringHash, toServer, toClient, sCurClipboardString>>
  BY <1>0, <1>2 DEF CopyOnDesktop, TypeOK
<1>4. AllOn'
  BY <1>0, <1>3 DEF AllOn
<1>5. SourcesKnown'
  <2>1. copies'[desktop'[w]].where = w
    BY <1>2, <1>3 DEF Origin
  <2> QED BY <1>0, <1>1, <1>3, <2>1, CopyKeepsSources DEF SourcesKnown
<1>6. \A c \in Client : sLastClipboardStringHash'[c] # Newest'
  BY <1>0, <1>2, <1>3, PacketTypes
<1>7. NewestArrives'
  BY <1>2, <1>3 DEF NewestArrives, GetsNewest
<1>8. NewestComesLast'
  <2>1. \A c \in Client : \A k \in DOMAIN toClient[c] : toClient[c][k] # Newest'
    BY <1>0, <1>2, PacketTypes
  <2> QED BY <1>2, <1>3, <2>1 DEF NewestComesLast
<1>9. OutdatedAreFollowed'
  BY <1>6 DEF OutdatedAreFollowed
<1>10. PastedOrComing'
  BY <1>2, <1>6 DEF PastedOrComing, GetsNewest, IsComing
<1> QED BY <1>4, <1>5, <1>7, <1>8, <1>9, <1>10 DEF CopyInv, NewestInv

LEMMA CopyInSysmoduleStep ==
  ASSUME IInv, CopyInv, CopyInSysmodule
  PROVE  CopyInv'
<1>0. TypeOK /\ AllOn /\ SourcesKnown
  BY DEF IInv, CopyInv
<1>1. PICK kind \in Kind : Copy(Sysmodule, kind)
  BY DEF CopyInSysmodule, Kind
<1>2. Newest \in Nat /\ Newest' = Newest + 1 /\ Origin' = Sysmodule
  BY <1>0, <1>1, NewCopy
<1>3. /\ UNCHANGED <<on, ended, desktopVars, toServer, sCurClipboardString>>
      /\ \E c \in Client : on[c]
  BY DEF CopyInSysmodule
<1>4. ASSUME NEW c \in Client PROVE toClient[c] \in Seq(1 .. Newest) /\ Len(toClient[c]) \in Nat
  <2>1. toClient[c] \in Seq(1 .. Newest)
    BY <1>0, PacketTypes
  <2> QED BY <2>1, LenProperties
<1>5. \A c \in Client :
        /\ \/ on[c] /\ toClient'[c] = Append(toClient[c], Newest')
           \/ ~on[c] /\ toClient'[c] = toClient[c]
  BY <1>2 DEF CopyInSysmodule
<1>6. \A c \in Client : on[c] =>
        /\ Len(toClient'[c]) = Len(toClient[c]) + 1
        /\ toClient'[c][Len(toClient'[c])] = Newest' /\ toClient'[c] # <<>>
        /\ \A k \in DOMAIN toClient'[c] :
             k = Len(toClient'[c]) \/ (k \in DOMAIN toClient[c] /\ toClient'[c][k] = toClient[c][k])
  <2> SUFFICES ASSUME NEW c \in Client, on[c]
               PROVE  /\ Len(toClient'[c]) = Len(toClient[c]) + 1
                      /\ toClient'[c][Len(toClient'[c])] = Newest' /\ toClient'[c] # <<>>
                      /\ \A k \in DOMAIN toClient'[c] :
                           k = Len(toClient'[c]) \/ (k \in DOMAIN toClient[c] /\ toClient'[c][k] = toClient[c][k])
    OBVIOUS
  <2>1. toClient[c] \in Seq(1 .. Newest) /\ toClient'[c] = Append(toClient[c], Newest')
    BY <1>4, <1>5
  <2>2. ASSUME NEW S, NEW q \in Seq(S), NEW x
        PROVE  /\ Len(Append(q, x)) = Len(q) + 1 /\ Append(q, x)[Len(q) + 1] = x /\ Append(q, x) # <<>>
               /\ \A k \in DOMAIN Append(q, x) : k = Len(q) + 1 \/ (k \in DOMAIN q /\ Append(q, x)[k] = q[k])
    OBVIOUS
  <2> QED BY <2>1, <2>2
<1>7. AllOn'
  BY <1>0, <1>3 DEF AllOn
<1>8. SourcesKnown'
  <2>1. \A c \in Client : \A k \in DOMAIN toClient'[c] :
          toClient'[c][k] = Newest' \/ (k \in DOMAIN toClient[c] /\ toClient'[c][k] = toClient[c][k])
    BY <1>5, <1>6
  <2>2. copies'[Newest'].where = Sysmodule
    BY <1>2 DEF Origin
  <2> QED BY <1>0, <1>1, <1>3, <2>1, <2>2, CopyKeepsSources DEF SourcesKnown
<1>9. ASSUME ~ended' PROVE NewestInv'
  <2>1. \A c \in Client : on[c]
    BY <1>0, <1>3, <1>9 DEF AllOn
  <2>2. \A c \in Client : sLastClipboardStringHash'[c] # Newest' /\ desktop'[c] # Newest'
    BY <1>0, <1>2, <1>3, PacketTypes
  <2>3. NewestArrives'
    BY <1>2, <1>6, <2>1 DEF NewestArrives
  <2>4. NewestComesLast'
    <3>1. \A c \in Client : \A k \in DOMAIN toClient[c] : toClient[c][k] # Newest'
      BY <1>0, <1>2, PacketTypes
    <3> QED BY <1>6, <2>1, <2>2, <3>1 DEF NewestComesLast
  <2>5. OutdatedAreFollowed'
    BY <2>2 DEF OutdatedAreFollowed
  <2>6. PastedOrComing'
    BY <1>2, <1>3, <2>2 DEF PastedOrComing, GetsNewest, IsComing
  <2> QED BY <2>3, <2>4, <2>5, <2>6 DEF NewestInv
<1> QED BY <1>7, <1>8, <1>9 DEF CopyInv

\* A packet that is no text is sent.
LEMMA PressCopyStep ==
  ASSUME IInv, CopyInv, NEW c \in Client, NEW input \in Input, PressOrRelease(c, input)
  PROVE  CopyInv'
<1> DEFINE packet == [type |-> input, pressed |-> ~down[c][input]]
<1>1. UNCHANGED <<on, ended, desktopVars, toClient, sCurClipboardString, copies>>
  BY DEF PressOrRelease
<1>2. CASE UNCHANGED toServer
  BY <1>1, <1>2, QuietStep
<1>3. CASE Send(c, packet)
  <2>0. packet \in Packet /\ ~IsText(packet)
    BY DEF IInv, TypeOK, Packet, IsText, Input
  <2> HIDE DEF packet
  <2>1. /\ \A d \in Client : \A k \in DOMAIN toServer[d] :
             k \in DOMAIN toServer'[d] /\ toServer'[d][k] = toServer[d][k]
        /\ \A d \in Client : \A k \in DOMAIN toServer'[d] :
             k \in DOMAIN toServer[d] \/ ~IsText(toServer'[d][k])
    BY <1>3, <2>0, SentBehind
  <2>2. SourcesKnown'
    BY <1>1, <2>1 DEF CopyInv, SourcesKnown
  <2>3. /\ Newest' = Newest /\ Origin' = Origin
        /\ \A n : Elsewhere(n)' <=> Elsewhere(n)
        /\ \A n : Outdated(n)' <=> Outdated(n)
        /\ \A d : GetsNewest(d)' <=> GetsNewest(d)
    BY <1>1, SameCopies
  <2>4. ASSUME NewestInv PROVE NewestInv'
    <3>1. NewestArrives' /\ NewestComesLast'
      BY <1>1, <2>3, <2>4 DEF NewestInv, NewestArrives, NewestComesLast, Elsewhere
    <3>2. OutdatedAreFollowed'
      <4> SUFFICES ASSUME NEW d \in Client, GetsNewest(d), sLastClipboardStringHash[d] = Newest,
                          NEW k \in DOMAIN toServer'[d], IsText(toServer'[d][k]),
                          Outdated(toServer[d][k].text)'
                   PROVE  \E j \in DOMAIN toServer'[d] :
                            k < j /\ IsText(toServer'[d][j]) /\ toServer'[d][j].text = Newest
        BY <1>1, <2>3 DEF OutdatedAreFollowed
      <4>1. k \in DOMAIN toServer[d] /\ toServer'[d][k] = toServer[d][k]
        BY <2>1
      <4>2. PICK n : n = toServer[d][k].text
        OBVIOUS
      <4>3. Outdated(n)
        BY <1>1, <4>1, <4>2 DEF Outdated, Newest, Origin, Elsewhere
      <4> QED BY <2>1, <2>4, <4>1, <4>2, <4>3 DEF NewestInv, OutdatedAreFollowed
    <3>3. PastedOrComing'
      <4>1. \A d \in Client : IsComing(d) => IsComing(d)'
        BY <1>1, <2>1, <2>3 DEF IsComing
      <4>2. Outdated(sCurClipboardString)' => Outdated(sCurClipboardString)
        BY <1>1 DEF Outdated, Newest, Origin, Elsewhere
      <4> QED BY <2>3, <2>4, <4>1, <4>2 DEF NewestInv, PastedOrComing
    <3> QED BY <3>1, <3>2, <3>3 DEF NewestInv
  <2>5. IsKind("text", Newest)' => IsKind("text", Newest)
    BY <1>1 DEF IsKind, Newest
  <2> QED BY <1>1, <2>2, <2>4, <2>5 DEF CopyInv, AllOn
<1> QED BY <1>2, <1>3 DEF PressOrRelease

LEMMA PollCopyStep ==
  ASSUME IInv, CopyInv, NEW c \in Client, PollClipboard(c)
  PROVE  CopyInv'
<1> DEFINE packet == [type |-> "clipboard", text |-> desktop[c]]
<1>0. TypeOK /\ SourcesKnown
  BY DEF IInv, CopyInv
<1>1. /\ UNCHANGED <<on, ended, desktop, toClient, sCurClipboardString, copies>>
      /\ sLastClipboardStringHash'[c] = desktop[c] /\ sLastClipboardStringHash[c] # desktop[c]
      /\ \A d \in Client : d # c => sLastClipboardStringHash'[d] = sLastClipboardStringHash[d]
      /\ desktop[c] # NoHash
  <2>1. Hash(c) = desktop[c] /\ Hash(c) # sLastClipboardStringHash[c]
    BY DEF PollClipboard, Hash
  <2> QED BY <1>0, <2>1 DEF PollClipboard, TypeOK, IInv, EmptyUntilCopied
<1>2. /\ \A d \in Client : \A k \in DOMAIN toServer[d] :
           k \in DOMAIN toServer'[d] /\ toServer'[d][k] = toServer[d][k]
      /\ \A d \in Client : \A k \in DOMAIN toServer'[d] :
           \/ k \in DOMAIN toServer[d] /\ toServer'[d][k] = toServer[d][k]
           \/ d = c /\ IsText(toServer'[d][k]) /\ toServer'[d][k].text = desktop[c]
      /\ ~IsKind("long", desktop[c]) =>
           \E j \in DOMAIN toServer'[c] :
             /\ IsText(toServer'[c][j]) /\ toServer'[c][j].text = desktop[c]
             /\ \A k \in DOMAIN toServer'[c] : k < j \/ k = j
  <2>1. CASE IsKind("long", desktop[c])
    BY <2>1 DEF PollClipboard
  <2>2. CASE ~IsKind("long", desktop[c])
    <3>1. packet \in Packet /\ IsText(packet) /\ packet.text = desktop[c]
      <4>1. desktop[c] \in 1 .. Newest
        BY <1>0, <1>1, PacketTypes DEF NoHash
      <4> QED BY <4>1 DEF Packet, IsText
    <3>2. Send(c, packet)
      BY <2>2 DEF PollClipboard
    <3> HIDE DEF packet
    <3> QED BY <3>1, <3>2, SentBehind
  <2> QED BY <2>1, <2>2
<1>3. SourcesKnown'
  BY <1>0, <1>1, <1>2 DEF SourcesKnown
<1>4. /\ Newest' = Newest /\ Origin' = Origin
      /\ \A n : Elsewhere(n)' <=> Elsewhere(n)
      /\ \A n : Outdated(n)' <=> Outdated(n)
      /\ \A d : GetsNewest(d)' <=> GetsNewest(d)
  BY <1>1, SameCopies
<1>5. ASSUME IsKind("text", Newest), NewestInv PROVE NewestInv'
  <2>0. desktop[c] = Newest =>
          \E j \in DOMAIN toServer'[c] :
             /\ IsText(toServer'[c][j]) /\ toServer'[c][j].text = Newest
             /\ \A k \in DOMAIN toServer'[c] : k < j \/ k = j
    BY <1>2, <1>5 DEF IsKind
  <2>1. NewestArrives'
    BY <1>1, <1>4, <1>5 DEF NewestInv, NewestArrives, Elsewhere
  <2>2. NewestComesLast'
    <3>1. ASSUME NEW d \in Client, NEW k \in DOMAIN toClient[d], toClient[d][k] = Newest
          PROVE  k = Len(toClient[d]) /\ desktop[d] # Newest /\ sLastClipboardStringHash'[d] # Newest
      BY <1>1, <1>5, <3>1 DEF NewestInv, NewestComesLast
    <3>2. \A d \in Client : Origin = Sysmodule /\ toClient[d] # <<>> =>
            toClient[d][Len(toClient[d])] = Newest
      BY <1>5 DEF NewestInv, NewestComesLast
    <3> QED BY <1>1, <1>4, <3>1, <3>2 DEF NewestComesLast
  <2>3. OutdatedAreFollowed'
    <3> SUFFICES ASSUME NEW d \in Client, GetsNewest(d), sLastClipboardStringHash'[d] = Newest,
                        NEW k \in DOMAIN toServer'[d], IsText(toServer'[d][k]),
                        Outdated(toServer[d][k].text)'
                 PROVE  \E j \in DOMAIN toServer'[d] :
                          k < j /\ IsText(toServer'[d][j]) /\ toServer'[d][j].text = Newest
      BY <1>1, <1>4 DEF OutdatedAreFollowed
    <3>1. PICK n : n = toServer'[d][k].text
      OBVIOUS
    <3>2. Outdated(n)
      BY <1>1, <3>1 DEF Outdated, Newest, Origin, Elsewhere
    <3>3. CASE d = c
      <4>1. desktop[c] = Newest
        BY <1>1, <3>3
      <4>2. PICK j \in DOMAIN toServer'[c] :
              /\ IsText(toServer'[c][j]) /\ toServer'[c][j].text = Newest
              /\ \A i \in DOMAIN toServer'[c] : i < j \/ i = j
        BY <2>0, <4>1
      <4>3. k # j
        BY <3>1, <3>2, <3>3, <4>2 DEF Outdated
      <4> QED BY <3>3, <4>2, <4>3
    <3>4. CASE d # c
      <4>1. sLastClipboardStringHash[d] = Newest /\ k \in DOMAIN toServer[d] /\ toServer'[d][k] = toServer[d][k]
        BY <1>1, <1>2, <3>4
      <4> QED BY <1>2, <1>5, <3>1, <3>2, <4>1 DEF NewestInv, OutdatedAreFollowed
    <3> QED BY <3>3, <3>4
  <2>4. PastedOrComing'
    <3>1. ASSUME NEW d \in Client, IsComing(d) PROVE IsComing(d)'
      <4>1. CASE d = c
        <5>1. CASE desktop[c] = Newest
          BY <1>4, <2>0, <4>1, <5>1 DEF IsComing
        <5>2. CASE desktop[c] # Newest
          BY <1>1, <1>4, <4>1, <5>2 DEF IsComing
        <5> QED BY <5>1, <5>2
      <4>2. CASE d # c
        BY <1>1, <1>2, <1>4, <3>1, <4>2 DEF IsComing
      <4> QED BY <4>1, <4>2
    <3>2. Outdated(sCurClipboardString)' => Outdated(sCurClipboardString)
      BY <1>1 DEF Outdated, Newest, Origin, Elsewhere
    <3> QED BY <1>4, <1>5, <3>1, <3>2 DEF NewestInv, PastedOrComing
  <2> QED BY <2>1, <2>2, <2>3, <2>4 DEF NewestInv
<1>6. IsKind("text", Newest)' => IsKind("text", Newest)
  BY <1>1 DEF IsKind, Newest
<1> QED BY <1>1, <1>3, <1>5, <1>6 DEF CopyInv, AllOn

\* The first of some texts is taken: all others move forward.
LEMMA FirstIsTaken ==
  ASSUME NEW S, NEW q \in Seq(S), q # <<>>
  PROVE  /\ Head(q) = q[1] /\ 1 \in DOMAIN q /\ Len(q) \in Nat \ {0} /\ Len(Tail(q)) = Len(q) - 1
         /\ \A k \in DOMAIN Tail(q) : k \in Nat /\ k + 1 \in DOMAIN q /\ Tail(q)[k] = q[k + 1]
         /\ Tail(q) # <<>> => Len(q) # 1 /\ Tail(q)[Len(Tail(q))] = q[Len(q)]
         /\ Tail(q) = <<>> => Len(q) = 1
<1>1. /\ Tail(q) \in Seq(S) /\ Len(Tail(q)) = Len(q) - 1
      /\ \A k \in 1 .. Len(q) - 1 : Tail(q)[k] = q[k + 1]
  BY HeadTailProperties
<1>2. Len(q) \in Nat \ {0} /\ DOMAIN q = 1 .. Len(q) /\ Head(q) = q[1]
  OBVIOUS
<1>3. DOMAIN Tail(q) = 1 .. Len(q) - 1
  BY <1>1, LenProperties
<1>4. Tail(q) # <<>> => Len(q) # 1 /\ Tail(q)[Len(Tail(q))] = q[Len(q)]
  <2> SUFFICES ASSUME Tail(q) # <<>> PROVE Len(q) # 1 /\ Tail(q)[Len(Tail(q))] = q[Len(q)]
    OBVIOUS
  <2>1. Len(Tail(q)) # 0
    BY <1>1, EmptySeq
  <2>2. Len(q) - 1 \in 1 .. Len(q) - 1 /\ (Len(q) - 1) + 1 = Len(q)
    BY <1>1, <1>2, <2>1
  <2> QED BY <1>1, <1>2, <2>1, <2>2
<1>5. Tail(q) = <<>> => Len(q) = 1
  <2> SUFFICES ASSUME Tail(q) = <<>> PROVE Len(q) = 1
    OBVIOUS
  <2>1. Len(Tail(q)) = 0
    BY EmptySeq
  <2> QED BY <1>1, <1>2, <2>1
<1> QED BY <1>1, <1>2, <1>3, <1>4, <1>5

LEMMA ReceiveCopyStep ==
  ASSUME IInv, CopyInv, NEW c \in Client, ReceiveText(c)
  PROVE  CopyInv'
<1> DEFINE n == toClient[c][1]
<1>0. TypeOK /\ SourcesKnown
  BY DEF IInv, CopyInv
<1>1. /\ UNCHANGED <<on, ended, sLastClipboardStringHash, toServer, sCurClipboardString, copies>>
      /\ toClient[c] \in Seq(1 .. Newest) /\ toClient[c] # <<>>
      /\ desktop' = [desktop EXCEPT ![c] = Head(toClient[c])]
      /\ toClient' = [toClient EXCEPT ![c] = Tail(@)]
  BY <1>0, PacketTypes DEF ReceiveText
<1>3. /\ desktop'[c] = n /\ \A d \in Client : d # c => desktop'[d] = desktop[d] /\ toClient'[d] = toClient[d]
      /\ 1 \in DOMAIN toClient[c] /\ Len(toClient[c]) \in Nat \ {0}
      /\ Len(toClient'[c]) = Len(toClient[c]) - 1
      /\ \A k \in DOMAIN toClient'[c] :
           k \in Nat /\ k + 1 \in DOMAIN toClient[c] /\ toClient'[c][k] = toClient[c][k + 1]
      /\ toClient'[c] # <<>> =>
           Len(toClient[c]) # 1 /\ toClient'[c][Len(toClient'[c])] = toClient[c][Len(toClient[c])]
      /\ toClient'[c] = <<>> => Len(toClient[c]) = 1
  <2>1. desktop'[c] = Head(toClient[c]) /\ toClient'[c] = Tail(toClient[c])
    BY <1>0, <1>1 DEF TypeOK
  <2>2. \A d \in Client : d # c => desktop'[d] = desktop[d] /\ toClient'[d] = toClient[d]
    BY <1>0, <1>1 DEF TypeOK
  <2> DEFINE q == toClient[c]
  <2>3. q \in Seq(1 .. Newest) /\ q # <<>>
    BY <1>1
  <2> HIDE DEF q
  <2>4. /\ Head(q) = q[1] /\ 1 \in DOMAIN q /\ Len(q) \in Nat \ {0} /\ Len(Tail(q)) = Len(q) - 1
        /\ \A k \in DOMAIN Tail(q) : k \in Nat /\ k + 1 \in DOMAIN q /\ Tail(q)[k] = q[k + 1]
        /\ Tail(q) # <<>> => Len(q) # 1 /\ Tail(q)[Len(Tail(q))] = q[Len(q)]
        /\ Tail(q) = <<>> => Len(q) = 1
    BY <2>3, FirstIsTaken
  <2>5. toClient'[c] = Tail(q) /\ n = q[1] /\ desktop'[c] = Head(q)
    BY <2>1 DEF q
  <2> HIDE DEF n
  <2> QED BY <2>2, <2>4, <2>5, Zenon DEF q
<1>4. n \in 1 .. Newest /\ n # NoHash /\ copies[n].where = Sysmodule
  BY <1>0, <1>3, PacketTypes DEF SourcesKnown, NoHash
<1> HIDE DEF n
<1>5. SourcesKnown'
  <2>1. \A d \in Client : desktop'[d] # NoHash => copies[desktop'[d]].where \in {d, Sysmodule}
    BY <1>0, <1>3, <1>4 DEF SourcesKnown
  <2>2. \A d \in Client : \A k \in DOMAIN toClient'[d] : copies[toClient'[d][k]].where = Sysmodule
    BY <1>0, <1>3, SMTT(30) DEF SourcesKnown
  <2> QED BY <1>0, <1>1, <2>1, <2>2 DEF SourcesKnown
<1>6. /\ Newest' = Newest /\ Origin' = Origin
      /\ \A m : Elsewhere(m)' <=> Elsewhere(m)
      /\ \A m : Outdated(m)' <=> Outdated(m)
      /\ \A d : GetsNewest(d)' <=> GetsNewest(d)
  BY <1>1, SameCopies
<1>7. ASSUME NewestInv PROVE NewestInv'
  <2>1. ASSUME NEW k \in DOMAIN toClient[c], toClient[c][k] = Newest
        PROVE  k = Len(toClient[c]) /\ desktop[c] # Newest /\ sLastClipboardStringHash[c] # Newest
    BY <1>7, <2>1 DEF NewestInv, NewestComesLast
  <2>2. n = Newest => Len(toClient[c]) = 1 /\ sLastClipboardStringHash[c] # Newest
    BY <1>3, <2>1 DEF n
  <2>3. NewestArrives'
    <3> SUFFICES ASSUME NEW d \in Client, GetsNewest(d)
                 PROVE  \/ desktop'[d] = Newest
                        \/ Origin = Sysmodule /\ toClient'[d] # <<>>
                        \/ Origin = d /\ Elsewhere(desktop[d])'
      BY <1>6 DEF NewestArrives
    <3>1. CASE d # c
      BY <1>1, <1>3, <1>6, <1>7, <3>1 DEF NewestInv, NewestArrives, Elsewhere, Newest
    <3>2. CASE d = c /\ Origin = Sysmodule
      <4>1. toClient[c][Len(toClient[c])] = Newest
        BY <1>1, <1>7, <3>2 DEF NewestInv, NewestComesLast
      <4> QED BY <1>3, <3>2, <4>1 DEF n
    <3>3. CASE d = c /\ Origin = c
      <4>1. Elsewhere(n)
        BY <1>4, <3>3, InputAssumption DEF Elsewhere, Origin
      <4> QED BY <1>1, <1>3, <3>3, <4>1 DEF Elsewhere, Newest
    <3> QED BY <3>1, <3>2, <3>3 DEF GetsNewest
  <2>4. NewestComesLast'
    <3>1. ASSUME NEW d \in Client, NEW k \in DOMAIN toClient'[d], toClient'[d][k] = Newest
          PROVE  k = Len(toClient'[d]) /\ desktop'[d] # Newest /\ sLastClipboardStringHash[d] # Newest
      <4>1. CASE d # c
        BY <1>3, <1>7, <3>1, <4>1 DEF NewestInv, NewestComesLast
      <4>2. CASE d = c
        <5>1. k \in Nat /\ k + 1 \in DOMAIN toClient[c] /\ toClient[c][k + 1] = Newest
          BY <1>3, <3>1, <4>2
        <5>2. k + 1 = Len(toClient[c]) /\ sLastClipboardStringHash[c] # Newest
          BY <2>1, <5>1
        <5>3. toClient'[c] # <<>>
          BY <3>1, <4>2, NothingIn
        <5>4. n # Newest
          BY <1>3, <2>2, <5>3
        <5> QED BY <1>3, <4>2, <5>1, <5>2, <5>4
      <4> QED BY <4>1, <4>2
    <3>2. \A d \in Client : Origin = Sysmodule /\ toClient'[d] # <<>> =>
            toClient'[d][Len(toClient'[d])] = Newest
      BY <1>1, <1>3, <1>7 DEF NewestInv, NewestComesLast
    <3> QED BY <1>1, <1>6, <3>1, <3>2 DEF NewestComesLast
  <2>5. OutdatedAreFollowed'
    BY <1>1, <1>7 DEF NewestInv, OutdatedAreFollowed, GetsNewest, Outdated, Elsewhere, Origin, Newest
  <2>6. PastedOrComing'
    <3>1. ASSUME NEW d \in Client, IsComing(d) PROVE IsComing(d)'
      <4>1. CASE d # c
        BY <1>1, <1>3, <1>6, <3>1, <4>1 DEF IsComing
      <4>2. CASE d = c
        BY <1>1, <1>3, <1>6, <2>2, <4>2 DEF IsComing
      <4> QED BY <4>1, <4>2
    <3>2. Outdated(sCurClipboardString)' => Outdated(sCurClipboardString)
      BY <1>1 DEF Outdated, Newest, Origin, Elsewhere
    <3> QED BY <1>6, <1>7, <3>1, <3>2 DEF NewestInv, PastedOrComing
  <2> QED BY <2>3, <2>4, <2>5, <2>6 DEF NewestInv
<1>8. IsKind("text", Newest)' => IsKind("text", Newest)
  BY <1>1 DEF IsKind, Newest
<1> QED BY <1>1, <1>5, <1>7, <1>8 DEF CopyInv, AllOn

LEMMA HandleCopyStep ==
  ASSUME IInv, CopyInv, NEW c \in Client, HandlePacket(c)
  PROVE  CopyInv'
<1> DEFINE packet == toServer[c][1]
<1>0. TypeOK /\ SourcesKnown
  BY DEF IInv, CopyInv
<1>1. /\ UNCHANGED <<on, ended, desktopVars, toClient, copies>>
      /\ IF IsText(packet) THEN sCurClipboardString' = packet.text ELSE UNCHANGED sCurClipboardString
  BY HandledInFront DEF HandlePacket, IsText
<1>2. /\ 1 \in DOMAIN toServer[c]
      /\ \A d \in Client \ {c} : toServer'[d] = toServer[d]
      /\ \A k \in DOMAIN toServer'[c] :
           k \in Nat /\ k + 1 \in DOMAIN toServer[c] /\ toServer'[c][k] = toServer[c][k + 1]
      /\ \A k \in DOMAIN toServer[c] :
           k \in Nat /\ (k # 1 => k - 1 \in DOMAIN toServer'[c] /\ toServer'[c][k - 1] = toServer[c][k])
  BY HandledInFront
<1> HIDE DEF packet
<1>3. SourcesKnown'
  <2>1. \A d \in Client : \A k \in DOMAIN toServer'[d] :
          IsText(toServer'[d][k]) => copies[toServer'[d][k].text].where \in {d, Sysmodule}
    BY <1>0, <1>2 DEF SourcesKnown
  <2> QED BY <1>0, <1>1, <2>1 DEF SourcesKnown
<1>4. /\ Newest' = Newest /\ Origin' = Origin
      /\ \A m : Elsewhere(m)' <=> Elsewhere(m)
      /\ \A m : Outdated(m)' <=> Outdated(m)
      /\ \A d : GetsNewest(d)' <=> GetsNewest(d)
  BY <1>1, SameCopies
<1>5. ASSUME NewestInv PROVE NewestInv'
  <2>1. NewestArrives' /\ NewestComesLast'
    BY <1>1, <1>5 DEF NewestInv, NewestArrives, NewestComesLast, GetsNewest, Elsewhere, Origin, Newest
  <2>2. OutdatedAreFollowed'
    <3> SUFFICES ASSUME NEW d \in Client, GetsNewest(d), sLastClipboardStringHash[d] = Newest,
                        NEW k \in DOMAIN toServer'[d], IsText(toServer'[d][k]),
                        Outdated(toServer[d][k].text)'
                 PROVE  \E j \in DOMAIN toServer'[d] :
                          k < j /\ IsText(toServer'[d][j]) /\ toServer'[d][j].text = Newest
      BY <1>1, <1>4 DEF OutdatedAreFollowed
    <3>1. PICK n : n = toServer'[d][k].text
      OBVIOUS
    <3>2. Outdated(n)
      BY <1>1, <3>1 DEF Outdated, Newest, Origin, Elsewhere
    <3>3. CASE d # c
      BY <1>2, <1>5, <3>1, <3>2, <3>3 DEF NewestInv, OutdatedAreFollowed
    <3>4. CASE d = c
      <4>1. /\ k \in Nat /\ k + 1 \in DOMAIN toServer[c] /\ IsText(toServer[c][k + 1])
            /\ toServer[c][k + 1].text = n
        BY <1>2, <3>1, <3>4
      <4>2. PICK j \in DOMAIN toServer[c] :
              k + 1 < j /\ IsText(toServer[c][j]) /\ toServer[c][j].text = Newest
        BY <1>5, <3>2, <3>4, <4>1 DEF NewestInv, OutdatedAreFollowed
      <4>3. j \in Nat /\ j # 1 /\ k < j - 1
        BY <1>2, <4>1, <4>2
      <4> QED BY <1>2, <3>4, <4>2, <4>3
    <3> QED BY <3>3, <3>4
  <2>3. PastedOrComing'
    <3> SUFFICES ASSUME Outdated(sCurClipboardString)'
                 PROVE  \E d \in Client : GetsNewest(d) /\ IsComing(d)'
      BY <1>4 DEF PastedOrComing
    <3>1. PICK n : n = sCurClipboardString'
      OBVIOUS
    <3>2. Outdated(n)
      BY <1>1, <3>1 DEF Outdated, Newest, Origin, Elsewhere
    <3>3. CASE IsText(packet)
      <4>1. n = packet.text /\ n \in 1 .. Newest
        BY <1>0, <1>1, <1>2, <3>1, <3>3, PacketTypes DEF packet
      <4>2. copies[n].where \in {c, Sysmodule}
        BY <1>0, <1>2, <3>3, <4>1 DEF SourcesKnown, packet
      <4>3. GetsNewest(c)
        <5>1. n # NoHash
          BY <4>1 DEF NoHash
        <5>2. Origin \in Client => copies[n].where = Origin
          BY <3>2, <5>1 DEF Outdated, Elsewhere, Origin
        <5>3. Origin \in Client \cup {Sysmodule}
          <6>1. copies \in Seq([where : Client \cup {Sysmodule}, kind : Kind]) /\ Newest \in 1 .. Len(copies)
            BY <1>0, <4>1 DEF TypeOK, Newest
          <6>2. copies[Newest] \in [where : Client \cup {Sysmodule}, kind : Kind]
            BY <6>1, ElementOfSeq
          <6> QED BY <6>2 DEF Origin
        <5> QED BY <4>2, <5>2, <5>3 DEF GetsNewest
      <4>4. IsComing(c)'
        <5>1. CASE desktop[c] # Newest \/ sLastClipboardStringHash[c] # Newest
          BY <1>1, <1>4, <5>1 DEF IsComing
        <5>2. CASE sLastClipboardStringHash[c] = Newest
          <6>1. PICK j \in DOMAIN toServer[c] :
                  1 < j /\ IsText(toServer[c][j]) /\ toServer[c][j].text = Newest
            BY <1>2, <1>5, <3>2, <3>3, <4>1, <4>3, <5>2 DEF NewestInv, OutdatedAreFollowed, packet
          <6>2. j # 1
            BY <1>2, <6>1
          <6> QED BY <1>2, <1>4, <6>1, <6>2 DEF IsComing
        <5> QED BY <5>1, <5>2
      <4> QED BY <4>3, <4>4
    <3>4. CASE ~IsText(packet)
      <4>1. Outdated(sCurClipboardString)
        BY <1>1, <3>1, <3>2, <3>4
      <4>2. PICK d \in Client : GetsNewest(d) /\ IsComing(d)
        BY <1>5, <4>1 DEF NewestInv, PastedOrComing
      <4>3. IsComing(d)'
        <5>1. CASE desktop[d] # Newest \/ sLastClipboardStringHash[d] # Newest
          BY <1>1, <1>4, <5>1 DEF IsComing
        <5>2. ASSUME NEW k \in DOMAIN toServer[d], IsText(toServer[d][k]), toServer[d][k].text = Newest
              PROVE  IsComing(d)'
          <6>1. CASE d # c
            BY <1>2, <1>4, <5>2, <6>1 DEF IsComing
          <6>2. CASE d = c
            <7>1. k # 1
              BY <3>4, <5>2, <6>2 DEF packet
            <7> QED BY <1>2, <1>4, <5>2, <6>2, <7>1 DEF IsComing
          <6> QED BY <6>1, <6>2
        <5> QED BY <4>2, <5>1, <5>2 DEF IsComing
      <4> QED BY <4>2, <4>3
    <3> QED BY <3>3, <3>4
  <2> QED BY <2>1, <2>2, <2>3 DEF NewestInv
<1>6. IsKind("text", Newest)' => IsKind("text", Newest)
  BY <1>1 DEF IsKind, Newest
<1> QED BY <1>1, <1>3, <1>5, <1>6 DEF CopyInv, AllOn

LEMMA CopyStep == ASSUME IInv, CopyInv, [Next]_vars PROVE CopyInv'
<1>1. CASE UNCHANGED vars
  BY <1>1, QuietStep
<1>2. ASSUME NEW c \in Client, CrossEdge(c) PROVE CopyInv'
  BY <1>2, QuietStep DEF CrossEdge
<1> QED BY <1>1, <1>2, EndCopyStep, CopyOnDesktopStep, CopyInSysmoduleStep, PressCopyStep,
           PollCopyStep, ReceiveCopyStep, HandleCopyStep DEF Next

\* Once nothing is on its way any more, nothing is coming.
LEMMA LastWhenSettled == IInv /\ CopyInv => LastCopyWins
<1> SUFFICES ASSUME IInv, CopyInv, Settled, ~ended, IsKind("text", Newest),
                    sCurClipboardString # Newest
             PROVE  /\ copies[Newest].where \in Client
                    /\ Elsewhere(sCurClipboardString) \/ Elsewhere(desktop[copies[Newest].where])
  BY DEF LastCopyWins
<1>1. NewestInv /\ \A c \in Client : on[c]
  BY DEF CopyInv, AllOn
<1>2. CASE ~Outdated(sCurClipboardString)
  BY <1>2 DEF Outdated, Origin
<1>3. CASE Outdated(sCurClipboardString)
  <2>1. PICK c \in Client : GetsNewest(c) /\ IsComing(c)
    BY <1>1, <1>3 DEF NewestInv, PastedOrComing
  <2>2. toServer[c] = <<>> /\ toClient[c] = <<>> /\ Hash(c) = sLastClipboardStringHash[c]
    BY <1>1 DEF Settled
  <2>3. desktop[c] # Newest
    <3> SUFFICES ASSUME desktop[c] = Newest PROVE FALSE
      OBVIOUS
    <3>1. sLastClipboardStringHash[c] = Newest
      BY <2>2 DEF Hash, IsKind
    <3> QED BY <2>1, <2>2, <3>1, NothingIn DEF IsComing
  <2>4. Origin = c /\ Elsewhere(desktop[c])
    BY <1>1, <2>1, <2>2, <2>3 DEF NewestInv, NewestArrives
  <2> QED BY <2>4 DEF Origin
<1> QED BY <1>2, <1>3

\* Whatever the clients and the sysmodule copy, and in whatever order texts arrive, the one
\* copied last is pasted in the sysmodule in the end, or one copied elsewhere overtook it.
THEOREM LastCopyAlwaysWins == Spec => []LastCopyWins
<1>1. IInv /\ CopyInv /\ [Next]_vars => CopyInv'
  BY CopyStep
<1> QED BY <1>1, InitCopyInv, Invariance, LastWhenSettled, PTL DEF Spec
=============================================================================
