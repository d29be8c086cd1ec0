----------------------------- MODULE ServerLoop -----------------------------
(***************************************************************************)
(* Server::run, the loop of the sysmodule's server thread: accept a        *)
(* client, then visit every client in turn, and erase from mClients those  *)
(* that have closed their connection or have been silent for too long.     *)
(*                                                                         *)
(* The clients are values in a vector, and erase() is called from inside a *)
(* range-for over that vector.  The loop keeps the end it started with, so *)
(* after an erasure it goes on behind the new end, to a slot that still    *)
(* holds the bytes of the client that was last: a stale slot.              *)
(*                                                                         *)
(* PacketStream shows what happens to the bytes of one connection.  Here a *)
(* connection carries whole packets, and a packet is its number, counted   *)
(* modulo SeqMod.  Time is counted per slot in units of which Timeout make *)
(* the 15 seconds of run().  What the render thread does to the same       *)
(* vector is in DrawMirror.                                                *)
(***************************************************************************)
EXTENDS Naturals, Sequences

CONSTANTS
  Client,      \* connections; one may be used again when nothing is left of it
  BufferCap,   \* packets mBuffer holds
  SocketCap,   \* packets a connection holds on their way
  Timeout,     \* a client silent for longer is erased: 15 s
  SeqMod       \* packets are numbered modulo SeqMod; those with number 0 are Alive

ASSUME LoopAssumption ==
  /\ BufferCap \in Nat \ {0}
  /\ SocketCap \in Nat \ {0}
  /\ Timeout \in Nat
  /\ SeqMod \in Nat \ {0, 1}

VARIABLES
  life,      \* a client's end of its connection: "open" or "closed"
  sock,      \* packets on their way to the server
  number,    \* the number of the client's next packet
  backlog,   \* connections not accepted yet
  shut,      \* connections the server has closed
  memory,    \* slots of the vector mClients; those after the first size are stale
  size,      \* mClients.size()
  loopEnd,   \* the end the range-for read when it started
  cursor,    \* the slot it is at: i + 1
  late,      \* seconds.count() > 15, measured before handleEvent
  pc,        \* "select", "visit" (a slot is next), "recv" (blocked in it) or "halted"
  next,      \* history: the number of the packet that should be handled next
  torn       \* history: connections some packet of which was touched through a stale slot

clientVars == <<life, sock, number>>
loopVars == <<loopEnd, cursor, late, pc>>
vars == <<clientVars, backlog, shut, memory, size, loopVars, next, torn>>

Number == 0 .. SeqMod - 1
Slots == [client : Client, buffer : Seq(Number), silence : 0 .. Timeout + 1]

mClients == SubSeq(memory, 1, size)
IsListed(c) == \E i \in 1 .. size : memory[i].client = c

Slot == memory[cursor]
IsStale == cursor > size
Successor(n) == (n + 1) % SeqMod

-----------------------------------------------------------------------------
(* The clients, and time. *)

Connect(c) ==
  /\ life[c] = "closed"
  /\ \A i \in DOMAIN memory : memory[i].client # c
  /\ \A i \in DOMAIN backlog : backlog[i] # c
  /\ life' = [life EXCEPT ![c] = "open"]
  /\ sock' = [sock EXCEPT ![c] = <<>>]
  /\ number' = [number EXCEPT ![c] = 0]
  /\ next' = [next EXCEPT ![c] = 0]
  /\ backlog' = Append(backlog, c)
  /\ shut' = shut \ {c}
  /\ torn' = torn \ {c}
  /\ UNCHANGED <<memory, size, loopVars>>

\* What is sent after the server has closed its end goes nowhere.
Send(c) ==
  /\ life[c] = "open"
  /\ c \notin shut
  /\ Len(sock[c]) < SocketCap
  /\ sock' = [sock EXCEPT ![c] = Append(@, number[c])]
  /\ number' = [number EXCEPT ![c] = Successor(@)]
  /\ UNCHANGED <<life, backlog, shut, memory, size, loopVars, next, torn>>

Close(c) ==
  /\ life[c] = "open"
  /\ life' = [life EXCEPT ![c] = "closed"]
  /\ UNCHANGED <<sock, number, backlog, shut, memory, size, loopVars, next, torn>>

\* Time passes for all slots alike; beyond the limit it is not counted.
Tick ==
  /\ memory' = [i \in DOMAIN memory |->
                  [memory[i] EXCEPT !.silence = IF @ > Timeout THEN @ ELSE @ + 1]]
  /\ UNCHANGED <<clientVars, backlog, shut, size, loopVars, next, torn>>

-----------------------------------------------------------------------------
(* The server thread. *)

AcceptPending == backlog # <<>>

End(n) == n

\* The top of the loop: select() does not wait; at most one connection is accepted.
Select ==
  /\ pc = "select"
  /\ IF AcceptPending
     THEN /\ memory' = Append(memory, [client |-> Head(backlog), buffer |-> <<>>, silence |-> 0])
          /\ size' = size + 1
          /\ backlog' = Tail(backlog)
     ELSE UNCHANGED <<memory, size, backlog>>
  /\ cursor' = 1
  /\ loopEnd' = End(size')
  /\ pc' = "visit"
  /\ UNCHANGED <<clientVars, shut, late, next, torn>>

NotMoved(buffer) == buffer
Rest(buffer) == Tail(buffer)

\* A slot after its first packet was handled; an Alive makes it heard from.
Dispatched(s) ==
  [s EXCEPT !.buffer = Rest(@),
            !.silence = IF Head(s.buffer) = 0 THEN 0 ELSE @]

\* The time is measured first; then handleEvent dispatches a packet, if it has one.
Visit ==
  /\ pc = "visit"
  /\ cursor <= loopEnd
  /\ late' = (Slot.silence > Timeout)
  /\ IF Slot.buffer = <<>>
     THEN UNCHANGED <<memory, next, torn>>
     ELSE /\ memory' = [memory EXCEPT ![cursor] = Dispatched(Slot)]
          /\ next' = [next EXCEPT ![Slot.client] = Successor(Head(Slot.buffer))]
          /\ torn' = IF IsStale THEN torn \cup {Slot.client} ELSE torn
  /\ pc' = "recv"
  /\ UNCHANGED <<clientVars, backlog, shut, size, loopEnd, cursor>>

NotShifted(slots, i) == slots
ShiftedPast(slots, i) == [j \in DOMAIN slots |-> IF i < j /\ j < size THEN slots[j + 1] ELSE slots[j]]
ShiftedFrom(slots, i) == [j \in DOMAIN slots |-> IF i <= j /\ j < size THEN slots[j + 1] ELSE slots[j]]

\* mClients.erase(begin() + i): the slots after it move down.  Erasing at the end or
\* behind it is undefined; libstdc++ shortens the vector, or moves a negative number of
\* slots and crashes.
EraseSlot(slots) ==
  /\ size' = size - 1
  /\ memory' = IF IsStale THEN slots ELSE ShiftedFrom(slots, cursor)
  /\ cursor' = cursor + 1
  /\ \/ pc' = "visit"
     \/ IsStale /\ pc' = "halted"

KeepSlot(slots) ==
  /\ memory' = slots
  /\ cursor' = cursor + 1
  /\ pc' = "visit"
  /\ UNCHANGED size

EraseIfLate(slots) == IF late THEN EraseSlot(slots) ELSE KeepSlot(slots)

\* recv() returns some packets.
RecvPackets ==
  /\ pc = "recv"
  /\ Slot.client \notin shut
  /\ \E n \in 1 .. Len(sock[Slot.client]) :
       /\ Len(Slot.buffer) + n <= BufferCap
       /\ EraseIfLate([memory EXCEPT ![cursor].buffer = @ \o SubSeq(sock[Slot.client], 1, n)])
       /\ sock' = [sock EXCEPT ![Slot.client] = SubSeq(@, n + 1, Len(@))]
  /\ torn' = IF IsStale THEN torn \cup {Slot.client} ELSE torn
  /\ UNCHANGED <<life, number, backlog, shut, loopEnd, late, next>>

\* recv() returns 0: the client has closed its end.
RecvZero ==
  /\ pc = "recv"
  /\ Slot.client \notin shut
  /\ sock[Slot.client] = <<>>
  /\ life[Slot.client] = "closed"
  /\ shut' = shut \cup {Slot.client}
  /\ EraseSlot(memory)
  /\ UNCHANGED <<clientVars, backlog, loopEnd, late, next, torn>>

\* recv() on a descriptor that is closed already: an error, which is logged.
RecvFails ==
  /\ pc = "recv"
  /\ Slot.client \in shut
  /\ EraseIfLate(memory)
  /\ UNCHANGED <<clientVars, backlog, shut, loopEnd, late, next, torn>>

\* The end of the range-for.  Nothing looks at the stale slots after that.
FinishLoop ==
  /\ pc = "visit"
  /\ cursor > loopEnd
  /\ memory' = mClients
  /\ loopEnd' = size
  /\ cursor' = 1
  /\ late' = FALSE
  /\ pc' = "select"
  /\ UNCHANGED <<clientVars, backlog, shut, size, next, torn>>

-----------------------------------------------------------------------------
Init ==
  /\ life = [c \in Client |-> "closed"]
  /\ sock = [c \in Client |-> <<>>]
  /\ number = [c \in Client |-> 0]
  /\ backlog = <<>>
  /\ shut = {}
  /\ memory = <<>>
  /\ size = 0
  /\ loopEnd = 0
  /\ cursor = 1
  /\ late = FALSE
  /\ pc = "select"
  /\ next = [c \in Client |-> 0]
  /\ torn = {}

Run == Select \/ Visit \/ RecvPackets \/ RecvZero \/ RecvFails \/ FinishLoop

Next == Run \/ Tick \/ \E c \in Client : Connect(c) \/ Send(c) \/ Close(c)

Spec == Init /\ [][Next]_vars

-----------------------------------------------------------------------------
(* Properties. *)

\* Type correctness.  An erasure behind the end never makes the size negative.
TypeOK ==
  /\ life \in [Client -> {"open", "closed"}]
  /\ sock \in [Client -> Seq(Number)]
  /\ number \in [Client -> Number]
  /\ backlog \in Seq(Client)
  /\ shut \subseteq Client
  /\ memory \in Seq(Slots)
  /\ size \in 0 .. Len(memory)
  /\ loopEnd \in 0 .. Len(memory)
  /\ cursor \in 1 .. Len(memory) + 1
  /\ late \in BOOLEAN
  /\ pc \in {"select", "visit", "recv", "halted"}
  /\ next \in [Client -> Number]
  /\ torn \subseteq Client

\* A connection is in one place: the backlog or one slot of the vector.  Two slots for
\* one descriptor would read each other's packets.
OnePlaceEach ==
  /\ \A i, j \in 1 .. size : memory[i].client = memory[j].client => i = j
  /\ \A i, j \in DOMAIN backlog : backlog[i] = backlog[j] => i = j
  /\ \A i \in DOMAIN backlog : ~IsListed(backlog[i])

\* handleEvent is given every packet once and in order, through all the moving of slots,
\* unless the loop went through a stale slot of that connection: what a live slot has
\* buffered and what is still on its way continue where the last one ended.
StreamIntact ==
  \A i \in 1 .. size :
    LET c == memory[i].client
        left == memory[i].buffer \o sock[c]
    IN  c \notin torn =>
          /\ \A k \in DOMAIN left : left[k] = (next[c] + k - 1) % SeqMod
          /\ number[c] = (next[c] + Len(left)) % SeqMod

Erased == {c \in Client : IsListed(c) /\ ~IsListed(c)'}

\* After one erasure the stale slot is that of the client that is now the last: no other
\* client can lose packets, or have them handled twice, in that pass.
OnlyTheLastIsTorn ==
  [][loopEnd = size + 1 => \A c \in torn' \ torn : c = memory[size].client]_vars

\* And if that client is found closed or late there, erasing behind the end of the vector
\* happens to remove just that client.
ErasesTheVisited ==
  [][loopEnd <= size + 1 => \A c \in Erased : c = Slot.client]_vars

\* Whatever is undefined about erase(), to the render thread the vector is one to which
\* clients are added, each once, and from which single clients are taken out.
ListedClients == [k \in 1 .. size |-> memory[k].client]

TheVector == INSTANCE ClientVector WITH listed <- ListedClients

VectorIsKept == TheVector!VecSpec
=============================================================================
