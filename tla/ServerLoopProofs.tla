-------------------------- MODULE ServerLoopProofs --------------------------
(***************************************************************************)
(* Theorems about ServerLoop, for any number of clients and any capacity.  *)
(*                                                                         *)
(* What makes the undefined erase() and the stale slots tractable is one   *)
(* inequality and one copy.  Every erasure uses up an iteration, so the    *)
(* vector never gets shorter than what the loop has left; and the first    *)
(* erasure of a pass leaves a copy of the last slot behind the new end.    *)
(***************************************************************************)
EXTENDS ServerLoop, TLAPS, SequenceTheorems

\* Where the loop stands: it has one iteration behind it for each slot erased, and
\* between two passes there is no stale slot.
LoopBounds ==
  /\ Len(memory) = loopEnd
  /\ size <= loopEnd
  /\ loopEnd <= size + cursor - 1
  /\ pc = "recv" => cursor <= loopEnd
  /\ pc = "select" => loopEnd = size

\* After one erasure the slot behind the end is a copy of the last, unless the last
\* was itself erased: then the pass is over.
StaleCopy ==
  loopEnd = size + 1 /\ cursor <= loopEnd =>
    size \in 1 .. loopEnd /\ memory[loopEnd].client = memory[size].client

IInv == TypeOK /\ LoopBounds /\ StaleCopy /\ OnePlaceEach

\* Slots are updated in place: each keeps its client.
SameClients(slots) ==
  /\ slots \in Seq(Slots)
  /\ Len(slots) = Len(memory)
  /\ \A i \in 1 .. Len(memory) : slots[i].client = memory[i].client

-----------------------------------------------------------------------------
\* A slot is a client, its packets and the time since its last Alive.
LEMMA SlotParts ==
  ASSUME NEW s \in Slots
  PROVE  s.client \in Client /\ s.buffer \in Seq(Number) /\ s.silence \in 0 .. Timeout + 1
BY DEF Slots

\* The number after a number.
LEMMA SuccessorType == \A n \in Number : Successor(n) \in Number
BY LoopAssumption DEF Number, Successor

\* A sequence of slots written as a function.
LEMMA SlotsFromFunction ==
  ASSUME NEW n \in Nat, NEW f \in [1 .. n -> Slots]
  PROVE  f \in Seq(Slots) /\ Len(f) = n
OBVIOUS

\* One slot replaced by another of the same client.
LEMMA SlotReplaced ==
  ASSUME TypeOK, NEW i \in 1 .. Len(memory), NEW s \in Slots, s.client = memory[i].client,
         NEW slots, slots = [memory EXCEPT ![i] = s]
  PROVE  SameClients(slots)
<1>1. memory \in Seq(Slots)
  BY DEF TypeOK
<1> QED
  BY <1>1 DEF SameClients

-----------------------------------------------------------------------------
(* Erasing a slot. *)

\* What is left of the vector: all clients but one.
LEMMA EraseSlotStep ==
  ASSUME TypeOK, LoopBounds, pc = "recv", NEW slots, SameClients(slots), EraseSlot(slots)
  PROVE  /\ memory' \in Seq(Slots) /\ Len(memory') = Len(memory)
         /\ size' = size - 1 /\ size \in 1 .. Len(memory) /\ cursor' = cursor + 1
         /\ pc' \in {"visit", "halted"}
         /\ \A i \in 1 .. Len(memory) :
              memory'[i].client = IF ~IsStale /\ cursor <= i /\ i < size
                                  THEN memory[i + 1].client ELSE memory[i].client
<1>1. /\ memory \in Seq(Slots) /\ slots \in Seq(Slots) /\ Len(slots) = Len(memory)
      /\ size \in Nat /\ size <= Len(memory) /\ loopEnd \in Nat /\ cursor \in Nat \ {0}
      /\ \A i \in 1 .. Len(memory) : slots[i].client = memory[i].client
  BY DEF TypeOK, SameClients
<1>2. /\ size' = size - 1 /\ cursor' = cursor + 1 /\ pc' \in {"visit", "halted"}
      /\ memory' = IF IsStale THEN slots ELSE ShiftedFrom(slots, cursor)
  BY DEF EraseSlot
<1>3. size \in 1 .. Len(memory)
  BY <1>1 DEF LoopBounds
<1>4. CASE IsStale
  BY <1>1, <1>2, <1>3, <1>4
<1>5. CASE ~IsStale
  <2>1. memory' = [j \in 1 .. Len(memory) |->
                     IF cursor <= j /\ j < size THEN slots[j + 1] ELSE slots[j]]
    BY <1>1, <1>2, <1>5 DEF ShiftedFrom
  <2>2. \A j \in 1 .. Len(memory) :
          /\ slots[j] \in Slots
          /\ j < size => slots[j + 1] \in Slots /\ j + 1 \in 1 .. Len(memory)
    BY <1>1
  <2>3. memory' \in [1 .. Len(memory) -> Slots]
    BY <2>1, <2>2
  <2>4. memory' \in Seq(Slots) /\ Len(memory') = Len(memory)
    BY <1>1, <2>3, SlotsFromFunction
  <2>5. \A i \in 1 .. Len(memory) :
          memory'[i].client = IF cursor <= i /\ i < size THEN memory[i + 1].client
                                                         ELSE memory[i].client
    BY <1>1, <2>1, <2>2
  <2> QED
    BY <1>2, <1>3, <1>5, <2>4, <2>5
<1> QED
  BY <1>4, <1>5

\* What the rest of the invariant needs of an erasure, and whom it removes.
LEMMA EraseKeepsPlaces ==
  ASSUME IInv, pc = "recv", NEW slots, SameClients(slots), EraseSlot(slots),
         UNCHANGED <<loopEnd, backlog>>
  PROVE  /\ LoopBounds' /\ StaleCopy' /\ OnePlaceEach'
         /\ loopEnd <= size + 1 => \A c \in Erased : c = Slot.client
<1>0. TypeOK /\ LoopBounds /\ StaleCopy /\ OnePlaceEach
  BY DEF IInv
<1>1. /\ size \in 1 .. Len(memory) /\ loopEnd \in Nat /\ cursor \in Nat \ {0}
      /\ Len(memory) = loopEnd /\ loopEnd <= size + cursor - 1 /\ cursor <= loopEnd
  BY <1>0, EraseSlotStep DEF TypeOK, LoopBounds
<1>2. /\ Len(memory') = loopEnd' /\ loopEnd' = loopEnd /\ size' = size - 1
      /\ cursor' = cursor + 1 /\ pc' \in {"visit", "halted"}
      /\ \A i \in 1 .. loopEnd :
           memory'[i].client = IF cursor <= size /\ cursor <= i /\ i < size
                               THEN memory[i + 1].client ELSE memory[i].client
  BY <1>0, <1>1, EraseSlotStep DEF IsStale
<1>3. LoopBounds'
  BY <1>1, <1>2 DEF LoopBounds
<1>4. StaleCopy'
  BY <1>1, <1>2 DEF StaleCopy
<1>5. \A i \in 1 .. size' : \E j \in 1 .. size :
         /\ memory'[i].client = memory[j].client
         /\ j = IF cursor <= i THEN i + 1 ELSE i
  BY <1>1, <1>2
<1>6. OnePlaceEach'
  <2>1. ASSUME NEW i \in 1 .. size', NEW j \in 1 .. size', memory'[i].client = memory'[j].client
        PROVE  i = j
    BY <2>1, <1>0, <1>1, <1>2, <1>5 DEF OnePlaceEach
  <2>2. \A i \in DOMAIN backlog : \A k \in 1 .. size' : memory'[k].client # backlog[i]
    BY <1>0, <1>5 DEF OnePlaceEach, IsListed
  <2> QED
    BY <1>0, <2>1, <2>2 DEF OnePlaceEach, IsListed
<1>7. ASSUME loopEnd <= size + 1, NEW c \in Erased
      PROVE  c = Slot.client
  <2>1. PICK j \in 1 .. size : memory[j].client = c
    BY <1>7 DEF Erased, IsListed
  <2>2. \A i \in 1 .. size' : memory'[i].client # c
    BY <1>7 DEF Erased, IsListed
  <2>3. CASE cursor <= size
    <3>1. j < cursor => memory'[j].client = memory[j].client /\ j \in 1 .. size'
      BY <1>1, <1>2, <2>3
    <3>2. cursor < j => memory'[j - 1].client = memory[j].client /\ j - 1 \in 1 .. size'
      BY <1>1, <1>2, <2>3
    <3> QED
      BY <1>1, <2>1, <2>2, <3>1, <3>2 DEF Slot
  <2>4. CASE cursor > size
    <3>1. cursor = loopEnd /\ loopEnd = size + 1
      BY <1>1, <1>7, <2>4
    <3>2. j < size => memory'[j].client = memory[j].client /\ j \in 1 .. size'
      BY <1>1, <1>2, <2>4
    <3>3. memory[loopEnd].client = memory[size].client
      BY <1>0, <3>1 DEF StaleCopy
    <3> QED
      BY <1>1, <2>1, <2>2, <3>1, <3>2, <3>3 DEF Slot
  <2> QED
    BY <1>1, <2>3, <2>4
<1> QED
  BY <1>3, <1>4, <1>6, <1>7

\* A step that leaves every slot to its client removes none.
LEMMA KeepingPlaces ==
  ASSUME IInv, SameClients(memory'), UNCHANGED <<size, loopEnd, backlog>>,
         cursor' \in {cursor, cursor + 1}
  PROVE  /\ StaleCopy' /\ OnePlaceEach' /\ Erased = {}
         /\ Len(memory') = loopEnd' /\ size' <= loopEnd' /\ loopEnd' <= size' + cursor' - 1
<1>1. /\ size \in Nat /\ loopEnd \in Nat /\ cursor \in Nat \ {0} /\ Len(memory) = loopEnd
      /\ size <= loopEnd /\ loopEnd <= size + cursor - 1
  BY DEF IInv, TypeOK, LoopBounds
<1>2. Len(memory') = loopEnd /\ \A i \in 1 .. loopEnd : memory'[i].client = memory[i].client
  BY <1>1 DEF SameClients
<1>3. StaleCopy'
  BY <1>1, <1>2 DEF IInv, StaleCopy
<1>4. \A i \in 1 .. size : memory'[i].client = memory[i].client
  BY <1>1, <1>2
<1>5. OnePlaceEach'
  BY <1>4 DEF IInv, OnePlaceEach, IsListed
<1>6. Erased = {}
  BY <1>4 DEF Erased, IsListed
<1>7. Len(memory') = loopEnd' /\ size' <= loopEnd' /\ loopEnd' <= size' + cursor' - 1
  <2>1. size' = size /\ loopEnd' = loopEnd /\ cursor' \in {cursor, cursor + 1}
    OBVIOUS
  <2>2. loopEnd <= size + cursor' - 1
    <3>1. CASE cursor' = cursor
      BY <1>1, <3>1
    <3>2. CASE cursor' = cursor + 1
      BY <1>1, <3>2
    <3> QED
      BY <2>1, <3>1, <3>2
  <2> QED
    BY <1>1, <1>2, <2>1, <2>2
<1> QED
  BY <1>3, <1>5, <1>6, <1>7

-----------------------------------------------------------------------------
(* The steps. *)

LEMMA InitIInv == Init => IInv
<1> SUFFICES ASSUME Init PROVE IInv
  OBVIOUS
<1>1. TypeOK
  <2>1. 0 \in Number
    BY LoopAssumption DEF Number
  <2>2. sock \in [Client -> Seq(Number)] /\ backlog \in Seq(Client) /\ memory \in Seq(Slots)
    BY DEF Init
  <2>3. Len(memory) = 0 /\ size = 0 /\ loopEnd = 0 /\ cursor = 1
    BY DEF Init
  <2>4. size \in 0 .. Len(memory) /\ loopEnd \in 0 .. Len(memory) /\ cursor \in 1 .. Len(memory) + 1
    BY <2>3
  <2>5. /\ life \in [Client -> {"open", "closed"}] /\ number \in [Client -> Number]
        /\ next \in [Client -> Number]
    BY <2>1 DEF Init
  <2>6. shut \subseteq Client /\ torn \subseteq Client /\ late \in BOOLEAN /\ pc = "select"
    BY DEF Init
  <2> QED
    BY <2>2, <2>4, <2>5, <2>6 DEF TypeOK
<1>2. LoopBounds /\ StaleCopy /\ OnePlaceEach
  BY DEF Init, LoopBounds, StaleCopy, OnePlaceEach
<1> QED
  BY <1>1, <1>2 DEF IInv

LEMMA ClientKeepsIInv ==
  ASSUME IInv, NEW c \in Client, Connect(c) \/ Send(c) \/ Close(c)
  PROVE  IInv' /\ Erased = {}
<1>0. TypeOK /\ LoopBounds /\ StaleCopy /\ OnePlaceEach
  BY DEF IInv
<1>1. UNCHANGED <<memory, size, loopVars>>
  BY DEF Connect, Send, Close
<1>2. TypeOK'
  <2>1. memory' = memory /\ size' = size /\ loopEnd' = loopEnd /\ cursor' = cursor
        /\ late' = late /\ pc' = pc
    BY <1>1 DEF loopVars
  <2>2. /\ life \in [Client -> {"open", "closed"}] /\ sock \in [Client -> Seq(Number)]
        /\ number \in [Client -> Number] /\ next \in [Client -> Number] /\ 0 \in Number
        /\ backlog \in Seq(Client) /\ shut \subseteq Client /\ torn \subseteq Client
    BY <1>0, LoopAssumption DEF TypeOK, Number
  <2>3. Append(sock[c], number[c]) \in Seq(Number) /\ Successor(number[c]) \in Number
        /\ Append(backlog, c) \in Seq(Client)
    BY <2>2, SuccessorType
  <2>4. /\ life' \in [Client -> {"open", "closed"}] /\ sock' \in [Client -> Seq(Number)]
        /\ number' \in [Client -> Number] /\ next' \in [Client -> Number]
        /\ backlog' \in Seq(Client) /\ shut' \subseteq Client /\ torn' \subseteq Client
    <3>1. CASE Connect(c)
      BY <3>1, <2>2, <2>3 DEF Connect
    <3>2. CASE Send(c)
      BY <3>2, <2>2, <2>3 DEF Send
    <3>3. CASE Close(c)
      BY <3>3, <2>2 DEF Close
    <3> QED
      BY <3>1, <3>2, <3>3
  <2> QED
    BY <1>0, <2>1, <2>4 DEF TypeOK
<1>3. LoopBounds' /\ StaleCopy'
  BY <1>0, <1>1 DEF LoopBounds, StaleCopy, loopVars
<1>4. OnePlaceEach'
  <2>1. CASE Connect(c)
    <3>1. /\ backlog' = Append(backlog, c) /\ \A i \in DOMAIN backlog : backlog[i] # c
          /\ \A i \in DOMAIN memory : memory[i].client # c
      BY <2>1 DEF Connect
    <3>2. \A i \in 1 .. size : memory[i].client # c
      BY <1>0, <3>1 DEF TypeOK
    <3>3. /\ DOMAIN backlog' = 1 .. Len(backlog) + 1
          /\ \A i \in 1 .. Len(backlog) + 1 :
               backlog'[i] = IF i = Len(backlog) + 1 THEN c ELSE backlog[i]
          /\ DOMAIN backlog = 1 .. Len(backlog) /\ Len(backlog) \in Nat
      BY <1>0, <3>1 DEF TypeOK
    <3> QED
      BY <1>0, <1>1, <3>1, <3>2, <3>3 DEF OnePlaceEach, IsListed
  <2>2. CASE Send(c) \/ Close(c)
    BY <1>0, <1>1, <2>2 DEF OnePlaceEach, IsListed, Send, Close
  <2> QED
    BY <2>1, <2>2
<1>5. Erased = {}
  BY <1>1 DEF Erased, IsListed
<1> QED
  BY <1>2, <1>3, <1>4, <1>5 DEF IInv

LEMMA TickKeepsClients ==
  ASSUME IInv, Tick
  PROVE  SameClients(memory')
<1>0. TypeOK /\ LoopBounds
  BY DEF IInv
<1>1. SameClients(memory')
  <2>1. memory \in Seq(Slots) /\ Len(memory) \in Nat
    BY <1>0 DEF TypeOK
  <2>2. \A i \in 1 .. Len(memory) :
          LET t == [memory[i] EXCEPT !.silence = IF @ > Timeout THEN @ ELSE @ + 1]
          IN  t \in Slots /\ t.client = memory[i].client
    <3> SUFFICES ASSUME NEW i \in 1 .. Len(memory)
                 PROVE  LET t == [memory[i] EXCEPT !.silence = IF @ > Timeout THEN @ ELSE @ + 1]
                        IN  t \in Slots /\ t.client = memory[i].client
      OBVIOUS
    <3>1. memory[i] \in Slots
      BY <2>1
    <3>2. (IF memory[i].silence > Timeout THEN memory[i].silence ELSE memory[i].silence + 1)
            \in 0 .. Timeout + 1
      BY <3>1, SlotParts, LoopAssumption
    <3> QED
      BY <3>1, <3>2, Zenon DEF Slots
  <2>3. memory' = [i \in 1 .. Len(memory) |->
                    [memory[i] EXCEPT !.silence = IF @ > Timeout THEN @ ELSE @ + 1]]
    BY <2>1 DEF Tick
  <2>4. memory' \in [1 .. Len(memory) -> Slots]
    BY <2>2, <2>3
  <2> QED
    BY <2>1, <2>2, <2>3, <2>4, SlotsFromFunction DEF SameClients
<1> QED BY <1>1

LEMMA TickKeepsIInv ==
  ASSUME IInv, Tick
  PROVE  IInv' /\ Erased = {}
<1>0. TypeOK /\ LoopBounds
  BY DEF IInv
<1>1. SameClients(memory')
  BY TickKeepsClients
<1>2. UNCHANGED <<clientVars, backlog, shut, size, loopVars, next, torn>>
  BY DEF Tick
<1>3. TypeOK'
  BY <1>0, <1>1, <1>2 DEF TypeOK, SameClients, clientVars, loopVars
<1>4. StaleCopy' /\ OnePlaceEach' /\ Erased = {} /\ LoopBounds'
  BY <1>0, <1>1, <1>2, KeepingPlaces DEF LoopBounds, loopVars
<1> QED
  BY <1>3, <1>4 DEF IInv

LEMMA SelectKeepsIInv ==
  ASSUME IInv, Select
  PROVE  IInv' /\ Erased = {}
<1>0. TypeOK /\ LoopBounds /\ OnePlaceEach
  BY DEF IInv
<1>1. /\ size \in Nat /\ Len(memory) = size /\ loopEnd = size
      /\ memory \in Seq(Slots) /\ backlog \in Seq(Client)
  BY <1>0 DEF Select, TypeOK, LoopBounds
<1>2. cursor' = 1 /\ loopEnd' = size' /\ pc' = "visit"
      /\ UNCHANGED <<clientVars, shut, late, next, torn>>
  BY DEF Select, End
<1>3. CASE AcceptPending
  <2>1. /\ memory' = Append(memory, [client |-> Head(backlog), buffer |-> <<>>, silence |-> 0])
        /\ size' = size + 1 /\ backlog' = Tail(backlog) /\ backlog # <<>>
    BY <1>3 DEF Select, AcceptPending
  <2>2. Head(backlog) \in Client /\ Tail(backlog) \in Seq(Client) /\ Head(backlog) = backlog[1]
        /\ 1 \in DOMAIN backlog
    BY <1>1, <2>1
  <2>3. /\ DOMAIN Tail(backlog) = 1 .. Len(backlog) - 1 /\ DOMAIN backlog = 1 .. Len(backlog)
        /\ Len(backlog) \in Nat \ {0}
        /\ \A i \in 1 .. Len(backlog) - 1 : Tail(backlog)[i] = backlog[i + 1]
    BY <1>1, <2>1
  <2>4. [client |-> Head(backlog), buffer |-> <<>>, silence |-> 0] \in Slots
    <3>1. <<>> \in Seq(Number) /\ 0 \in 0 .. Timeout + 1
      BY LoopAssumption
    <3> QED
      BY <2>2, <3>1 DEF Slots
  <2>5. /\ memory' \in Seq(Slots) /\ Len(memory') = size + 1
        /\ \A i \in 1 .. size : memory'[i] = memory[i]
        /\ memory'[size + 1].client = Head(backlog)
    BY <1>1, <2>1, <2>4
  <2>6. TypeOK'
    BY <1>0, <1>1, <1>2, <2>1, <2>2, <2>5 DEF TypeOK, clientVars
  <2>7. LoopBounds' /\ StaleCopy'
    BY <1>1, <1>2, <2>1, <2>5 DEF LoopBounds, StaleCopy
  <2>8. \A i \in 1 .. size : memory[i].client # Head(backlog)
    BY <1>0, <2>2 DEF OnePlaceEach, IsListed
  <2>9. OnePlaceEach'
    <3>1. \A i, j \in 1 .. size + 1 : memory'[i].client = memory'[j].client => i = j
      BY <1>0, <1>1, <2>5, <2>8 DEF OnePlaceEach
    <3>2. \A i, j \in DOMAIN backlog' : backlog'[i] = backlog'[j] => i = j
      BY <1>0, <2>1, <2>3 DEF OnePlaceEach
    <3>3. \A i \in DOMAIN backlog' : \A k \in 1 .. size + 1 : memory'[k].client # backlog'[i]
      <4>1. \A i \in DOMAIN backlog' : backlog'[i] = backlog[i + 1] /\ i + 1 \in DOMAIN backlog /\ i + 1 # 1
        BY <2>1, <2>3
      <4>2. \A i \in DOMAIN backlog' : backlog'[i] # Head(backlog)
        BY <1>0, <2>2, <4>1 DEF OnePlaceEach
      <4>3. \A i \in DOMAIN backlog' : \A k \in 1 .. size : memory[k].client # backlog'[i]
        BY <1>0, <4>1 DEF OnePlaceEach, IsListed
      <4> QED
        BY <1>1, <2>5, <4>2, <4>3
    <3> QED
      BY <2>1, <3>1, <3>2, <3>3 DEF OnePlaceEach, IsListed
  <2>10. Erased = {}
    <3>1. \A i \in 1 .. size : i \in 1 .. size' /\ memory'[i].client = memory[i].client
      BY <1>1, <2>1, <2>5
    <3> QED
      BY <3>1 DEF Erased, IsListed
  <2> QED
    BY <2>6, <2>7, <2>9, <2>10 DEF IInv
<1>4. CASE ~AcceptPending
  <2>1. UNCHANGED <<memory, size, backlog>>
    BY <1>4 DEF Select
  <2>2. TypeOK'
    BY <1>0, <1>1, <1>2, <2>1 DEF TypeOK, clientVars
  <2>3. LoopBounds' /\ StaleCopy'
    BY <1>1, <1>2, <2>1 DEF LoopBounds, StaleCopy
  <2>4. OnePlaceEach' /\ Erased = {}
    BY <1>0, <2>1 DEF OnePlaceEach, Erased, IsListed
  <2> QED
    BY <2>2, <2>3, <2>4 DEF IInv
<1> QED
  BY <1>3, <1>4

LEMMA VisitKeepsClients ==
  ASSUME IInv, Visit
  PROVE  SameClients(memory') /\ next' \in [Client -> Number] /\ torn' \subseteq Client
<1>0. TypeOK /\ LoopBounds
  BY DEF IInv
<1>1. cursor \in 1 .. Len(memory) /\ memory \in Seq(Slots) /\ Slot \in Slots
  BY <1>0 DEF Visit, TypeOK, LoopBounds, Slot
<1>2. SameClients(memory') /\ next' \in [Client -> Number] /\ torn' \subseteq Client
  <2>1. CASE Slot.buffer = <<>>
    BY <1>0, <2>1 DEF Visit, SameClients, TypeOK
  <2>2. CASE Slot.buffer # <<>>
    <3> DEFINE s == Dispatched(Slot)
    <3>1. Slot.client \in Client /\ Slot.buffer \in Seq(Number) /\ Slot.silence \in 0 .. Timeout + 1
      BY <1>1, SlotParts
    <3>2. Head(Slot.buffer) \in Number /\ Tail(Slot.buffer) \in Seq(Number)
      BY <2>2, <3>1
    <3>3. (IF Head(Slot.buffer) = 0 THEN 0 ELSE Slot.silence) \in 0 .. Timeout + 1
      BY <3>1, LoopAssumption
    <3>4. s \in Slots /\ s.client = Slot.client
      BY <1>1, <3>1, <3>2, <3>3, Zenon DEF Slots, Rest, Dispatched
    <3>5. memory' = [memory EXCEPT ![cursor] = s]
      BY <2>2, Zenon DEF Visit, Slot
    <3>6. SameClients(memory')
      BY <1>0, <1>1, <3>4, <3>5, SlotReplaced DEF Slot
    <3>7. next' \in [Client -> Number]
      BY <1>0, <2>2, <3>1, <3>2, SuccessorType DEF Visit, TypeOK
    <3>8. torn' \subseteq Client
      BY <1>0, <2>2, <3>1 DEF Visit, TypeOK
    <3> QED
      BY <3>6, <3>7, <3>8
  <2> QED
    BY <2>1, <2>2
<1> QED BY <1>2

LEMMA VisitKeepsIInv ==
  ASSUME IInv, Visit
  PROVE  IInv' /\ Erased = {}
<1>0. TypeOK /\ LoopBounds
  BY DEF IInv
<1>2. SameClients(memory') /\ next' \in [Client -> Number] /\ torn' \subseteq Client
  BY VisitKeepsClients
<1>3. /\ UNCHANGED <<clientVars, backlog, shut, size, loopEnd, cursor>>
      /\ cursor <= loopEnd /\ late' \in BOOLEAN /\ pc' = "recv"
  BY DEF Visit
<1>4. TypeOK'
  BY <1>0, <1>2, <1>3 DEF TypeOK, SameClients, clientVars
<1>5. StaleCopy' /\ OnePlaceEach' /\ Erased = {} /\ LoopBounds'
  BY <1>0, <1>2, <1>3, KeepingPlaces DEF LoopBounds
<1> QED
  BY <1>4, <1>5 DEF IInv

LEMMA FinishKeepsIInv ==
  ASSUME IInv, FinishLoop
  PROVE  IInv' /\ Erased = {}
<1>0. TypeOK /\ OnePlaceEach
  BY DEF IInv
<1>1. /\ memory' = SubSeq(memory, 1, size) /\ loopEnd' = size /\ cursor' = 1 /\ late' = FALSE
      /\ pc' = "select" /\ UNCHANGED <<clientVars, backlog, shut, size, next, torn>>
  BY DEF FinishLoop, mClients
<1>2. /\ memory' \in Seq(Slots) /\ Len(memory') = size /\ size \in Nat
      /\ \A i \in 1 .. size : memory'[i] = memory[i]
  BY <1>0, <1>1 DEF TypeOK
<1>3. TypeOK'
  <2>1. /\ size' \in 0 .. Len(memory') /\ loopEnd' \in 0 .. Len(memory')
        /\ cursor' \in 1 .. Len(memory') + 1
    BY <1>1, <1>2
  <2> QED
    BY <1>0, <1>1, <1>2, <2>1 DEF TypeOK, clientVars
<1>4. LoopBounds' /\ StaleCopy'
  BY <1>1, <1>2 DEF LoopBounds, StaleCopy
<1>5. OnePlaceEach' /\ Erased = {}
  BY <1>0, <1>1, <1>2 DEF OnePlaceEach, Erased, IsListed
<1> QED
  BY <1>3, <1>4, <1>5 DEF IInv

\* What recv() leads to: the slot is erased or kept, and the loop goes on.
LEMMA ErasedOrKept ==
  ASSUME IInv, pc = "recv", NEW slots, SameClients(slots), EraseSlot(slots) \/ KeepSlot(slots),
         UNCHANGED <<loopEnd, backlog>>
  PROVE  /\ memory' \in Seq(Slots) /\ size' \in 0 .. Len(memory') /\ loopEnd' \in 0 .. Len(memory')
         /\ cursor' \in 1 .. Len(memory') + 1 /\ pc' \in {"select", "visit", "recv", "halted"}
         /\ LoopBounds' /\ StaleCopy' /\ OnePlaceEach'
         /\ loopEnd <= size + 1 => \A c \in Erased : c = Slot.client
<1>0. TypeOK /\ LoopBounds
  BY DEF IInv
<1>1. /\ cursor \in Nat \ {0} /\ cursor <= Len(memory) /\ Len(memory) = loopEnd
      /\ size \in Nat /\ size <= Len(memory) /\ memory \in Seq(Slots)
  BY <1>0 DEF TypeOK, LoopBounds
<1>2. CASE EraseSlot(slots)
  <2>1. /\ memory' \in Seq(Slots) /\ Len(memory') = Len(memory) /\ cursor' = cursor + 1
        /\ size' = size - 1 /\ size \in 1 .. Len(memory) /\ pc' \in {"visit", "halted"}
    BY <1>0, <1>2, EraseSlotStep
  <2>2. size' \in 0 .. Len(memory')
    BY <1>1, <2>1
  <2>3. loopEnd' \in 0 .. Len(memory') /\ cursor' \in 1 .. Len(memory') + 1
    BY <1>1, <2>1
  <2> QED
    BY <1>2, <2>1, <2>2, <2>3, EraseKeepsPlaces
<1>3. CASE KeepSlot(slots)
  <2>1. memory' = slots /\ cursor' = cursor + 1 /\ pc' = "visit" /\ size' = size
    BY <1>3 DEF KeepSlot
  <2>2. SameClients(memory')
    BY <2>1
  <2>3. memory' \in Seq(Slots) /\ Len(memory') = Len(memory)
    BY <2>2 DEF SameClients
  <2>4. size' \in 0 .. Len(memory')
    BY <1>1, <2>1, <2>3
  <2>5. loopEnd' \in 0 .. Len(memory') /\ cursor' \in 1 .. Len(memory') + 1
    BY <1>1, <2>1, <2>3
  <2>6. /\ StaleCopy' /\ OnePlaceEach' /\ Erased = {}
        /\ Len(memory') = loopEnd' /\ size' <= loopEnd' /\ loopEnd' <= size' + cursor' - 1
    BY <2>1, <2>2, KeepingPlaces
  <2>7. LoopBounds'
    BY <2>1, <2>6 DEF LoopBounds
  <2> QED
    BY <2>1, <2>3, <2>4, <2>5, <2>6, <2>7
<1> QED
  BY <1>2, <1>3

\* What recv() leaves in the slots.
LEMMA SlotsAfterRecv ==
  ASSUME IInv, RecvPackets \/ RecvZero \/ RecvFails
  PROVE  /\ sock' \in [Client -> Seq(Number)] /\ shut' \subseteq Client /\ torn' \subseteq Client
         /\ \E slots : SameClients(slots) /\ (EraseSlot(slots) \/ KeepSlot(slots))
<1>0. TypeOK /\ LoopBounds
  BY DEF IInv
<1>1. pc = "recv" /\ UNCHANGED <<loopEnd, backlog, late, number, life, next>>
  BY DEF RecvPackets, RecvZero, RecvFails, clientVars
<1>2. cursor \in 1 .. Len(memory) /\ memory \in Seq(Slots) /\ Slot \in Slots
  BY <1>0, <1>1 DEF TypeOK, LoopBounds, Slot
<1>3. Slot.client \in Client /\ Slot.buffer \in Seq(Number)
  BY <1>2, SlotParts
<1>4. SameClients(memory)
  BY <1>2 DEF SameClients
<1>5. /\ sock' \in [Client -> Seq(Number)] /\ shut' \subseteq Client /\ torn' \subseteq Client
      /\ \E slots : SameClients(slots) /\ (EraseSlot(slots) \/ KeepSlot(slots))
  <2>1. CASE RecvPackets
    <3>1. PICK n \in 1 .. Len(sock[Slot.client]) :
            /\ EraseIfLate([memory EXCEPT ![cursor].buffer = @ \o SubSeq(sock[Slot.client], 1, n)])
            /\ sock' = [sock EXCEPT ![Slot.client] = SubSeq(@, n + 1, Len(@))]
      BY <2>1 DEF RecvPackets
    <3>2. sock[Slot.client] \in Seq(Number) /\ sock \in [Client -> Seq(Number)]
      BY <1>0, <1>3 DEF TypeOK
    <3>3. /\ SubSeq(sock[Slot.client], 1, n) \in Seq(Number)
          /\ SubSeq(sock[Slot.client], n + 1, Len(sock[Slot.client])) \in Seq(Number)
      BY <3>2
    <3> DEFINE s == [Slot EXCEPT !.buffer = Slot.buffer \o SubSeq(sock[Slot.client], 1, n)]
               slots == [memory EXCEPT ![cursor] = s]
    <3>4. Slot.buffer \o SubSeq(sock[Slot.client], 1, n) \in Seq(Number)
      BY <1>3, <3>3
    <3>5. s \in Slots /\ s.client = Slot.client
      BY <1>2, <3>4, Zenon DEF Slots
    <3>6. SameClients(slots)
      BY <1>0, <1>2, <3>5, SlotReplaced DEF Slot
    <3>7. EraseIfLate(slots)
      BY <3>1 DEF Slot
    <3>8. EraseSlot(slots) \/ KeepSlot(slots)
      BY <3>7 DEF EraseIfLate
    <3>9. sock' \in [Client -> Seq(Number)]
      BY <3>1, <3>2, <3>3
    <3>10. shut' \subseteq Client /\ torn' \subseteq Client
      BY <1>0, <1>3, <2>1 DEF RecvPackets, TypeOK
    <3> QED
      BY <3>6, <3>8, <3>9, <3>10
  <2>2. CASE RecvZero
    <3>1. EraseSlot(memory)
      BY <2>2 DEF RecvZero
    <3>2. sock' \in [Client -> Seq(Number)] /\ shut' \subseteq Client /\ torn' \subseteq Client
      BY <1>0, <1>3, <2>2 DEF RecvZero, TypeOK, clientVars
    <3> QED
      BY <1>4, <3>1, <3>2
  <2>3. CASE RecvFails
    <3>1. EraseSlot(memory) \/ KeepSlot(memory)
      BY <2>3 DEF RecvFails, EraseIfLate
    <3>2. sock' \in [Client -> Seq(Number)] /\ shut' \subseteq Client /\ torn' \subseteq Client
      BY <1>0, <2>3 DEF RecvFails, TypeOK, clientVars
    <3> QED
      BY <1>4, <3>1, <3>2
  <2> QED
    BY <2>1, <2>2, <2>3
<1> QED BY <1>5

LEMMA RecvKeepsIInv ==
  ASSUME IInv, RecvPackets \/ RecvZero \/ RecvFails
  PROVE  IInv' /\ (loopEnd <= size + 1 => \A c \in Erased : c = Slot.client)
<1>0. TypeOK /\ LoopBounds
  BY DEF IInv
<1>1. pc = "recv" /\ UNCHANGED <<loopEnd, backlog, late, number, life, next>>
  BY DEF RecvPackets, RecvZero, RecvFails, clientVars
<1>5. /\ sock' \in [Client -> Seq(Number)] /\ shut' \subseteq Client /\ torn' \subseteq Client
      /\ \E slots : SameClients(slots) /\ (EraseSlot(slots) \/ KeepSlot(slots))
  BY SlotsAfterRecv
<1>6. PICK slots : SameClients(slots) /\ (EraseSlot(slots) \/ KeepSlot(slots))
  BY <1>5
<1>7. /\ memory' \in Seq(Slots) /\ size' \in 0 .. Len(memory') /\ loopEnd' \in 0 .. Len(memory')
      /\ cursor' \in 1 .. Len(memory') + 1 /\ pc' \in {"select", "visit", "recv", "halted"}
      /\ LoopBounds' /\ StaleCopy' /\ OnePlaceEach'
      /\ loopEnd <= size + 1 => \A c \in Erased : c = Slot.client
  BY <1>1, <1>6, ErasedOrKept
<1>8. TypeOK'
  BY <1>0, <1>1, <1>5, <1>7 DEF TypeOK
<1> QED
  BY <1>7, <1>8 DEF IInv

LEMMA NextKeepsIInv ==
  ASSUME IInv, [Next]_vars
  PROVE  /\ IInv'
         /\ loopEnd <= size + 1 => \A c \in Erased : c = Slot.client
<1>1. CASE UNCHANGED vars
  BY <1>1 DEF vars, clientVars, loopVars, IInv, TypeOK, LoopBounds, StaleCopy, OnePlaceEach,
              IsListed, Erased
<1>2. CASE Next
  <2>1. ASSUME NEW c \in Client, Connect(c) \/ Send(c) \/ Close(c)
        PROVE  IInv' /\ Erased = {}
    BY <2>1, ClientKeepsIInv
  <2> QED
    BY <1>2, <2>1, TickKeepsIInv, SelectKeepsIInv, VisitKeepsIInv, RecvKeepsIInv, FinishKeepsIInv
    DEF Next, Run
<1> QED
  BY <1>1, <1>2

-----------------------------------------------------------------------------
\* The inductive invariant of the loop.
THEOREM IInvHolds == Spec => []IInv
<1>1. IInv /\ [Next]_vars => IInv'
  BY NextKeepsIInv
<1> QED
  BY InitIInv, <1>1, PTL DEF Spec

\* Type correctness; erasing behind the end never makes the size negative.
THEOREM TypeCorrect == Spec => []TypeOK
<1>1. IInv => TypeOK
  BY DEF IInv
<1> QED
  BY <1>1, IInvHolds, PTL

\* No descriptor is ever in two slots.
THEOREM NoDescriptorTwice == Spec => []OnePlaceEach
<1>1. IInv => OnePlaceEach
  BY DEF IInv
<1> QED
  BY <1>1, IInvHolds, PTL

\* run() erases the client it visited, even behind the end of the vector, as long as
\* it is the first or second erasure of a pass.
THEOREM VisitedIsErasedAtFirst == Spec => ErasesTheVisited
<1>1. IInv /\ [Next]_vars => [loopEnd <= size + 1 => \A c \in Erased : c = Slot.client]_vars
  BY NextKeepsIInv
<1> QED
  BY <1>1, IInvHolds, PTL DEF Spec, ErasesTheVisited

\* After one erasure only the client that is now the last is read through a stale slot.
THEOREM OnlyLastIsTorn == Spec => OnlyTheLastIsTorn
<1> DEFINE A == loopEnd = size + 1 => \A c \in torn' \ torn : c = memory[size].client
<1>1. ASSUME IInv, Next PROVE A
  <2> SUFFICES ASSUME loopEnd = size + 1, NEW c \in torn' \ torn
               PROVE  c = memory[size].client
    OBVIOUS
  <2>1. (Visit \/ RecvPackets) /\ IsStale /\ c = Slot.client
    BY <1>1 DEF Next, Run, Select, Visit, RecvPackets, RecvZero, RecvFails, FinishLoop, Tick,
                Connect, Send, Close
  <2>2. cursor <= loopEnd /\ cursor > size /\ size \in Nat /\ cursor \in Nat
    BY <1>1, <2>1 DEF Visit, RecvPackets, IsStale, IInv, TypeOK, LoopBounds
  <2>3. cursor = loopEnd
    BY <2>2
  <2> QED
    BY <1>1, <2>1, <2>3 DEF Slot, IInv, StaleCopy
<1>2. IInv /\ [Next]_vars => [A]_vars
  BY <1>1
<1> QED
  BY <1>2, IInvHolds, PTL DEF Spec, OnlyTheLastIsTorn

-----------------------------------------------------------------------------
(* Numbers counted modulo SeqMod. *)

\* The quotient of a division is unique.
LEMMA QuotientIsUnique ==
  ASSUME NEW m \in Nat \ {0}, NEW p \in Nat, NEW q \in Nat,
         NEW r \in 0 .. m - 1, NEW s \in 0 .. m - 1, m * q + r = m * p + s
  PROVE  q = p
<1>1. \A a, b \in Nat : a > b => m * a >= m * b + m
  OBVIOUS
<1> QED
  BY <1>1

\* Division with a remainder.
LEMMA Division ==
  ASSUME NEW m \in Nat \ {0}, NEW x \in Nat
  PROVE  x = m * (x \div m) + (x % m) /\ x \div m \in Nat /\ x % m \in 0 .. m - 1
OBVIOUS

\* The remainder of a multiple and something less than the divisor.
LEMMA RemainderOf ==
  ASSUME NEW m \in Nat \ {0}, NEW q \in Nat, NEW r \in 0 .. m - 1
  PROVE  (m * q + r) % m = r
<1> DEFINE x == m * q + r
<1>1. x \in Nat
  OBVIOUS
<1>2. x = m * (x \div m) + (x % m) /\ x \div m \in Nat /\ x % m \in 0 .. m - 1
  BY <1>1, Division
<1> HIDE DEF x
<1>3. x \div m = q
  BY <1>2, QuotientIsUnique DEF x
<1> QED
  BY <1>2, <1>3 DEF x

\* What is added may be added to the remainder.
LEMMA RemainderOfSum ==
  ASSUME NEW m \in Nat \ {0}, NEW x \in Nat, NEW b \in Nat
  PROVE  ((x % m) + b) % m = (x + b) % m
<1> DEFINE q == x \div m
           r == x % m
           y == r + b
           p == y \div m
           s == y % m
<1>1. x = m * q + r /\ q \in Nat /\ r \in 0 .. m - 1
  BY Division
<1>2. y \in Nat
  BY <1>1
<1>3. y = m * p + s /\ p \in Nat /\ s \in 0 .. m - 1
  BY <1>2, Division
<1> HIDE DEF q, r, p, s
<1>4. x + b = m * (q + p) + s
  <2>1. x + b = m * q + y
    BY <1>1
  <2>2. m * (q + p) = m * q + m * p
    BY <1>1, <1>3
  <2> QED
    BY <1>1, <1>3, <2>1, <2>2
<1>5. (m * (q + p) + s) % m = s
  <2>1. q + p \in Nat
    BY <1>1, <1>3
  <2> QED
    BY <1>3, <2>1, RemainderOf
<1> QED
  BY <1>4, <1>5 DEF r, s

-----------------------------------------------------------------------------
(* Packets that continue one another. *)

\* The packets in left continue at the number first, and the one after them is last.
Continues(left, first, last) ==
  /\ \A k \in DOMAIN left : left[k] = (first + k - 1) % SeqMod
  /\ last = (first + Len(left)) % SeqMod

\* What is left of c's packets, first those in buffer, is what should be handled next.
Intact(c, buffer) == Continues(buffer \o sock[c], next[c], number[c])

LiveIntact ==
  \A i \in 1 .. size :
    memory[i].client \notin torn => Intact(memory[i].client, memory[i].buffer)

BacklogIntact ==
  \A i \in DOMAIN backlog : backlog[i] \notin torn => Intact(backlog[i], <<>>)

StreamInv == LiveIntact /\ BacklogIntact

LEMMA NumberType == SeqMod \in Nat \ {0} /\ \A n \in Number : n \in Nat /\ n % SeqMod = n
BY LoopAssumption DEF Number

\* Nothing is left.
LEMMA NothingContinues ==
  ASSUME NEW n \in Number
  PROVE  Continues(<<>>, n, n)
<1>1. n + Len(<<>>) = n
  BY NumberType
<1> QED
  BY <1>1, NumberType DEF Continues

\* One more packet is sent.
LEMMA SentContinues ==
  ASSUME NEW left \in Seq(Number), NEW first \in Number, NEW last \in Number,
         Continues(left, first, last)
  PROVE  Continues(Append(left, last), first, Successor(last))
<1>0. first \in Nat /\ last \in Nat /\ SeqMod \in Nat \ {0}
  BY NumberType
<1> DEFINE new == Append(left, last)
<1>1. /\ Len(left) \in Nat /\ Len(new) = Len(left) + 1 /\ DOMAIN new = 1 .. Len(left) + 1
      /\ \A k \in 1 .. Len(left) : new[k] = left[k] /\ k \in DOMAIN left
      /\ new[Len(left) + 1] = last
  OBVIOUS
<1>2. last = (first + Len(left)) % SeqMod
  BY DEF Continues
<1>3. \A k \in 1 .. Len(left) : new[k] = (first + k - 1) % SeqMod
  BY <1>1 DEF Continues
<1>4. first + (Len(left) + 1) - 1 = first + Len(left)
  BY <1>0, <1>1
<1>5. new[Len(left) + 1] = (first + (Len(left) + 1) - 1) % SeqMod
  BY <1>1, <1>2, <1>4
<1>6. Successor(last) = (first + Len(new)) % SeqMod
  <2>1. first + Len(left) \in Nat /\ (first + Len(left)) + 1 = first + Len(new)
    BY <1>0, <1>1
  <2>2. (((first + Len(left)) % SeqMod) + 1) % SeqMod = ((first + Len(left)) + 1) % SeqMod
    BY <2>1, NumberType, RemainderOfSum
  <2> QED
    BY <1>2, <2>1, <2>2 DEF Successor
<1> HIDE DEF new
<1>7. \A k \in DOMAIN new : new[k] = (first + k - 1) % SeqMod
  <2> SUFFICES ASSUME NEW k \in DOMAIN new PROVE new[k] = (first + k - 1) % SeqMod
    OBVIOUS
  <2>1. k \in 1 .. Len(left) \/ k = Len(left) + 1
    BY <1>1
  <2> QED
    BY <1>3, <1>5, <2>1
<1> QED
  BY <1>6, <1>7 DEF Continues, new

\* The first packet is handled.
LEMMA HandledContinues ==
  ASSUME NEW left \in Seq(Number), left # <<>>, NEW first \in Number, NEW last \in Number,
         Continues(left, first, last)
  PROVE  Continues(Tail(left), Successor(Head(left)), last)
<1>0. first \in Nat /\ last \in Nat /\ SeqMod \in Nat \ {0}
  BY NumberType
<1> DEFINE new == Tail(left)
           n == Successor(Head(left))
<1>1. /\ Len(left) \in Nat \ {0} /\ Len(new) = Len(left) - 1 /\ DOMAIN new = 1 .. Len(left) - 1
      /\ \A k \in 1 .. Len(left) - 1 : new[k] = left[k + 1] /\ k + 1 \in DOMAIN left
      /\ Head(left) = left[1] /\ 1 \in DOMAIN left
  OBVIOUS
<1>2. Head(left) = first
  <2>1. first + 1 - 1 = first
    BY NumberType
  <2> QED
    BY <1>1, <2>1, NumberType DEF Continues
<1>3. n = (first + 1) % SeqMod /\ first + 1 \in Nat
  BY <1>0, <1>2 DEF Successor
<1>4. ASSUME NEW b \in Nat
      PROVE  (n + b) % SeqMod = ((first + 1) + b) % SeqMod
  BY <1>0, <1>3, RemainderOfSum, ZenonT(60)
<1>5. n \in Nat
  <2>1. (first + 1) % SeqMod \in 0 .. SeqMod - 1
    BY <1>0, <1>3, Division
  <2> QED
    BY <1>0, <1>3, <2>1
<1> HIDE DEF new, n
<1>6. ASSUME NEW k \in DOMAIN new PROVE new[k] = (n + k - 1) % SeqMod
  <2>1. k \in 1 .. Len(left) - 1 /\ k - 1 \in Nat /\ (first + 1) + (k - 1) = first + (k + 1) - 1
        /\ n + (k - 1) = n + k - 1
    BY <1>0, <1>1, <1>5
  <2>2. new[k] = (first + (k + 1) - 1) % SeqMod
    BY <1>1, <2>1 DEF Continues
  <2>3. (n + (k - 1)) % SeqMod = ((first + 1) + (k - 1)) % SeqMod
    BY <1>4, <2>1
  <2> QED
    BY <2>1, <2>2, <2>3
<1>7. last = (n + Len(new)) % SeqMod
  <2>1. Len(new) \in Nat /\ (first + 1) + Len(new) = first + Len(left)
    BY <1>0, <1>1
  <2>2. last = (first + Len(left)) % SeqMod
    BY DEF Continues
  <2> QED
    BY <1>4, <2>1, <2>2
<1> QED
  BY <1>6, <1>7 DEF Continues, new, n

-----------------------------------------------------------------------------
(* Sequences of packets. *)

\* A slot's packets and those on their way, in a row.
LEMMA Joined ==
  ASSUME NEW b \in Seq(Number), NEW q \in Seq(Number)
  PROVE  /\ b \o q \in Seq(Number) /\ Len(b \o q) = Len(b) + Len(q)
         /\ \A k \in 1 .. Len(b) + Len(q) : (b \o q)[k] = IF k <= Len(b) THEN b[k] ELSE q[k - Len(b)]
OBVIOUS

LEMMA EqualSequences ==
  ASSUME NEW s \in Seq(Number), NEW t \in Seq(Number), Len(s) = Len(t),
         \A k \in 1 .. Len(s) : s[k] = t[k]
  PROVE  s = t
OBVIOUS

LEMMA NothingJoined == ASSUME NEW q \in Seq(Number) PROVE <<>> \o q = q /\ q \o <<>> = q
OBVIOUS

LEMMA SendJoins ==
  ASSUME NEW b \in Seq(Number), NEW q \in Seq(Number), NEW x \in Number
  PROVE  b \o Append(q, x) = Append(b \o q, x)
OBVIOUS

LEMMA HandleJoins ==
  ASSUME NEW b \in Seq(Number), NEW q \in Seq(Number), b # <<>>
  PROVE  Tail(b) \o q = Tail(b \o q) /\ Head(b) = Head(b \o q) /\ b \o q # <<>>
OBVIOUS

LEMMA RecvJoins ==
  ASSUME NEW b \in Seq(Number), NEW q \in Seq(Number), NEW n \in 1 .. Len(q)
  PROVE  (b \o SubSeq(q, 1, n)) \o SubSeq(q, n + 1, Len(q)) = b \o q
<1> DEFINE one == SubSeq(q, 1, n)
           two == SubSeq(q, n + 1, Len(q))
<1>1. /\ one \in Seq(Number) /\ Len(one) = n /\ \A k \in 1 .. n : one[k] = q[k]
      /\ two \in Seq(Number) /\ Len(two) = Len(q) - n
      /\ \A k \in 1 .. Len(q) - n : two[k] = q[n + k]
  OBVIOUS
<1>2. n \in Nat /\ Len(q) \in Nat /\ n <= Len(q) /\ Len(b) \in Nat
  OBVIOUS
<1> HIDE DEF one, two
<1>3. /\ b \o one \in Seq(Number) /\ Len(b \o one) = Len(b) + n
      /\ \A k \in 1 .. Len(b) + n : (b \o one)[k] = IF k <= Len(b) THEN b[k] ELSE one[k - Len(b)]
  BY <1>1, Joined
<1> DEFINE front == b \o one
<1> HIDE DEF front
<1>4. /\ front \o two \in Seq(Number) /\ Len(front \o two) = Len(front) + Len(two)
      /\ \A k \in 1 .. Len(front) + Len(two) :
           (front \o two)[k] = IF k <= Len(front) THEN front[k] ELSE two[k - Len(front)]
  BY <1>1, <1>3, Joined DEF front
<1>5. /\ b \o q \in Seq(Number) /\ Len(b \o q) = Len(b) + Len(q)
      /\ \A k \in 1 .. Len(b) + Len(q) : (b \o q)[k] = IF k <= Len(b) THEN b[k] ELSE q[k - Len(b)]
  BY Joined
<1>6. Len(front \o two) = Len(b \o q)
  BY <1>1, <1>2, <1>3, <1>4, <1>5 DEF front
<1>7. ASSUME NEW k \in 1 .. Len(front \o two) PROVE (front \o two)[k] = (b \o q)[k]
  <2>1. k \in 1 .. Len(b) + Len(q) /\ Len(front) = Len(b) + n
    BY <1>1, <1>2, <1>3, <1>4 DEF front
  <2>2. CASE k <= Len(b)
    BY <1>2, <1>3, <1>4, <1>5, <1>7, <2>1, <2>2 DEF front
  <2>3. CASE Len(b) < k /\ k <= Len(b) + n
    <3>1. k - Len(b) \in 1 .. n
      BY <1>2, <2>1, <2>3
    <3> QED
      BY <1>1, <1>2, <1>3, <1>4, <1>5, <1>7, <2>1, <2>3, <3>1 DEF front
  <2>4. CASE Len(b) + n < k
    <3>1. k - (Len(b) + n) \in 1 .. Len(q) - n /\ n + (k - (Len(b) + n)) = k - Len(b) /\ ~(k <= Len(b))
      BY <1>2, <2>1, <2>4
    <3>2. (front \o two)[k] = two[k - (Len(b) + n)]
      BY <1>2, <1>4, <1>7, <2>1, <2>4
    <3>3. two[k - (Len(b) + n)] = q[k - Len(b)]
      BY <1>1, <3>1
    <3> QED
      BY <1>5, <2>1, <3>1, <3>2, <3>3
  <2> QED
    BY <1>2, <2>1, <2>2, <2>3, <2>4
<1>8. front \o two = b \o q
  BY <1>4, <1>5, <1>6, <1>7, EqualSequences
<1> QED
  BY <1>8 DEF front, one, two

-----------------------------------------------------------------------------
(* The steps, and what is left of every stream. *)

\* What the streams are made of.
LEMMA StreamTypes ==
  ASSUME TypeOK
  PROVE  /\ \A c \in Client : sock[c] \in Seq(Number) /\ next[c] \in Number /\ number[c] \in Number
         /\ \A i \in 1 .. Len(memory) : memory[i] \in Slots
         /\ \A i \in DOMAIN backlog : backlog[i] \in Client
         /\ size \in Nat /\ size <= Len(memory) /\ Len(memory) \in Nat
BY DEF TypeOK

LEMMA InitStream == Init => StreamInv
BY DEF Init, StreamInv, LiveIntact, BacklogIntact

LEMMA ConnectKeepsStream ==
  ASSUME IInv, StreamInv, NEW c \in Client, Connect(c)
  PROVE  StreamInv'
<1>0. TypeOK
  BY DEF IInv
<1>1. /\ sock' = [sock EXCEPT ![c] = <<>>] /\ number' = [number EXCEPT ![c] = 0]
      /\ next' = [next EXCEPT ![c] = 0] /\ backlog' = Append(backlog, c)
      /\ torn' = torn \ {c} /\ memory' = memory /\ size' = size
      /\ \A i \in DOMAIN memory : memory[i].client # c
      /\ \A i \in DOMAIN backlog : backlog[i] # c
  BY DEF Connect
<1>2. \A d \in Client \ {c} : sock'[d] = sock[d] /\ number'[d] = number[d] /\ next'[d] = next[d]
  BY <1>0, <1>1 DEF TypeOK
<1>3. sock'[c] = <<>> /\ number'[c] = 0 /\ next'[c] = 0
  BY <1>0, <1>1 DEF TypeOK
<1>4. LiveIntact'
  <2> SUFFICES ASSUME NEW i \in 1 .. size, memory[i].client \notin torn'
               PROVE  Intact(memory[i].client, memory[i].buffer)'
    BY <1>1 DEF LiveIntact
  <2>1. i \in 1 .. Len(memory) /\ memory[i] \in Slots
    BY <1>0, StreamTypes
  <2>2. memory[i].client \in Client \ {c}
    BY <1>0, <1>1, <2>1, SlotParts DEF TypeOK
  <2>3. Intact(memory[i].client, memory[i].buffer)
    BY <1>1, <2>2 DEF StreamInv, LiveIntact
  <2> QED
    BY <1>1, <1>2, <2>2, <2>3 DEF Intact
<1>5. BacklogIntact'
  <2>1. /\ DOMAIN backlog' = 1 .. Len(backlog) + 1 /\ DOMAIN backlog = 1 .. Len(backlog)
        /\ Len(backlog) \in Nat
        /\ \A i \in 1 .. Len(backlog) : backlog'[i] = backlog[i]
        /\ backlog'[Len(backlog) + 1] = c
    BY <1>0, <1>1 DEF TypeOK
  <2> SUFFICES ASSUME NEW i \in DOMAIN backlog', backlog'[i] \notin torn'
               PROVE  Intact(backlog[i], <<>>)'
    BY DEF BacklogIntact
  <2>2. CASE i \in 1 .. Len(backlog)
    <3> DEFINE d == backlog[i]
    <3>1. d \in Client \ {c} /\ backlog'[i] = d /\ Intact(d, <<>>)
      BY <1>0, <1>1, <2>1, <2>2, StreamTypes DEF StreamInv, BacklogIntact
    <3> QED
      BY <1>2, <3>1 DEF Intact
  <2>3. CASE i = Len(backlog) + 1
    <3>1. backlog'[i] = c
      BY <2>1, <2>3
    <3>2. <<>> \o sock'[c] = <<>>
      BY <1>3
    <3>3. Continues(<<>>, 0, 0)
      BY NothingContinues, LoopAssumption DEF Number
    <3> QED
      BY <1>3, <3>1, <3>2, <3>3 DEF Intact
  <2> QED
    BY <2>1, <2>2, <2>3
<1> QED
  BY <1>4, <1>5 DEF StreamInv

\* A client with packets left sends one more.
LEMMA SendKeepsIntact ==
  ASSUME TypeOK, NEW c \in Client, Send(c), NEW d \in Client, NEW b \in Seq(Number), Intact(d, b)
  PROVE  Intact(d, b)'
<1>1. /\ sock' = [sock EXCEPT ![c] = Append(@, number[c])] /\ next' = next
      /\ number' = [number EXCEPT ![c] = Successor(@)]
  BY DEF Send
<1>2. CASE d # c
  <2>1. sock'[d] = sock[d] /\ next'[d] = next[d] /\ number'[d] = number[d]
    BY <1>1, <1>2 DEF TypeOK
  <2> QED
    BY <2>1 DEF Intact
<1>3. CASE d = c
  <2>1. sock'[c] = Append(sock[c], number[c]) /\ next'[c] = next[c]
        /\ number'[c] = Successor(number[c])
    BY <1>1 DEF TypeOK
  <2>2. sock[c] \in Seq(Number) /\ next[c] \in Number /\ number[c] \in Number
    BY StreamTypes
  <2>3. b \o sock[c] \in Seq(Number)
    BY <2>2, Joined
  <2>4. Continues(Append(b \o sock[c], number[c]), next[c], Successor(number[c]))
    BY <1>3, <2>2, <2>3, SentContinues DEF Intact
  <2> QED
    BY <1>3, <2>1, <2>2, <2>4, SendJoins DEF Intact
<1> QED
  BY <1>2, <1>3

LEMMA SendKeepsStream ==
  ASSUME IInv, StreamInv, NEW c \in Client, Send(c)
  PROVE  StreamInv'
<1>0. TypeOK
  BY DEF IInv
<1>1. memory' = memory /\ size' = size /\ backlog' = backlog /\ torn' = torn
  BY DEF Send
<1>2. LiveIntact'
  <2> SUFFICES ASSUME NEW i \in 1 .. size, memory[i].client \notin torn
               PROVE  Intact(memory[i].client, memory[i].buffer)'
    BY <1>1 DEF LiveIntact
  <2>1. memory[i].client \in Client /\ memory[i].buffer \in Seq(Number)
    BY <1>0, StreamTypes, SlotParts
  <2>2. \E d \in Client, b \in Seq(Number) : d = memory[i].client /\ b = memory[i].buffer
    BY <2>1
  <2>3. PICK d \in Client, b \in Seq(Number) : d = memory[i].client /\ b = memory[i].buffer
    BY <2>2
  <2>4. Intact(d, b)
    BY <2>3 DEF StreamInv, LiveIntact
  <2>5. Intact(d, b)'
    BY <1>0, <2>4, SendKeepsIntact
  <2> QED
    BY <1>1, <2>3, <2>5 DEF Intact
<1>3. BacklogIntact'
  <2> SUFFICES ASSUME NEW i \in DOMAIN backlog, backlog[i] \notin torn
               PROVE  Intact(backlog[i], <<>>)'
    BY <1>1 DEF BacklogIntact
  <2>1. PICK d \in Client : d = backlog[i]
    BY <1>0, StreamTypes
  <2>2. Intact(d, <<>>)
    BY <2>1 DEF StreamInv, BacklogIntact
  <2>3. <<>> \in Seq(Number)
    OBVIOUS
  <2>4. Intact(d, <<>>)'
    BY <1>0, <2>2, <2>3, SendKeepsIntact
  <2> QED
    BY <1>1, <2>1, <2>4 DEF Intact
<1> QED
  BY <1>2, <1>3 DEF StreamInv

\* A step that leaves every slot its client and packets, and everyone's number.
LEMMA UnmovedKeepsStream ==
  ASSUME StreamInv, UNCHANGED <<size, sock, number, next, backlog, torn>>,
         \A i \in 1 .. size : /\ memory'[i].client = memory[i].client
                              /\ memory'[i].buffer = memory[i].buffer
  PROVE  StreamInv'
BY DEF StreamInv, LiveIntact, BacklogIntact, Intact

LEMMA CloseKeepsStream == ASSUME StreamInv, NEW c \in Client, Close(c) PROVE StreamInv'
BY UnmovedKeepsStream DEF Close

LEMMA TickKeepsStream == ASSUME IInv, StreamInv, Tick PROVE StreamInv'
<1>1. \A i \in 1 .. Len(memory) : memory[i] \in Slots /\ i \in DOMAIN memory
  BY DEF IInv, TypeOK
<1>2. \A i \in 1 .. size : i \in 1 .. Len(memory)
  BY StreamTypes DEF IInv
<1>3. \A i \in 1 .. size : /\ memory'[i].client = memory[i].client
                           /\ memory'[i].buffer = memory[i].buffer
  BY <1>1, <1>2 DEF Tick, Slots
<1> QED
  BY <1>3, UnmovedKeepsStream DEF Tick, clientVars

LEMMA FinishKeepsStream == ASSUME IInv, StreamInv, FinishLoop PROVE StreamInv'
<1>1. \A i \in 1 .. size : memory'[i] = memory[i]
  BY DEF IInv, TypeOK, FinishLoop, mClients
<1> QED
  BY <1>1, UnmovedKeepsStream DEF FinishLoop, clientVars

LEMMA SelectKeepsStream == ASSUME IInv, StreamInv, Select PROVE StreamInv'
<1>0. TypeOK /\ LoopBounds
  BY DEF IInv
<1>1. UNCHANGED <<sock, number, next, torn>> /\ Len(memory) = size
  BY <1>0 DEF Select, clientVars, LoopBounds
<1>2. CASE AcceptPending
  <2> DEFINE s == [client |-> Head(backlog), buffer |-> <<>>, silence |-> 0]
  <2>1. /\ memory' = Append(memory, s) /\ size' = size + 1 /\ backlog' = Tail(backlog)
        /\ backlog # <<>>
    BY <1>2 DEF Select, AcceptPending
  <2>2. /\ 1 \in DOMAIN backlog /\ Head(backlog) = backlog[1]
        /\ \A i \in DOMAIN Tail(backlog) : Tail(backlog)[i] = backlog[i + 1] /\ i + 1 \in DOMAIN backlog
    BY <1>0, <2>1 DEF TypeOK
  <2>3. memory \in Seq(Slots) /\ size \in Nat
    BY <1>0 DEF TypeOK
  <2>4. s.client = backlog[1] /\ s.buffer = <<>>
    BY <2>2
  <2> HIDE DEF s
  <2>5. /\ \A i \in 1 .. size : memory'[i] = memory[i]
        /\ memory'[size + 1] = s
    BY <1>1, <2>1, <2>3
  <2>6. \A i \in 1 .. size + 1 : i \in 1 .. size \/ i = size + 1
    BY <2>3
  <2>7. LiveIntact'
    <3> SUFFICES ASSUME NEW i \in 1 .. size + 1, memory'[i].client \notin torn
                 PROVE  Intact(memory'[i].client, memory'[i].buffer)
      BY <1>1, <2>1 DEF LiveIntact, Intact
    <3>1. CASE i \in 1 .. size
      BY <2>5, <3>1 DEF StreamInv, LiveIntact
    <3>2. CASE i = size + 1
      BY <2>2, <2>4, <2>5, <3>2 DEF StreamInv, BacklogIntact
    <3> QED
      BY <2>6, <3>1, <3>2
  <2>8. BacklogIntact'
    BY <1>1, <2>1, <2>2 DEF StreamInv, BacklogIntact, Intact
  <2> QED
    BY <2>7, <2>8 DEF StreamInv
<1>3. CASE ~AcceptPending
  <2>1. UNCHANGED <<memory, size, backlog>>
    BY <1>3 DEF Select
  <2> QED
    BY <1>1, <2>1, UnmovedKeepsStream
<1> QED
  BY <1>2, <1>3

\* What is left of a client whose first packet is handled.
LEMMA HandledIsIntact ==
  ASSUME TypeOK, NEW c \in Client, NEW b \in Seq(Number), b # <<>>, Intact(c, b),
         next' = [next EXCEPT ![c] = Successor(Head(b))], UNCHANGED <<sock, number>>
  PROVE  Intact(c, Tail(b))'
<1>1. next'[c] = Successor(Head(b)) /\ sock'[c] = sock[c] /\ number'[c] = number[c]
  BY DEF TypeOK
<1>2. sock[c] \in Seq(Number) /\ next[c] \in Number /\ number[c] \in Number
  BY StreamTypes
<1>3. /\ Tail(b) \o sock[c] = Tail(b \o sock[c]) /\ Head(b) = Head(b \o sock[c])
      /\ b \o sock[c] # <<>> /\ b \o sock[c] \in Seq(Number)
  BY <1>2, HandleJoins, Joined
<1>4. Continues(Tail(b \o sock[c]), Successor(Head(b \o sock[c])), number[c])
  BY <1>2, <1>3, HandledContinues DEF Intact
<1> QED
  BY <1>1, <1>3, <1>4 DEF Intact

LEMMA VisitKeepsStream == ASSUME IInv, StreamInv, Visit PROVE StreamInv'
<1>0. TypeOK /\ LoopBounds /\ OnePlaceEach
  BY DEF IInv
<1>1. /\ cursor \in 1 .. Len(memory) /\ memory \in Seq(Slots) /\ Slot \in Slots
      /\ size \in Nat /\ size <= Len(memory)
  BY <1>0 DEF Visit, TypeOK, LoopBounds, Slot
<1>2. UNCHANGED <<sock, number, backlog, size, cursor>>
  BY DEF Visit, clientVars
<1>3. CASE Slot.buffer = <<>>
  BY <1>2, <1>3, UnmovedKeepsStream DEF Visit
<1>4. CASE Slot.buffer # <<>>
  <2>1. PICK c \in Client, b \in Seq(Number) : c = Slot.client /\ b = Slot.buffer
    BY <1>1, SlotParts
  <2>2. /\ next' = [next EXCEPT ![c] = Successor(Head(b))]
        /\ torn' = IF IsStale THEN torn \cup {c} ELSE torn
        /\ memory' = [memory EXCEPT ![cursor] = Dispatched(Slot)]
    BY <1>4, <2>1, Zenon DEF Visit
  <2>3. Dispatched(Slot).client = c /\ Dispatched(Slot).buffer = Tail(b)
    BY <1>1, <2>1 DEF Dispatched, Slots, Rest
  <2>4. /\ memory'[cursor] = Dispatched(Slot)
        /\ \A i \in 1 .. Len(memory) : i # cursor => memory'[i] = memory[i]
    BY <1>1, <2>2
  <2>5. \A d \in Client : d # c => next'[d] = next[d]
    BY <1>0, <2>2 DEF TypeOK
  <2>6. \A d : d \notin torn' => d \notin torn /\ (IsStale => d # c)
    BY <2>2
  <2>7. ASSUME NEW d \in Client, d # c, NEW x, Intact(d, x)
        PROVE  Intact(d, x)'
    BY <1>2, <2>5, <2>7 DEF Intact
  <2>8. LiveIntact'
    <3> SUFFICES ASSUME NEW i \in 1 .. size, memory'[i].client \notin torn'
                 PROVE  Intact(memory[i].client, memory[i].buffer)'
      BY <1>2 DEF LiveIntact
    <3>1. i \in 1 .. Len(memory)
      BY <1>1
    <3>2. CASE i = cursor
      <4>1. memory'[i].client = c /\ memory'[i].buffer = Tail(b)
        BY <2>3, <2>4, <3>2
      <4>2. Intact(c, b)
        BY <2>1, <2>6, <3>2, <4>1 DEF StreamInv, LiveIntact, Slot
      <4>3. Intact(c, Tail(b))'
        BY <1>0, <1>2, <1>4, <2>1, <2>2, <4>2, HandledIsIntact
      <4> QED
        BY <4>1, <4>3 DEF Intact
    <3>3. CASE i # cursor
      <4>1. memory'[i] = memory[i]
        BY <2>4, <3>1, <3>3
      <4>2. PICK d \in Client : d = memory[i].client
        BY <1>0, <3>1, StreamTypes, SlotParts
      <4>3. d # c
        <5>1. CASE IsStale
          BY <2>6, <4>1, <4>2, <5>1
        <5>2. CASE ~IsStale
          BY <1>0, <1>1, <2>1, <3>3, <4>2, <5>2 DEF OnePlaceEach, IsStale, Slot
        <5> QED
          BY <5>1, <5>2
      <4>4. PICK x : x = memory[i].buffer
        OBVIOUS
      <4>5. Intact(d, x)
        BY <2>6, <4>1, <4>2, <4>4 DEF StreamInv, LiveIntact
      <4>6. Intact(d, x)'
        BY <2>7, <4>3, <4>5
      <4> QED
        BY <4>1, <4>2, <4>4, <4>6 DEF Intact
    <3> QED
      BY <3>2, <3>3
  <2>9. BacklogIntact'
    <3> SUFFICES ASSUME NEW i \in DOMAIN backlog, backlog[i] \notin torn'
                 PROVE  Intact(backlog[i], <<>>)'
      BY <1>2 DEF BacklogIntact
    <3>1. PICK d \in Client : d = backlog[i]
      BY <1>0, StreamTypes
    <3>2. d # c
      <4>1. CASE IsStale
        BY <2>6, <3>1, <4>1
      <4>2. CASE ~IsStale
        BY <1>0, <1>1, <2>1, <3>1, <4>2 DEF OnePlaceEach, IsListed, IsStale, Slot
      <4> QED
        BY <4>1, <4>2
    <3>3. Intact(d, <<>>)
      BY <2>6, <3>1 DEF StreamInv, BacklogIntact
    <3>4. Intact(d, <<>>)'
      BY <2>7, <3>2, <3>3
    <3> QED
      BY <1>2, <3>1, <3>4 DEF Intact
  <2> QED
    BY <2>8, <2>9 DEF StreamInv
<1> QED
  BY <1>3, <1>4

\* What is live after recv() was live before, with what it received.
LEMMA LiveWereLive ==
  ASSUME TypeOK, LoopBounds, pc = "recv", NEW slots, SameClients(slots),
         EraseSlot(slots) \/ KeepSlot(slots)
  PROVE  \A i \in 1 .. size' : \E j \in 1 .. size : memory'[i] = slots[j]
<1>1. /\ memory \in Seq(Slots) /\ slots \in Seq(Slots) /\ Len(slots) = Len(memory)
      /\ size \in Nat /\ size <= Len(memory) /\ cursor \in Nat
  BY DEF TypeOK, SameClients
<1>2. CASE KeepSlot(slots)
  BY <1>2 DEF KeepSlot
<1>3. CASE EraseSlot(slots)
  <2>1. /\ size' = size - 1 /\ memory' = IF IsStale THEN slots ELSE ShiftedFrom(slots, cursor)
    BY <1>3 DEF EraseSlot
  <2>2. size \in 1 .. Len(memory)
    BY <1>3, EraseSlotStep
  <2>3. CASE IsStale
    BY <1>1, <2>1, <2>2, <2>3
  <2>4. CASE ~IsStale
    <3>1. \A i \in 1 .. Len(memory) :
            memory'[i] = IF cursor <= i /\ i < size THEN slots[i + 1] ELSE slots[i]
      BY <1>1, <2>1, <2>4 DEF ShiftedFrom
    <3> QED
      BY <1>1, <2>1, <2>2, <3>1
  <2> QED
    BY <2>3, <2>4
<1> QED
  BY <1>2, <1>3

\* recv() that returns nothing leaves every slot its packets.
LEMMA NothingReceivedKeepsStream ==
  ASSUME IInv, StreamInv, RecvZero \/ RecvFails
  PROVE  StreamInv'
<1>0. TypeOK /\ LoopBounds
  BY DEF IInv
<1>1. /\ pc = "recv" /\ UNCHANGED <<sock, number, next, backlog, torn>>
      /\ EraseSlot(memory) \/ KeepSlot(memory)
  BY DEF RecvZero, RecvFails, EraseIfLate, clientVars
<1>2. SameClients(memory)
  BY <1>0 DEF TypeOK, SameClients
<1>3. \A i \in 1 .. size' : \E j \in 1 .. size : memory'[i] = memory[j]
  BY <1>0, <1>1, <1>2, LiveWereLive
<1> QED
  BY <1>1, <1>3 DEF StreamInv, LiveIntact, BacklogIntact, Intact

\* What recv() returns goes from the connection to the buffer.
LEMMA ReceivedIsIntact ==
  ASSUME TypeOK, NEW c \in Client, NEW b \in Seq(Number), Intact(c, b),
         NEW n \in 1 .. Len(sock[c]), UNCHANGED <<next, number>>,
         sock' = [sock EXCEPT ![c] = SubSeq(@, n + 1, Len(@))],
         NEW got, got = SubSeq(sock[c], 1, n)
  PROVE  Intact(c, b \o got)'
<1>1. sock'[c] = SubSeq(sock[c], n + 1, Len(sock[c])) /\ next'[c] = next[c] /\ number'[c] = number[c]
  BY DEF TypeOK
<1>2. sock[c] \in Seq(Number)
  BY StreamTypes
<1>3. (b \o got) \o SubSeq(sock[c], n + 1, Len(sock[c])) = b \o sock[c]
  BY <1>2, RecvJoins
<1>4. Continues((b \o got) \o sock'[c], next'[c], number'[c])
  BY <1>1, <1>3 DEF Intact
<1> QED
  BY <1>4 DEF Intact

LEMMA RecvKeepsStream == ASSUME IInv, StreamInv, RecvPackets PROVE StreamInv'
<1>0. TypeOK /\ LoopBounds /\ OnePlaceEach
  BY DEF IInv
<1>1. /\ pc = "recv" /\ UNCHANGED <<number, next, backlog>>
  BY DEF RecvPackets
<1>2. /\ cursor \in 1 .. Len(memory) /\ memory \in Seq(Slots) /\ Slot \in Slots
      /\ size \in Nat /\ size <= Len(memory)
  BY <1>0, <1>1 DEF TypeOK, LoopBounds, Slot
<1>3. PICK c \in Client, b \in Seq(Number) : c = Slot.client /\ b = Slot.buffer
  BY <1>2, SlotParts
<1>4. PICK n \in 1 .. Len(sock[c]) :
        /\ EraseIfLate([memory EXCEPT ![cursor].buffer = @ \o SubSeq(sock[c], 1, n)])
        /\ sock' = [sock EXCEPT ![c] = SubSeq(@, n + 1, Len(@))]
  BY <1>3 DEF RecvPackets
<1>5. PICK got \in Seq(Number) : got = SubSeq(sock[c], 1, n)
  <2>1. sock[c] \in Seq(Number)
    BY <1>0, StreamTypes
  <2>2. SubSeq(sock[c], 1, n) \in Seq(Number)
    BY <2>1
  <2> QED
    BY <2>2
<1>6. PICK s \in Slots : s = [Slot EXCEPT !.buffer = b \o got] /\ s.client = c /\ s.buffer = b \o got
  <2> DEFINE t == [Slot EXCEPT !.buffer = b \o got]
  <2>1. b \o got \in Seq(Number)
    BY <1>5, Joined
  <2>2. t \in Slots /\ t.client = Slot.client /\ t.buffer = b \o got
    BY <1>2, <2>1, Zenon DEF Slots
  <2> QED
    BY <1>3, <2>2, Zenon
<1>7. PICK slots : slots = [memory EXCEPT ![cursor] = s]
  OBVIOUS
<1>8. SameClients(slots) /\ (EraseSlot(slots) \/ KeepSlot(slots))
  <2>1. SameClients(slots)
    BY <1>0, <1>2, <1>3, <1>6, <1>7, SlotReplaced DEF Slot
  <2>2. slots = [memory EXCEPT ![cursor].buffer = @ \o SubSeq(sock[c], 1, n)]
    BY <1>3, <1>5, <1>6, <1>7 DEF Slot
  <2> QED
    BY <1>4, <2>1, <2>2 DEF EraseIfLate
<1>9. \A i \in 1 .. size' : \E j \in 1 .. size : memory'[i] = slots[j]
  BY <1>0, <1>1, <1>8, LiveWereLive
<1>10. torn' = IF IsStale THEN torn \cup {c} ELSE torn
  BY <1>3 DEF RecvPackets
<1>11. \A d : d \notin torn' => d \notin torn /\ (IsStale => d # c)
  BY <1>10
<1>12. ASSUME NEW d \in Client, d # c, NEW x, Intact(d, x)
       PROVE  Intact(d, x)'
  <2>1. sock'[d] = sock[d]
    BY <1>0, <1>4, <1>12 DEF TypeOK
  <2> QED
    BY <1>1, <1>12, <2>1 DEF Intact
<1>13. ASSUME NEW j \in 1 .. size, slots[j].client \notin torn'
       PROVE  Intact(slots[j].client, slots[j].buffer)'
  <2>1. j \in 1 .. Len(memory) /\ slots[j] = IF j = cursor THEN s ELSE memory[j]
    BY <1>2, <1>7
  <2>2. CASE j = cursor
    <3>1. Intact(c, b)
      BY <1>3, <1>6, <1>11, <1>13, <2>1, <2>2 DEF StreamInv, LiveIntact, Slot
    <3>2. Intact(c, b \o got)'
      BY <1>0, <1>1, <1>4, <1>5, <3>1, ReceivedIsIntact
    <3> QED
      BY <1>6, <2>1, <2>2, <3>2 DEF Intact
  <2>3. CASE j # cursor
    <3>1. PICK d, x : d \in Client /\ d = memory[j].client /\ x = memory[j].buffer
      BY <1>0, <2>1, StreamTypes, SlotParts
    <3>2. d # c
      <4>1. CASE IsStale
        BY <1>11, <1>13, <2>1, <2>3, <3>1, <4>1
      <4>2. CASE ~IsStale
        BY <1>0, <1>2, <1>3, <2>3, <3>1, <4>2 DEF OnePlaceEach, IsStale, Slot
      <4> QED
        BY <4>1, <4>2
    <3>3. Intact(d, x)
      BY <1>11, <1>13, <2>1, <2>3, <3>1 DEF StreamInv, LiveIntact
    <3>4. Intact(d, x)'
      <4>1. d \in Client
        BY <3>1
      <4> QED
        BY <1>12, <3>2, <3>3, <4>1
    <3> QED
      BY <2>1, <2>3, <3>1, <3>4
  <2> QED
    BY <2>2, <2>3
<1>14. LiveIntact'
  BY <1>9, <1>13 DEF LiveIntact, Intact
<1>15. BacklogIntact'
  <2> SUFFICES ASSUME NEW i \in DOMAIN backlog, backlog[i] \notin torn'
               PROVE  Intact(backlog[i], <<>>)'
    BY <1>1 DEF BacklogIntact
  <2>1. PICK d \in Client : d = backlog[i]
    BY <1>0, StreamTypes
  <2>2. d # c
    <3>1. CASE IsStale
      BY <1>11, <2>1, <3>1
    <3>2. CASE ~IsStale
      BY <1>0, <1>2, <1>3, <2>1, <3>2 DEF OnePlaceEach, IsListed, IsStale, Slot
    <3> QED
      BY <3>1, <3>2
  <2>3. Intact(d, <<>>)
    BY <1>11, <2>1 DEF StreamInv, BacklogIntact
  <2>4. Intact(d, <<>>)'
    BY <1>12, <2>2, <2>3
  <2> QED
    BY <1>1, <2>1, <2>4 DEF Intact
<1> QED
  BY <1>14, <1>15 DEF StreamInv

LEMMA NextKeepsStream ==
  ASSUME IInv, StreamInv, [Next]_vars
  PROVE  StreamInv'
<1>1. CASE UNCHANGED vars
  BY <1>1, UnmovedKeepsStream DEF vars, clientVars
<1>2. CASE Next
  BY <1>2, ConnectKeepsStream, SendKeepsStream, CloseKeepsStream, TickKeepsStream,
     SelectKeepsStream, VisitKeepsStream, RecvKeepsStream, NothingReceivedKeepsStream,
     FinishKeepsStream DEF Next, Run
<1> QED
  BY <1>1, <1>2

\* handleEvent is given every packet of a connection once and in order, through all the
\* moving of slots, unless the loop went through a stale slot of that connection.
THEOREM StreamsStayIntact == Spec => []StreamIntact
<1>1. IInv /\ StreamInv /\ [Next]_vars => StreamInv'
  BY NextKeepsStream
<1>2. StreamInv => StreamIntact
  BY DEF StreamInv, LiveIntact, Intact, Continues, StreamIntact
<1> QED
  BY <1>1, <1>2, InitStream, IInvHolds, PTL DEF Spec

-----------------------------------------------------------------------------
(* ServerLoop implements ClientVector. *)

LEMMA ListedType ==
  ASSUME TypeOK
  PROVE  /\ size \in Nat /\ size <= Len(memory) /\ Len(memory) \in Nat
         /\ ListedClients \in Seq(Client) /\ Len(ListedClients) = size
         /\ DOMAIN ListedClients = 1 .. size
         /\ \A k \in 1 .. size : ListedClients[k] = memory[k].client
<1>1. /\ memory \in Seq(Slots) /\ size \in Nat /\ size <= Len(memory) /\ Len(memory) \in Nat
  BY DEF TypeOK
<1>2. \A k \in 1 .. size : memory[k].client \in Client
  BY <1>1, SlotParts
<1>3. ListedClients \in [1 .. size -> Client]
  BY <1>2 DEF ListedClients
<1> QED
  BY <1>1, <1>3 DEF ListedClients

\* A sequence of clients written as a function.
LEMMA ClientsFromFunction ==
  ASSUME NEW n \in Nat, NEW f \in [1 .. n -> Client]
  PROVE  f \in Seq(Client) /\ Len(f) = n
OBVIOUS

\* The slots of the vector keep their clients.
LEMMA SameListed ==
  ASSUME size' = size, \A k \in 1 .. size : memory'[k].client = memory[k].client
  PROVE  ListedClients' = ListedClients
BY DEF ListedClients

LEMMA SelectIsPushBack ==
  ASSUME IInv, Select
  PROVE  [TheVector!VecNext]_ListedClients
<1>0. TypeOK /\ LoopBounds /\ OnePlaceEach /\ TypeOK'
  BY SelectKeepsIInv DEF IInv
<1>1. CASE ~AcceptPending
  BY <1>1, SameListed DEF Select
<1>2. CASE AcceptPending
  <2> DEFINE c == Head(backlog)
  <2>1. /\ memory' = Append(memory, [client |-> c, buffer |-> <<>>, silence |-> 0])
        /\ size' = size + 1 /\ backlog # <<>> /\ pc = "select"
    BY <1>2 DEF Select, AcceptPending
  <2>2. c \in Client /\ c = backlog[1] /\ 1 \in DOMAIN backlog
    BY <1>0, <2>1 DEF TypeOK
  <2> HIDE DEF c
  <2>3. Len(memory) = size /\ memory \in Seq(Slots)
    BY <1>0, <2>1 DEF LoopBounds, TypeOK
  <2>4. /\ \A k \in 1 .. size : memory'[k].client = memory[k].client
        /\ memory'[size + 1].client = c
    BY <2>1, <2>3
  <2>5. \A k \in 1 .. size : memory[k].client # c
    BY <1>0, <2>2 DEF OnePlaceEach, IsListed
  <2>6. ~TheVector!IsIn(c)
    BY <1>0, <2>5, ListedType DEF TheVector!IsIn
  <2>7. /\ ListedClients' \in Seq(Client) /\ Len(ListedClients') = size + 1
        /\ \A k \in 1 .. size + 1 : ListedClients'[k] = memory'[k].client
    <3>1. memory' \in Seq(Slots) /\ size \in Nat /\ \A k \in 1 .. size + 1 : k \in 1 .. Len(memory')
      BY <1>0, <2>1 DEF TypeOK
    <3>2. \A k \in 1 .. size + 1 : memory'[k].client \in Client
      BY <3>1, SlotParts
    <3>3. ListedClients' = [k \in 1 .. size + 1 |-> memory'[k].client]
      BY <2>1 DEF ListedClients
    <3>4. ListedClients' \in [1 .. size + 1 -> Client]
      BY <3>2, <3>3
    <3> QED
      BY <3>1, <3>3, <3>4, ClientsFromFunction
  <2>8. /\ Append(ListedClients, c) \in Seq(Client) /\ Len(Append(ListedClients, c)) = size + 1
        /\ \A k \in 1 .. size : Append(ListedClients, c)[k] = ListedClients[k]
        /\ Append(ListedClients, c)[size + 1] = c
    BY <1>0, <2>2, ListedType
  <2>9. \A k \in 1 .. size + 1 : ListedClients'[k] = Append(ListedClients, c)[k]
    <3>1. \A k \in 1 .. size + 1 : k \in 1 .. size \/ k = size + 1
      BY <1>0, ListedType
    <3> QED
      BY <1>0, <2>4, <2>7, <2>8, <3>1, ListedType
  <2>10. ListedClients' = Append(ListedClients, c)
    BY <2>7, <2>8, <2>9, SeqEqual
  <2> QED
    BY <2>2, <2>6, <2>10 DEF TheVector!VecNext, TheVector!PushBack
<1> QED
  BY <1>1, <1>2

LEMMA EraseIsTake ==
  ASSUME TypeOK, LoopBounds, pc = "recv", NEW slots, SameClients(slots), EraseSlot(slots)
  PROVE  TheVector!VecNext
<1> DEFINE k == IF IsStale THEN size ELSE cursor
<1>1. /\ size' = size - 1 /\ size \in 1 .. Len(memory)
      /\ \A j \in 1 .. Len(memory) :
           memory'[j].client = IF ~IsStale /\ cursor <= j /\ j < size
                               THEN memory[j + 1].client ELSE memory[j].client
  BY EraseSlotStep
<1>2. size \in Nat /\ Len(memory) \in Nat /\ cursor \in Nat \ {0}
  BY <1>1 DEF TypeOK
<1>3. k \in 1 .. size
  BY <1>1, <1>2 DEF IsStale
<1>4. \A j \in 1 .. size - 1 :
        memory'[j].client = IF j < k THEN memory[j].client ELSE memory[j + 1].client
  BY <1>1, <1>2 DEF IsStale
<1> HIDE DEF k
<1>5. \A j \in 1 .. size - 1 : j \in 1 .. size /\ j + 1 \in 1 .. size
  BY <1>2
<1>6. ListedClients' = [j \in 1 .. Len(ListedClients) - 1 |->
                          IF j < k THEN ListedClients[j] ELSE ListedClients[j + 1]]
  <2>1. ListedClients' = [j \in 1 .. size - 1 |-> memory'[j].client]
    BY <1>1 DEF ListedClients
  <2> QED
    BY <1>4, <1>5, <2>1, ListedType
<1>7. TheVector!Take(k)
  BY <1>6 DEF TheVector!Take
<1> QED
  BY <1>3, <1>7, ListedType DEF TheVector!VecNext

LEMMA RecvIsTake ==
  ASSUME IInv, RecvPackets \/ RecvZero \/ RecvFails
  PROVE  [TheVector!VecNext]_ListedClients
<1>0. TypeOK /\ LoopBounds
  BY DEF IInv
<1>1. pc = "recv"
  BY DEF RecvPackets, RecvZero, RecvFails
<1>2. PICK slots : SameClients(slots) /\ (EraseSlot(slots) \/ KeepSlot(slots))
  BY SlotsAfterRecv
<1>3. CASE EraseSlot(slots)
  BY <1>0, <1>1, <1>2, <1>3, EraseIsTake
<1>4. CASE KeepSlot(slots)
  <2>1. size' = size /\ \A k \in 1 .. Len(memory) : memory'[k].client = memory[k].client
    BY <1>2, <1>4 DEF KeepSlot, SameClients
  <2>2. \A k \in 1 .. size : k \in 1 .. Len(memory)
    BY <1>0, ListedType
  <2> QED
    BY <2>1, <2>2, SameListed
<1> QED
  BY <1>2, <1>3, <1>4

LEMMA StepIsVectorStep ==
  ASSUME IInv, [Next]_vars
  PROVE  [TheVector!VecNext]_ListedClients
<1>0. TypeOK
  BY DEF IInv
<1>1. CASE Select
  BY <1>1, SelectIsPushBack
<1>2. CASE RecvPackets \/ RecvZero \/ RecvFails
  BY <1>2, RecvIsTake
<1>3. CASE FinishLoop
  <2>1. memory' = SubSeq(memory, 1, size) /\ size' = size
    BY <1>3 DEF FinishLoop, mClients
  <2>2. \A k \in 1 .. size : memory'[k] = memory[k]
    BY <1>0, <2>1 DEF TypeOK
  <2> QED
    BY <2>1, <2>2, SameListed
<1>4. CASE Visit \/ Tick
  <2>1. size' = size /\ \A k \in 1 .. Len(memory) : memory'[k].client = memory[k].client
    <3>1. size' = size
      BY <1>4 DEF Visit, Tick
    <3>2. SameClients(memory')
      BY <1>4, TickKeepsClients, VisitKeepsClients
    <3> QED
      BY <3>1, <3>2 DEF SameClients
  <2>2. \A k \in 1 .. size : k \in 1 .. Len(memory)
    BY <1>0, ListedType
  <2> QED
    BY <2>1, <2>2, SameListed
<1>5. CASE UNCHANGED <<memory, size>>
  BY <1>5, SameListed
<1>6. ASSUME NEW c \in Client, Connect(c) \/ Send(c) \/ Close(c)
      PROVE  UNCHANGED <<memory, size>>
  BY <1>6 DEF Connect, Send, Close
<1> QED
  BY <1>1, <1>2, <1>3, <1>4, <1>5, <1>6 DEF Next, Run, vars

\* Whatever the loop erases, and wherever behind the end of the vector it does so, the
\* clients that are listed change by one that is added or one that is taken out.
THEOREM LoopKeepsVector == Spec => VectorIsKept
<1>1. Init => TheVector!VecInit
  BY DEF Init, TheVector!VecInit, ListedClients
<1>2. IInv /\ [Next]_vars => [TheVector!VecNext]_ListedClients
  BY StepIsVectorStep
<1> QED
  BY <1>1, <1>2, IInvHolds, PTL DEF Spec, VectorIsKept, TheVector!VecSpec
=============================================================================
