-------------------------- MODULE ComponentsProofs --------------------------
(***************************************************************************)
(* Proofs about Components, for any number of sessions and processes, and  *)
(* about ClientLink, for buffers of any size and any two periods.          *)
(***************************************************************************)
EXTENDS Components, ClientLink, TLAPS, SequenceTheorems, FiniteSetTheorems

\* Right behind a list comes its session.
ListsAreFollowed ==
  \A s \in Session : \A k \in 1 .. Len(components) :
    components[k] = ModuleList(s) =>
      k + 1 \in 1 .. Len(components) /\ components[k + 1] = DebuggingSession(s)

\* A session and its list are queued together, and the list is deleted first.
ListsGoFirst ==
  \A s \in Session :
    /\ ModuleList(s) \in mDelete => DebuggingSession(s) \in mDelete
    /\ DebuggingSession(s) \in mDelete /\ Exists(ModuleList(s)) => ModuleList(s) \in mDelete
    /\ s \in attached /\ Exists(DebuggingSession(s)) =>
         Exists(ModuleList(s)) \/ DebuggingSession(s) \in mDelete

NoListQueued == \A s \in Session : ModuleList(s) \notin mDelete

\* A sweep that deletes lists skips the session behind each, and deletes no session.
SweepSkipsSessions ==
  /\ NoListQueued \/
       \A s \in Session : \A k \in i .. Len(components) :
         components[k] = DebuggingSession(s) /\ DebuggingSession(s) \in mDelete =>
           k > i /\ components[k - 1] = ModuleList(s)
  /\ \A s \in Session : \A k \in 1 .. Len(components) :
       k < i /\ components[k] = ModuleList(s) => ModuleList(s) \notin mDelete

\* Windows are closed together with their lists, or none are as long as sessions are left
\* over.
ClosedWithLists ==
  IF backlog = {} THEN \A s \in Session : DebuggingSession(s) \in mDelete => Exists(ModuleList(s))
                  ELSE NoListQueued

Orderly ==
  /\ ListsAreFollowed /\ ListsGoFirst
  /\ pc = "sweep" => SweepSkipsSessions
  /\ pc = "update" => ClosedWithLists

IInv ==
  /\ DequeOK
  /\ MainWindow \notin mDelete
  /\ calm /\ pc # "crashed" => Orderly
  /\ CrashIsExplained

USE DEF vars, listVars, scanVars, processVars, sessionVars

LEMMA Names ==
  /\ MainWindow \in Component
  /\ \A s \in Session : DebuggingSession(s) \in Component /\ ModuleList(s) \in Component
  /\ \A s \in Session : DebuggingSession(s) # MainWindow /\ ModuleList(s) # MainWindow
  /\ \A s, t \in Session :
       /\ DebuggingSession(s) # ModuleList(t)
       /\ DebuggingSession(s) = DebuggingSession(t) => s = t
       /\ ModuleList(s) = ModuleList(t) => s = t
BY DEF Component, MainWindow, DebuggingSession, ModuleList

LEMMA ExistsAt ==
  ASSUME components \in Seq(Component), NEW c
  PROVE  Exists(c) <=> \E k \in 1 .. Len(components) : components[k] = c
BY DEF Exists, Range

LEMMA RemoveAtProperties ==
  ASSUME NEW S, NEW seq \in Seq(S), NEW k \in 1 .. Len(seq)
  PROVE  /\ RemoveAt(seq, k) \in Seq(S)
         /\ Len(RemoveAt(seq, k)) = Len(seq) - 1
         /\ \A j \in 1 .. Len(seq) - 1 :
              RemoveAt(seq, k)[j] = IF j < k THEN seq[j] ELSE seq[j + 1]
<1>1. Len(seq) \in Nat
  BY LenProperties
<1>2. /\ SubSeq(seq, 1, k - 1) \in Seq(S) /\ Len(SubSeq(seq, 1, k - 1)) = k - 1
      /\ \A j \in 1 .. k - 1 : SubSeq(seq, 1, k - 1)[j] = seq[j]
  BY <1>1, SubSeqProperties
<1>3. /\ SubSeq(seq, k + 1, Len(seq)) \in Seq(S)
      /\ Len(SubSeq(seq, k + 1, Len(seq))) = Len(seq) - k
      /\ \A j \in 1 .. Len(seq) - k : SubSeq(seq, k + 1, Len(seq))[j] = seq[k + j]
  BY <1>1, SubSeqProperties
<1> DEFINE front == SubSeq(seq, 1, k - 1)
           back == SubSeq(seq, k + 1, Len(seq))
<1>4. RemoveAt(seq, k) = front \o back
  BY DEF RemoveAt
<1>0. /\ front \in Seq(S) /\ Len(front) = k - 1 /\ \A j \in 1 .. k - 1 : front[j] = seq[j]
      /\ back \in Seq(S) /\ Len(back) = Len(seq) - k
      /\ \A j \in 1 .. Len(seq) - k : back[j] = seq[k + j]
  BY <1>2, <1>3
<1> HIDE DEF front, back
<1>5. /\ front \o back \in Seq(S) /\ Len(front \o back) = Len(seq) - 1
      /\ \A j \in 1 .. Len(seq) - 1 :
           (front \o back)[j] = IF j <= k - 1 THEN front[j] ELSE back[j - (k - 1)]
  <2>1. Len(front) + Len(back) = Len(seq) - 1
    BY <1>0, <1>1
  <2>2. /\ front \o back \in Seq(S) /\ Len(front \o back) = Len(front) + Len(back)
        /\ \A j \in 1 .. Len(front) + Len(back) :
             (front \o back)[j] = IF j <= Len(front) THEN front[j] ELSE back[j - Len(front)]
    BY <1>0, ConcatProperties
  <2> QED BY <1>0, <2>1, <2>2
<1>6. ASSUME NEW j \in 1 .. Len(seq) - 1
      PROVE  (front \o back)[j] = IF j < k THEN seq[j] ELSE seq[j + 1]
  <2>1. CASE j < k
    BY <1>0, <1>1, <1>5, <2>1
  <2>2. CASE j >= k
    <3>1. j - (k - 1) \in 1 .. Len(seq) - k /\ k + (j - (k - 1)) = j + 1
      BY <1>1, <2>2
    <3> QED BY <1>0, <1>1, <1>5, <2>2, <3>1
  <2>3. j < k \/ j >= k
    BY <1>1
  <2> QED BY <2>1, <2>2, <2>3
<1> QED BY <1>4, <1>5, <1>6

-----------------------------------------------------------------------------
(* The sweep. *)

LEMMA Deque ==
  ASSUME DequeOK
  PROVE  /\ components \in Seq(Component) /\ Len(components) \in Nat
         /\ DOMAIN components = 1 .. Len(components)
         /\ \A k \in 1 .. Len(components) : components[k] \in Component
         /\ \A j, k \in 1 .. Len(components) : components[j] = components[k] => j = k
         /\ i \in Nat \ {0}
BY LenProperties, ElementOfSeq DEF DequeOK

\* The deque without the component at position i.
LEMMA Deleted ==
  ASSUME DequeOK, DeleteComponent
  PROVE  /\ i \in 1 .. Len(components) /\ components[i] \in mDelete
         /\ components' \in Seq(Component)
         /\ Len(components') = Len(components) - 1
         /\ \A k \in 1 .. Len(components) - 1 :
              components'[k] = IF k < i THEN components[k] ELSE components[k + 1]
         /\ mDelete' = mDelete \ {components[i]} /\ i' = i + 1
         /\ UNCHANGED <<attached, pc, end, calm>>
<1>1. i \in 1 .. Len(components) /\ components' = RemoveAt(components, i)
  BY Deque DEF DeleteComponent
<1>2. components \in Seq(Component)
  BY Deque
<1> QED BY <1>1, <1>2, RemoveAtProperties DEF DeleteComponent, AfterErase

LEMMA DeletedExists ==
  ASSUME DequeOK, DeleteComponent, NEW c
  PROVE  Exists(c)' <=> Exists(c) /\ c # components[i]
<1>1. Exists(c) <=> \E k \in 1 .. Len(components) : components[k] = c
  BY Deque, ExistsAt
<1>2. Exists(c)' <=> \E k \in 1 .. Len(components) - 1 : components'[k] = c
  <2>1. DOMAIN components' = 1 .. Len(components) - 1
    BY Deleted, LenProperties
  <2> QED BY <2>1 DEF Exists, Range
<1>3. ASSUME NEW k \in 1 .. Len(components) - 1, components'[k] = c
      PROVE  Exists(c) /\ c # components[i]
  <2>1. CASE k < i
    BY <1>1, <1>3, <2>1, Deque, Deleted
  <2>2. CASE ~(k < i)
    BY <1>1, <1>3, <2>2, Deque, Deleted
  <2> QED BY <2>1, <2>2
<1>4. ASSUME NEW k \in 1 .. Len(components), components[k] = c, c # components[i]
      PROVE  \E j \in 1 .. Len(components) - 1 : components'[j] = c
  <2>1. CASE k < i
    <3>1. k \in 1 .. Len(components) - 1 /\ components'[k] = c
      BY <1>4, <2>1, Deque, Deleted
    <3> QED BY <3>1
  <2>2. CASE k > i
    <3>1. k - 1 \in 1 .. Len(components) - 1 /\ ~(k - 1 < i) /\ (k - 1) + 1 = k
      BY <1>4, <2>2, Deque, Deleted
    <3>2. components'[k - 1] = c
      BY <1>4, <3>1, Deleted
    <3> QED BY <3>1, <3>2
  <2>3. k # i
    BY <1>4
  <2> QED BY <2>1, <2>2, <2>3, Deque
<1> QED BY <1>1, <1>2, <1>3, <1>4

LEMMA DeleteDeque ==
  ASSUME DequeOK, DeleteComponent
  PROVE  DequeOK'
<1>1. DOMAIN components' = 1 .. Len(components) - 1
  BY Deleted, LenProperties
<1>2. ASSUME NEW j \in DOMAIN components', NEW k \in DOMAIN components', components'[j] = components'[k]
      PROVE  j = k
  <2>1. CASE j < i /\ k < i
    BY <1>1, <1>2, <2>1, Deque, Deleted
  <2>2. CASE j < i /\ ~(k < i)
    BY <1>1, <1>2, <2>2, Deque, Deleted
  <2>3. CASE ~(j < i) /\ k < i
    BY <1>1, <1>2, <2>3, Deque, Deleted
  <2>4. CASE ~(j < i) /\ ~(k < i)
    BY <1>1, <1>2, <2>4, Deque, Deleted
  <2> QED BY <2>1, <2>2, <2>3, <2>4
<1>3. mDelete' \subseteq Range(components')
  <2> SUFFICES ASSUME NEW c \in mDelete, c # components[i] PROVE Exists(c)'
    BY Deleted DEF Exists
  <2>1. Exists(c)
    BY DEF DequeOK, Exists
  <2> QED BY <2>1, DeletedExists
<1>4. pc' = "sweep"
  BY DEF DeleteComponent
<1> QED BY <1>2, <1>3, <1>4, Deleted, Deque DEF DequeOK

\* What is deleted is a list, or else no list is queued.
LEMMA DeletedKind ==
  ASSUME DequeOK, MainWindow \notin mDelete, SweepSkipsSessions, DeleteComponent, ~NoListQueued
  PROVE  \E s \in Session : components[i] = ModuleList(s)
<1>1. components[i] \in Component /\ components[i] # MainWindow
  BY Deque, Deleted
<1>2. ASSUME NEW s \in Session, components[i] = DebuggingSession(s) PROVE FALSE
  <2>1. i \in i .. Len(components) /\ ~(i > i)
    BY Deque, Deleted
  <2> QED BY <1>2, <2>1, Deleted DEF SweepSkipsSessions
<1> QED BY <1>1, <1>2 DEF Component

LEMMA DeleteFollowed ==
  ASSUME DequeOK, MainWindow \notin mDelete, ListsAreFollowed, ListsGoFirst, SweepSkipsSessions,
         DeleteComponent
  PROVE  ListsAreFollowed'
<1> SUFFICES ASSUME NEW s \in Session, NEW k \in 1 .. Len(components) - 1, components'[k] = ModuleList(s)
             PROVE  k + 1 \in 1 .. Len(components) - 1 /\ components'[k + 1] = DebuggingSession(s)
  BY Deleted DEF ListsAreFollowed
<1>0. Len(components) \in Nat /\ i \in Nat
  BY Deque
<1>0a. components'[k] = IF k < i THEN components[k] ELSE components[k + 1]
  BY Deleted
<1>1. CASE k < i
  <2>1. k \in 1 .. Len(components) /\ components[k] = ModuleList(s)
    BY <1>0, <1>0a, <1>1
  <2>2. k + 1 \in 1 .. Len(components) /\ components[k + 1] = DebuggingSession(s)
    BY <2>1 DEF ListsAreFollowed
  <2>3. k + 1 # i
    <3> SUFFICES ASSUME k + 1 = i PROVE FALSE
      OBVIOUS
    <3>1. DebuggingSession(s) \in mDelete /\ Exists(ModuleList(s))
      BY <2>1, <2>2, Deleted, Deque, ExistsAt
    <3>2. ~NoListQueued
      BY <3>1 DEF ListsGoFirst, NoListQueued
    <3>3. PICK t \in Session : components[i] = ModuleList(t)
      BY <3>2, DeletedKind
    <3> QED BY <2>2, <3>3, Names
  <2>4. k + 1 < i /\ k + 1 \in 1 .. Len(components) - 1
    BY <1>1, <2>2, <2>3, Deque, Deleted
  <2> QED BY <2>2, <2>4, Deleted
<1>2. CASE ~(k < i)
  <2>1. k + 1 \in 1 .. Len(components) /\ components[k + 1] = ModuleList(s)
    BY <1>0, <1>0a, <1>2
  <2>2. (k + 1) + 1 \in 1 .. Len(components) /\ components[(k + 1) + 1] = DebuggingSession(s)
    BY <2>1 DEF ListsAreFollowed
  <2>3. k + 1 \in 1 .. Len(components) - 1 /\ ~(k + 1 < i)
    BY <1>2, <2>2, Deque, Deleted
  <2> QED BY <2>2, <2>3, Deleted
<1> QED BY <1>1, <1>2

LEMMA DeleteSkips ==
  ASSUME DequeOK, MainWindow \notin mDelete, ListsAreFollowed, ListsGoFirst, SweepSkipsSessions,
         DeleteComponent
  PROVE  SweepSkipsSessions'
<1>1. CASE NoListQueued
  BY <1>1, Deleted DEF SweepSkipsSessions, NoListQueued
<1>2. CASE ~NoListQueued
  <2>1. PICK t \in Session : components[i] = ModuleList(t)
    BY <1>2, DeletedKind
  <2>2. i + 1 \in 1 .. Len(components) /\ components[i + 1] = DebuggingSession(t)
    BY <2>1, Deleted DEF ListsAreFollowed
  <2>3. ASSUME NEW s \in Session, NEW k \in i + 1 .. Len(components) - 1,
               components'[k] = DebuggingSession(s), DebuggingSession(s) \in mDelete'
        PROVE  k > i + 1 /\ components'[k - 1] = ModuleList(s)
    <3>0. k \in 1 .. Len(components) - 1 /\ ~(k < i) /\ k + 1 \in i .. Len(components)
      BY Deque
    <3>1. k + 1 \in i .. Len(components) /\ components[k + 1] = DebuggingSession(s)
      BY <2>3, <3>0, Deleted
    <3>2. components[(k + 1) - 1] = ModuleList(s) /\ (k + 1) - 1 = k
      BY <1>2, <2>3, <3>1, Deque, Deleted DEF SweepSkipsSessions
    <3>3. k # i + 1
      BY <2>2, <3>2, Names
    <3>4. k - 1 \in 1 .. Len(components) - 1 /\ ~(k - 1 < i) /\ (k - 1) + 1 = k
      BY <3>3, Deque, Deleted
    <3>5. components'[k - 1] = components[k]
      BY <3>4, Deleted
    <3> QED BY <3>2, <3>3, <3>5, Deque
  <2>4. ASSUME NEW s \in Session, NEW k \in 1 .. Len(components) - 1, k < i + 1, components'[k] = ModuleList(s)
        PROVE  ModuleList(s) \notin mDelete'
    <3>1. CASE k < i
      BY <2>4, <3>1, Deque, Deleted DEF SweepSkipsSessions
    <3>2. CASE k = i
      <4>1. components'[k] = components[i + 1]
        BY <3>2, Deque, Deleted
      <4> QED BY <2>2, <2>4, <4>1, Names
    <3> QED BY <2>4, <3>1, <3>2, Deque
  <2> QED BY <2>3, <2>4, Deleted DEF SweepSkipsSessions
<1> QED BY <1>1, <1>2

LEMMA DeleteFirst ==
  ASSUME DequeOK, MainWindow \notin mDelete, ListsAreFollowed, ListsGoFirst, SweepSkipsSessions,
         DeleteComponent
  PROVE  ListsGoFirst'
<1> SUFFICES ASSUME NEW s \in Session
             PROVE  /\ ModuleList(s) \in mDelete' => DebuggingSession(s) \in mDelete'
                    /\ DebuggingSession(s) \in mDelete' /\ Exists(ModuleList(s))' => ModuleList(s) \in mDelete'
                    /\ s \in attached /\ Exists(DebuggingSession(s))' =>
                         Exists(ModuleList(s))' \/ DebuggingSession(s) \in mDelete'
  BY Deleted DEF ListsGoFirst
<1>1. mDelete' = mDelete \ {components[i]}
  BY Deleted
<1>2. ModuleList(s) \in mDelete' => DebuggingSession(s) \in mDelete'
  <2> SUFFICES ASSUME ModuleList(s) \in mDelete' PROVE DebuggingSession(s) # components[i]
    BY <1>1 DEF ListsGoFirst
  <2>1. ~NoListQueued
    BY <1>1 DEF NoListQueued
  <2> QED BY <2>1, DeletedKind, Names
<1>3. DebuggingSession(s) \in mDelete' /\ Exists(ModuleList(s))' => ModuleList(s) \in mDelete'
  BY <1>1, DeletedExists DEF ListsGoFirst
<1>4. s \in attached /\ Exists(DebuggingSession(s))' =>
        Exists(ModuleList(s))' \/ DebuggingSession(s) \in mDelete'
  <2> SUFFICES ASSUME s \in attached, Exists(DebuggingSession(s))', ~Exists(ModuleList(s))'
               PROVE  DebuggingSession(s) \in mDelete'
    OBVIOUS
  <2>1. Exists(DebuggingSession(s)) /\ DebuggingSession(s) # components[i]
    BY DeletedExists
  <2>2. CASE Exists(ModuleList(s))
    <3>1. ModuleList(s) = components[i] /\ components[i] \in mDelete
      BY <2>2, DeletedExists, Deleted
    <3> QED BY <1>1, <2>1, <3>1 DEF ListsGoFirst
  <2>3. CASE ~Exists(ModuleList(s))
    BY <1>1, <2>1, <2>3 DEF ListsGoFirst
  <2> QED BY <2>2, <2>3
<1> QED BY <1>2, <1>3, <1>4

LEMMA DeleteStep ==
  ASSUME IInv, DeleteComponent
  PROVE  IInv'
<1>1. DequeOK /\ MainWindow \notin mDelete /\ pc = "sweep"
  BY DEF IInv, DeleteComponent
<1>2. DequeOK' /\ MainWindow \notin mDelete' /\ pc' = "sweep" /\ calm' = calm
  BY <1>1, DeleteDeque, Deleted
<1>3. ASSUME calm PROVE Orderly'
  <2>1. ListsAreFollowed /\ ListsGoFirst /\ SweepSkipsSessions
    BY <1>1, <1>3 DEF IInv, Orderly
  <2> QED BY <1>1, <1>2, <2>1, DeleteFollowed, DeleteFirst, DeleteSkips DEF Orderly
<1>4. CrashIsExplained'
  BY <1>2 DEF CrashIsExplained
<1> QED BY <1>2, <1>3, <1>4 DEF IInv

LEMMA KeepStep ==
  ASSUME IInv, KeepComponent
  PROVE  IInv'
<1>1. /\ DequeOK /\ pc = "sweep" /\ i \in 1 .. Len(components) /\ components[i] \notin mDelete
      /\ i' = i + 1 /\ UNCHANGED <<components, mDelete, attached, pc, end, calm, backlog>>
  BY Deque DEF IInv, KeepComponent
<1>2. DequeOK' /\ MainWindow \notin mDelete' /\ CrashIsExplained'
  BY <1>1, Deque DEF IInv, DequeOK, CrashIsExplained
<1>3. ASSUME calm PROVE Orderly'
  <2>1. ListsAreFollowed /\ ListsGoFirst /\ SweepSkipsSessions
    BY <1>1, <1>3 DEF IInv, Orderly
  <2>2. ListsAreFollowed' /\ ListsGoFirst'
    BY <1>1, <2>1 DEF ListsAreFollowed, ListsGoFirst, Exists
  <2>3. ASSUME NEW s \in Session, NEW k \in i + 1 .. Len(components), ~NoListQueued,
               components[k] = DebuggingSession(s), DebuggingSession(s) \in mDelete
        PROVE  k > i + 1 /\ components[k - 1] = ModuleList(s)
    <3>1. k > i /\ components[k - 1] = ModuleList(s) /\ k - 1 \in 1 .. Len(components)
      BY <2>1, <2>3, Deque, <1>1 DEF SweepSkipsSessions
    <3>2. ModuleList(s) \in mDelete
      BY <2>1, <2>3, <3>1, <1>1, Deque, ExistsAt DEF ListsGoFirst
    <3>3. k - 1 # i
      BY <1>1, <3>1, <3>2
    <3> QED BY <1>1, <3>1, <3>3, Deque
  <2>4. ASSUME NEW s \in Session, NEW k \in 1 .. Len(components), k < i + 1, components[k] = ModuleList(s)
        PROVE  ModuleList(s) \notin mDelete
    BY <1>1, <2>1, <2>4, Deque DEF SweepSkipsSessions
  <2>5. SweepSkipsSessions'
    BY <1>1, <2>3, <2>4 DEF SweepSkipsSessions, NoListQueued
  <2> QED BY <1>1, <2>2, <2>5 DEF Orderly
<1> QED BY <1>1, <1>2, <1>3 DEF IInv

\* Lists that were queued are gone when the sweep ends.
LEMMA StartStep ==
  ASSUME IInv, StartUpdates
  PROVE  IInv'
<1>1. /\ DequeOK /\ pc = "sweep" /\ i > Len(components) /\ pc' = "update" /\ i' = 1
      /\ end' = Len(components) /\ backlog' = mDelete /\ UNCHANGED <<components, mDelete, attached, calm>>
  BY DEF IInv, StartUpdates
<1>2. DequeOK' /\ MainWindow \notin mDelete' /\ CrashIsExplained'
  BY <1>1, Deque DEF IInv, DequeOK, CrashIsExplained
<1>3. ASSUME calm PROVE Orderly'
  <2>1. ListsAreFollowed /\ ListsGoFirst /\ SweepSkipsSessions
    BY <1>1, <1>3 DEF IInv, Orderly
  <2>2. ListsAreFollowed' /\ ListsGoFirst'
    BY <1>1, <2>1 DEF ListsAreFollowed, ListsGoFirst, Exists
  <2>3. ASSUME NEW s \in Session, ModuleList(s) \in mDelete PROVE FALSE
    <3>1. PICK k \in 1 .. Len(components) : components[k] = ModuleList(s)
      BY <1>1, <2>3, Deque DEF DequeOK, Range
    <3>2. k < i
      BY <1>1, <3>1, Deque
    <3> QED BY <2>1, <2>3, <3>1, <3>2 DEF SweepSkipsSessions
  <2>4. ClosedWithLists'
    BY <1>1, <2>3 DEF ClosedWithLists, NoListQueued
  <2> QED BY <1>1, <2>2, <2>4 DEF Orderly
<1> QED BY <1>1, <1>2, <1>3 DEF IInv

-----------------------------------------------------------------------------
(* The updates. *)

\* Steps that leave the deque as it is.
LEMMA UpdateKeeps ==
  ASSUME IInv, pc = "update", pc' = "update", UNCHANGED <<components, mDelete, attached, end, calm, backlog>>,
         i' \in Nat \ {0}
  PROVE  IInv'
<1>1. DequeOK' /\ MainWindow \notin mDelete' /\ CrashIsExplained'
  BY DEF IInv, DequeOK, CrashIsExplained
<1>2. ASSUME calm PROVE Orderly'
  BY <1>2 DEF IInv, Orderly, ListsAreFollowed, ListsGoFirst, ClosedWithLists, NoListQueued, Exists
<1> QED BY <1>1, <1>2 DEF IInv

LEMMA OtherProcess ==
  ASSUME IInv, UNCHANGED <<components, mDelete, attached, pc, i, end, calm, backlog>>
  PROVE  IInv'
BY DEF IInv, DequeOK, CrashIsExplained, Orderly, ListsAreFollowed, ListsGoFirst, SweepSkipsSessions,
       ClosedWithLists, NoListQueued, Exists

\* Positions the updates reach are in the deque.
LEMMA Reached ==
  ASSUME DequeOK, NEW c, Updating(c)
  PROVE  pc = "update" /\ i \in 1 .. Len(components) /\ components[i] = c /\ Exists(c) /\ i + 1 \in Nat \ {0}
<1>1. pc = "update" /\ i \in 1 .. Len(components) /\ components[i] = c
  BY Deque DEF Updating, DequeOK
<1> QED BY <1>1, Deque, ExistsAt

LEMMA ModuleListStep ==
  ASSUME IInv, UpdateModuleList
  PROVE  IInv'
<1>1. PICK s \in Session : Updating(ModuleList(s)) /\ (pc' = pc \/ (~Exists(DebuggingSession(s)) /\ pc' = "crashed"))
  BY DEF UpdateModuleList
<1>2. /\ DequeOK /\ pc = "update" /\ i \in 1 .. Len(components) /\ components[i] = ModuleList(s)
      /\ i' = i + 1 /\ i + 1 \in Nat \ {0}
      /\ UNCHANGED <<components, mDelete, attached, end, calm, backlog>>
  BY <1>1, Reached DEF IInv, UpdateModuleList
<1>3. CASE pc' = pc
  BY <1>2, <1>3, UpdateKeeps
<1>4. CASE ~Exists(DebuggingSession(s)) /\ pc' = "crashed"
  <2>1. ~calm
    <3> SUFFICES ASSUME calm PROVE FALSE
      OBVIOUS
    <3>1. ListsAreFollowed
      BY <1>2 DEF IInv, Orderly
    <3> QED BY <1>2, <1>4, <3>1, Deque, ExistsAt DEF ListsAreFollowed
  <2>2. DequeOK' /\ MainWindow \notin mDelete'
    BY <1>2, <1>4 DEF IInv, DequeOK
  <2> QED BY <1>2, <2>1, <2>2 DEF IInv, CrashIsExplained
<1> QED BY <1>1, <1>3, <1>4

LEMMA CloseStep ==
  ASSUME IInv, CloseSession
  PROVE  IInv'
<1>1. PICK s \in Session :
        /\ Updating(DebuggingSession(s))
        /\ mDelete' = mDelete \cup {c \in QueueForDeletion(s) : Exists(c)}
        /\ (s \in attached /\ pc' = pc) \/ (~(s \in attached /\ Exists(ModuleList(s))) /\ pc' = "crashed")
  BY DEF CloseSession
<1>2. /\ DequeOK /\ pc = "update" /\ i \in 1 .. Len(components) /\ components[i] = DebuggingSession(s)
      /\ Exists(DebuggingSession(s)) /\ i' = i + 1 /\ i + 1 \in Nat \ {0} /\ (i + 1) - 1 = i
      /\ calm' = (calm /\ backlog = {})
      /\ UNCHANGED <<components, attached, end, backlog>>
  BY <1>1, Reached, Deque DEF IInv, CloseSession
<1>3. /\ \A c : c \in mDelete' <=> c \in mDelete \/ (c \in {DebuggingSession(s), ModuleList(s)} /\ Exists(c))
      /\ DebuggingSession(s) \in mDelete'
  BY <1>1, <1>2 DEF QueueForDeletion
<1>4. DequeOK' /\ MainWindow \notin mDelete'
  <2>1. mDelete' \subseteq Range(components)
    BY <1>2, <1>3 DEF DequeOK, Exists
  <2>2. MainWindow \notin mDelete'
    BY <1>3, Names DEF IInv
  <2>3. pc' \in {"sweep", "update", "crashed"} /\ (pc' = "update" => pc = "update")
    BY <1>1, <1>2
  <2> QED BY <1>2, <2>1, <2>2, <2>3 DEF DequeOK
<1>5. ASSUME calm, backlog = {}
      PROVE  /\ ListsAreFollowed /\ ListsGoFirst
             /\ \A t \in Session : DebuggingSession(t) \in mDelete => Exists(ModuleList(t))
             /\ s \in attached => Exists(ModuleList(s))
  <2>1. ListsAreFollowed /\ ListsGoFirst /\ ClosedWithLists
    BY <1>2, <1>5 DEF IInv, Orderly
  <2> QED BY <1>2, <1>5, <2>1 DEF ClosedWithLists, ListsGoFirst
<1>6. CASE pc' = "crashed"
  <2>1. CrashIsExplained'
    <3> SUFFICES ASSUME calm, backlog = {} PROVE \E t \in Session \ attached : components[i] = DebuggingSession(t)
      BY <1>2 DEF CrashIsExplained
    <3>1. s \notin attached
      BY <1>1, <1>2, <1>5, <1>6
    <3> QED BY <1>2, <3>1
  <2> QED BY <1>4, <1>6, <2>1 DEF IInv
<1>7. CASE s \in attached /\ pc' = pc
  <2>1. ASSUME calm, backlog = {} PROVE Orderly'
    <3>1. ListsAreFollowed'
      BY <1>2, <1>5, <2>1 DEF ListsAreFollowed
    <3>2. \A c : Exists(c)' <=> Exists(c)
      BY <1>2 DEF Exists
    <3>3. ListsGoFirst'
      BY <1>2, <1>3, <1>5, <1>7, <2>1, <3>2, Names DEF ListsGoFirst
    <3>4. ClosedWithLists'
      BY <1>2, <1>3, <1>5, <1>7, <2>1, <3>2, Names DEF ClosedWithLists
    <3> QED BY <1>2, <1>7, <3>1, <3>3, <3>4 DEF Orderly
  <2>2. CrashIsExplained'
    BY <1>2, <1>7 DEF CrashIsExplained
  <2> QED BY <1>2, <1>4, <2>1, <2>2 DEF IInv
<1> QED BY <1>1, <1>6, <1>7

\* Components are added behind those in the deque.
LEMMA Extended ==
  ASSUME DequeOK, NEW new \in Seq(Component), components' = components \o new
  PROVE  /\ components' \in Seq(Component)
         /\ Len(components') = Len(components) + Len(new)
         /\ DOMAIN components' = 1 .. Len(components) + Len(new)
         /\ \A k \in 1 .. Len(components) : k \in 1 .. Len(components') /\ components'[k] = components[k]
         /\ \A k \in 1 .. Len(new) : components'[Len(components) + k] = new[k]
         /\ \A k \in 1 .. Len(components') :
              \/ k \in 1 .. Len(components)
              \/ k - Len(components) \in 1 .. Len(new) /\ components'[k] = new[k - Len(components)]
<1>1. Len(components) \in Nat /\ Len(new) \in Nat /\ components \in Seq(Component)
  BY Deque, LenProperties
<1>2. /\ components' \in Seq(Component)
      /\ Len(components') = Len(components) + Len(new)
      /\ \A k \in 1 .. Len(components) + Len(new) :
           components'[k] = IF k <= Len(components) THEN components[k] ELSE new[k - Len(components)]
  BY <1>1, ConcatProperties
<1>3. DOMAIN components' = 1 .. Len(components) + Len(new)
  BY <1>2, LenProperties
<1>4. \A k \in 1 .. Len(components) : k \in 1 .. Len(components') /\ components'[k] = components[k]
  BY <1>1, <1>2
<1>5. ASSUME NEW k \in 1 .. Len(new) PROVE components'[Len(components) + k] = new[k]
  <2>1. /\ Len(components) + k \in 1 .. Len(components) + Len(new) /\ ~(Len(components) + k <= Len(components))
        /\ (Len(components) + k) - Len(components) = k
    BY <1>1
  <2> QED BY <1>2, <2>1
<1>6. ASSUME NEW k \in 1 .. Len(components'), k \notin 1 .. Len(components)
      PROVE  k - Len(components) \in 1 .. Len(new) /\ components'[k] = new[k - Len(components)]
  BY <1>1, <1>2, <1>6
<1> QED BY <1>2, <1>3, <1>4, <1>5, <1>6

LEMMA OpenDeque ==
  ASSUME DequeOK, NEW new \in Seq(Component), components' = components \o new,
         \A k \in 1 .. Len(new) : ~Exists(new[k]),
         \A j, k \in 1 .. Len(new) : new[j] = new[k] => j = k,
         pc = "update", UNCHANGED <<mDelete, pc, end>>, i' \in Nat \ {0}
  PROVE  /\ DequeOK'
         /\ \A c : Exists(c)' <=> Exists(c) \/ \E k \in 1 .. Len(new) : new[k] = c
<1>1. /\ Len(components) \in Nat /\ Len(new) \in Nat /\ Len(components) <= Len(components')
      /\ DOMAIN components' = 1 .. Len(components')
  <2>1. Len(components) \in Nat /\ Len(new) \in Nat
    BY Deque, LenProperties
  <2> QED BY <2>1, Extended
<1>2. ASSUME NEW c PROVE Exists(c)' <=> Exists(c) \/ \E k \in 1 .. Len(new) : new[k] = c
  <2>1. Exists(c)' <=> \E k \in 1 .. Len(components') : components'[k] = c
    BY <1>1 DEF Exists, Range
  <2>2. Exists(c) <=> \E k \in 1 .. Len(components) : components[k] = c
    BY Deque, ExistsAt
  <2>3. ASSUME NEW k \in 1 .. Len(new), new[k] = c PROVE \E l \in 1 .. Len(components') : components'[l] = c
    <3>1. Len(components) + k \in 1 .. Len(components') /\ components'[Len(components) + k] = c
      BY <1>1, <2>3, Extended
    <3> QED BY <3>1
  <2>4. ASSUME NEW k \in 1 .. Len(components'), components'[k] = c
        PROVE  \/ \E l \in 1 .. Len(components) : components[l] = c
               \/ \E l \in 1 .. Len(new) : new[l] = c
    <3>1. CASE k \in 1 .. Len(components)
      BY <2>4, <3>1, Extended
    <3>2. CASE k \notin 1 .. Len(components)
      BY <2>4, <3>2, Extended
    <3> QED BY <3>1, <3>2
  <2>5. ASSUME NEW k \in 1 .. Len(components), components[k] = c
        PROVE  \E l \in 1 .. Len(components') : components'[l] = c
    BY <2>5, Extended
  <2> QED BY <2>1, <2>2, <2>3, <2>4, <2>5
<1>3. ASSUME NEW j \in 1 .. Len(components'), NEW k \in 1 .. Len(components'), components'[j] = components'[k]
      PROVE  j = k
  <2>1. CASE j \in 1 .. Len(components) /\ k \in 1 .. Len(components)
    BY <1>3, <2>1, Extended, Deque
  <2>2. CASE j \in 1 .. Len(components) /\ k \notin 1 .. Len(components)
    <3>1. Exists(components[j])
      BY <2>2, Deque, ExistsAt
    <3>2. k - Len(components) \in 1 .. Len(new) /\ components'[k] = new[k - Len(components)]
      BY <2>2, Extended
    <3>3. components'[j] = components[j]
      BY <2>2, Extended
    <3> QED BY <1>3, <3>1, <3>2, <3>3
  <2>3. CASE j \notin 1 .. Len(components) /\ k \in 1 .. Len(components)
    <3>1. Exists(components[k])
      BY <2>3, Deque, ExistsAt
    <3>2. j - Len(components) \in 1 .. Len(new) /\ components'[j] = new[j - Len(components)]
      BY <2>3, Extended
    <3>3. components'[k] = components[k]
      BY <2>3, Extended
    <3> QED BY <1>3, <3>1, <3>2, <3>3
  <2>4. CASE j \notin 1 .. Len(components) /\ k \notin 1 .. Len(components)
    <3>1. /\ j - Len(components) \in 1 .. Len(new) /\ components'[j] = new[j - Len(components)]
          /\ k - Len(components) \in 1 .. Len(new) /\ components'[k] = new[k - Len(components)]
      BY <2>4, Extended
    <3>2. j - Len(components) = k - Len(components)
      BY <1>3, <3>1
    <3> QED BY <1>1, <3>2, Extended
  <2> QED BY <2>1, <2>2, <2>3, <2>4
<1>4. mDelete' \subseteq Range(components')
  <2> SUFFICES ASSUME NEW c \in mDelete PROVE Exists(c)'
    BY DEF Exists
  <2>1. Exists(c)
    BY DEF DequeOK, Exists
  <2> QED BY <1>2, <2>1
<1>5. end <= Len(components')
  BY <1>1 DEF DequeOK
<1>6. DequeOK'
  BY <1>1, <1>3, <1>4, <1>5, Extended DEF DequeOK
<1> QED BY <1>2, <1>6

LEMMA OpenStep ==
  ASSUME IInv, NEW s \in Session, ~Exists(DebuggingSession(s)), ~Exists(ModuleList(s)),
         NEW new, components' = components \o new,
         \/ new = Opened(s) /\ attached' = attached \cup {s}
         \/ new = <<DebuggingSession(s)>> /\ attached' = attached \ {s},
         pc = "update", UNCHANGED <<mDelete, pc, end, backlog, calm>>, i' \in Nat \ {0}
  PROVE  IInv'
<1>1. /\ new \in Seq(Component) /\ Len(new) \in {1, 2}
      /\ \A k \in 1 .. Len(new) : new[k] \in {DebuggingSession(s), ModuleList(s)}
      /\ \A j, k \in 1 .. Len(new) : new[j] = new[k] => j = k
      /\ \E k \in 1 .. Len(new) : new[k] = DebuggingSession(s)
      /\ \A k \in 1 .. Len(new) : new[k] = ModuleList(s) => k + 1 \in 1 .. Len(new) /\ new[k + 1] = DebuggingSession(s)
      /\ (\E k \in 1 .. Len(new) : new[k] = ModuleList(s)) \/ attached' = attached \ {s}
      /\ \A t \in Session \ {s} : t \in attached' <=> t \in attached
  <2>1. CASE new = <<DebuggingSession(s)>> /\ attached' = attached \ {s}
    BY <2>1, Names
  <2>2. CASE new = Opened(s) /\ attached' = attached \cup {s}
    <3>1. new = <<ModuleList(s), DebuggingSession(s)>>
      BY <2>2 DEF Opened
    <3>2. /\ new \in Seq(Component) /\ Len(new) = 2 /\ 1 .. Len(new) = {1, 2}
          /\ new[1] = ModuleList(s) /\ new[2] = DebuggingSession(s)
      BY <3>1, Names
    <3> QED BY <2>2, <3>2, Names
  <2> QED BY <2>1, <2>2
<1>2. DequeOK /\ \A k \in 1 .. Len(new) : ~Exists(new[k])
  BY <1>1 DEF IInv
<1>3. /\ DequeOK'
      /\ \A c : Exists(c)' <=> Exists(c) \/ \E k \in 1 .. Len(new) : new[k] = c
  BY <1>1, <1>2, OpenDeque
<1>4. MainWindow \notin mDelete' /\ CrashIsExplained'
  BY DEF IInv, CrashIsExplained
<1>5. DebuggingSession(s) \notin mDelete /\ ModuleList(s) \notin mDelete
  BY <1>2 DEF DequeOK, Exists
<1>6. ASSUME calm PROVE Orderly'
  <2>1. ListsAreFollowed /\ ListsGoFirst /\ ClosedWithLists
    BY <1>6 DEF IInv, Orderly
  <2>2. ListsAreFollowed'
    <3> SUFFICES ASSUME NEW t \in Session, NEW k \in 1 .. Len(components'), components'[k] = ModuleList(t)
                 PROVE  k + 1 \in 1 .. Len(components') /\ components'[k + 1] = DebuggingSession(t)
      BY DEF ListsAreFollowed
    <3>1. CASE k \in 1 .. Len(components)
      <4>1. components[k] = ModuleList(t)
        BY <1>1, <1>2, <3>1, Extended
      <4>2. k + 1 \in 1 .. Len(components) /\ components[k + 1] = DebuggingSession(t)
        BY <2>1, <3>1, <4>1 DEF ListsAreFollowed
      <4> QED BY <1>1, <1>2, <4>2, Extended
    <3>2. CASE k \notin 1 .. Len(components)
      <4> DEFINE j == k - Len(components)
      <4>1. j \in 1 .. Len(new) /\ new[j] = ModuleList(t)
        BY <1>1, <1>2, <3>2, Extended
      <4>2. t = s
        BY <1>1, <4>1, Names
      <4>3. j + 1 \in 1 .. Len(new) /\ new[j + 1] = DebuggingSession(t)
        BY <1>1, <4>1, <4>2
      <4>4. Len(components) + (j + 1) = k + 1 /\ k + 1 \in 1 .. Len(components) + Len(new)
        <5>1. Len(components) \in Nat /\ Len(new) \in Nat /\ Len(components') = Len(components) + Len(new)
          BY <1>1, <1>2, Deque, Extended
        <5>2. k \in Nat
          BY <5>1
        <5> QED BY <4>3, <5>1, <5>2
      <4>5. components'[Len(components) + (j + 1)] = new[j + 1] /\ Len(components') = Len(components) + Len(new)
        BY <1>1, <1>2, <4>3, Extended
      <4> QED BY <4>3, <4>4, <4>5
    <3> QED BY <3>1, <3>2
  <2>3. ListsGoFirst'
    <3> SUFFICES ASSUME NEW t \in Session
                 PROVE  /\ ModuleList(t) \in mDelete => DebuggingSession(t) \in mDelete
                        /\ DebuggingSession(t) \in mDelete /\ Exists(ModuleList(t))' => ModuleList(t) \in mDelete
                        /\ t \in attached' /\ Exists(DebuggingSession(t))' =>
                             Exists(ModuleList(t))' \/ DebuggingSession(t) \in mDelete
      BY DEF ListsGoFirst
    <3>1. CASE t = s
      BY <1>1, <1>3, <1>5, <3>1
    <3>2. CASE t # s
      <4>1. /\ Exists(ModuleList(t))' <=> Exists(ModuleList(t))
            /\ Exists(DebuggingSession(t))' <=> Exists(DebuggingSession(t))
            /\ t \in attached' <=> t \in attached
        <5>1. \A k \in 1 .. Len(new) : new[k] # ModuleList(t) /\ new[k] # DebuggingSession(t)
          BY <1>1, <3>2, Names
        <5>2. t \in attached' <=> t \in attached
          BY <1>1, <3>2
        <5> QED BY <1>3, <5>1, <5>2
      <4> QED BY <2>1, <4>1 DEF ListsGoFirst
    <3> QED BY <3>1, <3>2
  <2>4. ClosedWithLists'
    BY <1>3, <2>1 DEF ClosedWithLists, NoListQueued
  <2> QED BY <2>2, <2>3, <2>4 DEF Orderly
<1> QED BY <1>3, <1>4, <1>6 DEF IInv

LEMMA MainWindowStep ==
  ASSUME IInv, UpdateMainWindow
  PROVE  IInv'
<1>1. /\ pc = "update" /\ i' \in Nat \ {0} /\ UNCHANGED <<mDelete, pc, end, backlog, calm>>
  <2>1. i' = i + 1 /\ Updating(MainWindow) /\ UNCHANGED <<mDelete, pc, end, backlog, calm>>
    BY DEF UpdateMainWindow
  <2> QED BY <2>1, Reached DEF IInv
<1>2. CASE UNCHANGED <<components, sessionVars>>
  BY <1>1, <1>2, UpdateKeeps
<1>3. ASSUME NEW s \in Session, OpenSession(s) PROVE IInv'
  <2>1. PICK r \in 1 .. mNumProcesses :
          LET p == mProcessList[r].processId
          IN  /\ components' = components \o (IF CanAttach(p) THEN Opened(s) ELSE <<DebuggingSession(s)>>)
              /\ attached' = IF CanAttach(p) THEN attached \cup {s} ELSE attached \ {s}
    BY <1>3 DEF OpenSession, PushBack
  <2>2. ~Exists(DebuggingSession(s)) /\ ~Exists(ModuleList(s))
    BY <1>3 DEF OpenSession
  <2> QED BY <1>1, <2>1, <2>2, OpenStep
<1> QED BY <1>2, <1>3 DEF UpdateMainWindow

\* When a frame begins after one in which windows were closed, a session that is queued
\* comes right behind its list.
LEMMA EndStep ==
  ASSUME IInv, EndUpdates
  PROVE  IInv'
<1>1. /\ DequeOK /\ pc = "update" /\ pc' = "sweep" /\ i' = 1
      /\ UNCHANGED <<components, mDelete, attached, end, calm>>
  BY DEF IInv, EndUpdates
<1>2. DequeOK' /\ MainWindow \notin mDelete' /\ CrashIsExplained'
  BY <1>1 DEF IInv, DequeOK, CrashIsExplained
<1>3. ASSUME calm PROVE Orderly'
  <2>1. ListsAreFollowed /\ ListsGoFirst /\ ClosedWithLists
    BY <1>1, <1>3 DEF IInv, Orderly
  <2>2. ListsAreFollowed' /\ ListsGoFirst'
    BY <1>1, <2>1 DEF ListsAreFollowed, ListsGoFirst, Exists
  <2>3. ASSUME NEW s \in Session, NEW k \in 1 .. Len(components), ~NoListQueued,
               components[k] = DebuggingSession(s), DebuggingSession(s) \in mDelete
        PROVE  k > 1 /\ components[k - 1] = ModuleList(s)
    <3>1. Exists(ModuleList(s))
      BY <2>1, <2>3 DEF ClosedWithLists
    <3>2. PICK j \in 1 .. Len(components) : components[j] = ModuleList(s)
      BY <1>1, <3>1, Deque, ExistsAt
    <3>3. j + 1 \in 1 .. Len(components) /\ components[j + 1] = DebuggingSession(s)
      BY <2>1, <3>2 DEF ListsAreFollowed
    <3>4. k = j + 1
      BY <1>1, <2>3, <3>3, Deque
    <3> QED BY <1>1, <3>2, <3>4, Deque
  <2>4. SweepSkipsSessions'
    BY <1>1, <2>3, Deque DEF SweepSkipsSessions, NoListQueued
  <2> QED BY <1>1, <2>2, <2>4 DEF Orderly
<1> QED BY <1>1, <1>2, <1>3 DEF IInv

-----------------------------------------------------------------------------
(* Theorems. *)

LEMMA InitInv == Init => IInv
<1> SUFFICES ASSUME Init PROVE IInv
  OBVIOUS
<1>1. /\ components \in Seq(Component) /\ Len(components) = 1 /\ components[1] = MainWindow
      /\ DOMAIN components = {1} /\ mDelete = {} /\ attached = {} /\ pc = "sweep" /\ i = 1 /\ end = 1
  BY Names DEF Init
<1>2. DequeOK
  BY <1>1 DEF DequeOK
<1>3. Orderly
  BY <1>1, Names DEF Orderly, ListsAreFollowed, ListsGoFirst, SweepSkipsSessions, NoListQueued
<1> QED BY <1>1, <1>2, <1>3 DEF IInv, CrashIsExplained

LEMMA StepInv == IInv /\ [Next]_vars => IInv'
<1> SUFFICES ASSUME IInv, [Next]_vars PROVE IInv'
  OBVIOUS
<1>1. CASE UNCHANGED vars
  BY <1>1, OtherProcess
<1>2. CASE Sweep
  BY <1>2, DeleteStep, KeepStep, StartStep DEF Sweep
<1>3. CASE Update
  <2>1. CASE UpdateSession
    <3>1. pc = "update" /\ i' \in Nat \ {0}
      <4>1. PICK s \in Session : Updating(DebuggingSession(s))
        BY <2>1 DEF UpdateSession
      <4> QED BY <2>1, <4>1, Reached DEF IInv, UpdateSession
    <3> QED BY <2>1, <3>1, UpdateKeeps DEF UpdateSession
  <2>2. CASE GetProcessList
    <3>1. UNCHANGED <<components, mDelete, attached, pc, i, end, calm, backlog>>
      BY <2>2 DEF GetProcessList, StartList, ScanProcess, EndScan, AttachProcess, EndList, InList
    <3> QED BY <3>1, OtherProcess
  <2> QED BY <1>3, <2>1, <2>2, MainWindowStep, ModuleListStep, CloseStep, EndStep DEF Update
<1>4. CASE StartProcess \/ ExitProcess
  BY <1>4, OtherProcess DEF StartProcess, ExitProcess
<1> QED BY <1>1, <1>2, <1>3, <1>4 DEF Next

LEMMA Invariance == Spec => []IInv
BY InitInv, StepInv, PTL DEF Spec

\* However many windows are opened and closed, a component is in the deque once, what
\* is queued for deletion is still there, and showImGui's loop stays within the deque.
THEOREM DequeCorrect == Spec => []DequeOK
<1>1. IInv => DequeOK
  BY DEF IInv
<1> QED BY <1>1, Invariance, PTL

\* The loop that skips a component after each it deletes deletes no session before its
\* list, so that no list is drawn from freed memory; unless windows are closed while
\* others wait for their deletion, or a session is closed that never had a list.
THEOREM CrashIsAlwaysExplained == Spec => []CrashIsExplained
<1>1. IInv => CrashIsExplained
  BY DEF IInv
<1> QED BY <1>1, Invariance, PTL

-----------------------------------------------------------------------------
(* The process list. *)

\* The id was found by the scan for the list that is being made.
Found(q) == \E k \in 1 .. Len(pids) : pids[k] = q

\* Processes that run, or that the list is being made with, and that no scan missed.
Known == {q \in 1 .. started : (q \in running \/ Found(q)) /\ q \notin missed}
Older(n) == {q \in Known : q < n}

ProcessesOK ==
  /\ started \in 0 .. MaxPid
  /\ running \subseteq 1 .. started

\* The ids are found in their order, and between them there is none but those missed.
IdsInOrder ==
  /\ pids \in Seq(Nat) /\ Len(pids) <= MaxPid
  /\ \A k \in 1 .. Len(pids) : pids[k] \in 1 .. started
  /\ \A j, k \in 1 .. Len(pids) : j < k => pids[j] < pids[k]
  /\ \A q \in running \ missed : \A k \in 1 .. Len(pids) : q < pids[k] => Found(q)

ScanOK ==
  /\ look = "scan" =>
       /\ at \in Nat /\ Len(pids) < at /\ at <= MaxPid + 1
       /\ \A k \in 1 .. Len(pids) : pids[k] < at
       /\ \A q \in running \ missed : q < at => Found(q)
  /\ look = "attach" =>
       /\ at \in Nat \ {0}
       /\ \A r \in 1 .. Len(pids) : r < at => mProcessList[r].processId = pids[r] /\ Explained(r)
  /\ look \in {"idle", "done"} => pids = <<>> /\ at = 1

\* The name in a row is that of a process which had fewer older ones before it than the
\* row has rows above it.  Processes exit, and those that start are the youngest: so that
\* remains true, and whoever comes to stand in that row is not older than the name.
RowsMoveUp ==
  /\ mProcessList \in [Row -> [processId : 0 .. MaxPid, name : 0 .. MaxPid]]
  /\ \A r \in Row :
       /\ mProcessList[r].name \in 0 .. started
       /\ Cardinality(Older(mProcessList[r].name)) < r

NamesInv ==
  /\ ProcessesOK
  /\ IdsInOrder
  /\ ScanOK
  /\ RowsMoveUp
  /\ mNumProcesses \in 0 .. MaxPid
  /\ look \in {"idle", "scan", "attach", "done"}
  /\ NameIsExplained

LEMMA FiniteProcesses ==
  ASSUME ProcessesOK
  PROVE  /\ running \subseteq Nat
         /\ \A n : IsFiniteSet(Older(n)) /\ Cardinality(Older(n)) \in Nat
<1>1. started \in Nat
  BY ComponentsAssumption DEF ProcessesOK
<1>2. IsFiniteSet(1 .. started)
  BY <1>1, FS_Interval
<1>3. ASSUME NEW n PROVE IsFiniteSet(Older(n)) /\ Cardinality(Older(n)) \in Nat
  <2>1. Older(n) \in SUBSET (1 .. started)
    BY DEF Older, Known
  <2> QED BY <1>2, <2>1, FS_Subset, FS_CardinalityType
<1> QED BY <1>1, <1>3 DEF ProcessesOK

\* In front of the process in row r there are at most those of the r - 1 rows above it.
LEMMA FewerThanRows ==
  ASSUME ProcessesOK, IdsInOrder, NEW r \in 1 .. Len(pids)
  PROVE  Cardinality(Older(pids[r])) < r
<1> DEFINE f == [k \in 1 .. (r - 1) |-> pids[k]]
           above == {f[k] : k \in 1 .. (r - 1)}
<1>1. /\ Len(pids) \in Nat /\ \A k \in 1 .. Len(pids) : pids[k] \in Nat
      /\ running \subseteq Nat /\ Cardinality(Older(pids[r])) \in Nat
  BY FiniteProcesses, LenProperties DEF IdsInOrder
<1>2. ASSUME NEW q \in Older(pids[r]) PROVE q \in above
  <2>1. q \in Known /\ q \in Nat /\ q < pids[r]
    BY DEF Older, Known
  <2>2. Found(q)
    BY <2>1 DEF Known, IdsInOrder
  <2>3. PICK k \in 1 .. Len(pids) : pids[k] = q
    BY <2>2 DEF Found
  <2>4. k < r
    <3>1. SUFFICES ASSUME r <= k PROVE FALSE
      BY <1>1
    <3>2. r = k \/ r < k
      BY <1>1, <3>1
    <3>3. pids[r] <= pids[k]
      BY <1>1, <3>2 DEF IdsInOrder
    <3> QED BY <1>1, <2>1, <2>3, <3>3
  <2>5. k \in 1 .. (r - 1)
    BY <1>1, <2>4
  <2> QED BY <2>3, <2>5
<1>3. f \in Surjection(1 .. (r - 1), above)
  BY DEF Surjection
<1>4. r - 1 \in Nat /\ r - 1 \in Int /\ 1 \in Int
  BY <1>1
<1>5. IsFiniteSet(1 .. (r - 1)) /\ Cardinality(1 .. (r - 1)) = r - 1
  BY <1>4, FS_Interval
<1>6. Older(pids[r]) \subseteq above
  BY <1>2
<1> HIDE DEF f, above
<1>7. IsFiniteSet(above) /\ Cardinality(above) <= r - 1
  BY <1>3, <1>5, FS_Surjection
<1>8. Cardinality(Older(pids[r])) <= Cardinality(above) /\ Cardinality(above) \in Nat
  BY <1>6, <1>7, FS_Subset, FS_CardinalityType
<1> QED BY <1>1, <1>7, <1>8

\* A name with fewer than r older processes is not younger than the process in row r,
\* unless one up to that row had been missed.
LEMMA NotYounger ==
  ASSUME ProcessesOK, IdsInOrder, NEW r \in 1 .. Len(pids),
         NEW n \in Nat, Cardinality(Older(n)) < r
  PROVE  n <= pids[r] \/ \E q \in missed : q <= pids[r]
<1> SUFFICES ASSUME pids[r] < n, \A q \in missed : ~(q <= pids[r]) PROVE FALSE
  BY DEF IdsInOrder
<1> DEFINE f == [k \in 1 .. r |-> pids[k]]
<1>1. /\ Len(pids) \in Nat /\ \A k \in 1 .. Len(pids) : pids[k] \in Nat
      /\ IsFiniteSet(Older(n)) /\ Cardinality(Older(n)) \in Nat
  BY FiniteProcesses, LenProperties DEF IdsInOrder
<1>2. \A j, k \in 1 .. Len(pids) : j < k => pids[j] < pids[k]
  BY DEF IdsInOrder
<1>3. ASSUME NEW k \in 1 .. r PROVE f[k] \in Older(n)
  <2>1. k \in 1 .. Len(pids) /\ (k = r \/ k < r)
    BY <1>1
  <2>2. pids[k] <= pids[r] /\ pids[k] < n
    BY <1>1, <1>2, <2>1
  <2>3. pids[k] \in 1 .. started /\ Found(pids[k]) /\ pids[k] \notin missed
    BY <2>1, <2>2 DEF IdsInOrder, Found
  <2> QED BY <2>2, <2>3 DEF Older, Known
<1>4. ASSUME NEW j \in 1 .. r, NEW k \in 1 .. r, f[j] = f[k] PROVE j = k
  <2>1. j \in 1 .. Len(pids) /\ k \in 1 .. Len(pids) /\ (j = k \/ j < k \/ k < j)
    BY <1>1
  <2>2. pids[j] = pids[k]
    BY <1>4
  <2> QED BY <1>1, <1>2, <2>1, <2>2
<1>5. f \in Injection(1 .. r, Older(n))
  BY <1>3, <1>4 DEF Injection, IsInjective
<1>6. Cardinality(1 .. r) = r
  BY <1>1, FS_Interval
<1> HIDE DEF f
<1>7. Cardinality(1 .. r) <= Cardinality(Older(n))
  BY <1>1, <1>5, FS_Injection
<1> QED BY <1>1, <1>6, <1>7

\* As long as only younger processes become known.
LEMMA RowsStay ==
  ASSUME ProcessesOK, RowsMoveUp, UNCHANGED mProcessList, started' \in started .. MaxPid,
         \A q \in Known' : q \in Known \/ q > started
  PROVE  RowsMoveUp'
<1>1. MaxPid \in Nat /\ started \in 0 .. MaxPid
  BY ComponentsAssumption DEF ProcessesOK
<1> SUFFICES ASSUME NEW r \in Row
             PROVE  /\ mProcessList[r].name \in 0 .. started'
                    /\ Cardinality(Older(mProcessList[r].name)') < r
  BY DEF RowsMoveUp, Row, Older
<1> DEFINE n == mProcessList[r].name
<1>2. n \in 0 .. started /\ Cardinality(Older(n)) < r
  BY DEF RowsMoveUp
<1>3. Older(n)' \in SUBSET Older(n)
  <2>1. ASSUME NEW q \in Known', q < n PROVE q \in Known
    <3>1. q \in Nat
      BY <1>1 DEF Known
    <3> QED BY <1>1, <1>2, <2>1, <3>1
  <2> QED BY <2>1 DEF Older
<1>4. IsFiniteSet(Older(n)) /\ Cardinality(Older(n)) \in Nat
  BY FiniteProcesses
<1>5. /\ Cardinality(Older(n)') <= Cardinality(Older(n))
      /\ Cardinality(Older(n)') \in Nat
  BY <1>3, <1>4, FS_Subset, FS_CardinalityType
<1> QED BY <1>1, <1>2, <1>4, <1>5 DEF Row

\* One more id is found, or none at that place.
LEMMA ScanStep ==
  ASSUME NamesInv, ScanProcess
  PROVE  NamesInv'
<1>1. /\ look = "scan" /\ at \in Nat /\ at <= MaxPid /\ Len(pids) < at /\ at' = at + 1
      /\ pids' = (IF at \in running THEN Append(pids, at) ELSE pids)
      /\ UNCHANGED <<mProcessList, mNumProcesses, look, refused, started, running, missed>>
  BY DEF ScanProcess, InList, NamesInv, ScanOK
<1>2. /\ ProcessesOK /\ IdsInOrder /\ RowsMoveUp /\ ScanOK
      /\ pids \in Seq(Nat) /\ Len(pids) \in Nat /\ MaxPid \in Nat /\ running \subseteq 1 .. started
      /\ started \in Nat
  BY LenProperties, ComponentsAssumption DEF NamesInv, IdsInOrder, ProcessesOK
<1>3. ASSUME at \in running
      PROVE  /\ pids' \in Seq(Nat) /\ Len(pids') = Len(pids) + 1 /\ pids'[Len(pids) + 1] = at
             /\ \A k \in 1 .. Len(pids) : pids'[k] = pids[k]
  BY <1>1, <1>2, <1>3, AppendProperties
<1>4. \A q \in Nat : Found(q)' <=> Found(q) \/ (q = at /\ at \in running)
  <2>1. CASE at \in running
    <3>1. \A k \in 1 .. Len(pids') : k \in 1 .. Len(pids) \/ k = Len(pids) + 1
      BY <1>2, <1>3, <2>1
    <3>2. Len(pids) + 1 \in 1 .. Len(pids') /\ \A k \in 1 .. Len(pids) : k \in 1 .. Len(pids')
      BY <1>2, <1>3, <2>1
    <3> QED BY <1>3, <2>1, <3>1, <3>2 DEF Found
  <2>2. CASE at \notin running
    BY <1>1, <2>2 DEF Found
  <2> QED BY <2>1, <2>2
<1>5. /\ \A k \in 1 .. Len(pids) : pids[k] < at /\ pids[k] \in 1 .. started
      /\ \A j, k \in 1 .. Len(pids) : j < k => pids[j] < pids[k]
      /\ \A q \in running \ missed : q < at => Found(q)
      /\ Len(pids) <= MaxPid
  BY <1>1, <1>2 DEF ScanOK, IdsInOrder
<1>6. \A q \in running \ missed : q < at + 1 => Found(q)'
  <2> SUFFICES ASSUME NEW q \in running \ missed, q < at + 1 PROVE Found(q)'
    OBVIOUS
  <2>1. q \in Nat /\ (q < at \/ q = at)
    BY <1>1, <1>2
  <2> QED BY <1>4, <1>5, <2>1
<1>7. /\ pids' \in Seq(Nat) /\ Len(pids') <= MaxPid /\ Len(pids') < at + 1
      /\ \A k \in 1 .. Len(pids') : pids'[k] \in 1 .. started /\ pids'[k] < at + 1
      /\ \A j, k \in 1 .. Len(pids') : j < k => pids'[j] < pids'[k]
  <2>1. CASE at \in running
    <3>1. /\ pids' \in Seq(Nat) /\ Len(pids') = Len(pids) + 1 /\ at \in 1 .. started
          /\ \A k \in 1 .. Len(pids') : \/ k \in 1 .. Len(pids) /\ pids'[k] = pids[k]
                                        \/ k = Len(pids) + 1 /\ pids'[k] = at
      BY <1>2, <1>3, <2>1
    <3>2. Len(pids') <= MaxPid /\ Len(pids') < at + 1
      BY <1>1, <1>2, <3>1
    <3>3. \A k \in 1 .. Len(pids') : pids'[k] \in 1 .. started /\ pids'[k] < at + 1
      BY <1>1, <1>2, <1>5, <3>1
    <3>4. ASSUME NEW j \in 1 .. Len(pids'), NEW k \in 1 .. Len(pids'), j < k
          PROVE  pids'[j] < pids'[k]
      <4>1. j \in 1 .. Len(pids) /\ pids'[j] = pids[j] /\ pids[j] < at
        BY <1>2, <1>3, <1>5, <2>1, <3>1, <3>4
      <4>2. CASE k \in 1 .. Len(pids)
        <5>1. pids'[k] = pids[k]
          BY <1>3, <2>1, <4>2
        <5> QED BY <1>5, <3>4, <4>1, <4>2, <5>1
      <4>3. CASE k = Len(pids) + 1
        BY <1>3, <2>1, <4>1, <4>3
      <4> QED BY <3>1, <4>2, <4>3
    <3> QED BY <3>1, <3>2, <3>3, <3>4
  <2>2. CASE at \notin running
    BY <1>1, <1>2, <1>5, <2>2
  <2> QED BY <2>1, <2>2
<1>8. \A q \in running \ missed : \A k \in 1 .. Len(pids') : q < pids'[k] => Found(q)'
  BY <1>1, <1>2, <1>6, <1>7
<1>9. ProcessesOK' /\ IdsInOrder' /\ ScanOK'
  BY <1>1, <1>2, <1>6, <1>7, <1>8 DEF ProcessesOK, IdsInOrder, ScanOK
<1>10. RowsMoveUp'
  <2>1. \A q \in Known' : q \in Known
    BY <1>1, <1>2, <1>4 DEF Known
  <2>2. started' \in started .. MaxPid
    BY <1>1, <1>2 DEF ProcessesOK
  <2> QED BY <1>1, <1>2, <2>1, <2>2, RowsStay
<1> QED BY <1>1, <1>9, <1>10 DEF NamesInv, NameIsExplained, Explained

\* A row keeps a name not younger than its process, or is named anew.
LEMMA AttachStep ==
  ASSUME NamesInv, AttachProcess
  PROVE  NamesInv'
<1>1. /\ look = "attach" /\ at \in Nat \ {0} /\ at <= Len(pids) /\ at' = at + 1
      /\ mProcessList' = [mProcessList EXCEPT
                            ![at] = [processId |-> pids[at], name |-> NameOf(at, pids[at])]]
      /\ refused' = (IF CanAttach(pids[at]) THEN refused \ {pids[at]} ELSE refused \cup {pids[at]})
      /\ UNCHANGED <<mNumProcesses, look, pids, started, running, missed>>
  BY DEF AttachProcess, InList, NamesInv, ScanOK
<1>2. /\ ProcessesOK /\ IdsInOrder /\ RowsMoveUp /\ ScanOK
      /\ pids \in Seq(Nat) /\ Len(pids) \in Nat /\ MaxPid \in Nat /\ Len(pids) <= MaxPid
      /\ started \in 0 .. MaxPid
      /\ \A k \in 1 .. Len(pids) : pids[k] \in 1 .. started
      /\ \A j, k \in 1 .. Len(pids) : j < k => pids[j] < pids[k]
  BY LenProperties, ComponentsAssumption DEF NamesInv, IdsInOrder, ProcessesOK
<1>3. at \in 1 .. Len(pids) /\ at \in Row /\ pids[at] \in 1 .. started
  BY <1>1, <1>2 DEF Row
<1> DEFINE p == pids[at]
           n == mProcessList[at].name
<1>4. n \in 0 .. started /\ Cardinality(Older(n)) < at
  BY <1>2, <1>3 DEF RowsMoveUp
<1>5. n <= p \/ \E q \in missed : q <= p
  BY <1>2, <1>3, <1>4, NotYounger
<1>6. /\ DOMAIN mProcessList = Row
      /\ mProcessList'[at].processId = p /\ mProcessList'[at].name = NameOf(at, p)
      /\ \A r \in Row \ {at} : mProcessList'[r] = mProcessList[r]
  BY <1>1, <1>2, <1>3 DEF RowsMoveUp
<1>7. NameOf(at, p) = p \/ NameOf(at, p) = n
  BY DEF NameOf
<1>8. ASSUME NEW r, r = at PROVE Explained(r)'
  <2>1. CASE CanAttach(p)
    <3>1. NameOf(at, p) = p
      BY <2>1 DEF NameOf
    <3> QED BY <1>6, <1>8, <3>1 DEF Explained
  <2>2. CASE ~CanAttach(p)
    <3>1. NameOf(at, p) = n /\ p \in refused'
      BY <1>1, <2>2 DEF NameOf
    <3>2. n = p \/ n < p \/ \E q \in missed : q <= p
      BY <1>2, <1>3, <1>4, <1>5
    <3> QED BY <1>1, <1>6, <1>8, <3>1, <3>2 DEF Explained
  <2> QED BY <2>1, <2>2
<1>9. ASSUME NEW r \in 1 .. Len(pids), r < at + 1
      PROVE  mProcessList'[r].processId = pids[r] /\ Explained(r)'
  <2>1. CASE r = at
    BY <1>6, <1>8, <2>1
  <2>2. CASE r # at
    <3>1. r < at /\ r \in Row
      BY <1>1, <1>2, <1>9, <2>2 DEF Row
    <3>2. mProcessList[r].processId = pids[r] /\ Explained(r) /\ pids[r] # p
      BY <1>1, <1>2, <1>3, <3>1 DEF ScanOK
    <3>3. mProcessList'[r] = mProcessList[r] /\ missed' = missed
      BY <1>1, <1>6, <2>2, <3>1
    <3>4. pids[r] \in refused => pids[r] \in refused'
      BY <1>1, <3>2
    <3> QED BY <3>2, <3>3, <3>4 DEF Explained
  <2> QED BY <2>1, <2>2
<1>10. ProcessesOK' /\ IdsInOrder' /\ ScanOK'
  BY <1>1, <1>2, <1>9 DEF ProcessesOK, IdsInOrder, ScanOK, Found
<1>11. RowsMoveUp'
  <2>1. \A m : Older(m)' = Older(m)
    BY <1>1 DEF Older, Known, Found
  <2>2. mProcessList' \in [Row -> [processId : 0 .. MaxPid, name : 0 .. MaxPid]]
    <3>1. p \in 0 .. MaxPid /\ NameOf(at, p) \in 0 .. MaxPid
      BY <1>2, <1>3, <1>4, <1>7
    <3> HIDE DEF p
    <3>2. [processId |-> p, name |-> NameOf(at, p)] \in [processId : 0 .. MaxPid, name : 0 .. MaxPid]
      BY <3>1
    <3> USE DEF p
    <3> QED BY <1>1, <1>2, <3>2 DEF RowsMoveUp
  <2>3. ASSUME NEW r \in Row
        PROVE  /\ mProcessList'[r].name \in 0 .. started
               /\ Cardinality(Older(mProcessList'[r].name)) < r
    <3>1. CASE r # at
      BY <1>2, <1>6, <3>1 DEF RowsMoveUp
    <3>2. CASE r = at
      <4>1. Cardinality(Older(p)) < at /\ p \in 0 .. started
        BY <1>2, <1>3, FewerThanRows
      <4> QED BY <1>4, <1>6, <1>7, <3>2, <4>1
    <3> QED BY <3>1, <3>2
  <2> QED BY <1>1, <2>1, <2>2, <2>3 DEF RowsMoveUp, Row
<1> QED BY <1>1, <1>2, <1>10, <1>11 DEF NamesInv, NameIsExplained

\* The loops begin and end.
LEMMA TurnStep ==
  ASSUME NamesInv, StartList \/ EndScan \/ EndList
  PROVE  NamesInv'
<1>1. UNCHANGED <<mProcessList, refused, started, running, missed>>
  BY DEF StartList, EndScan, EndList, InList
<1>2. /\ ProcessesOK /\ IdsInOrder /\ RowsMoveUp /\ ScanOK
      /\ pids \in Seq(Nat) /\ Len(pids) \in Nat /\ MaxPid \in Nat /\ Len(pids) <= MaxPid
      /\ started \in 0 .. MaxPid /\ running \subseteq 1 .. started
  BY LenProperties, ComponentsAssumption DEF NamesInv, IdsInOrder, ProcessesOK
<1>3. ProcessesOK' /\ started' \in started .. MaxPid
  BY <1>1, <1>2 DEF ProcessesOK
<1>4. CASE StartList
  <2>1. look = "idle" /\ look' = "scan" /\ UNCHANGED <<pids, at, mNumProcesses>> /\ pids = <<>> /\ at = 1
    BY <1>2, <1>4 DEF StartList, InList, ScanOK
  <2>2. RowsMoveUp'
    BY <1>1, <1>2, <1>3, <2>1, RowsStay DEF Known, Found
  <2>3. IdsInOrder' /\ ScanOK'
    BY <1>1, <1>2, <2>1 DEF IdsInOrder, ScanOK, Found
  <2> QED BY <1>1, <1>3, <2>1, <2>2, <2>3 DEF NamesInv, NameIsExplained, Explained
<1>5. CASE EndScan
  <2>1. look = "scan" /\ look' = "attach" /\ at' = 1 /\ UNCHANGED <<pids, mNumProcesses>>
    BY <1>5 DEF EndScan, InList
  <2>2. RowsMoveUp'
    BY <1>1, <1>2, <1>3, <2>1, RowsStay DEF Known, Found
  <2>3. IdsInOrder' /\ ScanOK'
    BY <1>1, <1>2, <2>1 DEF IdsInOrder, ScanOK, Found
  <2> QED BY <1>1, <1>3, <2>1, <2>2, <2>3 DEF NamesInv, NameIsExplained
<1>6. CASE EndList
  <2>1. /\ look = "attach" /\ look' = "done" /\ at \in Nat /\ at > Len(pids) /\ at' = 1
        /\ pids' = <<>> /\ mNumProcesses' = Len(pids)
    BY <1>2, <1>6 DEF EndList, InList, ScanOK
  <2>2. Len(pids') = 0 /\ pids' \in Seq(Nat)
    BY <2>1
  <2>3. RowsMoveUp'
    <3>1. \A q \in Known' : q \in Known
      BY <1>1, <2>2 DEF Known, Found
    <3> QED BY <1>1, <1>2, <1>3, <3>1, RowsStay
  <2>4. IdsInOrder' /\ ScanOK'
    BY <1>2, <2>1, <2>2 DEF IdsInOrder, ScanOK
  <2>5. \A r \in 1 .. Len(pids) : Explained(r)
    BY <1>2, <2>1 DEF ScanOK
  <2>6. NameIsExplained'
    BY <1>1, <2>1, <2>5 DEF NameIsExplained, Explained
  <2> QED BY <1>2, <1>3, <2>1, <2>3, <2>4, <2>6 DEF NamesInv
<1> QED BY <1>4, <1>5, <1>6

\* While the list stays as it is, processes start, which are younger than every name in
\* it and behind the scan if it misses them, and processes exit.
LEMMA ProcessesMoveOn ==
  ASSUME NamesInv, UNCHANGED listVars, StartProcess \/ ExitProcess \/ UNCHANGED processVars
  PROVE  NamesInv'
<1>1. UNCHANGED <<mProcessList, mNumProcesses, refused, look, pids, at>>
  BY DEF listVars, scanVars
<1>2. /\ MaxPid \in Nat /\ started \in 0 .. MaxPid /\ running \subseteq 1 .. started
      /\ IdsInOrder /\ ScanOK /\ RowsMoveUp /\ ProcessesOK
      /\ \A k \in 1 .. Len(pids) : pids[k] \in 1 .. started
  BY ComponentsAssumption DEF NamesInv, ProcessesOK, IdsInOrder
<1>3. /\ started' \in started .. MaxPid /\ running' \subseteq 1 .. started'
      /\ missed \subseteq missed'
      /\ \A q \in running' : q \in running \/ (q > started /\ (look = "scan" /\ q < at => q \in missed'))
  <2>1. CASE StartProcess
    BY <1>2, <2>1 DEF StartProcess
  <2>2. CASE ExitProcess
    BY <1>2, <2>2 DEF ExitProcess
  <2>3. CASE UNCHANGED processVars
    BY <1>2, <2>3 DEF processVars
  <2> QED BY <2>1, <2>2, <2>3
<1>4. ProcessesOK'
  BY <1>2, <1>3 DEF ProcessesOK
<1>5. \A r : Explained(r) => Explained(r)'
  BY <1>1, <1>3 DEF Explained
<1>6. RowsMoveUp'
  <2>1. \A q \in Known' : q \in Known \/ q > started
    BY <1>1, <1>2, <1>3 DEF Known, Found
  <2> QED BY <1>1, <1>2, <1>3, <2>1, RowsStay
<1>7. IdsInOrder'
  <2>1. \A k \in 1 .. Len(pids) : pids[k] \in 1 .. started'
    BY <1>2, <1>3
  <2>2. ASSUME NEW q \in running' \ missed', NEW k \in 1 .. Len(pids), q < pids[k] PROVE Found(q)
    <3>1. q \in Nat
      BY <1>2, <1>3
    <3>2. q \in running \ missed
      BY <1>2, <1>3, <2>2, <3>1
    <3> QED BY <1>2, <2>2, <3>2 DEF IdsInOrder
  <2> QED BY <1>1, <1>2, <2>1, <2>2 DEF IdsInOrder, Found
<1>8. ScanOK'
  <2>1. ASSUME look = "scan", NEW q \in running' \ missed', q < at PROVE Found(q)
    BY <1>2, <1>3, <2>1 DEF ScanOK
  <2> QED BY <1>1, <1>2, <1>5, <2>1 DEF ScanOK, Found
<1> QED BY <1>1, <1>4, <1>5, <1>6, <1>7, <1>8 DEF NamesInv, NameIsExplained

LEMMA InitNames == Init => NamesInv
<1> SUFFICES ASSUME Init PROVE NamesInv
  OBVIOUS
<1>1. MaxPid \in Nat /\ Boot \in 0 .. MaxPid
  BY ComponentsAssumption
<1>2. /\ started = Boot /\ running = 1 .. Boot /\ mNumProcesses = 0 /\ missed = {} /\ pids = <<>>
      /\ at = 1 /\ look = "idle" /\ mProcessList = [r \in Row |-> [processId |-> 0, name |-> 0]]
  BY DEF Init, NoName
<1>3. ProcessesOK
  BY <1>1, <1>2 DEF ProcessesOK
<1>4. Older(0) = {}
  BY <1>1, <1>2 DEF Older, Known
<1>5. Cardinality(Older(0)) = 0
  BY <1>4, FS_EmptySet
<1>6. RowsMoveUp
  BY <1>1, <1>2, <1>5 DEF RowsMoveUp, Row
<1>7. IdsInOrder /\ ScanOK
  BY <1>1, <1>2 DEF IdsInOrder, ScanOK
<1> QED BY <1>1, <1>2, <1>3, <1>6, <1>7 DEF NamesInv, NameIsExplained

LEMMA NextNames == NamesInv /\ [Next]_vars => NamesInv'
<1> SUFFICES ASSUME NamesInv, [Next]_vars PROVE NamesInv'
  OBVIOUS
<1>1. CASE GetProcessList
  BY <1>1, ScanStep, AttachStep, TurnStep DEF GetProcessList
<1>2. CASE UpdateMainWindow
  <2>1. /\ look \in {"idle", "done"} /\ look' = "idle"
        /\ UNCHANGED <<mProcessList, mNumProcesses, pids, at, refused, started, running, missed>>
    BY <1>2 DEF UpdateMainWindow
  <2>2. ProcessesOK' /\ IdsInOrder' /\ ScanOK'
    BY <2>1 DEF NamesInv, ProcessesOK, IdsInOrder, ScanOK, Found
  <2>3. RowsMoveUp'
    BY <2>1 DEF NamesInv, RowsMoveUp, Row, Older, Known, Found
  <2> QED BY <2>1, <2>2, <2>3 DEF NamesInv, NameIsExplained, Explained
<1>3. CASE StartProcess \/ ExitProcess
  BY <1>3, ProcessesMoveOn DEF StartProcess, ExitProcess
<1>4. CASE UNCHANGED <<listVars, processVars>>
  BY <1>4, ProcessesMoveOn
<1> QED BY <1>1, <1>2, <1>3, <1>4 DEF Next, Sweep, Update, vars, DeleteComponent, KeepComponent,
           StartUpdates, UpdateModuleList, UpdateSession, CloseSession, EndUpdates

\* The window of processes shows a wrong name only next to a process that could not be
\* attached when its name was asked for, and then the name of an older process, unless a
\* scan once missed a process; whatever starts and exits between the calls of
\* getProcessList.
THEOREM NamesAreExplained == Spec => []NameIsExplained
<1>1. Spec => []NamesInv
  BY InitNames, NextNames, PTL DEF Spec
<1>2. NamesInv => NameIsExplained
  BY DEF NamesInv
<1> QED BY <1>1, <1>2, PTL

-----------------------------------------------------------------------------
(* Countdown.  A component that is queued gets nearer to its deletion in every *)
(* step of the render thread, so that it waits at most for as many frames as   *)
(* its place in the deque says.                                                *)

LEMMA OnlyPlace ==
  ASSUME NEW seq \in Seq(Component), NEW c, NEW k \in 1 .. Len(seq), seq[k] = c,
         \A j \in 1 .. Len(seq) : seq[j] = seq[k] => j = k
  PROVE  (CHOOSE j \in DOMAIN seq : seq[j] = c) = k
<1>1. DOMAIN seq = 1 .. Len(seq)
  BY LenProperties
<1> DEFINE place == CHOOSE j \in DOMAIN seq : seq[j] = c
<1>2. \E j \in DOMAIN seq : seq[j] = c
  BY <1>1
<1>3. place \in DOMAIN seq /\ seq[place] = c
  BY <1>2
<1> QED BY <1>1, <1>3

LEMMA PlaceAt ==
  ASSUME DequeOK, NEW c, NEW k \in 1 .. Len(components), components[k] = c
  PROVE  Place(c) = k
BY OnlyPlace, Deque DEF Place

LEMMA NextDeque ==
  ASSUME DequeOK'
  PROVE  /\ components' \in Seq(Component) /\ Len(components') \in Nat
         /\ DOMAIN components' = 1 .. Len(components')
         /\ \A j, k \in 1 .. Len(components') : components'[j] = components'[k] => j = k
BY LenProperties DEF DequeOK

LEMMA NextPlaceAt ==
  ASSUME DequeOK', NEW c, NEW k \in 1 .. Len(components'), components'[k] = c
  PROVE  Place(c)' = k
<1>1. (CHOOSE j \in DOMAIN components' : components'[j] = c) = k
  BY OnlyPlace, NextDeque
<1> QED BY <1>1 DEF Place

\* Where a queued component is.
LEMMA Queued ==
  ASSUME DequeOK, NEW c \in mDelete
  PROVE  /\ Place(c) \in 1 .. Len(components) /\ components[Place(c)] = c
         /\ i \in Nat \ {0} /\ Len(components) \in Nat /\ end \in Nat
<1>1. PICK k \in 1 .. Len(components) : components[k] = c
  BY Deque, ExistsAt DEF DequeOK, Exists
<1> QED BY <1>1, PlaceAt, Deque DEF DequeOK

\* What is deleted before it moves it up; what is deleted behind it does not.
LEMMA DeleteCounts ==
  ASSUME DequeOK, DequeOK', NEW c \in mDelete, c \in mDelete', DeleteComponent
  PROVE  Nearer(c)
<1> DEFINE k == Place(c)
<1>1. /\ k \in 1 .. Len(components) /\ components[k] = c
      /\ i \in Nat \ {0} /\ Len(components) \in Nat
  BY Queued
<1> HIDE DEF k
<1>2. k # i
  BY <1>1, Deleted
<1>3. CASE i < k
  <2>1. k - 1 \in 1 .. Len(components') /\ ~(k - 1 < i) /\ (k - 1) + 1 = k
    BY <1>1, <1>3, Deleted
  <2>2. components'[k - 1] = c
    BY <1>1, <2>1, Deleted
  <2>3. Place(c)' = k - 1
    BY <2>1, <2>2, NextPlaceAt
  <2> QED BY <1>1, <2>3 DEF k, Nearer
<1>4. CASE k < i
  <2>1. k \in 1 .. Len(components) - 1
    BY <1>1, <1>4, Deleted
  <2>2. k \in 1 .. Len(components') /\ components'[k] = c
    BY <1>1, <1>4, <2>1, Deleted
  <2>3. Place(c)' = k
    BY <2>2, NextPlaceAt
  <2>4. pc = "sweep" /\ pc' = "sweep" /\ i' = i + 1 /\ Len(components') = Len(components) - 1
    BY Deleted DEF DeleteComponent
  <2>5. Stage(c) = 2 /\ Stage(c)' = 2
    BY <1>1, <1>4, <2>3, <2>4 DEF Stage, PassedOver, k
  <2>6. LoopLeft = Len(components) + 2 - i /\ LoopLeft' = (Len(components) - 1) + 2 - (i + 1)
    BY <2>4 DEF LoopLeft
  <2>7. LoopLeft' < LoopLeft
    BY <1>1, <2>6
  <2> QED BY <2>3, <2>5, <2>7 DEF k, Nearer
<1> QED BY <1>1, <1>2, <1>3, <1>4

LEMMA KeepCounts ==
  ASSUME DequeOK, DequeOK', NEW c \in mDelete, KeepComponent
  PROVE  Nearer(c)
<1>1. /\ Place(c) \in 1 .. Len(components) /\ components[Place(c)] = c
      /\ i \in Nat \ {0} /\ Len(components) \in Nat
  BY Queued
<1>2. /\ pc = "sweep" /\ pc' = "sweep" /\ i' = i + 1 /\ UNCHANGED components
      /\ components[i] \notin mDelete
  BY DEF KeepComponent
<1>3. Place(c)' = Place(c)
  BY <1>2 DEF Place
<1>4. i > Place(c) <=> i + 1 > Place(c)
  BY <1>1, <1>2
<1>5. Stage(c)' = Stage(c)
  BY <1>2, <1>3, <1>4 DEF Stage, PassedOver
<1>6. LoopLeft = Len(components) + 2 - i /\ LoopLeft' = Len(components) + 2 - (i + 1)
  BY <1>2 DEF LoopLeft
<1>7. LoopLeft' < LoopLeft
  BY <1>1, <1>6
<1> QED BY <1>3, <1>5, <1>7 DEF Nearer

LEMMA TurnCounts ==
  ASSUME DequeOK, NEW c \in mDelete, StartUpdates \/ EndUpdates
  PROVE  Nearer(c)
<1>1. /\ Place(c) \in 1 .. Len(components) /\ i \in Nat \ {0} /\ Len(components) \in Nat
  BY Queued
<1>2. Place(c)' = Place(c)
  BY DEF StartUpdates, EndUpdates, Place
<1>3. CASE StartUpdates
  <2>1. i > Place(c)
    BY <1>1, <1>3 DEF StartUpdates
  <2>2. Stage(c) = 2 /\ Stage(c)' = 1
    BY <1>3, <2>1 DEF StartUpdates, Stage, PassedOver
  <2> QED BY <1>2, <2>2 DEF Nearer
<1>4. CASE EndUpdates
  <2>1. ~(1 > Place(c))
    BY <1>1
  <2>2. Stage(c) = 1 /\ Stage(c)' = 0
    BY <1>2, <1>4, <2>1 DEF EndUpdates, Stage, PassedOver
  <2> QED BY <1>2, <2>2 DEF Nearer
<1> QED BY <1>3, <1>4

\* What is opened goes behind everything that is there.
LEMMA OpenKeepsPlaces ==
  ASSUME DequeOK, DequeOK', NEW c \in mDelete, NEW s \in Session, OpenSession(s)
  PROVE  Place(c)' = Place(c)
<1> DEFINE k == Place(c)
<1>1. k \in 1 .. Len(components) /\ components[k] = c /\ Len(components) \in Nat
  BY Queued
<1> HIDE DEF k
<1>2. PICK new : /\ components' = components \o new
                 /\ new \in {Opened(s), <<DebuggingSession(s)>>}
  BY DEF OpenSession, PushBack
<1>3. new \in Seq(Component)
  BY <1>2, Names DEF Opened
<1>4. components \in Seq(Component)
  BY Deque
<1>5. k \in 1 .. Len(components') /\ components'[k] = c
  BY <1>1, <1>2, <1>3, <1>4, ConcatProperties, LenProperties
<1> QED BY <1>5, NextPlaceAt DEF k

LEMMA UpdateCounts ==
  ASSUME DequeOK, DequeOK', NEW c \in mDelete, pc' # "crashed",
         UpdateMainWindow \/ UpdateModuleList \/ UpdateSession \/ CloseSession
  PROVE  Nearer(c)
<1>1. i \in Nat /\ end \in Nat
  BY DEF DequeOK
<1>2. pc = "update" /\ pc' = "update" /\ i' = i + 1 /\ UNCHANGED end
  BY DEF UpdateMainWindow, UpdateModuleList, UpdateSession, CloseSession, Updating
<1>3. Place(c)' = Place(c)
  <2>1. CASE UNCHANGED components
    BY <2>1 DEF Place
  <2>2. CASE \E s \in Session : OpenSession(s)
    BY <2>2, OpenKeepsPlaces
  <2> QED BY <2>1, <2>2 DEF UpdateMainWindow, UpdateModuleList, UpdateSession, CloseSession
<1>4. Stage(c) = 1 /\ Stage(c)' = 1
  BY <1>2 DEF Stage, PassedOver
<1>5. LoopLeft = end + 2 - i /\ LoopLeft' = end + 2 - (i + 1)
  BY <1>2 DEF LoopLeft
<1>6. LoopLeft' < LoopLeft
  BY <1>1, <1>5
<1> QED BY <1>3, <1>4, <1>6 DEF Nearer

\* Neither loop goes further than the deletion of its last component takes it.
LoopInBounds == pc # "crashed" => LoopLeft \in Nat

LEMMA StepInBounds ==
  ASSUME DequeOK, DequeOK', LoopInBounds, [Next]_vars
  PROVE  LoopInBounds'
<1>0. i \in Nat \ {0} /\ end \in Nat /\ Len(components) \in Nat
  BY Deque DEF DequeOK
<1>1. CASE DeleteComponent
  <2>1. LoopLeft' = (Len(components) - 1) + 2 - (i + 1) /\ i \in 1 .. Len(components)
    BY <1>1, Deleted DEF LoopLeft, DeleteComponent
  <2> QED BY <1>0, <2>1 DEF LoopInBounds
<1>2. CASE KeepComponent
  <2>1. LoopLeft' = Len(components) + 2 - (i + 1) /\ i <= Len(components)
    BY <1>2 DEF LoopLeft, KeepComponent
  <2> QED BY <1>0, <2>1 DEF LoopInBounds
<1>3. CASE StartUpdates
  <2>1. LoopLeft' = Len(components) + 2 - 1
    BY <1>3 DEF LoopLeft, StartUpdates
  <2> QED BY <1>0, <2>1 DEF LoopInBounds
<1>4. CASE EndUpdates
  <2>1. LoopLeft' = Len(components) + 2 - 1
    BY <1>4 DEF LoopLeft, EndUpdates
  <2> QED BY <1>0, <2>1 DEF LoopInBounds
<1>5. CASE UpdateMainWindow \/ UpdateModuleList \/ UpdateSession \/ CloseSession
  <2>1. pc = "update" /\ pc' \in {"update", "crashed"} /\ i' = i + 1 /\ end' = end /\ i <= end
    BY <1>5 DEF UpdateMainWindow, UpdateModuleList, UpdateSession, CloseSession, Updating
  <2>2. pc' # "crashed" => LoopLeft' = end + 2 - (i + 1)
    BY <2>1 DEF LoopLeft
  <2>3. end + 2 - (i + 1) \in Nat
    BY <1>0, <2>1
  <2> QED BY <2>2, <2>3 DEF LoopInBounds
<1>6. CASE GetProcessList \/ StartProcess \/ ExitProcess \/ UNCHANGED vars
  <2>1. UNCHANGED <<components, pc, i, end>>
    BY <1>6 DEF StartProcess, ExitProcess, GetProcessList, StartList, ScanProcess, EndScan,
                AttachProcess, EndList, InList
  <2>2. LoopLeft' = LoopLeft
    BY <2>1 DEF LoopLeft
  <2> QED BY <2>1, <2>2 DEF LoopInBounds
<1> QED BY <1>1, <1>2, <1>3, <1>4, <1>5, <1>6 DEF Next, Sweep, Update

LEMMA StepCounts ==
  ASSUME DequeOK, DequeOK', Next, NEW c \in mDelete, c \in mDelete', ~UNCHANGED <<pc, i>>,
         pc' # "crashed"
  PROVE  Nearer(c)
<1>1. ~StartProcess /\ ~ExitProcess /\ ~GetProcessList
  BY DEF StartProcess, ExitProcess, GetProcessList, StartList, ScanProcess, EndScan,
         AttachProcess, EndList, InList
<1> QED BY <1>1, DeleteCounts, KeepCounts, TurnCounts, UpdateCounts DEF Next, Sweep, Update

\* A closed window waits at most for as many sweeps as there are windows before it, in
\* whatever order they were opened and closed, and whichever of them the sweeps skip: every
\* step of the two loops makes a count of natural numbers smaller.
THEOREM ClosedOnesCountDown ==
  Spec => ClosedCountsDown /\ [](pc # "crashed" => LoopLeft \in Nat)
<1>1. Init => LoopInBounds
  <2>1. Init => components = <<MainWindow>> /\ i = 1 /\ pc = "sweep"
    BY DEF Init
  <2>2. Len(<<MainWindow>>) = 1
    OBVIOUS
  <2> QED BY <2>1, <2>2 DEF LoopInBounds, LoopLeft
<1>2. DequeOK /\ DequeOK' /\ LoopInBounds /\ [Next]_vars => LoopInBounds'
  BY StepInBounds
<1>3. DequeOK /\ DequeOK' /\ [Next]_vars =>
        [\A c \in mDelete \cap mDelete' :
           UNCHANGED <<pc, i>> \/ pc' = "crashed" \/ Nearer(c)]_vars
  BY StepCounts
<1>4. LoopInBounds <=> (pc # "crashed" => LoopLeft \in Nat)
  BY DEF LoopInBounds
<1> QED BY <1>1, <1>2, <1>3, <1>4, DequeCorrect, PTL DEF Spec, ClosedCountsDown

-----------------------------------------------------------------------------
(* ClientLink. *)

USE DEF linkVars, clientVars, wireVars, serverVars, renderVars, historyVars

Piece == {"head", "rest"}

\* There is a connection exactly while the client has a socket, and without an open one
\* the sysmodule has neither a client nor half a picture.
LinkState ==
  /\ mState = "NoSocket" <=> wire = "none"
  /\ wire # "open" => ~pending /\ ~listed /\ spc = "select" /\ rpc = "frame"
  /\ spc # "select" => listed

LinkOK == TypeOK /\ LinkState

-----------------------------------------------------------------------------
(* Type correctness. *)

\* The first n pieces go to the buffer, the others stay.
LEMMA PiecesSplit ==
  ASSUME NEW S, NEW seq \in Seq(S), NEW buffer \in Seq(S), NEW n \in 1 .. Len(seq)
  PROVE  /\ buffer \o SubSeq(seq, 1, n) \in Seq(S)
         /\ Len(buffer \o SubSeq(seq, 1, n)) = Len(buffer) + n
         /\ SubSeq(seq, n + 1, Len(seq)) \in Seq(S)
         /\ Len(SubSeq(seq, n + 1, Len(seq))) = Len(seq) - n
         /\ (buffer \o SubSeq(seq, 1, n)) \o SubSeq(seq, n + 1, Len(seq)) = buffer \o seq
<1>1. Len(seq) \in Nat /\ \A k \in 1 .. Len(seq) : seq[k] \in S
  BY LenProperties, ElementOfSeq
<1>2. SubSeq(seq, 1, n) \in Seq(S) /\ Len(SubSeq(seq, 1, n)) = n
  BY <1>1, SubSeqProperties
<1>3. SubSeq(seq, n + 1, Len(seq)) \in Seq(S) /\ Len(SubSeq(seq, n + 1, Len(seq))) = Len(seq) - n
  <2>1. \A k \in n + 1 .. Len(seq) : seq[k] \in S
    BY <1>1
  <2>2. Len(SubSeq(seq, n + 1, Len(seq))) = IF n + 1 <= Len(seq) THEN Len(seq) - (n + 1) + 1 ELSE 0
    BY <1>1, <2>1, SubSeqProperties
  <2>3. SubSeq(seq, n + 1, Len(seq)) \in Seq(S)
    BY <1>1, <2>1, SubSeqProperties
  <2>4. Len(SubSeq(seq, n + 1, Len(seq))) = Len(seq) - n
    BY <1>1, <2>2
  <2> QED BY <2>3, <2>4
<1>4. SubSeq(seq, 1, n) \o SubSeq(seq, n + 1, Len(seq)) = seq
  <2>1. 1 \in 1 .. Len(seq) + 1 /\ n \in 1 - 1 .. Len(seq) /\ Len(seq) \in n .. Len(seq)
    BY <1>1
  <2>2. SubSeq(seq, 1, n) \o SubSeq(seq, n + 1, Len(seq)) = SubSeq(seq, 1, Len(seq))
    BY <2>1, ConcatAdjacentSubSeq
  <2> QED BY <2>2, SubSeqFull
<1>5. (buffer \o SubSeq(seq, 1, n)) \o SubSeq(seq, n + 1, Len(seq)) = buffer \o seq
  <2> DEFINE one == SubSeq(seq, 1, n)
             two == SubSeq(seq, n + 1, Len(seq))
  <2>1. one \in Seq(S) /\ two \in Seq(S)
    BY <1>2, <1>3
  <2> HIDE DEF one, two
  <2>2. (buffer \o one) \o two = buffer \o (one \o two)
    BY <2>1, ConcatAssociative, SMTT(30)
  <2>3. one \o two = seq
    BY <1>4 DEF one, two
  <2> QED BY <2>2, <2>3 DEF one, two
<1>6. /\ buffer \o SubSeq(seq, 1, n) \in Seq(S)
      /\ Len(buffer \o SubSeq(seq, 1, n)) = Len(buffer) + n
  BY <1>2, ConcatProperties
<1> QED BY <1>3, <1>5, <1>6

\* What one round sends are packets, and Alive is among them if it is due.
LEMMA WritesType ==
  ASSUME TypeOK, NEW due \in BOOLEAN
  PROVE  /\ Writes(due) \in Seq(Kind)
         /\ AliveDue => Waits("Alive", Writes(due))
<1> DEFINE hello == IF mHasSentHello THEN <<>> ELSE <<"Hello">>
           alive == IF AliveDue THEN <<"Alive">> ELSE <<>>
           mouse == IF PollsInput(due) /\ moved THEN <<"Mouse">> ELSE <<>>
<1>1. hello \in Seq(Kind) /\ alive \in Seq(Kind) /\ mouse \in Seq(Kind)
  <2>1. "Hello" \in Kind /\ "Alive" \in Kind /\ "Mouse" \in Kind
    BY DEF Kind
  <2>2. \A x \in Kind : <<x>> \in Seq(Kind)
    OBVIOUS
  <2>3. <<>> \in Seq(Kind)
    OBVIOUS
  <2> QED BY <2>1, <2>2, <2>3
<1>2. Writes(due) = hello \o alive \o mouse
  BY DEF Writes
<1>3. Len(alive) \in Nat /\ (AliveDue => Len(alive) = 1 /\ alive[1] = "Alive")
  BY <1>1, LenProperties
<1>4. Len(hello) \in Nat /\ Len(mouse) \in Nat
  BY <1>1, LenProperties
<1> HIDE DEF hello, alive, mouse
<1>5. /\ hello \o alive \in Seq(Kind) /\ Len(hello \o alive) = Len(hello) + Len(alive)
      /\ AliveDue => (hello \o alive)[Len(hello) + 1] = "Alive"
  <2>1. AliveDue => Len(hello) + 1 \in 1 .. Len(hello) + Len(alive)
    BY <1>3, <1>4
  <2> QED BY <1>1, <1>3, <1>4, <2>1, ConcatProperties
<1>6. /\ hello \o alive \o mouse \in Seq(Kind)
      /\ AliveDue => /\ Len(hello) + 1 \in 1 .. Len(hello \o alive \o mouse)
                          /\ (hello \o alive \o mouse)[Len(hello) + 1] = "Alive"
  <2> DEFINE m == Len(hello)
             n == Len(hello \o alive)
             k == Len(mouse)
  <2>0. m \in Nat /\ k \in Nat /\ (AliveDue => n = m + 1)
    BY <1>3, <1>4, <1>5
  <2> HIDE DEF m, n, k
  <2>1. AliveDue => m + 1 \in 1 .. n + k /\ m + 1 <= n
    BY <2>0
  <2> USE DEF m, n, k
  <2> QED BY <1>1, <1>5, <2>1, ConcatProperties
<1> QED BY <1>2, <1>6, LenProperties DEF Waits

LEMMA LinkConstants ==
  /\ SocketCap \in Nat /\ SocketCap >= 3
  /\ BufferCap \in Nat /\ BufferCap >= 2
  /\ InboxCap \in Nat \ {0} /\ AlivePeriod \in Nat
  /\ Timeout \in Nat /\ Timeout >= AlivePeriod
BY LinkAssumption

LEMMA NothingFits ==
  /\ <<>> \in Seq(Kind) /\ <<>> \in Seq({"head", "rest"})
  /\ Len(<<>>) <= SocketCap /\ Len(<<>>) <= BufferCap /\ Len(<<>>) <= InboxCap
<1>1. Len(<<>>) = 0
  OBVIOUS
<1>2. <<>> \in Seq(Kind) /\ <<>> \in Seq({"head", "rest"})
  OBVIOUS
<1> QED BY <1>1, <1>2, LinkConstants

LEMMA InitLink == LinkInit => LinkOK
<1> SUFFICES ASSUME LinkInit PROVE LinkOK
  OBVIOUS
<1>1. 0 \in 0 .. AlivePeriod + 1 /\ 0 \in 0 .. Timeout + 1
  BY LinkConstants
<1> QED BY <1>1, NothingFits DEF LinkInit, TypeOK, LinkOK, LinkState

LEMMA ClientLinkType ==
  ASSUME LinkOK, ClientStep
  PROVE  LinkOK'
<1>1. CASE Start
  <2>1. /\ <<>> \in Seq(Kind) /\ <<>> \in Seq({"head", "rest"})
        /\ Len(<<>>) <= SocketCap
    BY NothingFits DEF LinkOK
  <2>2. 0 \in 0 .. Timeout + 1
    BY LinkConstants DEF LinkOK
  <2>3. cut' \in BOOLEAN
    BY <1>1 DEF Start
  <2>4. TypeOK'
    BY <1>1, <2>1, <2>2, <2>3 DEF Start, KeptBuffer, TypeOK, LinkOK
  <2> QED BY <1>1, <2>4 DEF Start, LinkOK, LinkState
<1>2. CASE \E due \in BOOLEAN : Round(due)
  <2> PICK due \in BOOLEAN : Round(due)
    BY <1>2
  <2>1. /\ Writes(due) \in Seq(Kind) /\ toServer \in Seq(Kind)
        /\ toServer \o Writes(due) \in Seq(Kind)
        /\ Len(toServer \o Writes(due)) = Len(toServer) + Len(Writes(due))
    BY WritesType, ConcatProperties DEF LinkOK, TypeOK
  <2>2. toServer' \in Seq(Kind) /\ Len(toServer') <= SocketCap
    BY <2>1 DEF Round, Write, LinkOK, TypeOK
  <2>3. /\ wire' \in {"none", "open", "fin", "broken", "reset"}
        /\ (wire' = "open" <=> wire = "open") /\ (wire' = "none" <=> wire = "none")
    BY DEF Round, Write, LinkOK, TypeOK
  <2>4. /\ mBuffer' \in Seq({"head", "rest"}) /\ Len(mBuffer') <= BufferCap
        /\ cpc' \in {"loop", "recv", "ended", "astray"} /\ window' \in BOOLEAN
    <3>1. mBuffer \in Seq({"head", "rest"}) /\ Len(mBuffer) <= BufferCap /\ Len(mBuffer) \in Nat
      BY LenProperties DEF LinkOK, TypeOK
    <3>2. CASE UNCHANGED <<mBuffer, window>>
      BY <3>1, <3>2 DEF Round, HandlePicture, LinkOK, TypeOK
    <3>3. CASE Len(mBuffer) >= 2 /\ mBuffer' = SubSeq(mBuffer, 3, Len(mBuffer))
      <4>1. \A k \in 3 .. Len(mBuffer) : mBuffer[k] \in {"head", "rest"}
        BY <3>1, ElementOfSeq
      <4>2. /\ SubSeq(mBuffer, 3, Len(mBuffer)) \in Seq({"head", "rest"})
            /\ Len(SubSeq(mBuffer, 3, Len(mBuffer))) =
                 IF 3 <= Len(mBuffer) THEN Len(mBuffer) - 3 + 1 ELSE 0
        BY <3>1, <4>1, SubSeqProperties
      <4>3. Len(mBuffer') <= BufferCap
        BY <3>1, <3>3, <4>2, LinkConstants DEF LinkOK
      <4> QED BY <3>3, <4>2, <4>3 DEF Round, HandlePicture, LinkOK, TypeOK
    <3> QED BY <3>1, <3>2, <3>3 DEF Round, HandlePicture, AfterPicture
  <2>5. sinceAlive' \in 0 .. AlivePeriod + 1 /\ moved' \in BOOLEAN
    BY LinkConstants DEF Round, LinkOK, TypeOK
  <2> QED BY <2>2, <2>3, <2>4, <2>5 DEF Round, LinkOK, TypeOK, LinkState
<1>3. CASE \E due \in BOOLEAN : BrokenPipe(due)
  BY <1>3 DEF BrokenPipe, LinkOK, TypeOK, LinkState
<1>4. CASE RecvPieces
  <2>1. PICK n \in 1 .. Len(toClient) :
          /\ n <= Room(mBuffer)
          /\ mBuffer' = mBuffer \o SubSeq(toClient, 1, n)
          /\ toClient' = SubSeq(toClient, n + 1, Len(toClient))
    BY <1>4 DEF RecvPieces
  <2>2. /\ mBuffer \in Seq({"head", "rest"}) /\ Len(mBuffer) \in Nat /\ Len(mBuffer) <= BufferCap
        /\ toClient \in Seq({"head", "rest"}) /\ Len(toClient) \in Nat /\ Len(toClient) <= SocketCap
    BY LenProperties DEF LinkOK, TypeOK
  <2>3. /\ mBuffer' \in Seq({"head", "rest"}) /\ Len(mBuffer') = Len(mBuffer) + n
        /\ toClient' \in Seq({"head", "rest"}) /\ Len(toClient') = Len(toClient) - n
    BY <2>1, <2>2, PiecesSplit
  <2>4. Len(mBuffer') <= BufferCap /\ Len(toClient') <= SocketCap
    BY <2>1, <2>2, <2>3, LinkConstants DEF Room, LinkOK
  <2> QED BY <1>4, <2>3, <2>4, LinkConstants, SMTT(30) DEF RecvPieces, LinkOK, TypeOK, LinkState
<1>5. CASE RecvZero
  BY <1>5 DEF RecvZero, LinkOK, TypeOK, LinkState
<1>6. CASE RecvFails
  BY <1>6 DEF RecvFails, AfterFailure, LinkOK, TypeOK, LinkState
<1> QED BY <1>1, <1>2, <1>3, <1>4, <1>5, <1>6 DEF ClientStep

LEMMA SysmoduleLinkType ==
  ASSUME LinkOK, ServerStep \/ RenderStep
  PROVE  LinkOK'
<1>1. CASE Select
  <2>1. <<>> \in Seq(Kind) /\ Len(<<>>) <= SocketCap /\ Len(<<>>) <= InboxCap
    BY NothingFits DEF LinkOK
  <2>2. 0 \in 0 .. Timeout + 1
    BY LinkConstants DEF LinkOK
  <2>3. TypeOK'
    <3>1. CASE pending
      <4>1. inbox' \in Seq(Kind) /\ Len(inbox') <= InboxCap /\ silence' \in 0 .. Timeout + 1
        BY <1>1, <2>1, <2>2, <3>1 DEF Select
      <4>2. listed' \in BOOLEAN /\ pending' \in BOOLEAN /\ spc' \in {"select", "visit", "recv"}
        BY <1>1, <3>1 DEF Select
      <4> QED BY <1>1, <4>1, <4>2 DEF Select, LinkOK, TypeOK
    <3>2. CASE ~pending
      BY <1>1, <3>2 DEF Select, LinkOK, TypeOK
    <3> QED BY <3>1, <3>2
  <2> QED BY <1>1, <2>3 DEF Select, LinkOK, LinkState, TypeOK
<1>2. CASE Visit
  <2>1. inbox' \in Seq(Kind) /\ Len(inbox') <= InboxCap
    <3>1. inbox \in Seq(Kind) /\ Len(inbox) \in Nat /\ Len(inbox) <= InboxCap
      BY LenProperties DEF LinkOK, TypeOK
    <3>2. inbox # <<>> => Tail(inbox) \in Seq(Kind) /\ Len(Tail(inbox)) = Len(inbox) - 1
      BY <3>1, HeadTailProperties
    <3> QED BY <1>2, <3>1, <3>2, LinkConstants DEF Visit, LinkOK
  <2>2. silence' \in 0 .. Timeout + 1 /\ late' \in BOOLEAN /\ sRerender' \in BOOLEAN
    <3>1. late' = (silence > Timeout) /\ sRerender' \in BOOLEAN
      BY <1>2 DEF Visit, AsksForPicture, LinkOK, TypeOK
    <3>2. silence' \in {silence, 0}
      BY <1>2 DEF Visit
    <3> QED BY <3>1, <3>2, LinkConstants DEF LinkOK, TypeOK
  <2> QED BY <1>2, <2>1, <2>2 DEF Visit, LinkOK, TypeOK, LinkState
<1>3. CASE ServerRecvPackets
  <2>1. PICK n \in 1 .. Len(toServer) :
          /\ n <= InboxCap - Len(inbox)
          /\ inbox' = inbox \o SubSeq(toServer, 1, n)
          /\ toServer' = SubSeq(toServer, n + 1, Len(toServer))
    BY <1>3 DEF ServerRecvPackets
  <2>2. /\ inbox \in Seq(Kind) /\ Len(inbox) \in Nat /\ Len(inbox) <= InboxCap
        /\ toServer \in Seq(Kind) /\ Len(toServer) \in Nat /\ Len(toServer) <= SocketCap
    BY LenProperties DEF LinkOK, TypeOK
  <2>3. /\ inbox' \in Seq(Kind) /\ Len(inbox') = Len(inbox) + n
        /\ toServer' \in Seq(Kind) /\ Len(toServer') = Len(toServer) - n
    BY <2>1, <2>2, PiecesSplit
  <2>4. Len(inbox') <= InboxCap /\ Len(toServer') <= SocketCap
    BY <2>1, <2>2, <2>3, LinkConstants DEF LinkOK
  <2> QED BY <1>3, <2>3, <2>4 DEF ServerRecvPackets, LinkOK, TypeOK, LinkState
<1>4. ASSUME NEW piece \in Piece,
             toClient' = IF wire = "open" THEN Append(toClient, piece) ELSE toClient,
             Len(toClient) < SocketCap
      PROVE  toClient' \in Seq({"head", "rest"}) /\ Len(toClient') <= SocketCap
  <2>1. toClient \in Seq({"head", "rest"}) /\ Len(toClient) \in Nat
    BY LenProperties DEF LinkOK, TypeOK
  <2>2. /\ Append(toClient, piece) \in Seq({"head", "rest"})
        /\ Len(Append(toClient, piece)) = Len(toClient) + 1
    BY <2>1, AppendProperties DEF Piece
  <2> QED BY <1>4, <2>1, <2>2, LinkConstants DEF LinkOK
<1>5. CASE SendHead
  <2>1. toClient' \in Seq({"head", "rest"}) /\ Len(toClient') <= SocketCap
    BY <1>4, <1>5 DEF SendHead, Piece
  <2>2. UNCHANGED <<clientVars, moved, wire, toServer, serverVars, historyVars>>
    BY <1>5 DEF SendHead
  <2>3. /\ sRerender' = FALSE /\ changed' = FALSE /\ rpc' = "half"
    BY <1>5 DEF SendHead
  <2>4. sRerender' \in BOOLEAN /\ changed' \in BOOLEAN /\ rpc' \in {"frame", "half"}
    BY <2>3
  <2>5. LinkState'
    BY <1>5, <2>2, <2>3 DEF SendHead, LinkOK, LinkState, clientVars, serverVars, historyVars
  <2>6. TypeOK'
    BY <2>1, <2>2, <2>4 DEF LinkOK, TypeOK, clientVars, serverVars, historyVars
  <2> QED BY <2>5, <2>6 DEF LinkOK
<1>6. CASE SendRest
  BY <1>4, <1>6 DEF SendRest, LinkOK, TypeOK, LinkState, Piece
<1> QED BY <1>1, <1>2, <1>3, <1>5, <1>6 DEF ServerStep, RenderStep

LEMMA EnvironmentLinkType ==
  ASSUME LinkOK, Environment
  PROVE  LinkOK'
<1>1. CASE Move
  BY <1>1 DEF Move, LinkOK, TypeOK, LinkState
<1>2. CASE ChangePicture
  BY <1>2 DEF ChangePicture, LinkOK, TypeOK, LinkState
<1>3. CASE Restart
  <2>1. <<>> \in Seq(Kind) /\ Len(<<>>) <= SocketCap /\ Len(<<>>) <= InboxCap
    BY NothingFits DEF LinkOK
  <2>2. 0 \in 0 .. Timeout + 1
    BY LinkConstants DEF LinkOK
  <2>3. TypeOK'
    BY <1>3, <2>1, <2>2 DEF Restart, LinkOK, TypeOK
  <2> QED BY <1>3, <2>3 DEF Restart, LinkOK, LinkState
<1>4. CASE Tick
  BY <1>4, LinkConstants DEF Tick, UpTo, LinkOK, TypeOK, LinkState
<1> QED BY <1>1, <1>2, <1>3, <1>4 DEF Environment

LEMMA NextLinkOK == LinkOK /\ [LinkNext]_linkVars => LinkOK'
<1>1. ASSUME LinkOK, UNCHANGED linkVars PROVE LinkOK'
  BY <1>1 DEF LinkOK, TypeOK, LinkState
<1> QED BY <1>1, ClientLinkType, SysmoduleLinkType, EnvironmentLinkType DEF LinkNext

-----------------------------------------------------------------------------
(* Pieces arrive in order, as long as no connection was replaced in the middle of a *)
(* picture.                                                                          *)

PieceAt(k) == IF k % 2 = 1 THEN "head" ELSE "rest"

\* What the client has and what is on its way are heads and rests in turn, beginning with
\* a head.  The sysmodule is in the middle of a picture if the last of them is a head.
PicturesInOrder ==
  ~cut =>
    /\ cpc # "astray"
    /\ \A k \in 1 .. Len(mBuffer) : mBuffer[k] = PieceAt(k)
    /\ \A k \in 1 .. Len(toClient) : toClient[k] = PieceAt(Len(mBuffer) + k)
    /\ wire = "open" => (rpc = "half" <=> (Len(mBuffer) + Len(toClient)) % 2 = 1)

LEMMA Parity ==
  ASSUME NEW k \in Nat
  PROVE  /\ k % 2 \in {0, 1}
         /\ (k + 1) % 2 = 1 - (k % 2)
         /\ (k + 2) % 2 = k % 2
OBVIOUS

LEMMA PieceAtNext ==
  ASSUME NEW k \in Nat
  PROVE  /\ PieceAt(k + 2) = PieceAt(k)
         /\ k % 2 = 1 => PieceAt(k + 1) = "rest" /\ (k + 1) % 2 # 1
         /\ k % 2 # 1 => PieceAt(k + 1) = "head" /\ (k + 1) % 2 = 1
BY Parity DEF PieceAt

LEMMA PiecesType ==
  ASSUME TypeOK
  PROVE  /\ mBuffer \in Seq({"head", "rest"}) /\ Len(mBuffer) \in Nat
         /\ toClient \in Seq({"head", "rest"}) /\ Len(toClient) \in Nat
BY LenProperties DEF TypeOK

LEMMA RoundKeepsOrder ==
  ASSUME LinkOK, PicturesInOrder, NEW due \in BOOLEAN, Round(due)
  PROVE  PicturesInOrder'
<1> USE DEF PicturesInOrder
<1>1. /\ UNCHANGED <<cut, rpc, toClient>> /\ (wire' = "open" <=> wire = "open")
      /\ HandlePicture /\ cpc = "loop"
  BY DEF Round, Write
<1>2. CASE cut
  BY <1>1, <1>2
<1>3. CASE ~cut /\ Len(mBuffer) < 2
  BY <1>1, <1>3 DEF HandlePicture
<1>4. CASE ~cut /\ ~(Len(mBuffer) < 2)
  <2>1. /\ mBuffer \in Seq({"head", "rest"}) /\ Len(mBuffer) \in Nat /\ Len(mBuffer) >= 2
        /\ toClient \in Seq({"head", "rest"}) /\ Len(toClient) \in Nat
    BY <1>4, PiecesType DEF LinkOK
  <2>2. \A k \in 1 .. Len(mBuffer) : mBuffer[k] \in {"head", "rest"}
    BY <2>1, ElementOfSeq
  <2>3. mBuffer[1] = "head" /\ mBuffer[2] = "rest"
    <3>1. 1 % 2 = 1 /\ 2 % 2 = 0
      OBVIOUS
    <3> QED BY <1>4, <2>1, <3>1 DEF PieceAt
  <2>4. SubSeq(mBuffer, 1, 2) = Picture
    <3>1. /\ SubSeq(mBuffer, 1, 2) \in Seq({"head", "rest"}) /\ Len(SubSeq(mBuffer, 1, 2)) = 2
          /\ \A j \in 1 .. 2 : SubSeq(mBuffer, 1, 2)[j] = mBuffer[1 + j - 1]
      <4>1. \A k \in 1 .. 2 : mBuffer[k] \in {"head", "rest"}
        BY <2>1, <2>2
      <4>2. /\ SubSeq(mBuffer, 1, 2) \in Seq({"head", "rest"})
            /\ Len(SubSeq(mBuffer, 1, 2)) = IF 1 <= 2 THEN 2 - 1 + 1 ELSE 0
            /\ \A j \in 1 .. 2 - 1 + 1 : SubSeq(mBuffer, 1, 2)[j] = mBuffer[1 + j - 1]
        BY <4>1, SubSeqProperties
      <4> QED BY <4>2
    <3>2. SubSeq(mBuffer, 1, 2)[1] = "head" /\ SubSeq(mBuffer, 1, 2)[2] = "rest"
      BY <2>3, <3>1
    <3>3. /\ Picture \in Seq({"head", "rest"}) /\ Len(Picture) = 2
          /\ Picture[1] = "head" /\ Picture[2] = "rest"
      BY DEF Picture
    <3>4. \A j \in 1 .. 2 : j = 1 \/ j = 2
      OBVIOUS
    <3>5. \A j \in 1 .. Len(SubSeq(mBuffer, 1, 2)) : SubSeq(mBuffer, 1, 2)[j] = Picture[j]
      BY <3>1, <3>2, <3>3, <3>4
    <3> QED BY <3>1, <3>3, <3>5, SeqEqual
  <2>5. mBuffer' = SubSeq(mBuffer, 3, Len(mBuffer)) /\ cpc' = "recv"
    BY <1>1, <1>4, <2>4 DEF HandlePicture, AfterPicture
  <2>6. /\ Len(mBuffer') = Len(mBuffer) - 2
        /\ \A j \in 1 .. Len(mBuffer) - 2 : mBuffer'[j] = mBuffer[j + 2]
    <3>1. \A k \in 3 .. Len(mBuffer) : mBuffer[k] \in {"head", "rest"}
      BY <2>1, <2>2
    <3>2. /\ Len(mBuffer') = IF 3 <= Len(mBuffer) THEN Len(mBuffer) - 3 + 1 ELSE 0
          /\ \A j \in 1 .. Len(mBuffer) - 3 + 1 : mBuffer'[j] = mBuffer[3 + j - 1]
      BY <2>1, <2>5, <3>1, SubSeqProperties
    <3>3. \A j \in 1 .. Len(mBuffer) - 2 :
            j \in 1 .. Len(mBuffer) - 3 + 1 /\ 3 + j - 1 = j + 2
      BY <2>1
    <3>4. \A m \in Nat : m >= 2 => (IF 3 <= m THEN m - 3 + 1 ELSE 0) = m - 2
      OBVIOUS
    <3>5. Len(mBuffer') = Len(mBuffer) - 2
      <4>1. Len(mBuffer) \in Nat /\ Len(mBuffer) >= 2
        BY <2>1
      <4> QED BY <3>2, <3>4, <4>1
    <3> QED BY <3>2, <3>3, <3>5
  <2>7. \A k \in 1 .. Len(mBuffer') : mBuffer'[k] = PieceAt(k)
    <3> TAKE k \in 1 .. Len(mBuffer')
    <3>1. k \in Nat /\ k + 2 \in 1 .. Len(mBuffer) /\ k \in 1 .. Len(mBuffer) - 2
      BY <2>1, <2>6
    <3> QED BY <1>4, <2>6, <3>1, PieceAtNext
  <2>8. \A k \in 1 .. Len(toClient) : toClient[k] = PieceAt(Len(mBuffer') + k)
    <3> TAKE k \in 1 .. Len(toClient)
    <3>1. Len(mBuffer') + k \in Nat /\ (Len(mBuffer') + k) + 2 = Len(mBuffer) + k
      BY <2>1, <2>6
    <3> QED BY <1>4, <3>1, PieceAtNext
  <2>9. (Len(mBuffer') + Len(toClient)) % 2 = (Len(mBuffer) + Len(toClient)) % 2
    <3>1. /\ Len(mBuffer') + Len(toClient) \in Nat
          /\ (Len(mBuffer') + Len(toClient)) + 2 = Len(mBuffer) + Len(toClient)
      BY <2>1, <2>6
    <3> QED BY <3>1, Parity
  <2> QED BY <1>1, <1>4, <2>5, <2>7, <2>8, <2>9
<1> QED BY <1>2, <1>3, <1>4

LEMMA RecvKeepsOrder ==
  ASSUME LinkOK, PicturesInOrder, RecvPieces
  PROVE  PicturesInOrder'
<1>1. PICK n \in 1 .. Len(toClient) :
        /\ mBuffer' = mBuffer \o SubSeq(toClient, 1, n)
        /\ toClient' = SubSeq(toClient, n + 1, Len(toClient))
  BY DEF RecvPieces
<1>2. /\ mBuffer \in Seq({"head", "rest"}) /\ Len(mBuffer) \in Nat
      /\ toClient \in Seq({"head", "rest"}) /\ Len(toClient) \in Nat
  BY PiecesType DEF LinkOK
<1>3. /\ SubSeq(toClient, 1, n) \in Seq({"head", "rest"}) /\ Len(SubSeq(toClient, 1, n)) = n
      /\ \A k \in 1 .. n : SubSeq(toClient, 1, n)[k] = toClient[k]
  <2>1. \A k \in 1 .. n : toClient[k] \in {"head", "rest"}
    BY <1>2, ElementOfSeq
  <2>2. /\ SubSeq(toClient, 1, n) \in Seq({"head", "rest"})
        /\ Len(SubSeq(toClient, 1, n)) = IF 1 <= n THEN n - 1 + 1 ELSE 0
        /\ \A k \in 1 .. n - 1 + 1 : SubSeq(toClient, 1, n)[k] = toClient[1 + k - 1]
    BY <1>2, <2>1, SubSeqProperties
  <2> QED BY <1>2, <2>2
<1>4. /\ Len(toClient') = Len(toClient) - n
      /\ \A k \in 1 .. Len(toClient) - n : toClient'[k] = toClient[n + k]
  <2>1. \A k \in n + 1 .. Len(toClient) : toClient[k] \in {"head", "rest"}
    BY <1>2, ElementOfSeq
  <2>2. /\ Len(toClient') = IF n + 1 <= Len(toClient) THEN Len(toClient) - (n + 1) + 1 ELSE 0
        /\ \A k \in 1 .. Len(toClient) - (n + 1) + 1 : toClient'[k] = toClient[(n + 1) + k - 1]
    BY <1>1, <1>2, <2>1, SubSeqProperties
  <2> QED BY <1>2, <2>2
<1>5. /\ Len(mBuffer') = Len(mBuffer) + n
      /\ \A k \in 1 .. Len(mBuffer) + n :
           mBuffer'[k] = IF k <= Len(mBuffer) THEN mBuffer[k]
                                              ELSE SubSeq(toClient, 1, n)[k - Len(mBuffer)]
  BY <1>1, <1>2, <1>3, ConcatProperties
<1>6. CASE cut
  BY <1>6 DEF RecvPieces, PicturesInOrder
<1>7. CASE ~cut
  <2>1. \A k \in 1 .. Len(mBuffer') : mBuffer'[k] = PieceAt(k)
    <3> TAKE k \in 1 .. Len(mBuffer')
    <3>1. CASE k <= Len(mBuffer)
      <4>1. k \in 1 .. Len(mBuffer) /\ k \in 1 .. Len(mBuffer) + n
        BY <1>2, <1>5, <3>1
      <4>2. mBuffer'[k] = mBuffer[k]
        BY <1>5, <3>1, <4>1
      <4> QED BY <1>7, <4>1, <4>2 DEF PicturesInOrder
    <3>2. CASE ~(k <= Len(mBuffer))
      <4>1. /\ k - Len(mBuffer) \in 1 .. n /\ k - Len(mBuffer) \in 1 .. Len(toClient)
            /\ Len(mBuffer) + (k - Len(mBuffer)) = k /\ k \in 1 .. Len(mBuffer) + n
        BY <1>2, <1>5, <3>2
      <4>2. mBuffer'[k] = toClient[k - Len(mBuffer)]
        BY <1>3, <1>5, <3>2, <4>1
      <4>3. toClient[k - Len(mBuffer)] = PieceAt(Len(mBuffer) + (k - Len(mBuffer)))
        BY <1>7, <4>1 DEF PicturesInOrder
      <4> QED BY <4>1, <4>2, <4>3
    <3> QED BY <3>1, <3>2
  <2>2. \A k \in 1 .. Len(toClient') : toClient'[k] = PieceAt(Len(mBuffer') + k)
    <3> TAKE k \in 1 .. Len(toClient')
    <3>1. /\ k \in 1 .. Len(toClient) - n /\ n + k \in 1 .. Len(toClient)
          /\ Len(mBuffer) + (n + k) = Len(mBuffer') + k
      BY <1>2, <1>4, <1>5
    <3>2. toClient[n + k] = PieceAt(Len(mBuffer) + (n + k))
      BY <1>7, <3>1 DEF PicturesInOrder
    <3> QED BY <1>4, <3>1, <3>2
  <2>3. Len(mBuffer') + Len(toClient') = Len(mBuffer) + Len(toClient)
    BY <1>2, <1>4, <1>5
  <2>4. UNCHANGED <<cut, wire, rpc>> /\ cpc' # "astray"
    BY DEF RecvPieces
  <2> QED BY <1>7, <2>1, <2>2, <2>3, <2>4 DEF PicturesInOrder
<1> QED BY <1>6, <1>7

LEMMA SendKeepsOrder ==
  ASSUME LinkOK, PicturesInOrder, RenderStep
  PROVE  PicturesInOrder'
<1> USE DEF PicturesInOrder
<1>1. UNCHANGED <<cut, cpc, wire, mBuffer>>
  BY DEF RenderStep, SendHead, SendRest
<1>2. CASE wire # "open" \/ cut
  BY <1>1, <1>2 DEF RenderStep, SendHead, SendRest
<1>3. CASE wire = "open" /\ ~cut
  <2> DEFINE n == Len(mBuffer) + Len(toClient)
  <2>1. /\ mBuffer \in Seq({"head", "rest"}) /\ Len(mBuffer) \in Nat
        /\ toClient \in Seq({"head", "rest"}) /\ Len(toClient) \in Nat /\ n \in Nat
    BY PiecesType DEF LinkOK
  <2>2. \E piece \in {"head", "rest"} :
          /\ toClient' = Append(toClient, piece) /\ piece = PieceAt(n + 1)
          /\ (rpc' = "half" <=> (n + 1) % 2 = 1)
    <3>1. CASE SendHead
      BY <1>3, <2>1, <3>1, PieceAtNext DEF SendHead
    <3>2. CASE SendRest
      BY <1>3, <2>1, <3>2, PieceAtNext DEF SendRest
    <3> QED BY <3>1, <3>2 DEF RenderStep
  <2>3. PICK piece \in {"head", "rest"} :
          /\ toClient' = Append(toClient, piece) /\ piece = PieceAt(n + 1)
          /\ (rpc' = "half" <=> (n + 1) % 2 = 1)
    BY <2>2
  <2>4. /\ Len(toClient') = Len(toClient) + 1
        /\ \A k \in 1 .. Len(toClient) : toClient'[k] = toClient[k]
        /\ toClient'[Len(toClient) + 1] = piece
    BY <2>1, <2>3, AppendProperties
  <2>5. \A k \in 1 .. Len(toClient') : toClient'[k] = PieceAt(Len(mBuffer) + k)
    <3> TAKE k \in 1 .. Len(toClient')
    <3>1. CASE k \in 1 .. Len(toClient)
      BY <1>3, <2>4, <3>1
    <3>2. CASE k = Len(toClient) + 1
      <4>1. Len(mBuffer) + k = n + 1
        BY <2>1, <3>2
      <4> QED BY <2>3, <2>4, <3>2, <4>1
    <3> QED BY <2>1, <2>4, <3>1, <3>2
  <2>6. Len(mBuffer) + Len(toClient') = n + 1
    BY <2>1, <2>4
  <2> QED BY <1>1, <1>3, <2>3, <2>5, <2>6
<1> QED BY <1>2, <1>3

LEMMA InitOrder == LinkInit => PicturesInOrder
<1>1. Len(<<>>) = 0 /\ 0 + 0 = 0 /\ 0 % 2 # 1
  OBVIOUS
<1> QED BY <1>1 DEF LinkInit, PicturesInOrder

LEMMA NextOrder == LinkOK /\ PicturesInOrder /\ [LinkNext]_linkVars => PicturesInOrder'
<1> SUFFICES ASSUME LinkOK, PicturesInOrder, [LinkNext]_linkVars PROVE PicturesInOrder'
  OBVIOUS
<1> USE DEF PicturesInOrder
<1>1. CASE Start
  <2>1. rpc = "frame" /\ rpc' = rpc /\ wire # "open"
    BY <1>1 DEF Start, LinkOK, LinkState
  <2>2. ~cut' => ~cut /\ Len(mBuffer) % 2 # 1
    BY <1>1 DEF Start
  <2>3. mBuffer' = mBuffer /\ toClient' = <<>> /\ cpc' = cpc
    BY <1>1 DEF Start, KeptBuffer
  <2>4. Len(toClient') = 0 /\ Len(mBuffer) \in Nat /\ Len(mBuffer) + Len(toClient') = Len(mBuffer)
    BY <2>3, PiecesType DEF LinkOK
  <2> QED BY <2>1, <2>2, <2>3, <2>4
<1>2. CASE RecvZero
  BY <1>2 DEF RecvZero
<1>3. CASE RecvFails
  BY <1>3 DEF RecvFails, AfterFailure
<1>4. CASE \E due \in BOOLEAN : BrokenPipe(due)
  BY <1>4 DEF BrokenPipe
<1>5. CASE ServerStep
  BY <1>5 DEF ServerStep, Select, Visit, ServerRecvPackets
<1>6. CASE Environment
  BY <1>6 DEF Environment, Move, ChangePicture, Restart, Tick
<1>7. CASE UNCHANGED linkVars
  BY <1>7
<1> QED
  BY <1>1, <1>2, <1>3, <1>4, <1>5, <1>6, <1>7, RoundKeepsOrder, RecvKeepsOrder, SendKeepsOrder
  DEF LinkNext, ClientStep

-----------------------------------------------------------------------------
(* The two clocks: how long the sysmodule has heard nothing, and when the client has to *)
(* send.                                                                                 *)

AliveComes == Waits("Alive", inbox \o toServer)

\* If no Alive is on its way, the client has counted for as long as the sysmodule, or an
\* Alive is due; it is late by no more than the client has waited for a picture.
AliveInTime ==
  /\ still <= longest
  /\ listed =>
       /\ AliveComes \/ silence <= sinceAlive \/ sinceAlive > AlivePeriod
       /\ AliveComes \/ toServer = <<>> \/ silence <= Timeout
       /\ \/ AliveComes \/ cpc = "loop"
          \/ silence <= sinceAlive /\ sinceAlive <= AlivePeriod
          \/ silence <= AlivePeriod + still
       /\ behind \/ silence <= AlivePeriod + longest
  /\ spc = "recv" /\ late /\ ~behind => Timeout < AlivePeriod + longest

LEMMA WaitsJoined ==
  ASSUME NEW s \in Seq(Kind), NEW t \in Seq(Kind), NEW x
  PROVE  Waits(x, s \o t) <=> Waits(x, s) \/ Waits(x, t)
<1>1. /\ s \o t \in Seq(Kind) /\ Len(s \o t) = Len(s) + Len(t)
      /\ \A j \in 1 .. Len(s) + Len(t) : (s \o t)[j] = IF j <= Len(s) THEN s[j] ELSE t[j - Len(s)]
  BY ConcatProperties
<1>2. /\ DOMAIN s = 1 .. Len(s) /\ DOMAIN t = 1 .. Len(t) /\ DOMAIN (s \o t) = 1 .. Len(s) + Len(t)
      /\ Len(s) \in Nat /\ Len(t) \in Nat
  BY <1>1, LenProperties
<1>3. ASSUME NEW k \in 1 .. Len(s), s[k] = x PROVE Waits(x, s \o t)
  <2>1. k \in 1 .. Len(s) + Len(t) /\ k <= Len(s)
    BY <1>2
  <2> QED BY <1>1, <1>2, <1>3, <2>1 DEF Waits
<1>4. ASSUME NEW k \in 1 .. Len(t), t[k] = x PROVE Waits(x, s \o t)
  <2>1. /\ Len(s) + k \in 1 .. Len(s) + Len(t) /\ ~(Len(s) + k <= Len(s))
        /\ (Len(s) + k) - Len(s) = k
    BY <1>2
  <2>2. (s \o t)[Len(s) + k] = x
    BY <1>1, <1>4, <2>1
  <2> QED BY <1>2, <2>1, <2>2 DEF Waits
<1>5. ASSUME NEW k \in 1 .. Len(s) + Len(t), (s \o t)[k] = x
      PROVE  Waits(x, s) \/ Waits(x, t)
  <2>1. CASE k <= Len(s)
    <3>1. k \in 1 .. Len(s)
      BY <1>2, <2>1
    <3> QED BY <1>1, <1>2, <1>5, <2>1, <3>1 DEF Waits
  <2>2. CASE ~(k <= Len(s))
    <3>1. k - Len(s) \in 1 .. Len(t)
      BY <1>2, <2>2
    <3> QED BY <1>1, <1>2, <1>5, <2>2, <3>1 DEF Waits
  <2> QED BY <2>1, <2>2
<1> QED BY <1>2, <1>3, <1>4, <1>5 DEF Waits

LEMMA WaitsBehindHead ==
  ASSUME NEW s \in Seq(Kind), s # <<>>, NEW x, Waits(x, s)
  PROVE  Head(s) = x \/ Waits(x, Tail(s))
<1>1. /\ Tail(s) \in Seq(Kind) /\ Len(Tail(s)) = Len(s) - 1
      /\ \A j \in 1 .. Len(Tail(s)) : Tail(s)[j] = s[j + 1]
  BY HeadTailProperties
<1>2. DOMAIN s = 1 .. Len(s) /\ Len(s) \in Nat /\ DOMAIN Tail(s) = 1 .. Len(s) - 1
  BY <1>1, LenProperties
<1>3. PICK k \in 1 .. Len(s) : s[k] = x
  BY <1>2 DEF Waits
<1>4. CASE k = 1
  BY <1>3, <1>4
<1>5. CASE k # 1
  <2>1. k - 1 \in 1 .. Len(s) - 1 /\ (k - 1) + 1 = k
    BY <1>2, <1>5
  <2>2. Tail(s)[k - 1] = x
    BY <1>1, <1>3, <2>1
  <2> QED BY <1>2, <2>1, <2>2 DEF Waits
<1> QED BY <1>4, <1>5

LEMMA ClockTypes ==
  ASSUME LinkOK
  PROVE  /\ silence \in Nat /\ sinceAlive \in Nat /\ still \in Nat /\ longest \in Nat
         /\ silence <= Timeout + 1 /\ sinceAlive <= AlivePeriod + 1 /\ still <= Timeout + 1
         /\ AlivePeriod \in Nat /\ Timeout \in Nat /\ AlivePeriod <= Timeout
         /\ inbox \in Seq(Kind) /\ toServer \in Seq(Kind)
         /\ late \in BOOLEAN /\ behind \in BOOLEAN /\ listed \in BOOLEAN
BY LinkConstants DEF LinkOK, TypeOK

LEMMA RoundSendsAlive ==
  ASSUME LinkOK, AliveInTime, NEW due \in BOOLEAN, Round(due)
  PROVE  AliveInTime'
<1> USE DEF AliveInTime
<1>1. /\ UNCHANGED <<still, longest, listed, silence, inbox, behind, spc, late>>
      /\ sinceAlive' = IF AliveDue THEN 0 ELSE sinceAlive
      /\ Write(Writes(due))
  BY DEF Round
<1>2. CASE ~listed
  BY <1>1, <1>2
<1>3. CASE listed
  <2>1. wire = "open"
    BY <1>3 DEF LinkOK, LinkState
  <2>2. Writes(due) \in Seq(Kind) /\ (AliveDue => Waits("Alive", Writes(due)))
    BY WritesType DEF LinkOK
  <2>3. \/ toServer' = toServer \o Writes(due)
        \/ Writes(due) = <<>> /\ toServer' = toServer
    <3> DEFINE packets == Writes(due)
    <3>1. Write(packets)
      BY <1>1
    <3> HIDE DEF packets
    <3>2. \/ toServer' = toServer \o packets
          \/ packets = <<>> /\ toServer' = toServer
      BY <2>1, <3>1, Zenon DEF Write
    <3> QED BY <3>2 DEF packets
  <2>4. /\ AliveComes => AliveComes'
        /\ AliveDue => AliveComes'
        /\ toServer' = toServer \/ toServer' # <<>>
    <3>1. AliveComes <=> Waits("Alive", inbox) \/ Waits("Alive", toServer)
      BY ClockTypes, WaitsJoined DEF AliveComes
    <3>2. CASE toServer' = toServer \o Writes(due)
      <4>1. toServer' \in Seq(Kind)
        BY <2>2, <3>2, ClockTypes, ConcatProperties
      <4>2. Waits("Alive", toServer') <=>
              Waits("Alive", toServer) \/ Waits("Alive", Writes(due))
        BY <2>2, <3>2, ClockTypes, WaitsJoined
      <4>3. AliveComes' <=> Waits("Alive", inbox) \/ Waits("Alive", toServer')
        <5>1. AliveComes' <=> Waits("Alive", inbox \o toServer')
          BY <1>1 DEF AliveComes, Waits
        <5> QED BY <4>1, <5>1, ClockTypes, WaitsJoined
      <4>4. toServer' = toServer \/ toServer' # <<>>
        BY <2>2, <3>2, ClockTypes, ConcatEqualIffEmpty
      <4> QED BY <2>2, <3>1, <4>2, <4>3, <4>4
    <3>3. CASE Writes(due) = <<>> /\ toServer' = toServer
      <4>1. AliveComes' <=> AliveComes
        BY <1>1, <3>3 DEF AliveComes, Waits
      <4>2. ~Waits("Alive", <<>>)
        BY DEF Waits
      <4> QED BY <2>2, <3>3, <4>1, <4>2
    <3> QED BY <2>3, <3>2, <3>3
  <2>5. CASE AliveDue
    BY <1>1, <1>3, <2>4, <2>5
  <2>6. CASE ~AliveDue
    <3>1. sinceAlive' = sinceAlive /\ sinceAlive <= AlivePeriod
      BY <1>1, <2>6, ClockTypes DEF AliveDue
    <3>2. CASE AliveComes
      BY <1>1, <1>3, <2>4, <3>2
    <3>3. CASE ~AliveComes
      <4>1. silence <= sinceAlive
        BY <1>3, <3>1, <3>3, ClockTypes
      <4>2. silence <= Timeout
        BY <3>1, <4>1, ClockTypes
      <4> QED BY <1>1, <1>3, <3>1, <4>1, <4>2
    <3> QED BY <3>2, <3>3
  <2> QED BY <2>5, <2>6
<1> QED BY <1>2, <1>3

LEMMA VisitInTime ==
  ASSUME LinkOK, AliveInTime, Visit
  PROVE  AliveInTime'
<1> USE DEF AliveInTime
<1>1. /\ UNCHANGED <<still, longest, listed, behind, sinceAlive, toServer, cpc>>
      /\ late' = (silence > Timeout) /\ spc' = "recv" /\ listed
      /\ silence' \in {silence, 0}
  BY DEF Visit, LinkOK, LinkState
<1>2. late' /\ ~behind => Timeout < AlivePeriod + longest
  BY <1>1, ClockTypes
<1>3. CASE silence' = 0
  BY <1>1, <1>2, <1>3, ClockTypes
<1>4. CASE silence' = silence
  <2>1. AliveComes => AliveComes' \/ silence' = 0
    <3>1. AliveComes <=> Waits("Alive", inbox) \/ Waits("Alive", toServer)
      BY ClockTypes, WaitsJoined DEF AliveComes
    <3>2. CASE inbox = <<>>
      BY <1>1, <3>2 DEF Visit, AliveComes, Waits
    <3>3. CASE inbox # <<>>
      <4>1. inbox' = Tail(inbox) /\ (Head(inbox) = "Alive" => silence' = 0)
        BY <3>3 DEF Visit
      <4>2. inbox' \in Seq(Kind)
        BY <3>3, <4>1, ClockTypes, HeadTailProperties
      <4>3. AliveComes' <=> Waits("Alive", inbox') \/ Waits("Alive", toServer)
        <5>1. AliveComes' <=> Waits("Alive", inbox' \o toServer)
          BY <1>1 DEF AliveComes, Waits
        <5> QED BY <4>2, <5>1, ClockTypes, WaitsJoined
      <4>4. Waits("Alive", inbox) => Head(inbox) = "Alive" \/ Waits("Alive", inbox')
        BY <3>3, <4>1, ClockTypes, WaitsBehindHead
      <4> QED BY <3>1, <4>1, <4>3, <4>4
    <3> QED BY <3>2, <3>3
  <2>2. CASE AliveComes'
    BY <1>1, <1>2, <1>4, <2>2, ClockTypes
  <2>3. CASE ~AliveComes'
    BY <1>1, <1>2, <1>3, <1>4, <2>1, <2>3, ClockTypes
  <2> QED BY <2>2, <2>3
<1> QED BY <1>1, <1>3, <1>4

LEMMA TickInTime ==
  ASSUME LinkOK, AliveInTime, Tick
  PROVE  AliveInTime'
<1> USE DEF AliveInTime
<1>1. /\ UNCHANGED <<listed, inbox, toServer, spc, late, cpc>>
      /\ sinceAlive' = UpTo(sinceAlive, AlivePeriod)
      /\ silence' = UpTo(silence, Timeout)
      /\ still' = UpTo(still, Timeout)
      /\ longest' = IF still' > longest THEN still' ELSE longest
      /\ behind' = (behind \/ Waits("Alive", inbox))
      /\ Waiting
  BY DEF Tick
<1>2. /\ still' \in Nat /\ longest' \in Nat /\ silence' \in Nat /\ sinceAlive' \in Nat
      /\ still' <= longest' /\ longest <= longest'
  BY <1>1, ClockTypes, SMTT(30) DEF UpTo
<1>3. spc' = "recv" /\ late' /\ ~behind' => Timeout < AlivePeriod + longest'
  BY <1>1, <1>2, ClockTypes, SMTT(30)
<1>4. CASE ~listed
  BY <1>1, <1>2, <1>3, <1>4
<1>5. CASE listed
  <2>1. toServer = <<>> /\ cpc # "loop"
    BY <1>1, <1>5 DEF Waiting, LinkOK, LinkState
  <2>2. AliveComes' <=> AliveComes
    BY <1>1 DEF AliveComes, Waits
  <2>3. AliveComes => behind'
    <3>1. inbox \o toServer = inbox
      BY <2>1, ClockTypes, ConcatEmptySeq
    <3> QED BY <1>1, <3>1 DEF AliveComes
  <2>4. CASE AliveComes
    BY <1>1, <1>2, <1>3, <1>5, <2>1, <2>2, <2>3, <2>4
  <2>5. CASE ~AliveComes
    <3>1. \/ silence' <= AlivePeriod + still'
          \/ silence' <= sinceAlive' /\ sinceAlive' <= AlivePeriod
      <4>0. /\ silence' = IF silence > Timeout THEN silence ELSE silence + 1
            /\ still' = IF still > Timeout THEN still ELSE still + 1
            /\ sinceAlive' = IF sinceAlive > AlivePeriod THEN sinceAlive ELSE sinceAlive + 1
        BY <1>1 DEF UpTo
      <4>1. CASE silence <= sinceAlive /\ sinceAlive <= AlivePeriod
        <5>1. silence' = silence + 1 /\ sinceAlive' = sinceAlive + 1 /\ still' >= 1
          BY <4>0, <4>1, ClockTypes
        <5> QED BY <4>1, <5>1, <1>2, ClockTypes, SMTT(30)
      <4>2. CASE silence <= AlivePeriod + still
        <5>1. CASE still > Timeout
          <6>1. still' = still /\ silence' <= Timeout + 1
            BY <4>0, <5>1, ClockTypes, SMTT(30)
          <6> QED BY <1>2, <5>1, <6>1, ClockTypes, SMTT(30)
        <5>2. CASE ~(still > Timeout)
          <6>1. still' = still + 1 /\ silence' <= silence + 1
            BY <4>0, <5>2, ClockTypes, SMTT(30)
          <6> QED BY <4>2, <6>1, <1>2, ClockTypes, SMTT(30)
        <5> QED BY <5>1, <5>2
      <4> QED BY <1>5, <2>1, <2>5, <4>1, <4>2
    <3>2. silence' <= sinceAlive' \/ sinceAlive' > AlivePeriod
      BY <1>1, <1>5, <2>5, ClockTypes DEF UpTo
    <3>3. silence' <= AlivePeriod + longest'
      BY <1>2, <3>1, ClockTypes, SMTT(30)
    <3> QED BY <1>1, <1>2, <1>3, <2>1, <2>2, <3>1, <3>2, <3>3
  <2> QED BY <2>4, <2>5
<1> QED BY <1>4, <1>5

LEMMA InitInTime == LinkInit => AliveInTime
BY LinkConstants DEF LinkInit, AliveInTime

LEMMA NextInTime == LinkOK /\ AliveInTime /\ [LinkNext]_linkVars => AliveInTime'
<1> SUFFICES ASSUME LinkOK, AliveInTime, [LinkNext]_linkVars PROVE AliveInTime'
  OBVIOUS
<1> USE DEF AliveInTime
<1>1. CASE Start
  <2>1. ~listed /\ spc = "select"
    BY <1>1 DEF Start, LinkOK, LinkState
  <2> QED BY <1>1, <2>1 DEF Start
<1>2. CASE RecvPieces
  <2>1. /\ UNCHANGED <<longest, listed, silence, inbox, toServer, behind, spc, late, sinceAlive>>
        /\ still' = 0 /\ cpc' = "loop"
    BY <1>2 DEF RecvPieces
  <2>2. AliveComes' <=> AliveComes
    BY <2>1 DEF AliveComes, Waits
  <2> QED BY <2>1, <2>2, ClockTypes
<1>3. ASSUME UNCHANGED <<still, longest, listed, silence, inbox, toServer, behind, spc, late,
                         sinceAlive>>,
             cpc' \in {cpc, "loop"} \/ ~listed
      PROVE  AliveInTime'
  <2>1. AliveComes' <=> AliveComes
    BY <1>3 DEF AliveComes, Waits
  <2> QED BY <1>3, <2>1
<1>4. CASE RecvZero \/ RecvFails
  BY <1>3, <1>4 DEF RecvZero, RecvFails
<1>5. CASE \E due \in BOOLEAN : BrokenPipe(due)
  BY <1>3, <1>5 DEF BrokenPipe, LinkOK, LinkState
<1>6. CASE Select
  <2>1. CASE pending
    BY <1>6, <2>1, ClockTypes DEF Select
  <2>2. CASE ~pending
    <3>1. /\ UNCHANGED <<still, longest, listed, silence, inbox, toServer, behind, late,
                         sinceAlive, cpc>>
          /\ spc' # "recv"
      BY <1>6, <2>2 DEF Select
    <3>2. AliveComes' <=> AliveComes
      BY <3>1 DEF AliveComes, Waits
    <3> QED BY <3>1, <3>2
  <2> QED BY <2>1, <2>2
<1>7. CASE ServerRecvPackets
  <2>1. /\ UNCHANGED <<still, longest, silence, behind, late, sinceAlive, cpc>>
        /\ spc' = "select" /\ listed
    BY <1>7 DEF ServerRecvPackets, LinkOK, LinkState
  <2>2. inbox' \o toServer' = inbox \o toServer
    <3>1. PICK n \in 1 .. Len(toServer) :
            /\ inbox' = inbox \o SubSeq(toServer, 1, n)
            /\ toServer' = SubSeq(toServer, n + 1, Len(toServer))
      BY <1>7 DEF ServerRecvPackets
    <3> QED BY <3>1, ClockTypes, PiecesSplit
  <2>3. AliveComes' <=> AliveComes
    BY <2>2 DEF AliveComes, Waits
  <2>4. toServer # <<>>
    BY <1>7 DEF ServerRecvPackets
  <2> QED BY <2>1, <2>3, <2>4
<1>8. CASE RenderStep
  BY <1>3, <1>8 DEF RenderStep, SendHead, SendRest
<1>9. CASE Move \/ ChangePicture
  BY <1>3, <1>9 DEF Move, ChangePicture
<1>10. CASE Restart
  BY <1>10, ClockTypes DEF Restart
<1>11. CASE UNCHANGED linkVars
  BY <1>3, <1>11
<1> QED
  BY <1>1, <1>2, <1>4, <1>5, <1>6, <1>7, <1>8, <1>9, <1>10, <1>11,
     RoundSendsAlive, VisitInTime, TickInTime
  DEF LinkNext, ClientStep, ServerStep, Environment

LinkInv == LinkOK /\ PicturesInOrder /\ AliveInTime

LEMMA LinkInvariance == LinkSpec => []LinkInv
<1>1. LinkInit => LinkInv
  BY InitLink, InitOrder, InitInTime DEF LinkInv
<1>2. LinkInv /\ [LinkNext]_linkVars => LinkInv'
  BY NextLinkOK, NextOrder, NextInTime DEF LinkInv
<1> HIDE DEF linkVars
<1> QED BY <1>1, <1>2, PTL DEF LinkSpec

\* Only recv() in the server thread erases a client, and only after the time was found to
\* be over.
LEMMA OnlyRecvDrops ==
  ASSUME LinkInv, LinkNext, Drops
  PROVE  /\ spc = "recv" /\ late /\ listed /\ toServer # <<>>
         /\ UNCHANGED <<longest, behind>>
<1> USE DEF Drops, Dropped
<1>1. CASE ClientStep
  BY <1>1 DEF ClientStep, Start, Round, Write, BrokenPipe,
       RecvPieces, RecvZero, RecvFails, AfterFailure
<1>2. CASE Select \/ Visit
  BY <1>2 DEF Select, Visit
<1>3. CASE ServerRecvPackets
  <2>1. /\ spc = "recv" /\ toServer # <<>> /\ listed' = ~late
        /\ UNCHANGED <<longest, behind>>
    BY <1>3 DEF ServerRecvPackets
  <2>2. listed /\ late
    BY <2>1, ClockTypes DEF LinkInv, LinkOK, LinkState
  <2> QED BY <2>1, <2>2
<1>4. CASE RenderStep
  BY <1>4 DEF RenderStep, SendHead, SendRest
<1>5. CASE Environment
  BY <1>5 DEF Environment, Move, ChangePicture, Restart, Tick
<1> QED BY <1>1, <1>2, <1>3, <1>4, <1>5 DEF LinkNext, ServerStep

\* Buffers and connections never hold more than fits, at any sizes and periods.
THEOREM LinkTypeCorrect == LinkSpec => []TypeOK
<1>1. LinkInv => TypeOK
  BY DEF LinkInv, LinkOK
<1> QED BY <1>1, LinkInvariance, PTL

\* At any size of the buffers and at any time of the restarts, a client misreads a picture
\* only after a reconnection in the middle of one.
THEOREM MisreadsAreExplained == LinkSpec => []MisreadIsExplained
<1>1. LinkInv => MisreadIsExplained
  BY DEF LinkInv, PicturesInOrder, MisreadIsExplained
<1> QED BY <1>1, LinkInvariance, PTL

\* With any two periods of which Alive has the shorter one, the client that is erased
\* for being silent has sent an Alive that waits, or was dispatched since.
THEOREM TheDroppedAreAlive == LinkSpec => DroppedWhileAlive
<1>1. LinkInv /\ [LinkNext]_linkVars =>
        [Drops => silence <= Timeout \/ Waits("Alive", inbox \o toServer)]_linkVars
  BY OnlyRecvDrops DEF LinkInv, AliveInTime, AliveComes
<1> HIDE DEF linkVars
<1> QED BY <1>1, LinkInvariance, PTL DEF LinkSpec, DroppedWhileAlive

\* With any two such periods, a client to which a picture comes at least every Timeout -
\* AlivePeriod is erased only if the server has blocked over an Alive in its mBuffer.
THEOREM DropsNeedPauseOrBacklog == LinkSpec => DropNeedsPauseOrBacklog
<1>1. LinkInv /\ [LinkNext]_linkVars =>
        [Drops => longest >= Timeout - AlivePeriod \/ behind]_linkVars
  <2> SUFFICES ASSUME LinkInv, LinkNext, Drops
               PROVE  longest >= Timeout - AlivePeriod \/ behind
    OBVIOUS
  <2>1. behind \/ Timeout < AlivePeriod + longest
    BY OnlyRecvDrops DEF LinkInv, AliveInTime
  <2> QED BY <2>1, ClockTypes DEF LinkInv
<1> HIDE DEF linkVars
<1> QED BY <1>1, LinkInvariance, PTL DEF LinkSpec, DropNeedsPauseOrBacklog
=============================================================================
