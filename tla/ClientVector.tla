---------------------------- MODULE ClientVector ----------------------------
(***************************************************************************)
(* What the modules have in common that model mClients, the vector that    *)
(* the server thread keeps and the render thread goes through: a client    *)
(* that is not in it is added behind the others, or one client is taken    *)
(* out and the others stay in their order.  ServerLoop shows that the loop *)
(* of the server thread does no more than that to the vector, although it  *)
(* erases behind its end; DrawMirror and Traffic, where those steps come   *)
(* from the environment of the render thread, assume no more than that.    *)
(***************************************************************************)
EXTENDS Naturals, Sequences

CONSTANT Client    \* connections

VARIABLE listed    \* the clients in the vector

IsIn(c) == \E k \in DOMAIN listed : listed[k] = c

PushBack(c) ==
  /\ ~IsIn(c)
  /\ listed' = Append(listed, c)

Take(k) ==
  listed' = [j \in 1 .. Len(listed) - 1 |-> IF j < k THEN listed[j] ELSE listed[j + 1]]

VecInit == listed = <<>>

VecNext ==
  \/ \E c \in Client : PushBack(c)
  \/ \E k \in DOMAIN listed : Take(k)

VecSpec == VecInit /\ [][VecNext]_listed
=============================================================================
