--------------------------- MODULE PacketChannel ---------------------------
(***************************************************************************)
(* What the framing layer promises to the code above it, with no bytes in  *)
(* it: one end accepts packets, the other end is handed the same packets,  *)
(* each exactly once and in the order they were accepted, until the        *)
(* receiving end drops the connection or abandons it.  It drops it only    *)
(* once the sending end has hung up; it may abandon one that is alive, and *)
(* does not tell the sender.  Packets that were not handed over are lost.  *)
(***************************************************************************)
EXTENDS Naturals, Sequences

CONSTANT Packet      \* the packets that may be sent

VARIABLES accepted,  \* every packet the sender passed to sendPacketImpl
          delivered, \* every packet handed to handlePacket
          hungUp,    \* the sending end has closed
          dropped,   \* the receiving end has closed
          abandoned  \* the receiving end takes no more packets

chVars == <<accepted, delivered, hungUp, dropped, abandoned>>

ChInit ==
  /\ accepted = <<>>
  /\ delivered = <<>>
  /\ hungUp = FALSE
  /\ dropped = FALSE
  /\ abandoned = FALSE

Accept ==
  /\ ~hungUp
  /\ ~dropped
  /\ \E p \in Packet : accepted' = Append(accepted, p)
  /\ UNCHANGED <<delivered, hungUp, dropped, abandoned>>

Deliver ==
  /\ ~dropped
  /\ ~abandoned
  /\ Len(delivered) < Len(accepted)
  /\ delivered' = Append(delivered, accepted[Len(delivered) + 1])
  /\ UNCHANGED <<accepted, hungUp, dropped, abandoned>>

HangUp ==
  /\ ~hungUp
  /\ hungUp' = TRUE
  /\ UNCHANGED <<accepted, delivered, dropped, abandoned>>

Drop ==
  /\ hungUp
  /\ ~dropped
  /\ ~abandoned
  /\ dropped' = TRUE
  /\ UNCHANGED <<accepted, delivered, hungUp, abandoned>>

Abandon ==
  /\ ~dropped
  /\ ~abandoned
  /\ abandoned' = TRUE
  /\ UNCHANGED <<accepted, delivered, hungUp, dropped>>

ChNext == Accept \/ Deliver \/ HangUp \/ Drop \/ Abandon

ChSpec == ChInit /\ [][ChNext]_chVars
=============================================================================
