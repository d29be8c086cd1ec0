--------------------------- MODULE MCPacketStream ---------------------------
(* PacketStream on a small connection: 2-byte headers and a 6-byte mBuffer,  *)
(* so that two of the smallest packets fill it and the largest fills it alone.*)
EXTENDS PacketStream

MCFixedTypes == {"Hello", "UpdateMouse"}
MCFixedSize == [t \in MCFixedTypes |-> IF t = "Hello" THEN 1 ELSE 2]
\* 5 is a text the client must not send: with its header it does not fit.
MCClipSizes == {4, 5}
=============================================================================
