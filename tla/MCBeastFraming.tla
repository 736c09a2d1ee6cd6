--------------------------- MODULE MCBeastFraming ---------------------------
(***************************************************************************)
(* BeastFraming for TLC: one byte of metadata, one or two of data.  The     *)
(* streams are every sequence of NoiseLen bytes over 1A, a type byte and a  *)
(* byte that is neither, and the framings of one or two messages made of    *)
(* the same bytes.                                                          *)
(***************************************************************************)
EXTENDS BeastFraming

CONSTANT NoiseLen

MCsize == [t \in MessageType |-> IF t = "MODE_AC" THEN 1 ELSE 2]

MCByte == {ESC, 49, 0}

Short == {"MODE_AC"} \X [1..1 -> MCByte] \X [1..1 -> MCByte]
Long  == {"STATUS"} \X {<<ESC>>} \X [1..2 -> {ESC, 52}]

MCMessageLists ==
  {<<m>> : m \in Long} \cup (Short \X Short) \cup (Long \X Short)

MCNoise == {<<>>, <<0>>, <<49, 0>>}

MCSources == [1..NoiseLen -> MCByte] \cup {f.bytes : f \in Framed}

MCResumed == {Written(<<<<"STATUS", <<ESC>>, <<52, ESC>>>>>>)}
=============================================================================
