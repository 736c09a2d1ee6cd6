--------------------------- MODULE MCSocketOutput ---------------------------
(* A small instance of SocketOutput for TLC. *)
EXTENDS SocketOutput

MCDF == {0, 4, 5, 11, 17, 18, 20}

MCInitial == FromString([radarcape |-> TRUE])

Option(l, on) == <<Byte1A, Byte1, [letter |-> l, on |-> on]>>

\* A client that asks for nothing, one that sends two settings messages of three
\* and of one command, as a splitter downstream does when its filter changes,
\* and one whose command is lost in bytes that are none.
MCRequests ==
  {<<>>, <<Byte1, Byte1A, Byte1A, Byte1>> \o Option("d", TRUE),
   Option("c", TRUE) \o Option("d", TRUE) \o Option("g", FALSE) \o Option("j", TRUE)}
=============================================================================
