------------------------ MODULE MCFilterDistributor ------------------------
(* A small instance of FilterDistributor for TLC. *)
EXTENDS FilterDistributor

MCDF == {0, 4, 5, 11, 17, 18, 20}

\* Three filters no two of which are comparable: DF11/17/18 with FEC, every
\* format with CRC checks off, and Mode A/C plus status with verbatim.
MCFilters ==
  {[receive_df |-> {11, 17, 18}, receive |-> {"fec", "status"}],
   [receive_df |-> MCDF, receive |-> {"bad_crc", "gps_timestamps"}],
   [receive_df |-> MCDF \ {0, 4, 5}, receive |-> {"modeac", "verbatim"}]}

MCMessages == {Plain("STATUS"), ModeS(17, "correctable"), ModeS(4, "good")}
=============================================================================
