-------------------------- MODULE MCModesMessage --------------------------
(* ModesMessage for TLC: any one wrong bit of five codewords, and any two    *)
(* of three of them; the CRC is linear.                                    *)
EXTENDS ModesMessage

MCDF == 0..31

MCCodewords ==
  {[df |-> 17, bits |-> {5, 7, 9, 16, 30, 33, 52, 71, 87}, iid |-> {}, errors |-> 2],
   [df |-> 18, bits |-> 60..70,        iid |-> {}, errors |-> 1],
   [df |-> 11, bits |-> {7, 20, 31},   iid |-> {}, errors |-> 2],
   [df |-> 11, bits |-> {6},           iid |-> {6}, errors |-> 2],
   [df |-> 11, bits |-> {8, 9},        iid |-> {0, 2}, errors |-> 1]}

\* Clients of every kind; one that has no checks and one that has them all.
MCChoices == {{}, {"crc_disable"}, {"fec_disable"}, {"crc_disable", "fec_disable"},
              {"verbatim"}}
=============================================================================
