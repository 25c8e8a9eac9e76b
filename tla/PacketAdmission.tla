--------------------------- MODULE PacketAdmission ---------------------------
(***************************************************************************)
(* Admission of packets that PacketParser parses: which of the strings that *)
(* come as the parameter hex are useful is what parse_packet says of them.  *)
(***************************************************************************)
EXTENDS Admission, PacketParser

CONSTANT Text  \* per input: its characters

ASSUME TextAssumption == Text \in [Input -> Seq(Digit \cup {Separator})]

ASSUME UsefulAssumption ==
  Useful = {p \in Input : Parse(Text[p]).kind \in {"key_packet", "data_packet"}}

Carries(r) == req[r] \in Charging

\* Inputs whose bytes can be had back from the result of demask_for_176_byte.
Recoverable ==
  {p \in Useful : \E raw \in RawBytes(Text[p]) :
    raw \in [Position -> Byte] /\ Remask(Demask(raw)) = raw}

-----------------------------------------------------------------------------
(* Properties.                                                             *)

\* demask_for_176_byte (packet_parser.py:7-71) loses nothing of the packets in
\* progress, with separators or without: interl_idx sends the 176 bytes to 176
\* places, and masking them again on the way back gives the packet that came.
NothingLost == \A r \in Req : Carries(r) => req[r].packet \in Recoverable

=============================================================================
