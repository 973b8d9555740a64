----------------------------- MODULE MCSerialSettings -----------------------------
(* SerialSettings with inputs at the borders of the tables and integer widths. *)
EXTENDS SerialSettings

MCFields == {"stopBits", "fOutX", "fRtsControl", "XonLim", "EofChar"}
MCInputs == {-1, 1, 3, 200, 65537}
=============================================================================
