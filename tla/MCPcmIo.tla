------------------------------ MODULE MCPcmIo ------------------------------
(* An instance of PcmIo for TLC: IO objects and formats are model values,   *)
(* of which only equality matters.                                          *)
EXTENDS PcmIo, TLC

CONSTANTS io1, io2, io3, S16, S32, Float, S24

ThreeHandles == {io1, io2, io3}
FourFormats  == {S16, S32, Float, S24}
=============================================================================
