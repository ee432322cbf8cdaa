----------------------------- MODULE MCDebugInfo -----------------------------
(***************************************************************************)
(* DebugInfo for TLC.  The offsets are the ends of the 1-, 2- and 4-byte   *)
(* forms and the gaps make the native offsets cross the same ends; in a    *)
(* buffer of 16 bytes a block holds between one pair and three.            *)
(***************************************************************************)
EXTENDS DebugInfo

MCOffset == {0, 63, 64, 8192, -65, 268435455}
MCGap == {0, 64, 8200}

\* The first offset that does not fit the 4-byte form.
MCBigOffset == {63, 268435456}
=============================================================================
