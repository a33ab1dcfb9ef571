----------------------------- MODULE MCDirents -----------------------------
(***************************************************************************)
(* Names on both sides of the boundaries of 8 bytes; buffers that hold one *)
(* record, some and all of them; listings at multiples of 8, behind the    *)
(* 17 bytes of a RELEASE, and one byte before a multiple of 8.             *)
(***************************************************************************)
EXTENDS Dirents

MCLens == <<1, 8, 9, 255, 16, 7>>
MCStarts == {16, 33, 56, 4095}
MCReadSizes == {280, 300, 352, 4096}
=============================================================================
