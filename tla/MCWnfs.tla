------------------------------- MODULE MCWnfs -------------------------------
(***************************************************************************)
(* Wnfs for TLC: two inodes in one sector, sectors of two bytes, blocks of *)
(* two sectors, one direct block with the word after it, and a block       *)
(* bitmap of two bytes of four bits.                                       *)
(***************************************************************************)
EXTENDS Wnfs

CONSTANTS data, junk, short, long

ShortName == {short}
AllNames  == {short, long}
LongNames == {long}
=============================================================================
