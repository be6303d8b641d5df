---------------------------- MODULE MCSequential ----------------------------
(***************************************************************************)
(* BufCache, AhciCache and CommandLine for TLC. They are sequential code   *)
(* that the one thread of the kernel runs, and they share no state, so a   *)
(* behaviour exercises one of them while the others stay as they began.    *)
(*                                                                         *)
(* BufCache: three sectors over two buffers, so that sectors are evicted   *)
(* and read back, and two references held, so that none is left.           *)
(* AhciCache: three sectors over two buffers that both start as those of   *)
(* the first.                                                              *)
(* CommandLine: every buffer of five characters, every length of the line, *)
(* a command of one letter, and another that begins another. Numbers of    *)
(* three digits in base 3 are to a word of 10 what those of ten digits are *)
(* to one of 2^32: the largest wraps twice.                                *)
(***************************************************************************)
EXTENDS BufCache, AhciCache, CommandLine

CONSTANTS s1, s2, s3, v1, v2, none, k, w, sp

MCSectors == {s1, s2, s3}
MCValues  == {v1, v2}

Literal(word) == [chars |-> [i \in 0..(Len(word) - 1) |-> word[i + 1]], size |-> Len(word)]

MCChars  == Digits \union {k, w, sp}
MCSeek   == Literal(<<k>>)
MCWrite  == Literal(<<w>>)
MCMkfile == Literal(<<w, w>>)

VARIABLE part   \* "cache", "driver" or "line"

Init ==
  /\ part \in {"cache", "driver", "line"}
  /\ part # "cache"  => disk = [s \in Sectors |-> Zeros]
  /\ part # "driver" => /\ cells = [e \in Entries |-> Zeros]
                        /\ medium = [o \in Offsets |-> Zeros]
  /\ part # "line"   => input_buffer = [i \in 0..(LineSize - 1) |-> sp] /\ end = 0
  /\ ClientInit /\ DriverInit /\ LineInit

Next ==
  /\ UNCHANGED part
  /\ \/ part = "cache" /\ Client /\ UNCHANGED <<driverVars, lineVars>>
     \/ part = "driver" /\ Borrower /\ UNCHANGED <<cacheVars, lineVars>>
     \/ part = "line" /\ LineNext /\ UNCHANGED <<cacheVars, driverVars>>

Spec == Init /\ [][Next]_<<part, cacheVars, driverVars, lineVars>>
=============================================================================
