------------------------------- MODULE MCBoot -------------------------------
(***************************************************************************)
(* Boot for TLC: two buses of two slots of two functions, of which one or  *)
(* two are controllers: one with its disk behind the second port, one      *)
(* without a disk, one with a port in the second page of its registers,    *)
(* and, alone, one that firmware gave no registers. Every directory entry  *)
(* has six pages, and the pool three.                                      *)
(***************************************************************************)
EXTENDS Boot, FiniteSetsExt

\* BARs are multiples of 8 KB.
Kinds == {
  [bar |-> <<2, 0>>, ports |-> {0, 1}, devices |-> {1}],
  [bar |-> <<3, 0>>, ports |-> {0},    devices |-> {}],
  [bar |-> <<3, 2>>, ports |-> {1, 2}, devices |-> {2}]}
Unset == [bar |-> Null, ports |-> {0}, devices |-> {0}]

\* One or two controllers, and the functions 0 they need beside them, which may
\* say that they have more functions than they do.
Layouts ==
  LET Header(a)  == [a EXCEPT !.func = 0]
      Headers(fs) == {Header(a) : a \in fs}
      Multis(fs) == {m \in SUBSET Headers(fs) :
                       \A a \in fs : a.func # 0 => Header(a) \in m}
      Hbas(fs)   == IF Cardinality(fs) = 1 THEN [fs -> Kinds \union {Unset}]
                    ELSE {h \in [fs -> Kinds] : \A a, b \in fs : a # b => h[a] # h[b]}
  IN UNION {[present : {fs \union Headers(fs)}, hba : Hbas(fs), multi : Multis(fs)] :
              fs \in kSubset(1, Functions) \union kSubset(2, Functions)}

AllMachines == {m \in Layouts : IsMachine(m)}

\* Every state of each part, not every combination.
PortStates == {
  [running |-> FALSE, busy |-> FALSE, commands |-> {},  link |-> "up",        high |-> "zero"],
  [running |-> TRUE,  busy |-> TRUE,  commands |-> {0}, link |-> "up",        high |-> "zero"],
  [running |-> FALSE, busy |-> TRUE,  commands |-> {},  link |-> "training",  high |-> "zero"],
  [running |-> TRUE,  busy |-> FALSE, commands |-> {3}, link |-> "up",        high |-> "firmware"],
  [running |-> TRUE,  busy |-> FALSE, commands |-> {},  link |-> "unpowered", high |-> "zero"]}

PoolPages  == {<<0, 3>>, <<0, 4>>, <<0, 5>>}
Memory      == {[i \in 0..TableEntries - 1 |-> p] : p \in {NoPage, <<0, 1>>}}
StarterPage == <<0, 1>>
IoPage      == <<0, 2>>
=============================================================================
