------------------------------ MODULE PciScan ------------------------------
(***************************************************************************)
(* The addresses of configuration space and the walk over them: pci_address *)
(* (klib/pci/pci.cc) and PCIState::next_addr (klib/pci/pci.hh). A slot is  *)
(* kept in a u8, which holds eight times the slots of a bus.               *)
(***************************************************************************)
EXTENDS Integers

CONSTANTS MAX_BUSES, MAX_SLOTS, MAX_FUNCS

ASSUME ScanAssumption ==
  MAX_BUSES \in Nat \ {0} /\ MAX_SLOTS \in Nat \ {0} /\ MAX_FUNCS \in Nat \ {0}

SlotValues == 8 * MAX_SLOTS

\* What a bus_slot_addr may hold, and which of those exist.
bus_slot_addr ==
  [bus : 0..MAX_BUSES - 1, slot : 0..SlotValues - 1, func : 0..MAX_FUNCS - 1]
Functions == {a \in bus_slot_addr : a.slot < MAX_SLOTS}

\* The first address, and what stands for no address, after every other.
First == [bus |-> 0, slot |-> 0, func |-> 0]
None  == [bus |-> MAX_BUSES, slot |-> 0, func |-> 0]

\* The bitwise or of two numbers of three bits.
Or(x, y) ==
  LET Bit(n, w) == (n \div w) % 2
      Both(w)   == IF Bit(x, w) + Bit(y, w) > 0 THEN w ELSE 0
  IN Both(1) + Both(2) + Both(4)

\* The function whose registers an access at a reaches: the bits of a slot
\* beyond the last of a bus fall into the bus number.
Target(a) ==
  IF a.slot < MAX_SLOTS THEN a
  ELSE [bus  |-> Or(a.bus, a.slot \div MAX_SLOTS),
        slot |-> a.slot % MAX_SLOTS,
        func |-> a.func]


NextSlot(a) ==
  LET slot == (a.slot + 1) % SlotValues
  IN IF slot >= MAX_SLOTS
       THEN [bus |-> a.bus + 1, slot |-> 0, func |-> a.func]
       ELSE [bus |-> a.bus, slot |-> slot, func |-> a.func]

\* The slot that follows the last function is not compared with MAX_SLOTS.
NextFunction(a) ==
  IF a.func + 1 >= MAX_FUNCS
    THEN [bus |-> a.bus, slot |-> (a.slot + 1) % SlotValues, func |-> 0]
    ELSE [bus |-> a.bus, slot |-> a.slot, func |-> a.func + 1]

\* Mutant: the header's multi-function bit is taken for its complement.
SkipsFunctionsInverted(a, multi) == a.func = 0 /\ multi

\* Functions 1 and up are looked at when function 0 answers and says that
\* its device has them.
SkipsFunctions(a, multi) == a.func = 0 /\ ~multi

\* next_addr(): the loop in it ends after one round, since the word it reads
\* is never 0xFF: an absent function reads as all ones.
NextAddr(a, multi) ==
  LET next == IF SkipsFunctions(a, multi) THEN NextSlot(a) ELSE NextFunction(a)
  IN IF next.bus >= MAX_BUSES THEN None ELSE next

\* The order of the walk.
Before(a, b) ==
  \/ a.bus < b.bus
  \/ a.bus = b.bus /\ a.slot < b.slot
  \/ a.bus = b.bus /\ a.slot = b.slot /\ a.func < b.func
=============================================================================
