------------------------------ MODULE MCSetup -------------------------------
(***************************************************************************)
(* An instance of Setup: a machine with two reserved areas, one at 5 GiB   *)
(* and one that begins 8 KiB above 6 GiB, with RAM around both; parameters *)
(* that vary one thing at a time; and what a kernel writes to a device it  *)
(* has set up: switches, restored words, power states, errors, nonsense.   *)
(***************************************************************************)
EXTENDS Setup

GiB5 == {30, 32}
GiB6 == {31, 32}
Pages5 == 1310720
Pages6 == 1572864

MCRegions ==
  {[sta |-> Pages5, end |-> Pages5 + 260, type |-> "reserved"],
   [sta |-> Pages6 + 2, end |-> Pages6 + 262, type |-> "reserved"],
   [sta |-> Pages5 - 256, end |-> Pages5, type |-> "ram"],
   [sta |-> Pages5 + 260, end |-> Pages6 + 2, type |-> "ram"],
   [sta |-> Pages6 + 262, end |-> Pages6 + 512, type |-> "ram"]}

P(start, size, others, minors) ==
  [memmap_start |-> start, memmap_size |-> size, others |-> others,
   minors |-> minors]

MCParams ==
  {P(GiB5, 260, TRUE, n) : n \in {0, 32, 33, 35}}
  \cup {P(GiB5, n, TRUE, 3) : n \in {256, 257, 259, 261}}
  \cup {P(GiB6 \cup {13}, 259, TRUE, 3), P(GiB6, 260, TRUE, 3),
        P({31, 30}, 260, TRUE, 3), P({}, 260, TRUE, 3),
        P(GiB5, 260, FALSE, 3)}

W(where, size, val) == [where |-> where, size |-> size, val |-> val]

MCWrites ==
  {W(PCI_COMMAND, 2, {1}), W(PCI_COMMAND, 2, {1, 10}),
   W(PCI_COMMAND, 4, {1, 20}), W(PCI_COMMAND, 4, {1, 10, 20}),
   W(PCI_STATUS, 2, {9, 12, 13, 14, 15}), W(PCI_STATUS, 1, {}),
   W(PCI_BASE_ADDRESS_0, 1, {}), W(PCI_INTERRUPT_LINE, 1, {0, 1, 3}),
   W(82, 2, 0 .. 6), W(82, 2, 0 .. 6 \cup {15}), W(80, 4, Word),
   W(68, 2, {0, 1, 8}), W(104, 2, {15})}

\* What the theorems on the BAR and on the capabilities ask of the writes.
ASSUME MCSpared == BarSpared /\ HeadsSpared
=============================================================================
