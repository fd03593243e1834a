-------------------------------- MODULE MCPMM --------------------------------
EXTENDS PMM, TLC

Page(n) == n * MIN_BLOCK_SIZE

Reserved(addr, len) == [addr |-> addr, len |-> len, available |-> FALSE]
Usable(addr, len)   == [addr |-> addr, len |-> len, available |-> TRUE]

(* The shape of a PC's memory map, scaled: usable memory, a reserved       *)
(* region that ends but does not start on a page boundary (0x9FC00 to      *)
(* 0xA0000), one that starts but does not end on one, and one at the top.  *)
ScaledMaps ==
  { <<>>,
    <<Usable(0, Page(4) + 3072), Reserved(Page(4) + 3072, 1024),
      Reserved(Page(9), Page(2) + 1), Usable(Page(12), Page(20))>>,
    <<Reserved(Page(26), Page(6)), Reserved(Page(3), 0), Reserved(Page(17) + 4000, 200)>> }

(* In pages of 4 KB: 21 and a part of one, no multiple of 8 blocks at any  *)
(* level; and 24, a whole number of the largest blocks.                    *)
ScaledSizes == {4 * 21 + 2, 4 * 24}

(* 132 pages, where a row has 128 bits, of which all but 4 low ones and    *)
(* the last are reserved: the bits of the last pages are those of the low  *)
(* blocks of two.                                                          *)
WideMachine == [mem_upper |-> 4 * 132, map |-> <<Reserved(Page(4), Page(118))>>]

ScaledMachines == [mem_upper : ScaledSizes, map : ScaledMaps] \cup {WideMachine}

PlainMachine == [mem_upper |-> 4 * 24, map |-> <<>>]

(* A region far above memory, as the firmware's at the top of the 32-bit   *)
(* address space.                                                          *)
FirmwareMachine == [PlainMachine EXCEPT !.map = <<Usable(0, Page(24)), Reserved(Page(1000), Page(4))>>]

PlainMachines    == {PlainMachine}
FirmwareMachines == {FirmwareMachine}
=============================================================================
