-------------------------------- MODULE MCVMM --------------------------------
(* Instances of VMM: tables of 16 entries, and the machine QEMU emulates. *)
EXTENDS VMM

Page == MIN_BLOCK_SIZE

Region(first, pages, available) == [addr |-> first * Page, len |-> pages * Page, available |-> available]

(* From too little memory for the first table to more than the window has. *)
ScaledSizes == {4 * n : n \in {0, 3, 7, 9, 14, 24, 40}}

(* No map, a reserved low frame and one in the middle, two reserved        *)
(* regions, one that covers nearly the whole window, one that covers it.   *)
ScaledMaps ==
  { <<>>,
    <<Region(0, 1, FALSE), Region(1, 8, TRUE), Region(5, 1, FALSE)>>,
    <<Region(1, 7, FALSE), Region(12, 3, FALSE)>>,
    <<Region(3, 13, FALSE)>>,
    <<Region(1, 7, FALSE), Region(12, 3, FALSE), Region(19, 13, FALSE)>>,
    <<Region(0, 16, FALSE)>> }

ScaledMachines == [mem_upper : ScaledSizes, map : ScaledMaps]

(* Tables of 16 entries: the framebuffer ends in the heap's table, at its  *)
(* end, in the next one, or in the one after that.                         *)
ScaledFramebuffers == {0, 6, 12, 14, 30}

ScaledStale == {NotPresent, 8, 9}

(* The memory map QEMU reports for 8 MB, to the page. *)
QemuMap ==
  << [addr |-> 0, len |-> 654336, available |-> TRUE],
     [addr |-> 654336, len |-> 1024, available |-> FALSE],
     [addr |-> 983040, len |-> 65536, available |-> FALSE],
     [addr |-> 1048576, len |-> 7208960, available |-> TRUE],
     [addr |-> 8257536, len |-> 131072, available |-> FALSE] >>

QemuMachines == {[mem_upper |-> 7040, map |-> QemuMap]}

OnePage     == {1}
NoEntries   == {NotPresent}
OneMegabyte == {256}

(* What linker.ld says: the kernel starts at 3 GB + 1 MB, loaded at 1 MB.  *)
(* So the frames from there on are not free memory, and the allocator does *)
(* not hand out the first of them.                                         *)
KernelImageKept == 256 \notin held
=============================================================================
