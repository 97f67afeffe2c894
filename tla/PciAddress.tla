----------------------------- MODULE PciAddress -----------------------------
(***************************************************************************)
(* How a register of a PCI function is addressed: through the two          *)
(* configuration ports (read_config and write_config of X86_64PciArch,     *)
(* src/arch/mod.rs), and through the memory window of a PCI Express        *)
(* segment (PciRoot of src/drivers/pci.rs).                                *)
(*                                                                         *)
(* Shifts and ors of fields that do not overlap are products and sums.     *)
(***************************************************************************)
EXTENDS Integers

\* The bytes of configuration space of a function, and of all functions of a bus.
ConfigSpan == 4096

BusSpan == 1048576

Bdf == [bus : 0 .. 255, device : 0 .. 31, function : 0 .. 7]

\* cam_offset asserts that a function is valid.
valid(bdf) == bdf.device < 32 /\ bdf.function < 8

\* The word of the address port without its enable bit.
port_address(bdf, offset) ==
    bdf.bus * 65536 + bdf.device * 2048 + bdf.function * 256 + (offset \div 4) * 4

\* The offset of a register in the window of the buses from bus_begin on.
cam_offset(begin, bdf, register) ==
    (((bdf.bus - begin) * 32 + bdf.device) * 8 + bdf.function) * 4096 + register

\* The register that the hardware finds behind a word of the address port, and
\* behind an offset in the window of the buses from begin on.
Selected(word) ==
    [bdf |-> [bus |-> word \div 65536, device |-> (word \div 2048) % 32,
              function |-> (word \div 256) % 8],
     register |-> word % 256]

Windowed(begin, offset) ==
    [bdf |-> [bus |-> begin + offset \div BusSpan, device |-> (offset \div 32768) % 32,
              function |-> (offset \div ConfigSpan) % 8],
     register |-> offset % ConfigSpan]
=============================================================================
