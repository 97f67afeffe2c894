------------------------------ MODULE PciPorts ------------------------------
(***************************************************************************)
(* The configuration registers of the PCI functions of a machine, and the  *)
(* two ports over which read_config and write_config of X86_64PciArch      *)
(* (src/arch/mod.rs) reach them: the address port is written, then the     *)
(* data port is read or written.  Nothing keeps another CPU from writing   *)
(* the address port in between; divided remembers that one did.            *)
(*                                                                         *)
(* The registers are narrower here than the 32 bits they have; the low     *)
(* four bits of a base address register keep their meaning.                *)
(***************************************************************************)
EXTENDS PciAddress

CONSTANTS
    BarCount,   \* base address registers of a function (6)
    Modulus     \* 2^32

VARIABLES
    device,     \* per function, the hardware behind each base address register
    caps,       \* per function, where each of its capabilities points
    regs,       \* what the base address registers hold
    command,    \* what the command registers hold
    port,       \* the word on the address port
    selecting,  \* the CPUs that have written it and not yet used the data port
    divided     \* some access used the data port after another CPU's address

portVars == <<device, caps, regs, command, port, selecting, divided>>

Index == 0 .. BarCount - 1

BAR0_OFFSET == 16

STATUS_COMMAND_OFFSET == 4

IsBar(r) == \E i \in Index : r = BAR0_OFFSET + 4 * i

BarOf(r) == (r - BAR0_OFFSET) \div 4

\* What hardware is behind a register: nothing, an I/O or a memory BAR of some
\* size and base, or the upper half of the 64-bit BAR before it.
NoBar == [kind |-> "none", size |-> 0, base |-> 0, flags |-> 0]

IsMemory(hw) == hw.kind \in {"memory", "memory64"}

\* What PCI asks of a BAR: its size is a power of two, of which only this is
\* used, that it divides 2^32 or is a multiple of it, and the base is a
\* multiple of the size; the flags say what it is, below the address bits.
Decodes(hw) ==
    /\ hw.size > 0 /\ hw.base % hw.size = 0
    /\ IF hw.size < Modulus THEN Modulus % hw.size = 0
       ELSE hw.size % Modulus = 0 /\ hw.kind = "memory64"
    /\ hw.kind # "memory64" => hw.base < Modulus
    /\ hw.kind = "io" => hw.flags = 1 /\ hw.size % (IF hw.size < 16 THEN 4 ELSE 16) = 0
    /\ IsMemory(hw) => /\ hw.flags % 2 = 0 /\ hw.size % 16 = 0
                       /\ (hw.kind = "memory64") <=> ((hw.flags % 8) \div 2 = 2)

\* A register is an upper half behind a 64-bit BAR and nowhere else; a 64-bit BAR
\* may, against the rules, sit in the last register.
Wired(d) ==
    /\ d \in [Index -> [kind : {"none", "io", "memory", "memory64", "upper"},
                       size : Nat, base : Nat, flags : 0 .. 15]]
    /\ \A i \in Index :
          /\ (d[i].kind = "upper") <=> (i > 0 /\ d[i - 1].kind = "memory64")
          /\ IF d[i].kind \in {"none", "upper"} THEN d[i].size = 0 ELSE Decodes(d[i])

\* What firmware left in a register.  Base and size of a 64-bit BAR count over
\* both halves.
Assigned(d, i) ==
    CASE d[i].kind = "none" -> 0
      [] d[i].kind = "upper" -> d[i - 1].base \div Modulus
      [] OTHER -> (d[i].base % Modulus) + d[i].flags

\* A write changes the address bits above the size of the BAR.
Take(d, i, value) ==
    CASE d[i].kind = "none" -> 0
      [] d[i].kind = "upper" ->
            IF d[i - 1].size <= Modulus THEN value
            ELSE (value \div (d[i - 1].size \div Modulus)) * (d[i - 1].size \div Modulus)
      [] d[i].size >= Modulus -> d[i].flags
      [] OTHER -> (value \div d[i].size) * d[i].size + d[i].flags

PortsInit ==
    /\ regs = [f \in DOMAIN device |-> [i \in Index |-> Assigned(device[f], i)]]
    /\ command = [f \in DOMAIN device |-> 0]
    /\ port = 0
    /\ selecting = {}
    /\ divided = FALSE
-----------------------------------------------------------------------------
\* What a register reads as.  Of a capability's header only the pointer to the
\* next one is kept; the other registers read as nought here.
Content(s) ==
    IF s.bdf \notin DOMAIN device THEN Modulus - 1
    ELSE IF IsBar(s.register) THEN regs[s.bdf][BarOf(s.register)]
    ELSE IF s.register \in DOMAIN caps[s.bdf] THEN caps[s.bdf][s.register]
    ELSE IF s.register = STATUS_COMMAND_OFFSET THEN command[s.bdf]
    ELSE 0

\* The registers after a write; those of a capability's header are read-only.
RegsWith(s, value) ==
    IF s.bdf \in DOMAIN device /\ IsBar(s.register)
    THEN [regs EXCEPT ![s.bdf][BarOf(s.register)] = Take(device[s.bdf], BarOf(s.register), value)]
    ELSE regs

CommandWith(s, value) ==
    IF s.bdf \in DOMAIN device /\ s.register = STATUS_COMMAND_OFFSET
    THEN [command EXCEPT ![s.bdf] = value]
    ELSE command

\* The first half of read_config and of write_config.
select(cpu, bdf, offset) ==
    /\ cpu \notin selecting
    /\ port' = port_address(bdf, offset)
    /\ selecting' = selecting \cup {cpu}
    /\ UNCHANGED <<device, caps, regs, command, divided>>

\* The second half meets whatever the address port holds by then.
data(cpu, bdf, offset) ==
    /\ cpu \in selecting
    /\ selecting' = selecting \ {cpu}
    /\ divided' = (divided \/ port # port_address(bdf, offset))
    /\ UNCHANGED <<device, caps, port>>

read_config(cpu, bdf, offset) ==
    /\ data(cpu, bdf, offset)
    /\ UNCHANGED <<regs, command>>

DataRead == Content(Selected(port))

write_config(cpu, bdf, offset, value) ==
    /\ data(cpu, bdf, offset)
    /\ regs' = RegsWith(Selected(port), value)
    /\ command' = CommandWith(Selected(port), value)
=============================================================================
