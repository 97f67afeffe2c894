------------------------------- MODULE PciBar -------------------------------
(***************************************************************************)
(* Sizing and decoding the base address registers of a PCI function        *)
(* (pci_bar_init and bar_init, src/drivers/pci.rs).  Each use of a port is *)
(* a step.  The list of functions is locked by the caller, so one function *)
(* is sized at a time.                                                     *)
(***************************************************************************)
EXTENDS PciPorts

CONSTANTS
    Page        \* 4096

VARIABLES
    sizing,     \* the function that is sized
    bar_index,
    bar_index_ignore,
    stage,      \* the access that comes next, or "idle"
    bar_orig,
    size_mask,
    device_bar, \* the BarInfo of each register so far
    mapped,     \* the pages given to the kernel page table
    standard_device_bar,    \* per function, what bar_init has stored
    result      \* per function, how its last bar_init ended

barVars == <<sizing, bar_index, bar_index_ignore, stage, bar_orig, size_mask,
             device_bar, mapped, standard_device_bar, result>>

Unused == [kind |-> "unused", size |-> 0, address |-> 0, type |-> 0, prefetchable |-> FALSE]

NoBars == [i \in Index |-> Unused]

BarInit ==
    /\ sizing = [bus |-> 0, device |-> 0, function |-> 0]
    /\ bar_index = 0 /\ bar_index_ignore = -1 /\ stage = "idle"
    /\ bar_orig = 0 /\ size_mask = 0
    /\ device_bar = NoBars
    /\ mapped = {}
    /\ standard_device_bar = [f \in DOMAIN device |-> NoBars]
    /\ result = [f \in DOMAIN device |-> "none"]

\* bar_init of a standard device calls pci_bar_init.
bar_init(f) ==
    /\ stage = "idle"
    /\ sizing' = f
    /\ bar_index' = 0 /\ bar_index_ignore' = -1 /\ stage' = "read"
    /\ bar_orig' = 0 /\ size_mask' = 0
    /\ device_bar' = NoBars
    /\ UNCHANGED <<mapped, standard_device_bar, result>>
    /\ UNCHANGED portVars
-----------------------------------------------------------------------------
At(s) == stage = s /\ bar_index < BarCount

OffsetOf(i) == BAR0_OFFSET + 4 * i

\* The upper half of a 64-bit BAR is passed over.
skip ==
    /\ At("read") /\ bar_index = bar_index_ignore
    /\ bar_index' = bar_index + 1
    /\ UNCHANGED <<sizing, bar_index_ignore, stage, bar_orig, size_mask, device_bar, mapped,
                   standard_device_bar, result>>
    /\ UNCHANGED portVars

\* The register that the next access is to.
Wanted == OffsetOf(IF stage = "top" THEN bar_index + 1 ELSE bar_index)

address ==
    /\ stage # "idle" /\ bar_index < BarCount /\ bar_index # bar_index_ignore
    /\ select("driver", sizing, Wanted)
    /\ UNCHANGED barVars

read_orig ==
    /\ At("read") /\ read_config("driver", sizing, Wanted)
    /\ bar_orig' = DataRead
    /\ stage' = "ones"
    /\ UNCHANGED <<sizing, bar_index, bar_index_ignore, size_mask, device_bar, mapped,
                   standard_device_bar, result>>

write_ones ==
    /\ At("ones") /\ write_config("driver", sizing, Wanted, Modulus - 1)
    /\ stage' = "mask"
    /\ UNCHANGED <<sizing, bar_index, bar_index_ignore, bar_orig, size_mask, device_bar, mapped,
                   standard_device_bar, result>>

read_mask ==
    /\ At("mask") /\ read_config("driver", sizing, Wanted)
    /\ size_mask' = DataRead
    /\ stage' = "restore"
    /\ UNCHANGED <<sizing, bar_index, bar_index_ignore, bar_orig, device_bar, mapped,
                   standard_device_bar, result>>
-----------------------------------------------------------------------------
\* The size: the complement of the mask without its low four bits, plus one.
SizeOf(mask) == (Modulus - (mask \div 16) * 16) % Modulus

IsIo(orig) == orig % 2 = 1

TypeOf(orig) == (orig % 8) \div 2

IsWide(orig) == ~IsIo(orig) /\ TypeOf(orig) = 2

\* A memory BAR that cannot be: an unknown type, or a 64-bit BAR in the last register.
InvalidBarType(orig) ==
    /\ ~IsIo(orig)
    /\ TypeOf(orig) = 3 \/ (TypeOf(orig) = 2 /\ bar_index >= BarCount - 1)

\* What a register says, with the upper half of the address of a 64-bit BAR.
Decoded(orig, size, top) ==
    IF IsIo(orig)
    THEN [kind |-> "io", size |-> size, address |-> (orig \div 4) * 4, type |-> 0, prefetchable |-> FALSE]
    ELSE [kind |-> "memory", size |-> size, address |-> (orig \div 16) * 16 + top * Modulus,
          type |-> TypeOf(orig), prefetchable |-> (orig \div 8) % 2 = 1]

\* The pages of the BAR go to the kernel page table.
PagesOf(bar) == {bar.address \div Page + i : i \in 0 .. (bar.size \div Page) - 1}

\* The BAR is recorded and mapped, and the next register is due.
Record(top) ==
    LET bar == Decoded(bar_orig, SizeOf(size_mask), top)
    IN  /\ device_bar' = [device_bar EXCEPT ![bar_index] = bar]
        /\ mapped' = IF IsIo(bar_orig) THEN mapped ELSE mapped \cup PagesOf(bar)
        /\ bar_index' = bar_index + 1
        /\ stage' = "read"

\* The value that goes back into the register.
RestoredMask == size_mask

Restored == bar_orig

restore ==
    /\ At("restore") /\ write_config("driver", sizing, Wanted, Restored)
    /\ \/ /\ SizeOf(size_mask) = 0
          /\ bar_index' = bar_index + 1
          /\ stage' = "read"
          /\ UNCHANGED <<device_bar, mapped, result>>
       \/ /\ SizeOf(size_mask) # 0 /\ InvalidBarType(bar_orig)
          /\ result' = [result EXCEPT ![sizing] = "error"]
          /\ stage' = "idle"
          /\ UNCHANGED <<bar_index, device_bar, mapped>>
       \/ /\ SizeOf(size_mask) # 0 /\ ~InvalidBarType(bar_orig) /\ IsWide(bar_orig)
          /\ stage' = "top"
          /\ UNCHANGED <<bar_index, device_bar, mapped, result>>
       \/ /\ SizeOf(size_mask) # 0 /\ ~InvalidBarType(bar_orig) /\ ~IsWide(bar_orig)
          /\ Record(0)
          /\ UNCHANGED result
    /\ UNCHANGED <<sizing, bar_index_ignore, bar_orig, size_mask, standard_device_bar>>

IgnoresNot == bar_index_ignore

Ignores == bar_index + 1

read_top ==
    /\ At("top") /\ read_config("driver", sizing, Wanted)
    /\ Record(DataRead)
    /\ bar_index_ignore' = Ignores
    /\ UNCHANGED <<sizing, bar_orig, size_mask, standard_device_bar, result>>

\* bar_init stores what pci_bar_init returns.
store ==
    /\ stage = "read" /\ bar_index = BarCount
    /\ standard_device_bar' = [standard_device_bar EXCEPT ![sizing] = device_bar]
    /\ result' = [result EXCEPT ![sizing] = "ok"]
    /\ stage' = "idle"
    /\ UNCHANGED <<sizing, bar_index, bar_index_ignore, bar_orig, size_mask, device_bar, mapped>>
    /\ UNCHANGED portVars
-----------------------------------------------------------------------------
\* Between two registers, and when bar_init returns with a result or with an
\* error, every register of every function holds what firmware put there, as
\* long as no other CPU came between address and data of an access.
RegistersRestored ==
    ~divided /\ stage \in {"idle", "read"} =>
        \A f \in DOMAIN device : \A i \in Index : regs[f][i] = Assigned(device[f], i)

\* Every BAR is below 2^32 bytes.  The low register of a longer one reads back
\* without address bits: it is taken for unused, and its upper half for a BAR.
Sizable(f) == \A i \in Index : device[f][i].size < Modulus

\* A memory BAR is found with its address over both halves, its size and its
\* flags, and if it is not shorter than a page, every byte of it has one.
MemoryBarRight(hw, bar) ==
    /\ bar = [kind |-> "memory", size |-> hw.size, address |-> hw.base,
              type |-> TypeOf(hw.flags), prefetchable |-> hw.flags \div 8 = 1]
    /\ hw.size >= Page => \A b \in 0 .. hw.size - 1 : (hw.base + b) \div Page \in mapped

\* An I/O BAR is found with its address and, from 16 bytes on, its size: the code
\* masks off four flag bits where an I/O BAR has two.
IoBarRight(hw, bar) ==
    /\ bar.kind = "io" /\ bar.address = hw.base
    /\ bar.size = IF hw.size < 16 THEN 16 ELSE hw.size

\* A memory BAR of an illegal type.
Illegal(d, i) ==
    IsMemory(d[i]) /\ (TypeOf(d[i].flags) = 3 \/ (d[i].kind = "memory64" /\ i = BarCount - 1))

BarRight(hw, bar) ==
    /\ IsMemory(hw) => MemoryBarRight(hw, bar)
    /\ hw.kind = "io" => IoBarRight(hw, bar)
    /\ hw.kind \in {"none", "upper"} => bar = Unused

\* bar_init finds what is there: every BAR is recorded, no absent register and no
\* upper half is taken for one (the next register is skipped because a 64-bit
\* memory BAR covers two), and an error is for a BAR of an illegal type; as long
\* as no other CPU came between address and data of an access.
BarsRight ==
    ~divided => \A f \in {g \in DOMAIN device : Sizable(g)} :
        /\ result[f] = "ok" => \A i \in Index : BarRight(device[f][i], standard_device_bar[f][i])
        /\ result[f] = "error" => \E i \in Index : Illegal(device[f], i)
=============================================================================
