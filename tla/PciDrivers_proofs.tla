-------------------------- MODULE PciDrivers_proofs --------------------------
(***************************************************************************)
(* Proofs about PciDrivers, for every machine whose functions are wired    *)
(* the way PCI asks for: sizing leaves every base address register as      *)
(* firmware set it, what bar_init stores is what the hardware has, and     *)
(* the numbers of the drives agree.  What pci_bar_init does is proved in   *)
(* PciBar_proofs; here it runs in nvme::init and beside the clients.       *)
(***************************************************************************)
EXTENDS PciDrivers, WellFoundedInduction, TLAPS

BP == INSTANCE PciBar_proofs

\* What a pci_check_bus looks at next; its last device is followed by none.
Entry == [bus : Search!Bus, device : 0 .. DeviceCount, function : 0 .. FunctionCount - 1]

\* The search stays on functions that a machine of this size can have.
SearchTyped ==
    /\ config \in [Search!Function -> Search!Header]
    /\ roots \in Seq(Search!Bus)
    /\ list \in Seq(Search!Function)
    /\ stack \in Seq(Entry)

\* The functions that have registers are ones of the machine, and those that
\* nvme::init sizes are among them.
Attached ==
    /\ DOMAIN device \subseteq Search!Function
    /\ \A f \in Search!Function :
          config[f].class = "nvme" /\ config[f].kind = "standard" => f \in DOMAIN device

\* Outside pci_bar_init the driver writes the address port for enable_master
\* only, and until the scheduler starts nobody comes in between.
Accesses ==
    /\ "driver" \in selecting /\ stage = "idle" =>
          /\ phase = "size" /\ Bar0.kind = "memory"
          /\ port = BP!port_address(sizing, BP!STATUS_COMMAND_OFFSET)
    /\ phase # "up" => BP!Undisturbed

\* nvme::init looks at NVMe functions only, at one at a time.
Probing ==
    /\ phase \in {"search", "probe", "size", "enable", "up", "panicked"}
    /\ phase = "search" => pci_devices = {}
    /\ \A i \in pci_devices : i \in DOMAIN list /\ config[list[i]].class = "nvme"
    /\ phase \in {"search", "probe", "enable", "panicked"} => stage = "idle"
    /\ phase \in {"size", "enable"} => pci_devices # {} /\ sizing = Current /\ sizing \in DOMAIN device
    /\ phase = "size" => config[sizing].kind = "standard"
    /\ phase = "size" /\ stage = "idle" => result[sizing] \in {"ok", "error"}
    /\ phase = "enable" => command[sizing] = MASTER

\* The drives so far; with usable functions none leaves a gap.
Numbered ==
    /\ nvme_cons \in Seq(DOMAIN device)
    /\ idx \in Nat
    /\ ~divided => \A i \in DOMAIN nvme_cons : command[nvme_cons[i]] = MASTER
    /\ DrivesUsable =>
          /\ idx = Len(nvme_cons)
          /\ DOMAIN nvme_sizes = 0 .. Len(nvme_cons) - 1
          /\ \A hd \in DOMAIN nvme_sizes : nvme_sizes[hd] = nvme_cons[hd + 1]

\* The inductive invariant.
IndInv == SearchTyped /\ Attached /\ BP!SizingInv /\ Accesses /\ Probing /\ Numbered
-----------------------------------------------------------------------------
LEMMA Counts ==
    /\ BusCount \in 1 .. 256 /\ DeviceCount \in 1 .. 32 /\ FunctionCount \in 1 .. 8
    /\ FunctionCount <= BusCount
    /\ Search!Bus = 0 .. BusCount - 1
BY DriversAssumption DEF Search!Bus

\* A step of the search leaves it on functions of the machine.
LEMMA SearchStaysTyped ==
    ASSUME SearchTyped, Search!Next
    PROVE  SearchTyped'
<1> DEFINE top == Search!Top
<1>1. stack # << >> => top \in Entry /\ SubSeq(stack, 1, Len(stack) - 1) \in Seq(Entry)
  BY DEF SearchTyped, Search!Top
<1>2. Search!AtFunction => top \in Entry /\ top \in Search!Function /\ top.device < DeviceCount
  BY <1>1, Counts DEF Search!AtFunction, Entry, Search!Function
<1>3. ASSUME NEW c \in Entry, c.device < DeviceCount
      PROVE  Search!NextDevice(c) \in Entry /\ Search!Following(c) \in Entry /\ Search!PassOver(c) \in Entry
  BY <1>3, Counts DEF Entry, Search!NextDevice, Search!Following, Search!PassOver, Search!At
<1>4. ASSUME NEW c \in Entry, stack # << >>
      PROVE  Search!ReplaceTop(c) \in Seq(Entry)
  <2>1. SubSeq(stack, 1, Len(stack) - 1) \in Seq(Entry) /\ <<c>> \in Seq(Entry)
    BY <1>1, <1>4
  <2> QED
    BY <2>1 DEF Search!ReplaceTop
<1>5. ASSUME NEW b \in Search!Bus
      PROVE  Search!At(b, 0, 0) \in Entry
  BY Counts DEF Entry, Search!At
<1>6. CASE Search!start_bus
  <2>1. Head(roots) \in Search!Bus /\ Tail(roots) \in Seq(Search!Bus)
    BY <1>6 DEF Search!start_bus, SearchTyped
  <2>2. <<Search!At(Head(roots), 0, 0)>> \in Seq(Entry)
    BY <1>5, <2>1
  <2> QED
    BY <1>6, <2>1, <2>2 DEF Search!start_bus, SearchTyped
<1>7. CASE Search!end_bus
  BY <1>1, <1>7 DEF Search!end_bus, SearchTyped
<1>8. CASE Search!pci_check_absent
  <2>1. Search!AtFunction /\ stack # << >>
    BY <1>8 DEF Search!pci_check_absent, Search!AtFunction
  <2>2. Search!ReplaceTop(Search!PassOver(top)) \in Seq(Entry)
    BY <1>2, <1>3, <1>4, <2>1
  <2> QED
    BY <1>8, <2>2 DEF Search!pci_check_absent, SearchTyped
<1>9. CASE Search!pci_check_unrecognised
  BY <1>9 DEF Search!pci_check_unrecognised, SearchTyped
<1>10. CASE Search!pci_check_function
  <2>1. Search!AtFunction /\ stack # << >>
    BY <1>10 DEF Search!pci_check_function, Search!AtFunction
  <2>2. top \in Search!Function /\ Search!ReplaceTop(Search!Following(top)) \in Seq(Entry)
    BY <1>2, <1>3, <1>4, <2>1
  <2>3. config[top].secondary \in Search!Bus
    BY <2>2 DEF SearchTyped, Search!Header
  <2>4. Search!Descend(top) \in Seq(Entry)
    <3> DEFINE s == Search!ReplaceTop(Search!Following(top))
               b == Search!At(config[top].secondary, 0, 0)
    <3>1. s \in Seq(Entry) /\ b \in Entry
      BY <1>5, <2>2, <2>3
    <3>2. Search!Descend(top) = IF config[top].class = "bridge" THEN Append(s, b) ELSE s
      BY DEF Search!Descend
    <3> HIDE DEF s, b
    <3> QED
      BY <3>1, <3>2
  <2>5. Append(list, top) \in Seq(Search!Function)
    BY <2>2 DEF SearchTyped
  <2> HIDE DEF top
  <2>6. stack' = stack \/ stack' = Search!Descend(top)
    BY <1>10 DEF Search!pci_check_function, top
  <2>7. list' = Append(list, top) /\ UNCHANGED <<config, roots>>
    BY <1>10 DEF Search!pci_check_function, top
  <2> QED
    BY <2>4, <2>5, <2>6, <2>7 DEF SearchTyped
<1>11. CASE Search!finish
  BY <1>11 DEF Search!finish, SearchTyped
<1> QED
  BY <1>6, <1>7, <1>8, <1>9, <1>10, <1>11 DEF Search!Next

-----------------------------------------------------------------------------
\* The constants are as PciBar_proofs asks for, and functions have addresses.
LEMMA ConstantsFit == BP!Widths /\ Search!Function \subseteq BP!Bdf
BY DriversAssumption DEF BP!Widths, Search!Function, Search!Bus, BP!Bdf

\* PciBar_proofs is about the same definitions as PciDrivers.
LEMMA SameAccesses ==
    /\ \A c, b, o : Bars!select(c, b, o) <=> BP!select(c, b, o)
    /\ \A c, b, o : Bars!read_config(c, b, o) <=> BP!read_config(c, b, o)
    /\ \A c, b, o, v : Bars!write_config(c, b, o, v) <=> BP!write_config(c, b, o, v)
    /\ Bars!STATUS_COMMAND_OFFSET = BP!STATUS_COMMAND_OFFSET
    /\ Bars!DataRead = BP!DataRead
    /\ Bars!Wanted = BP!Wanted
<1> USE DEF Bars!STATUS_COMMAND_OFFSET, BP!STATUS_COMMAND_OFFSET, Bars!BAR0_OFFSET, BP!BAR0_OFFSET,
            Bars!Index, BP!Index
<1>1. \A b, o : Bars!port_address(b, o) = BP!port_address(b, o)
  BY DEF Bars!port_address, BP!port_address
<1>2. \A w : Bars!Selected(w) = BP!Selected(w)
  BY DEF Bars!Selected, BP!Selected
<1>3. \A r : (Bars!IsBar(r) <=> BP!IsBar(r)) /\ Bars!BarOf(r) = BP!BarOf(r)
  BY DEF Bars!IsBar, BP!IsBar, Bars!BarOf, BP!BarOf
<1>4. \A d, i, v : Bars!Take(d, i, v) = BP!Take(d, i, v)
  BY DEF Bars!Take, BP!Take
<1>5. \A s, v : /\ Bars!RegsWith(s, v) = BP!RegsWith(s, v)
                /\ Bars!CommandWith(s, v) = BP!CommandWith(s, v)
                /\ Bars!Content(s) = BP!Content(s)
  BY <1>3, <1>4, Zenon DEF Bars!RegsWith, BP!RegsWith, Bars!CommandWith, BP!CommandWith, Bars!Content, BP!Content
<1>6. \A c, b, o : Bars!data(c, b, o) <=> BP!data(c, b, o)
  BY <1>1 DEF Bars!data, BP!data
<1>7. \A c, b, o : Bars!select(c, b, o) <=> BP!select(c, b, o)
  BY <1>1 DEF Bars!select, BP!select
<1>8. \A c, b, o : Bars!read_config(c, b, o) <=> BP!read_config(c, b, o)
  BY <1>6 DEF Bars!read_config, BP!read_config
<1>9. \A c, b, o, v : Bars!write_config(c, b, o, v) <=> BP!write_config(c, b, o, v)
  BY <1>2, <1>5, <1>6 DEF Bars!write_config, BP!write_config
<1>10. Bars!DataRead = BP!DataRead /\ Bars!Wanted = BP!Wanted
  BY <1>2, <1>5 DEF Bars!DataRead, BP!DataRead, Bars!Wanted, BP!Wanted, Bars!OffsetOf, BP!OffsetOf
<1> QED
  BY <1>7, <1>8, <1>9, <1>10

LEMMA SameSteps ==
    /\ (Bars!skip <=> BP!skip) /\ (Bars!store <=> BP!store)
    /\ (Bars!address <=> BP!address) /\ (Bars!write_ones <=> BP!write_ones)
    /\ (Bars!read_orig <=> BP!read_orig) /\ (Bars!read_mask <=> BP!read_mask)
    /\ (Bars!restore <=> BP!restore) /\ (Bars!read_top <=> BP!read_top)
    /\ \A f : Bars!bar_init(f) <=> BP!bar_init(f)
<1> USE DEF Bars!At, BP!At, Bars!portVars, BP!portVars, Bars!barVars, BP!barVars
<1>1. (Bars!skip <=> BP!skip) /\ (Bars!store <=> BP!store)
  BY DEF Bars!skip, BP!skip, Bars!store, BP!store
<1>2. (Bars!address <=> BP!address) /\ (Bars!write_ones <=> BP!write_ones)
  BY SameAccesses DEF Bars!address, BP!address, Bars!write_ones, BP!write_ones
<1>3. (Bars!read_orig <=> BP!read_orig) /\ (Bars!read_mask <=> BP!read_mask)
  BY SameAccesses DEF Bars!read_orig, BP!read_orig, Bars!read_mask, BP!read_mask
<1>4. \A t : Bars!Record(t) <=> BP!Record(t)
  BY DEF Bars!Record, BP!Record, Bars!Decoded, BP!Decoded, Bars!PagesOf, BP!PagesOf,
         Bars!SizeOf, BP!SizeOf, Bars!IsIo, BP!IsIo, Bars!TypeOf, BP!TypeOf
<1>5. Bars!restore <=> BP!restore
  BY <1>4, SameAccesses
     DEF Bars!restore, BP!restore, Bars!Restored, BP!Restored, Bars!SizeOf, BP!SizeOf,
         Bars!InvalidBarType, BP!InvalidBarType, Bars!IsWide, BP!IsWide, Bars!IsIo, BP!IsIo,
         Bars!TypeOf, BP!TypeOf
<1>6. Bars!read_top <=> BP!read_top
  BY <1>4, SameAccesses DEF Bars!read_top, BP!read_top, Bars!Ignores, BP!Ignores
<1>7. \A f : Bars!bar_init(f) <=> BP!bar_init(f)
  BY DEF Bars!bar_init, BP!bar_init, Bars!NoBars, BP!NoBars, Bars!Unused, BP!Unused, Bars!Index, BP!Index
<1> QED
  BY <1>1, <1>2, <1>3, <1>5, <1>6, <1>7

LEMMA SameHardware ==
    /\ Bars!Index = BP!Index
    /\ \A d : Bars!Wired(d) <=> BP!Wired(d)
    /\ \A h : Bars!IsMemory(h) <=> BP!IsMemory(h)
    /\ \A f : Bars!Sizable(f) <=> BP!Sizable(f)
    /\ \A d, i : Bars!Illegal(d, i) <=> BP!Illegal(d, i)
    /\ Bars!PortsInit <=> BP!PortsInit
    /\ Bars!BarInit <=> BP!BarInit
<1> USE DEF Bars!Index, BP!Index
<1>1. \A h : (Bars!IsMemory(h) <=> BP!IsMemory(h)) /\ (Bars!Decodes(h) <=> BP!Decodes(h))
  BY DEF Bars!IsMemory, BP!IsMemory, Bars!Decodes, BP!Decodes
<1>2. \A d : Bars!Wired(d) <=> BP!Wired(d)
  BY <1>1 DEF Bars!Wired, BP!Wired
<1>3. \A f : Bars!Sizable(f) <=> BP!Sizable(f)
  BY DEF Bars!Sizable, BP!Sizable
<1>4. \A d, i : Bars!Illegal(d, i) <=> BP!Illegal(d, i)
  BY <1>1 DEF Bars!Illegal, BP!Illegal, Bars!TypeOf, BP!TypeOf
<1>5. Bars!PortsInit <=> BP!PortsInit
  BY DEF Bars!PortsInit, BP!PortsInit, Bars!Assigned, BP!Assigned
<1>6. Bars!BarInit <=> BP!BarInit
  BY DEF Bars!BarInit, BP!BarInit, Bars!NoBars, BP!NoBars, Bars!Unused, BP!Unused
<1> QED
  BY <1>1, <1>2, <1>3, <1>4, <1>5, <1>6

LEMMA SameProperties ==
    /\ RegistersRestored <=> BP!RegistersRestored
    /\ BarsRight <=> BP!BarsRight
BY DEF RegistersRestored, Bars!RegistersRestored, BP!RegistersRestored, Bars!Assigned, BP!Assigned,
       BarsRight, Bars!BarsRight, BP!BarsRight, Bars!BarRight, BP!BarRight, Bars!Sizable, BP!Sizable,
       Bars!Illegal, BP!Illegal, Bars!MemoryBarRight, BP!MemoryBarRight, Bars!IoBarRight, BP!IoBarRight,
       Bars!IsMemory, BP!IsMemory, Bars!TypeOf, BP!TypeOf, Bars!Unused, BP!Unused, Bars!Index, BP!Index

-----------------------------------------------------------------------------
\* What is not the sizing's leaves the sizing's invariant.
LEMMA SizingKept ==
    ASSUME IndInv, UNCHANGED <<device, regs, barVars>>, DOMAIN command' = DOMAIN command,
           "driver" \in selecting' /\ stage # "idle" => "driver" \in selecting,
           divided => divided'
    PROVE  BP!SizingInv'
<1>1. BP!SizingInv /\ DOMAIN command = DOMAIN device
  BY DEF IndInv, BP!SizingInv, BP!Tables
<1> QED
  BY <1>1, BP!OthersQuiet DEF barVars, BP!barVars

LEMMA UndisturbedKept ==
    ASSUME BP!Undisturbed, UNCHANGED <<divided, port, sizing, stage, bar_index>>,
           "driver" \in selecting' => "driver" \in selecting
    PROVE  BP!Undisturbed'
BY DEF BP!Undisturbed, BP!Wanted

LEMMA UsableKept ==
    ASSUME UNCHANGED <<config, device>>
    PROVE  DrivesUsable' <=> DrivesUsable
BY DEF DrivesUsable, Bars!Sizable

\* Before the list of functions is complete nothing else has begun.
LEMMA SearchQuiet ==
    ASSUME IndInv, phase = "search", SearchTyped',
           UNCHANGED <<config, portVars, barVars, probeVars>>
    PROVE  IndInv'
<1> USE DEF portVars, barVars, probeVars
<1>1. BP!SizingInv'
  BY SizingKept
<1>2. Attached'
  BY DEF IndInv, Attached
<1>3. Accesses'
  BY UndisturbedKept DEF IndInv, Accesses
<1>4. Probing'
  BY DEF IndInv, Probing
<1>5. Numbered'
  BY UsableKept DEF IndInv, Numbered
<1> QED
  BY <1>1, <1>2, <1>3, <1>4, <1>5 DEF IndInv

\* What a client does to the ports leaves the rest as it was.
LEMMA ClientQuiet ==
    ASSUME IndInv, phase = "up",
           UNCHANGED <<searchVars, device, regs, command, barVars, probeVars>>,
           "driver" \in selecting' <=> "driver" \in selecting,
           divided => divided'
    PROVE  IndInv'
<1> USE DEF searchVars, barVars, probeVars
<1>1. BP!SizingInv'
  BY SizingKept
<1>2. SearchTyped' /\ Attached'
  BY DEF IndInv, SearchTyped, Attached
<1>3. Accesses'
  BY DEF IndInv, Accesses
<1>4. Probing'
  BY DEF IndInv, Probing
<1>5. Numbered'
  BY UsableKept DEF IndInv, Numbered
<1> QED
  BY <1>1, <1>2, <1>3, <1>4, <1>5 DEF IndInv

\* The invariant holds when the machine is switched on.
LEMMA InitSound ==
    ASSUME Init
    PROVE  IndInv
<1> USE DEF Init
<1>1. PICK s \in Setup : config = s.config /\ device = s.device
  OBVIOUS
<1>2. Attached /\ BP!HardwareWired
  <2>1. Attached
    BY <1>1, DriversAssumption DEF Attached
  <2>2. \A f \in DOMAIN device :
           /\ BP!Wired(device[f])
           /\ \A i \in BP!Index : device[f][i].size >= Page => device[f][i].size % Page = 0
    BY <1>1, DriversAssumption, SameHardware
  <2> QED
    BY <2>1, <2>2, ConstantsFit DEF Attached, BP!HardwareWired
<1>3. SearchTyped
  <2>1. config \in [Search!Function -> Search!Header]
    BY <1>1, DriversAssumption
  <2>2. Search!RootsOf(config[Search!At(0, 0, 0)]) \in Seq(Search!Bus)
    <3>1. [i \in 1 .. FunctionCount |-> i - 1] \in [1 .. FunctionCount -> Search!Bus]
      BY Counts
    <3>2. [i \in 1 .. FunctionCount |-> i - 1] \in Seq(Search!Bus)
      BY <3>1, Counts
    <3>3. <<0>> \in Seq(Search!Bus)
      BY Counts
    <3> QED
      BY <3>2, <3>3 DEF Search!RootsOf
  <2> QED
    BY <2>1, <2>2 DEF SearchTyped, Search!Init
<1>4. BP!SizingInv /\ BP!Undisturbed /\ "driver" \notin selecting
  BY <1>2, SameHardware, ConstantsFit, BP!PowerOn
<1>5. stage = "idle"
  BY DEF Bars!BarInit
<1>6. Accesses /\ Probing /\ Numbered
  BY <1>4, <1>5 DEF Accesses, Probing, Numbered
<1> QED
  BY <1>2, <1>3, <1>4, <1>6 DEF IndInv

\* The position that nvme::init is at, when it has not come to the end.
LEMMA PositionFound ==
    ASSUME IndInv, pci_devices # {}
    PROVE  /\ Position \in pci_devices
           /\ Current \in Search!Function
           /\ config[Current].class = "nvme"
<1>1. pci_devices \in SUBSET Nat
  BY DEF IndInv, Probing, SearchTyped
<1>2. IsWellFoundedOn(OpToRel(<, Nat), Nat)
  BY NatLessThanWellFounded, Zenon
<1>3. PICK m \in pci_devices : \A n \in pci_devices : ~ (<<n, m>> \in OpToRel(<, Nat))
  BY <1>1, <1>2, WFMin, Zenon
<1>4. \A n \in pci_devices : ~ (n < m)
  BY <1>1, <1>3, Zenon DEF OpToRel
<1>5. Position \in pci_devices
  <2>1. \A n \in pci_devices : m <= n
    BY <1>1, <1>4
  <2> QED
    BY <2>1, Zenon DEF Position, Min
<1> QED
  BY <1>5 DEF Current, IndInv, Probing, SearchTyped

-----------------------------------------------------------------------------
\* The actions of nvme::init that leave the ports and the sizing alone.
LEMMA ListTaken ==
    ASSUME IndInv, search_returns
    PROVE  IndInv'
<1> USE DEF search_returns, searchVars, portVars, barVars
<1>1. BP!SizingInv'
  BY SizingKept
<1>2. SearchTyped' /\ Attached'
  BY DEF IndInv, SearchTyped, Attached
<1>3. Accesses'
  BY UndisturbedKept DEF IndInv, Accesses, Probing
<1>4. Probing'
  BY DEF IndInv, Probing
<1>5. Numbered'
  BY UsableKept DEF IndInv, Numbered
<1> QED
  BY <1>1, <1>2, <1>3, <1>4, <1>5 DEF IndInv

\* Passing from one function to the next, or to the end.
LEMMA LoopGoesOn ==
    ASSUME IndInv, stage = "idle", "driver" \notin selecting,
           phase \in {"probe", "size", "enable"},
           phase' \in {"probe", "panicked", "up"}, pci_devices' \subseteq pci_devices,
           UNCHANGED <<searchVars, portVars, barVars>>, Numbered'
    PROVE  IndInv'
<1> USE DEF searchVars, portVars, barVars
<1>1. BP!SizingInv'
  BY SizingKept
<1>2. SearchTyped' /\ Attached'
  BY DEF IndInv, SearchTyped, Attached
<1>3. Accesses'
  BY UndisturbedKept DEF IndInv, Accesses
<1>4. Probing'
  BY DEF IndInv, Probing
<1> QED
  BY <1>1, <1>2, <1>3, <1>4 DEF IndInv

\* A usable function comes out of bar_init with a memory BAR in its first register.
LEMMA UsableHasBar ==
    ASSUME IndInv, DrivesUsable, phase = "size", stage = "idle"
    PROVE  Bar0.kind = "memory"
<1>1. sizing = Current /\ sizing \in DOMAIN device /\ config[sizing].kind = "standard"
      /\ result[sizing] \in {"ok", "error"} /\ ~divided
  BY DEF IndInv, Probing, Accesses, BP!Undisturbed
<1>2. /\ BP!Sizable(sizing) /\ BP!IsMemory(device[sizing][0])
      /\ \A i \in BP!Index : ~BP!Illegal(device[sizing], i)
  BY <1>1, SameHardware DEF DrivesUsable
<1>3. standard_device_bar[sizing][0].kind = "memory"
  BY <1>1, <1>2, ConstantsFit, BP!FirstBarFound DEF IndInv
<1> QED
  BY <1>1, <1>3 DEF Bar0

LEMMA LoopSteps ==
    ASSUME IndInv, probe_bridge \/ probe_no_bar \/ drive_comes_up \/ drive_fails \/ boot_returns
    PROVE  IndInv'
<1> USE DEF searchVars, portVars, barVars
<1>1. CASE probe_bridge \/ drive_fails \/ boot_returns
  <2> USE DEF probe_bridge, drive_fails, boot_returns
  <2>1. Numbered'
    BY <1>1, UsableKept, Zenon DEF IndInv, Numbered
  <2>2. stage = "idle" /\ "driver" \notin selecting
    BY <1>1, Zenon DEF IndInv, Probing, Accesses
  <2> QED
    BY <1>1, <2>1, <2>2, LoopGoesOn
<1>2. CASE probe_no_bar
  <2>1. DrivesUsable' <=> DrivesUsable
    BY <1>2, UsableKept DEF probe_no_bar
  <2>2. ~DrivesUsable
    BY <1>2, UsableHasBar DEF probe_no_bar
  <2>3. Numbered'
    <3>1. idx \in Nat /\ idx' = idx + 1 /\ UNCHANGED <<device, divided, command, nvme_cons>>
      BY <1>2 DEF probe_no_bar, IndInv, Numbered
    <3>2. idx' \in Nat
      BY <3>1
    <3> QED
      BY <2>1, <2>2, <3>1, <3>2 DEF IndInv, Numbered
  <2>4. "driver" \notin selecting
    BY <1>2 DEF probe_no_bar, IndInv, Accesses
  <2> QED
    BY <1>2, <2>3, <2>4, LoopGoesOn DEF probe_no_bar
<1>3. CASE drive_comes_up
  <2> USE DEF drive_comes_up
  <2>1. stage = "idle" /\ "driver" \notin selecting /\ sizing = Current /\ sizing \in DOMAIN device
        /\ command[sizing] = MASTER
    BY <1>3 DEF IndInv, Probing, Accesses
  <2>2. DrivesUsable' <=> DrivesUsable
    BY <1>3, UsableKept
  <2>3. nvme_cons \in Seq(DOMAIN device) /\ idx \in Nat
    BY DEF IndInv, Numbered
  <2>4. nvme_cons' = Append(nvme_cons, sizing) /\ nvme_cons' \in Seq(DOMAIN device)
    BY <1>3, <2>1, <2>3
  <2>5. idx' = idx + 1
    BY <1>3 DEF Added
  <2>6. ~divided' => \A i \in DOMAIN nvme_cons' : command'[nvme_cons'[i]] = MASTER
    BY <1>3, <2>1, <2>3, <2>4 DEF IndInv, Numbered
  <2>7. ASSUME DrivesUsable
        PROVE  /\ idx' = Len(nvme_cons')
               /\ DOMAIN nvme_sizes' = 0 .. Len(nvme_cons') - 1
               /\ \A hd \in DOMAIN nvme_sizes' : nvme_sizes'[hd] = nvme_cons'[hd + 1]
    <3>1. idx = Len(nvme_cons) /\ DOMAIN nvme_sizes = 0 .. Len(nvme_cons) - 1
          /\ \A hd \in DOMAIN nvme_sizes : nvme_sizes[hd] = nvme_cons[hd + 1]
      BY <2>7 DEF IndInv, Numbered
    <3>2. nvme_sizes' = [i \in DOMAIN nvme_sizes \cup {idx} |-> IF i = idx THEN sizing ELSE nvme_sizes[i]]
      BY <1>3, <2>1
    <3>3. Len(nvme_cons') = Len(nvme_cons) + 1
      BY <2>3, <2>4
    <3>4. idx' = Len(nvme_cons') /\ Len(nvme_cons) \in Nat
      BY <2>3, <2>5, <3>1, <3>3
    <3>5. DOMAIN nvme_sizes' = (0 .. Len(nvme_cons) - 1) \cup {Len(nvme_cons)}
      BY <3>1, <3>2, Zenon
    <3>6. DOMAIN nvme_sizes' = 0 .. Len(nvme_cons') - 1
      BY <3>3, <3>4, <3>5
    <3>7. ASSUME NEW hd \in DOMAIN nvme_sizes' PROVE nvme_sizes'[hd] = nvme_cons'[hd + 1]
      <4>1. CASE hd = idx
        BY <2>3, <2>4, <3>1, <3>2, <3>4, <4>1
      <4>2. CASE hd # idx
        <5>1. hd \in 0 .. Len(nvme_cons) - 1 /\ nvme_sizes'[hd] = nvme_sizes[hd]
          BY <3>1, <3>2, <3>5, <4>2, Zenon
        <5>2. nvme_cons'[hd + 1] = nvme_cons[hd + 1]
          BY <2>3, <2>4, <5>1
        <5> QED
          BY <3>1, <5>1, <5>2
      <4> QED
        BY <4>1, <4>2
    <3> QED
      BY <3>4, <3>6, <3>7
  <2>8. nvme_cons' \in Seq(DOMAIN device') /\ idx' \in Nat
    BY <1>3, <2>3, <2>4, <2>5
  <2>9. Numbered'
    BY <2>2, <2>6, <2>7, <2>8, Zenon DEF Numbered, MASTER
  <2> QED
    BY <1>3, <2>1, <2>9, LoopGoesOn
<1> QED
  BY <1>1, <1>2, <1>3

\* bar_init of a function of the machine, for nvme::init or for a client.
LEMMA SizingBeginsSound ==
    ASSUME IndInv, probe_bar_init \/ \E f \in Known : client_bar_init(f)
    PROVE  IndInv'
<1> USE DEF searchVars, portVars, probeVars, Bars!portVars
<1>1. PICK f \in DOMAIN device : Bars!bar_init(f) /\ UNCHANGED <<searchVars, pci_devices, idx, nvme_cons, nvme_sizes>>
        /\ \/ phase = "up" /\ phase' = "up"
           \/ phase = "probe" /\ phase' = "size" /\ pci_devices # {} /\ f = Current
              /\ config[f].kind = "standard"
  <2>1. CASE probe_bar_init
    BY <2>1, PositionFound DEF probe_bar_init, IndInv, Attached
  <2>2. CASE \E f \in Known : client_bar_init(f)
    BY <2>2 DEF client_bar_init, Known
  <2> QED
    BY <2>1, <2>2
<1> USE <1>1
<1>2. stage = "idle" /\ stage' = "read" /\ sizing' = f /\ UNCHANGED portVars
  BY Zenon DEF Bars!bar_init
<1>3. "driver" \notin selecting
  BY <1>2, Zenon DEF IndInv, Accesses
<1>4. BP!SizingInv'
  BY <1>3, ConstantsFit, SameSteps, BP!SizingBegins DEF IndInv
<1>5. SearchTyped' /\ Attached'
  BY <1>2 DEF IndInv, SearchTyped, Attached
<1>6. Accesses'
  BY <1>2, <1>3 DEF IndInv, Accesses, BP!Undisturbed
<1>7. Probing'
  BY <1>2 DEF IndInv, Probing, Current, Position
<1>8. Numbered'
  BY <1>2, UsableKept DEF IndInv, Numbered
<1> QED
  BY <1>4, <1>5, <1>6, <1>7, <1>8 DEF IndInv

\* A step of pci_bar_init, for nvme::init or for a client.
LEMMA SizingStepSound ==
    ASSUME IndInv, Sizing
    PROVE  IndInv'
<1>1. /\ phase \in {"size", "up"} /\ UNCHANGED <<searchVars, probeVars>>
      /\ \/ BP!skip \/ BP!address \/ BP!read_orig \/ BP!write_ones
         \/ BP!read_mask \/ BP!restore \/ BP!read_top \/ BP!store
  BY SameSteps, Zenon DEF Sizing, sizing_step
<1>2. BP!SizingInv' /\ BP!Effect
  BY <1>1, ConstantsFit, BP!SizingSound DEF IndInv
<1>3. stage # "idle"
  BY <1>1, Zenon DEF BP!skip, BP!address, BP!read_orig, BP!write_ones, BP!read_mask, BP!restore,
                     BP!read_top, BP!store, BP!At
<1> USE DEF searchVars, probeVars, BP!Effect
<1>4. SearchTyped' /\ Attached'
  BY <1>1, <1>2 DEF IndInv, SearchTyped, Attached
<1>5. Accesses'
  BY <1>1, <1>2 DEF IndInv, Accesses
<1>6. Probing'
  BY <1>1, <1>2, <1>3 DEF IndInv, Probing, Current, Position
<1>7. Numbered'
  BY <1>1, <1>2, UsableKept DEF IndInv, Numbered
<1> QED
  BY <1>2, <1>4, <1>5, <1>6, <1>7 DEF IndInv

LEMMA SelectCommandSound ==
    ASSUME IndInv, select_command
    PROVE  IndInv'
<1> USE DEF searchVars, barVars, probeVars
<1>1. /\ phase = "size" /\ stage = "idle" /\ Bar0.kind = "memory"
      /\ UNCHANGED <<searchVars, barVars, probeVars>>
      /\ BP!select("driver", Current, BP!STATUS_COMMAND_OFFSET)
  BY SameAccesses DEF select_command
<1>2. /\ UNCHANGED <<device, regs, command, divided>>
      /\ port' = BP!port_address(Current, BP!STATUS_COMMAND_OFFSET)
  BY <1>1 DEF BP!select
<1>3. sizing = Current
  BY <1>1 DEF IndInv, Probing
<1>4. BP!SizingInv'
  BY <1>1, <1>2, SizingKept
<1>5. SearchTyped' /\ Attached'
  BY <1>1, <1>2 DEF IndInv, SearchTyped, Attached
<1>6. Accesses'
  <2>1. Bar0' = Bar0
    BY <1>1 DEF Bar0, Current, Position
  <2> QED
    BY <1>1, <1>2, <1>3, <2>1 DEF IndInv, Accesses, BP!Undisturbed
<1>7. Probing'
  BY <1>1, <1>2 DEF IndInv, Probing, Current, Position
<1>8. Numbered'
  BY <1>1, <1>2, UsableKept DEF IndInv, Numbered
<1> QED
  BY <1>4, <1>5, <1>6, <1>7, <1>8 DEF IndInv

\* enable_master writes the command register of the function, and no BAR.
LEMMA EnableMasterSound ==
    ASSUME IndInv, enable_master
    PROVE  IndInv'
<1> USE DEF searchVars, barVars
<1>1. /\ phase = "size" /\ phase' = "enable" /\ stage = "idle"
      /\ UNCHANGED <<searchVars, barVars, pci_devices, idx, nvme_cons, nvme_sizes>>
      /\ BP!write_config("driver", Current, BP!STATUS_COMMAND_OFFSET, MASTER)
  BY SameAccesses DEF enable_master
<1>2. sizing = Current /\ sizing \in DOMAIN device /\ pci_devices # {} /\ ~divided
  BY <1>1 DEF IndInv, Probing, Accesses, BP!Undisturbed
<1>3. "driver" \in selecting /\ port = BP!port_address(sizing, BP!STATUS_COMMAND_OFFSET)
  BY <1>1 DEF BP!write_config, BP!data, IndInv, Accesses
<1>4. /\ UNCHANGED <<device, regs>> /\ ~divided' /\ "driver" \notin selecting'
      /\ command' = [command EXCEPT ![sizing] = MASTER]
  BY <1>1, <1>2, <1>3, ConstantsFit, BP!CommandWritten DEF IndInv
<1>5. command'[sizing] = MASTER /\ \A f \in DOMAIN device : f # sizing => command'[f] = command[f]
  BY <1>2, <1>4 DEF IndInv, BP!SizingInv, BP!Tables
<1>6. BP!SizingInv'
  BY <1>1, <1>2, <1>4, SizingKept
<1>7. SearchTyped' /\ Attached'
  BY <1>1, <1>4 DEF IndInv, SearchTyped, Attached
<1>8. Accesses'
  BY <1>1, <1>4 DEF Accesses, BP!Undisturbed
<1>9. Probing'
  BY <1>1, <1>2, <1>4, <1>5, Zenon DEF IndInv, Probing, Current, Position
<1>10. Numbered'
  <2>1. DrivesUsable' <=> DrivesUsable
    BY <1>1, <1>4, UsableKept
  <2>2. \A i \in DOMAIN nvme_cons : command'[nvme_cons[i]] = MASTER
    BY <1>2, <1>5 DEF IndInv, Numbered
  <2> QED
    BY <1>1, <1>4, <2>1, <2>2 DEF IndInv, Numbered
<1> QED
  BY <1>6, <1>7, <1>8, <1>9, <1>10 DEF IndInv

-----------------------------------------------------------------------------
LEMMA SearchingSound ==
    ASSUME IndInv, phase = "search", Search!Next, UNCHANGED <<portVars, barVars, probeVars>>
    PROVE  IndInv'
<1>1. SearchTyped'
  BY SearchStaysTyped DEF IndInv
<1>2. config' = config
  BY DEF Search!Next, Search!start_bus, Search!end_bus, Search!pci_check_absent,
         Search!pci_check_unrecognised, Search!pci_check_function, Search!finish
<1> QED
  BY <1>1, <1>2, SearchQuiet

LEMMA WalkingSound ==
    ASSUME IndInv, phase = "up", UNCHANGED <<searchVars, barVars, probeVars>>,
           \/ UNCHANGED portVars
           \/ \E b, o : Walks!select("client", b, o)
           \/ \E b, o : Walks!read_config("client", b, o)
    PROVE  IndInv'
<1>1. /\ UNCHANGED <<device, regs, command>>
      /\ "driver" \in selecting' <=> "driver" \in selecting
      /\ divided => divided'
  <2>1. CASE UNCHANGED portVars
    BY <2>1 DEF portVars
  <2>2. ASSUME NEW b, NEW o, Walks!select("client", b, o)
        PROVE  /\ UNCHANGED <<device, regs, command, divided>>
               /\ "driver" \in selecting' <=> "driver" \in selecting
    BY <2>2 DEF Walks!select
  <2>3. ASSUME NEW b, NEW o, Walks!read_config("client", b, o)
        PROVE  /\ UNCHANGED <<device, regs, command>>
               /\ "driver" \in selecting' <=> "driver" \in selecting
               /\ divided => divided'
    BY <2>3, Zenon DEF Walks!read_config, Walks!data
  <2> QED
    BY <2>1, <2>2, <2>3
<1> QED
  BY <1>1, ClientQuiet

LEMMA StutterSound ==
    ASSUME IndInv, UNCHANGED vars
    PROVE  IndInv'
<1> USE DEF vars, searchVars, portVars, barVars, probeVars
<1>1. BP!SizingInv'
  BY SizingKept
<1>2. SearchTyped' /\ Attached'
  BY DEF IndInv, SearchTyped, Attached
<1>3. Accesses'
  BY UndisturbedKept DEF IndInv, Accesses, Bar0, Current, Position
<1>4. Probing'
  BY DEF IndInv, Probing, Current, Position
<1>5. Numbered'
  BY UsableKept, Zenon DEF IndInv, Numbered
<1> QED
  BY <1>1, <1>2, <1>3, <1>4, <1>5 DEF IndInv

\* Every step keeps the invariant.
LEMMA NextSound ==
    ASSUME IndInv, [Next]_vars
    PROVE  IndInv'
<1>1. CASE Boot
  <2>1. CASE \/ searching(Search!start_bus) \/ searching(Search!end_bus)
             \/ searching(Search!pci_check_absent) \/ searching(Search!pci_check_unrecognised)
             \/ searching(Search!pci_check_function) \/ searching(Search!finish)
    BY <2>1, SearchingSound DEF searching, Search!Next
  <2>2. CASE search_returns
    BY <2>2, ListTaken
  <2>3. CASE probe_bridge \/ probe_no_bar \/ drive_comes_up \/ drive_fails \/ boot_returns
    BY <2>3, LoopSteps
  <2>4. CASE probe_bar_init
    BY <2>4, SizingBeginsSound
  <2>5. CASE select_command
    BY <2>5, SelectCommandSound
  <2>6. CASE enable_master
    BY <2>6, EnableMasterSound
  <2> QED
    BY <1>1, <2>1, <2>2, <2>3, <2>4, <2>5, <2>6, Zenon DEF Boot
<1>2. CASE Sizing
  BY <1>2, SizingStepSound
<1>3. CASE Clients
  <2>1. CASE \E f \in Known : client_bar_init(f)
    BY <2>1, SizingBeginsSound
  <2>2. CASE \/ \E f \in WithCapabilities : \E p \in Pointer : walking(Walks!capabilities(f, p))
             \/ \E f \in WithCapabilities : walking(Walks!external_capabilities(f))
             \/ walking(Walks!next_external_capability)
    <3>1. phase = "up" /\ UNCHANGED <<searchVars, barVars, probeVars, portVars>>
      BY <2>2, Zenon DEF walking, Walks!capabilities, Walks!external_capabilities, Walks!begin_walk,
                  Walks!next_external_capability, Walks!portVars, portVars
    <3> QED
      BY <3>1, WalkingSound
  <2>3. CASE walking(Walks!select_capability)
    BY <2>3, WalkingSound DEF walking, Walks!select_capability
  <2>4. CASE walking(Walks!next_capability)
    BY <2>4, WalkingSound DEF walking, Walks!next_capability
  <2> QED
    BY <1>3, <2>1, <2>2, <2>3, <2>4, Zenon DEF Clients
<1>4. CASE UNCHANGED vars
  BY <1>4, StutterSound
<1> QED
  BY <1>1, <1>2, <1>3, <1>4 DEF Next

\* The inductive invariant of boot and sizing: what pci_bar_init has written,
\* read and recorded so far matches the hardware, and what nvme::init has
\* counted matches the drives it has added.
THEOREM DriversSound == Spec => []IndInv
<1>1. Init => IndInv
  BY InitSound
<1>2. IndInv /\ [Next]_vars => IndInv'
  BY NextSound
<1> QED
  BY <1>1, <1>2, PTL DEF Spec

\* pci_bar_init leaves every base address register of every function as
\* firmware set it, between two registers and when it returns, with or without
\* an error, as long as no access was divided.
THEOREM BarsLeftAlone == Spec => []RegistersRestored
<1>1. IndInv => RegistersRestored
  BY BP!RegistersLeft, SameProperties DEF IndInv
<1> QED
  BY <1>1, DriversSound, PTL

\* bar_init stores the kind, the address, the size and the flags of every base
\* address register as the hardware has them and maps the pages of memory BARs,
\* takes no upper half for a BAR, and fails only for a BAR of an illegal type.
THEOREM BarsFound == Spec => []BarsRight
<1>1. IndInv => BarsRight
  BY BP!BarsStored, SameProperties DEF IndInv
<1> QED
  BY <1>1, DriversSound, PTL

\* With usable NVMe functions, the number of a drive leads read_block and
\* get_hd_size to the same drive, and every drive was made bus master.
THEOREM DriveNumbersAgree == Spec => []DrivesNumbered
<1>1. IndInv => DrivesNumbered
  BY DEF IndInv, Numbered, DrivesNumbered
<1> QED
  BY <1>1, DriversSound, PTL
=============================================================================
