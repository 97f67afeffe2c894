----------------------------- MODULE PciDrivers -----------------------------
(***************************************************************************)
(* PCI from boot on: the search for functions (PciEnumeration), then       *)
(* nvme::init (src/drivers/nvme/mod.rs), which sizes the base address      *)
(* registers of each NVMe function found (PciBar), enables it and brings   *)
(* up its drive, and then the clients of the framework, one of which may   *)
(* size a function while another walks capabilities (PciCapabilities).     *)
(* Until start_schedule only the boot processor runs this code.            *)
(***************************************************************************)
EXTENDS Integers, Sequences, FiniteSetsExt

CONSTANTS
    BusCount, DeviceCount, FunctionCount,
    BarCount, Modulus, Page,
    RootBegin, MaxFound,
    Setup,          \* machines, with their base address registers and capabilities
    Pointer         \* where the headers say that the capabilities begin

VARIABLES
    config, stack, roots, list, outcome,
    device, caps, regs, command, port, selecting, divided,
    sizing, bar_index, bar_index_ignore, stage, bar_orig, size_mask, device_bar,
    mapped, standard_device_bar, result,
    walk,
    phase,      \* "search"; "probe", "size", "enable" (of a function); "up" or "panicked"
    pci_devices,    \* where in list the functions are that nvme::init has still to look at
    idx,
    nvme_cons,  \* NVME_CONS, as the functions of the drives
    nvme_sizes, \* NVME_SIZES: of which drive each number gives the size
    calls       \* how often clients may still call bar_init

Search == INSTANCE PciEnumeration
Bars == INSTANCE PciBar
Walks == INSTANCE PciCapabilities

searchVars == <<config, stack, roots, list, outcome>>
portVars == <<device, caps, regs, command, port, selecting, divided>>
barVars == <<sizing, bar_index, bar_index_ignore, stage, bar_orig, size_mask,
             device_bar, mapped, standard_device_bar, result>>
probeVars == <<phase, pci_devices, idx, nvme_cons, nvme_sizes>>
vars == <<searchVars, portVars, barVars, walk, probeVars, calls>>

\* A function that nvme::init sizes has registers to size.
ASSUME DriversAssumption ==
    /\ BusCount \in 1 .. 256 /\ DeviceCount \in 1 .. 32 /\ FunctionCount \in 1 .. 8
    /\ FunctionCount <= BusCount
    /\ BarCount \in 1 .. 6
    /\ Modulus \in Nat /\ Modulus > 16 /\ Modulus % 16 = 0
    /\ Page \in Nat \ {0}
    /\ \A s \in Setup :
          /\ s.config \in [Search!Function -> Search!Header]
          /\ DOMAIN s.device \subseteq Search!Function
          /\ \A f \in Search!Function :
                s.config[f].class = "nvme" /\ s.config[f].kind = "standard" => f \in DOMAIN s.device
          /\ \A f \in DOMAIN s.device :
                /\ Bars!Wired(s.device[f])
                /\ \A i \in Bars!Index : s.device[f][i].size >= Page => s.device[f][i].size % Page = 0
          /\ DOMAIN s.caps = DOMAIN s.device
          /\ s.calls \in Nat

Init ==
    /\ \E s \in Setup : config = s.config /\ device = s.device /\ caps = s.caps /\ calls = s.calls
    /\ Search!Init
    /\ Bars!PortsInit /\ Bars!BarInit
    /\ Walks!WalkInit
    /\ phase = "search" /\ pci_devices = {} /\ idx = 0
    /\ nvme_cons = << >> /\ nvme_sizes = << >>
-----------------------------------------------------------------------------
\* One step of pci::init's search.
searching(step) == phase = "search" /\ step /\ UNCHANGED <<portVars, barVars, walk, probeVars, calls>>

\* pci::init returns, also with an error, and nvme::init takes the NVMe functions
\* from the list.
search_returns ==
    /\ phase = "search" /\ outcome # "running"
    /\ phase' = "probe"
    /\ pci_devices' = {i \in DOMAIN list : config[list[i]].class = "nvme"}
    /\ UNCHANGED <<idx, nvme_cons, nvme_sizes>>
    /\ UNCHANGED <<searchVars, portVars, barVars, walk, calls>>

\* The functions are taken in the order of the list.
Position == Min(pci_devices)

Current == list[Position]

\* bar_init of a bridge returns None: the function is passed over.
probe_bridge ==
    /\ phase = "probe" /\ pci_devices # {} /\ config[Current].kind # "standard"
    /\ pci_devices' = pci_devices \ {Position}
    /\ UNCHANGED <<phase, idx, nvme_cons, nvme_sizes>>
    /\ UNCHANGED <<searchVars, portVars, barVars, walk, calls>>

probe_bar_init ==
    /\ phase = "probe" /\ pci_devices # {} /\ config[Current].kind = "standard"
    /\ Bars!bar_init(Current)
    /\ phase' = "size"
    /\ UNCHANGED <<pci_devices, idx, nvme_cons, nvme_sizes>>
    /\ UNCHANGED <<searchVars, walk, calls>>

Bar0 == standard_device_bar[Current][0]

\* bar_init has returned; its error is not looked at.  Without a memory BAR
\* there is no drive, but its number is used up.
probe_no_bar ==
    /\ phase = "size" /\ stage = "idle" /\ Bar0.kind # "memory"
    /\ phase' = "probe"
    /\ pci_devices' = pci_devices \ {Position}
    /\ idx' = idx + 1
    /\ UNCHANGED <<nvme_cons, nvme_sizes>>
    /\ UNCHANGED <<searchVars, portVars, barVars, walk, calls>>

\* The value enable_master writes: I/O space, memory space and bus master.
MASTER == 7

select_command ==
    /\ phase = "size" /\ stage = "idle" /\ Bar0.kind = "memory"
    /\ Bars!select("driver", Current, Bars!STATUS_COMMAND_OFFSET)
    /\ UNCHANGED <<searchVars, barVars, walk, probeVars, calls>>

enable_master ==
    /\ phase = "size" /\ stage = "idle" /\ Bar0.kind = "memory"
    /\ Bars!write_config("driver", Current, Bars!STATUS_COMMAND_OFFSET, MASTER)
    /\ phase' = "enable"
    /\ UNCHANGED <<pci_devices, idx, nvme_cons, nvme_sizes>>
    /\ UNCHANGED <<searchVars, barVars, walk, calls>>

\* The drive comes up and is identified, and goes to the two lists.
AddedUnnumbered == idx

Added == idx + 1

drive_comes_up ==
    /\ phase = "enable"
    /\ nvme_cons' = Append(nvme_cons, Current)
    /\ nvme_sizes' = [i \in DOMAIN nvme_sizes \cup {idx} |->
                         IF i = idx THEN Current ELSE nvme_sizes[i]]
    /\ idx' = Added
    /\ pci_devices' = pci_devices \ {Position}
    /\ phase' = "probe"
    /\ UNCHANGED <<searchVars, portVars, barVars, walk, calls>>

\* Or one of the expects of nvme::init panics.
drive_fails ==
    /\ phase = "enable"
    /\ phase' = "panicked"
    /\ UNCHANGED <<pci_devices, idx, nvme_cons, nvme_sizes>>
    /\ UNCHANGED <<searchVars, portVars, barVars, walk, calls>>

\* nvme::init returns, and some time later start_schedule is called.
boot_returns ==
    /\ phase = "probe" /\ pci_devices = {}
    /\ phase' = "up"
    /\ UNCHANGED <<pci_devices, idx, nvme_cons, nvme_sizes>>
    /\ UNCHANGED <<searchVars, portVars, barVars, walk, calls>>
-----------------------------------------------------------------------------
\* A step of pci_bar_init, for nvme::init or for a client.
sizing_step(step) ==
    /\ phase \in {"size", "up"} /\ step
    /\ UNCHANGED <<searchVars, walk, probeVars, calls>>

Known == {f \in {list[i] : i \in DOMAIN list} : config[f].kind = "standard"} \cap DOMAIN device

\* A client that holds the list sizes a function.
client_bar_init(f) ==
    /\ phase = "up" /\ calls > 0
    /\ Bars!bar_init(f)
    /\ calls' = calls - 1
    /\ UNCHANGED <<searchVars, walk, probeVars>>

WithCapabilities == {f \in Known : DOMAIN caps[f] # {}}

\* A client walks the capabilities of a function.
walking(step) ==
    /\ phase = "up" /\ step
    /\ UNCHANGED <<searchVars, barVars, probeVars, calls>>

Boot ==
    \/ searching(Search!start_bus) \/ searching(Search!end_bus) \/ searching(Search!pci_check_absent)
    \/ searching(Search!pci_check_unrecognised) \/ searching(Search!pci_check_function)
    \/ searching(Search!finish)
    \/ search_returns \/ probe_bridge \/ probe_bar_init \/ probe_no_bar
    \/ select_command \/ enable_master \/ drive_comes_up \/ drive_fails \/ boot_returns

Sizing ==
    \/ sizing_step(Bars!skip) \/ sizing_step(Bars!address) \/ sizing_step(Bars!read_orig)
    \/ sizing_step(Bars!write_ones) \/ sizing_step(Bars!read_mask) \/ sizing_step(Bars!restore)
    \/ sizing_step(Bars!read_top) \/ sizing_step(Bars!store)

Clients ==
    \/ \E f \in Known : client_bar_init(f)
    \/ \E f \in WithCapabilities : \E p \in Pointer : walking(Walks!capabilities(f, p))
    \/ \E f \in WithCapabilities : walking(Walks!external_capabilities(f))
    \/ walking(Walks!select_capability) \/ walking(Walks!next_capability)
    \/ walking(Walks!next_external_capability)

Next == Boot \/ Sizing \/ Clients

\* The boot processor runs on.
Spec == Init /\ [][Next]_vars /\ WF_vars(Boot \/ Sizing)
-----------------------------------------------------------------------------
\* The list holds every function that can be reached, once.
FoundOnce == Search!FoundOnce

\* No base address register keeps the ones it was sized with.
RegistersRestored == Bars!RegistersRestored

\* What bar_init stores is what the hardware has.
BarsRight == Bars!BarsRight

\* Capability iterators stay on the list of their function.
CapabilitiesRight == Walks!CapabilitiesRight

\* The NVMe functions have a memory BAR in their first register, and none that
\* pci_bar_init refuses or cannot size.
DrivesUsable ==
    \A f \in {g \in DOMAIN device : config[g].kind = "standard"} :
        /\ Bars!Sizable(f) /\ Bars!IsMemory(device[f][0])
        /\ \A i \in Bars!Index : ~Bars!Illegal(device[f], i)

\* A number of a drive means the same drive to read_block (NVME_CONS) and to
\* get_hd_size (NVME_SIZES), and the drive was made bus master before it was
\* brought up.  An NVMe function without a memory BAR leaves a gap in one list
\* and none in the other: machines with one are left out.
DrivesNumbered ==
    DrivesUsable =>
        /\ DOMAIN nvme_sizes = 0 .. Len(nvme_cons) - 1
        /\ \A hd \in DOMAIN nvme_sizes : nvme_sizes[hd] = nvme_cons[hd + 1]
        /\ \A i \in DOMAIN nvme_cons : ~divided => command[nvme_cons[i]] = MASTER

\* Boot comes to its end: the search of a tree of buses ends (pci_check_bus
\* recurses without a bound), and so does the loop over the NVMe functions.
BootEnds == <>(phase \in {"up", "panicked"})
=============================================================================
