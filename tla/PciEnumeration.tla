--------------------------- MODULE PciEnumeration ---------------------------
(***************************************************************************)
(* The search for PCI functions at boot (pci_check_all_buses and what it   *)
(* calls, src/drivers/pci.rs), over a configuration space that is read     *)
(* and not changed.  The recursion of the code over bridges is a stack     *)
(* here: one entry for each pci_check_bus that has not returned, holding   *)
(* the function it looks at next.  One step is one function.               *)
(***************************************************************************)
EXTENDS Integers, Sequences, FiniteSets

CONSTANTS
    BusCount,       \* the buses of the machine (256)
    DeviceCount,    \* devices of a bus (32)
    FunctionCount   \* functions of a device (8)

Bus == 0 .. BusCount - 1

Function == [bus : Bus, device : 0 .. DeviceCount - 1, function : 0 .. FunctionCount - 1]

Kind == {"none", "standard", "bridge", "cardbus", "unrecognised"}

Class == {"bridge", "nvme", "other"}

\* What pci_read_header makes of a function: its header type, the multi-function
\* bit, its class and subclass, and the secondary bus.
Header == [kind : Kind, multi : BOOLEAN, class : Class, secondary : Bus]

VARIABLES
    config,     \* the headers of the machine
    stack,      \* the pci_check_bus calls in progress, innermost last
    roots,      \* the buses pci_check_all_buses has still to start on
    list,       \* PCI_DEVICE_LINKEDLIST
    outcome     \* "running", "ok" or "error"

vars == <<config, stack, roots, list, outcome>>

At(b, d, f) == [bus |-> b, device |-> d, function |-> f]

\* pci_check_all_buses reads the header of 0:0.0; a multi-function host bridge
\* stands for one bus per function number, whether it has that function or not.
RootsOf(host) ==
    IF host.multi THEN [i \in 1 .. FunctionCount |-> i - 1] ELSE <<0>>

Init ==
    /\ stack = << >>
    /\ roots = RootsOf(config[At(0, 0, 0)])
    /\ list = << >>
    /\ outcome = IF config[At(0, 0, 0)].kind \in {"none", "unrecognised"} THEN "error" ELSE "running"
-----------------------------------------------------------------------------
Top == stack[Len(stack)]

ReplaceTop(c) == SubSeq(stack, 1, Len(stack) - 1) \o <<c>>

NextDevice(c) == At(c.bus, c.device + 1, 0)

\* pci_check_device goes on to the other functions if function 0 says so.
FollowingSingle(c) == NextDevice(c)

Following(c) ==
    IF config[At(c.bus, c.device, 0)].multi /\ c.function + 1 < FunctionCount
    THEN At(c.bus, c.device, c.function + 1)
    ELSE NextDevice(c)

\* pci_check_all_buses starts on the next bus.
start_bus ==
    /\ outcome = "running" /\ stack = << >> /\ roots # << >>
    /\ stack' = <<At(Head(roots), 0, 0)>>
    /\ roots' = Tail(roots)
    /\ UNCHANGED <<config, list, outcome>>

\* pci_check_bus has seen all its devices.
end_bus ==
    /\ outcome = "running" /\ stack # << >> /\ Top.device = DeviceCount
    /\ stack' = SubSeq(stack, 1, Len(stack) - 1)
    /\ UNCHANGED <<config, roots, list, outcome>>

AtFunction == outcome = "running" /\ stack # << >> /\ Top.device < DeviceCount

PassOverNot(c) == c

PassOver(c) == IF c.function = 0 THEN NextDevice(c) ELSE Following(c)

\* No function: the rest of the device is left out only when it is function 0.
pci_check_absent ==
    /\ AtFunction /\ config[Top].kind = "none"
    /\ stack' = ReplaceTop(PassOver(Top))
    /\ UNCHANGED <<config, roots, list, outcome>>

\* A header type that is not known ends the whole search.
pci_check_unrecognised ==
    /\ AtFunction /\ config[Top].kind = "unrecognised"
    /\ outcome' = "error"
    /\ UNCHANGED <<config, stack, roots, list>>

\* A bridge's secondary bus is searched before the search goes on here.
Descend(c) ==
    IF config[c].class = "bridge"
    THEN Append(ReplaceTop(Following(c)), At(config[c].secondary, 0, 0))
    ELSE ReplaceTop(Following(c))

\* The function goes to the list; a bridge whose header is no bridge's is an error.
pci_check_function ==
    /\ AtFunction /\ config[Top].kind \in {"standard", "bridge", "cardbus"}
    /\ list' = Append(list, Top)
    /\ IF config[Top].class = "bridge" /\ config[Top].kind # "bridge"
       THEN outcome' = "error" /\ UNCHANGED stack
       ELSE stack' = Descend(Top) /\ UNCHANGED outcome
    /\ UNCHANGED <<config, roots>>

finish ==
    /\ outcome = "running" /\ stack = << >> /\ roots = << >>
    /\ outcome' = "ok"
    /\ UNCHANGED <<config, stack, roots, list>>

Next ==
    start_bus \/ end_bus \/ pci_check_absent \/ pci_check_unrecognised
    \/ pci_check_function \/ finish

-----------------------------------------------------------------------------
\* The functions a machine shows: function 0 of a device, and the others if it
\* says that it has several.
Shown(f) ==
    /\ config[f].kind # "none"
    /\ \/ f.function = 0
       \/ LET first == config[At(f.bus, f.device, 0)] IN first.kind # "none" /\ first.multi

\* The buses behind the bridges of a set of buses.
Behind(buses) ==
    {config[f].secondary : f \in {g \in Function : g.bus \in buses /\ Shown(g) /\ config[g].class = "bridge"}}

HostBridge == config[At(0, 0, 0)]

RootBuses == IF HostBridge.multi THEN 0 .. FunctionCount - 1 ELSE {0}

\* The buses at most n bridges away.
Reached[n \in 0 .. BusCount] ==
    IF n = 0 THEN RootBuses ELSE Reached[n - 1] \cup Behind(Reached[n - 1])

Listed == {list[i] : i \in DOMAIN list}

\* A search that ends well has found every function of every bus that can be
\* reached from the roots over bridges, and nothing else; and it ends badly only
\* for a header it cannot read, not for a device or a function that is absent.
AllFound ==
    /\ outcome = "ok" => Listed = {f \in Function : f.bus \in Reached[BusCount] /\ Shown(f)}
    /\ outcome = "error" =>
           \/ HostBridge.kind = "none"
           \/ \E f \in Function :
                 \/ config[f].kind = "unrecognised"
                 \/ config[f].class = "bridge" /\ config[f].kind # "bridge"

\* "Total pci device and function num = {}": the length of the list is the
\* number of functions found, each of them being in it once.  A multi-function
\* host bridge is left out: a bus may then be a root and be behind a bridge too,
\* and is searched both times.
ListedOnce == ~HostBridge.multi => Len(list) = Cardinality(Listed)

\* The list is right: nothing is missing from it and nothing is in it twice.
FoundOnce == AllFound /\ ListedOnce
=============================================================================
