---------------------------- MODULE MCPciDrivers ----------------------------
(***************************************************************************)
(* Machines of three buses with two devices of two functions.  In the one  *)
(* kind every device may be absent, a plain or a multi-function device, or *)
(* a bridge to a later bus; the machines are the trees among them.  In the *)
(* other kind bus 0 has two NVMe functions, with base address registers    *)
(* of eight bits and pages of 32 bytes, and capabilities.  Function 0:0.0  *)
(* is the host bridge.                                                     *)
(***************************************************************************)
EXTENDS PciDrivers, TLC

None == [kind |-> "none", multi |-> FALSE, class |-> "other", secondary |-> 0]

Plain(multi) == [kind |-> "standard", multi |-> multi, class |-> "other", secondary |-> 0]

BridgeTo(b, multi) == [kind |-> "bridge", multi |-> multi, class |-> "bridge", secondary |-> b]

Unreadable ==
    {[kind |-> "unrecognised", multi |-> FALSE, class |-> "other", secondary |-> 0],
     [kind |-> "cardbus", multi |-> FALSE, class |-> "bridge", secondary |-> 0]}

\* The two functions of a device on bus b; on bus 1 a header may be unreadable.
Pair(b) ==
    {<<None, None>>, <<None, Plain(FALSE)>>, <<Plain(FALSE), Plain(FALSE)>>, <<Plain(TRUE), Plain(FALSE)>>}
    \cup {<<BridgeTo(s, FALSE), None>> : s \in b + 1 .. BusCount - 1}
    \cup {<<BridgeTo(s, TRUE), Plain(FALSE)>> : s \in b + 1 .. BusCount - 1}
    \cup {<<Plain(TRUE), BridgeTo(s, FALSE)>> : s \in b + 1 .. BusCount - 1}
    \cup (IF b = 1 THEN {<<u, None>> : u \in Unreadable} ELSE {})

Host == {<<Plain(m), None>> : m \in BOOLEAN}

\* One bus after another, so that no set of all combinations is built.
Bus0 == {<<h, d>> : h \in Host, d \in Pair(0)}
Bus1 == {<<d, e>> : d \in Pair(1), e \in Pair(1)}
Bus2 == {<<d, <<None, None>>>> : d \in Pair(2)}

AsConfig(x, y, z) ==
    [f \in Search!Function |->
        (IF f.bus = 0 THEN x ELSE IF f.bus = 1 THEN y ELSE z)[f.device + 1][f.function + 1]]

\* No two bridges lead to the same bus.
IsTree(c) ==
    \A f, g \in Search!Function :
        c[f].class = "bridge" /\ c[g].class = "bridge" /\ f # g => c[f].secondary # c[g].secondary

Trees == {c \in {AsConfig(x, y, z) : x \in Bus0, y \in Bus1, z \in Bus2} : IsTree(c)}
-----------------------------------------------------------------------------
Nvme(kind, multi) == [kind |-> kind, multi |-> multi, class |-> "nvme", secondary |-> 0]

Absent == <<None, None>>

\* The first NVMe function has a header of some kind; the second a standard one.
WithDrives(kind) ==
    AsConfig(<<<<Plain(FALSE), None>>, <<Nvme(kind, TRUE), Nvme("standard", FALSE)>>>>,
             <<Absent, Absent>>, <<Absent, Absent>>)

Drive(f) == Search!At(0, 1, f)

Memory(size, base, flags) == [kind |-> "memory", size |-> size, base |-> base, flags |-> flags]
Wide(size, base, flags) == [kind |-> "memory64", size |-> size, base |-> base, flags |-> flags]
Io(size, base) == [kind |-> "io", size |-> size, base |-> base, flags |-> 1]
Upper == [kind |-> "upper", size |-> 0, base |-> 0, flags |-> 0]

\* Sizes below a page, of several pages and of 2^32 bytes; one type that is illegal.
Hardware ==
    {Bars!NoBar, Upper, Io(8, 8), Memory(16, 16, 0), Memory(64, 128, 8), Memory(64, 0, 6),
     Wide(64, 576, 4), Wide(512, 1024, 12)}

Registers == {d \in [Bars!Index -> Hardware] : Bars!Wired(d)}

Few(x, y) == [i \in Bars!Index |-> IF i = 0 THEN x ELSE IF i = 1 THEN y ELSE Bars!NoBar]

OneBar == Few(Memory(64, 128, 8), Bars!NoBar)

WideBar == Few(Wide(64, 576, 4), Upper)

\* Lists that end, that lead back, and that lead to where no capability can be.
Lists ==
    {(0 :> 16) @@ (64 :> 68) @@ (68 :> 0) @@ (256 :> 260) @@ (260 :> 0),
     (0 :> 16) @@ (64 :> 68) @@ (68 :> 64) @@ (256 :> 260) @@ (260 :> 256),
     (0 :> 16) @@ (64 :> 66) @@ (256 :> 64),
     (0 :> 16) @@ (64 :> 32) @@ (256 :> 258)}

NoList == << >>

Machine(kind, d, e, l, m, n) ==
    [device |-> Drive(0) :> d @@ Drive(1) :> e, config |-> WithDrives(kind),
     caps |-> Drive(0) :> l @@ Drive(1) :> m, calls |-> n]

MCSetup ==
    {[device |-> << >>, config |-> c, caps |-> << >>, calls |-> 0] : c \in Trees}
    \cup {Machine("standard", d, OneBar, NoList, NoList, 0) : d \in Registers}
    \cup {Machine("bridge", OneBar, OneBar, NoList, NoList, 0)}
    \cup {Machine("standard", WideBar, OneBar, NoList, l, 1) : l \in Lists}
=============================================================================
