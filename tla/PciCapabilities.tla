-------------------------- MODULE PciCapabilities --------------------------
(***************************************************************************)
(* The iterators over the capability lists of a PCI function               *)
(* (CapabilityIterator and ExternalCapabilityIterator,                     *)
(* src/drivers/pci.rs).  The first reads over the ports, the second        *)
(* through the window of the root.  An iterator holds no lock: it may run  *)
(* while another CPU sizes base address registers.                         *)
(***************************************************************************)
EXTENDS PciPorts, Sequences

CONSTANTS
    RootBegin,  \* bus_begin of the root
    MaxFound    \* bound on the capabilities a client asks for

VARIABLES
    walk        \* the iterator: its function, its way, the next offset, what it gave

NoOffset == -1

NoWalk == [bdf |-> [bus |-> 0, device |-> 0, function |-> 0], way |-> "none",
           next_capability_offset |-> NoOffset, found |-> << >>]

WalkInit == walk = NoWalk

\* The legal offsets of the capabilities on either way.
First(way) == IF way = "port" THEN 64 ELSE 256

\* capabilities starts where the header points, which is not looked at;
\* external_capabilities at the end of the first 256 bytes.
begin_walk(bdf, way, first) ==
    /\ walk = NoWalk
    /\ walk' = [bdf |-> bdf, way |-> way, next_capability_offset |-> first, found |-> << >>]
    /\ UNCHANGED portVars

capabilities(bdf, capabilities_pointer) == begin_walk(bdf, "port", capabilities_pointer)

external_capabilities(bdf) == begin_walk(bdf, "window", 256)
-----------------------------------------------------------------------------
Asked == walk.next_capability_offset # NoOffset /\ Len(walk.found) < MaxFound

\* What the iterator makes of the pointer it read.
FollowsUnaligned(next) ==
    IF next < First(walk.way) THEN NoOffset ELSE next

Follows(next) ==
    IF next < First(walk.way) \/ next % 4 # 0 THEN NoOffset ELSE next

Yield(next) ==
    walk' = [walk EXCEPT !.found = Append(walk.found, walk.next_capability_offset),
                         !.next_capability_offset = Follows(next)]

\* CapabilityIterator::next, in the two halves of its read_config.
select_capability ==
    /\ walk.way = "port" /\ Asked
    /\ select("client", walk.bdf, walk.next_capability_offset)
    /\ UNCHANGED walk

next_capability ==
    /\ walk.way = "port" /\ Asked
    /\ read_config("client", walk.bdf, walk.next_capability_offset)
    /\ Yield(DataRead)

\* ExternalCapabilityIterator::next; the assertions of cam_offset hold for the
\* offsets that Follows lets through.
next_external_capability ==
    /\ walk.way = "window" /\ Asked
    /\ valid(walk.bdf) /\ walk.next_capability_offset % 4 = 0
    /\ Yield(Content(Windowed(RootBegin, cam_offset(RootBegin, walk.bdf, walk.next_capability_offset))))
    /\ UNCHANGED portVars
-----------------------------------------------------------------------------
\* The list of a function, from a first offset on: the offsets that its
\* pointers lead to.
Chain(bdf, first) ==
    LET chain[n \in 1 .. MaxFound] ==
            IF n = 1 THEN {first}
            ELSE chain[n - 1] \cup {caps[bdf][o] : o \in chain[n - 1] \cap DOMAIN caps[bdf]}
    IN  chain[MaxFound]

\* A list that ends, without a pointer back.
EndsAt(bdf) == \A o \in DOMAIN caps[bdf] : caps[bdf][o] = 0 \/ caps[bdf][o] > o

\* An iterator gives capabilities of its own function only, each at an offset
\* where one may be and, if the list does not lead back, each once; whatever
\* base address registers are sized meanwhile, unless the other CPU came
\* between address and data of a read.  capabilities starts anywhere.
CapabilitiesRight ==
    LET found == walk.found
    IN  walk.way = "window" \/ ~divided =>
            /\ \A i \in DOMAIN found :
                  /\ found[i] \in Chain(walk.bdf, found[1])
                  /\ i > 1 => found[i] >= First(walk.way) /\ found[i] % 4 = 0
            /\ walk.way # "none" /\ EndsAt(walk.bdf) =>
                  \A i, j \in DOMAIN found : i < j => found[i] # found[j]
=============================================================================
