---------------------------- MODULE Boot_proofs -----------------------------
(***************************************************************************)
(* Proofs about two parts of the kernel that its boot sets up: the frame   *)
(* allocator (FrameAllocator), for every memory map that the boot loader   *)
(* may give and every set of buffer sizes the drivers may ask for; and the *)
(* start of the CPUs (SmpBoot).                                            *)
(***************************************************************************)
EXTENDS FrameAllocator, FiniteSetTheorems, WellFoundedInduction, TLAPS

\* A non-empty set of indices has a least element: the scans of the allocator
\* end at a definite frame.
LEMMA NatMinimum ==
    ASSUME NEW S \in SUBSET Nat, S # {}
    PROVE  \E m \in S : \A n \in S : m <= n
<1>1. IsWellFoundedOn(OpToRel(<, Nat), Nat)
  BY NatLessThanWellFounded, Zenon
<1>2. PICK m \in S : \A n \in S : ~ (<<n, m>> \in OpToRel(<, Nat))
  BY <1>1, WFMin, Zenon
<1>3. \A n \in S : ~ (n < m)
  BY <1>2, Zenon DEF OpToRel
<1> QED
  BY <1>3

\* The length of the bitmap in bytes is positive and is itself an index of it:
\* the cursor may rest at Bitmap::len().
LEMMA BitmapLenIsFrame ==
    /\ BitmapLen \in Nat \ {0}
    /\ BitmapLen \in Frame
    /\ Frame \subseteq Nat
<1>1. MemoryFrames \in Nat \ {0}
  BY MapAssumption
<1>2. BitmapLen \in Nat \ {0}
  BY <1>1 DEF BitmapLen, DivCeil, BITS
<1> QED
  BY <1>2 DEF Frame, BITS

\* The budget the allocator starts with is a natural number.
LEMMA BudgetIsNat == Cardinality(UsableFrames) \in Nat
<1>1. IsFiniteSet(Frame)
  BY BitmapLenIsFrame, FS_Interval DEF Frame, BITS
<1>2. IsFiniteSet(UsableFrames)
  BY <1>1, FS_Subset, MapAssumption
<1> QED
  BY <1>2, FS_CardinalityType

\* The cursor allocate_frame computes is a valid index: the first free frame
\* behind it, below len(), or len().
LEMMA NextFreeIsFrame ==
    ASSUME TypeOK
    PROVE  /\ NextFree \in Frame
           /\ NextFree < BitmapLen => NextFree \in bitmap /\ next_frame < NextFree
<1> DEFINE ahead == {f \in bitmap : next_frame < f /\ f < BitmapLen}
<1>1. CASE ahead = {}
  BY <1>1, BitmapLenIsFrame DEF NextFree, FirstOf, Frame
<1>2. CASE ahead # {}
  <2>1. ahead \in SUBSET Nat
    BY BitmapLenIsFrame, Zenon DEF TypeOK
  <2>2. \E f \in ahead : \A g \in ahead : f <= g
    BY <1>2, <2>1, NatMinimum, Zenon
  <2>3. NextFree \in ahead
    BY <1>2, <2>2 DEF NextFree, FirstOf
  <2> QED
    BY <2>3 DEF TypeOK
<1> QED
  BY <1>1, <1>2

\* allocate_frames hands out a run of set bits that ends below len().
LEMMA FirstRunIsRun ==
    ASSUME NEW b \in SUBSET Nat, NEW from, NEW len, NEW cnt,
           RunStarts(b, from, len, cnt) # {}
    PROVE  FirstRun(b, from, len, cnt) \in RunStarts(b, from, len, cnt)
<1>1. RunStarts(b, from, len, cnt) \in SUBSET Nat
  BY Zenon DEF RunStarts
<1>2. \E f \in RunStarts(b, from, len, cnt) :
          \A g \in RunStarts(b, from, len, cnt) : f <= g
  BY <1>1, NatMinimum
<1> QED
  BY <1>2 DEF FirstRun

\* The allocator BitmapFrameAllocator::init builds satisfies the invariant.
LEMMA InitInvariant == Init => IndInv
<1> SUFFICES ASSUME Init
             PROVE  IndInv
  OBVIOUS
<1>1. UsableFrames \subseteq Frame /\ InitNextFrame \in Frame
  BY MapAssumption
<1>2. TypeOK
  <2>1. usable_frames \in 0 .. Cardinality(UsableFrames)
    BY BudgetIsNat DEF Init
  <2>2. leases \subseteq Lease /\ moved \in BOOLEAN /\ stale \in BOOLEAN
    BY Zenon DEF Init
  <2> QED
    BY <1>1, <2>1, <2>2 DEF Init, TypeOK
<1>3. Leased = {}
  BY DEF Init, Leased
<1>4. LeasesInThePast /\ NoDoubleHandOut /\ OnlyUsableHandedOut
  BY <1>3 DEF Init, LeasesInThePast, NoDoubleHandOut, OnlyUsableHandedOut
<1> QED
  BY <1>2, <1>4 DEF IndInv

\* Handing out the cursor's frame keeps the invariant; when the frame's bit was
\* clear the promises are waived by stale.
LEMMA AllocateFrameStep == IndInv /\ allocate_frame => IndInv'
<1> SUFFICES ASSUME IndInv, allocate_frame
             PROVE  IndInv'
  OBVIOUS
<1> USE DEF IndInv
<1> DEFINE new == [cnt |-> 1, start |-> next_frame, id |-> usable_frames]
<1>1. new \in Lease /\ new \notin leases /\ LeaseFrames(new) = {next_frame}
  <2>1. usable_frames \in Nat /\ next_frame \in Nat
    BY BudgetIsNat, BitmapLenIsFrame DEF TypeOK
  <2>2. new.id = usable_frames /\ new.start = next_frame /\ new.cnt = 1
    OBVIOUS
  <2>3. new \notin leases
    BY <2>1, <2>2 DEF LeasesInThePast
  <2> QED
    BY <2>1, <2>2, <2>3 DEF TypeOK, Lease, LeaseFrames
<1>2. leases' = leases \cup {new}
  BY DEF allocate_frame, take_frame, ClearCursorBit
<1>3. TypeOK'
  BY <1>1, <1>2, NextFreeIsFrame, BudgetIsNat DEF TypeOK, allocate_frame, take_frame, ClearCursorBit
<1>4. LeasesInThePast'
  BY <1>1, <1>2, BudgetIsNat DEF LeasesInThePast, TypeOK, Lease, allocate_frame, take_frame
<1>5. ASSUME ~stale'
      PROVE  ~stale /\ next_frame \in bitmap /\ next_frame \notin Leased
  BY <1>5, Zenon DEF allocate_frame, take_frame, ClearCursorBit, TypeOK, OnlyUsableHandedOut
<1>6. NoDoubleHandOut'
  BY <1>1, <1>2, <1>5 DEF NoDoubleHandOut, Leased
<1>7. OnlyUsableHandedOut'
  <2> SUFFICES ASSUME ~stale'
               PROVE  /\ Leased' \cup bitmap' \subseteq UsableFrames
                      /\ Leased' \cap bitmap' = {}
    BY DEF OnlyUsableHandedOut
  <2>1. Leased' = Leased \cup {next_frame}
    BY <1>1, <1>2 DEF Leased
  <2>2. bitmap' = bitmap \ {next_frame}
    BY DEF allocate_frame, take_frame, ClearCursorBit
  <2> QED
    BY <1>5, <2>1, <2>2 DEF OnlyUsableHandedOut
<1> QED
  BY <1>3, <1>4, <1>6, <1>7

\* Handing out a run of set bits keeps the invariant.
LEMMA AllocateFramesStep ==
    ASSUME NEW cnt \in DmaCounts
    PROVE  IndInv /\ allocate_frames(cnt) => IndInv'
<1> SUFFICES ASSUME IndInv, allocate_frames(cnt)
             PROVE  IndInv'
  OBVIOUS
<1> USE DEF IndInv
<1> DEFINE start == FirstRun(bitmap, next_frame, BitmapLen, cnt)
           new == [cnt |-> cnt, start |-> start, id |-> usable_frames]
           run == start .. start + cnt - 1
<1>1. /\ cnt \in Nat \ {0}
      /\ start \in bitmap
      /\ start + cnt <= BitmapLen
      /\ run \subseteq bitmap
  <2>1. bitmap \in SUBSET Nat
    BY BitmapLenIsFrame DEF TypeOK
  <2>2. RunStarts(bitmap, next_frame, BitmapLen, cnt) # {}
    BY DEF allocate_frames
  <2>3. start \in RunStarts(bitmap, next_frame, BitmapLen, cnt)
    BY <2>1, <2>2, FirstRunIsRun
  <2> QED
    BY <2>3, DmaAssumption DEF RunStarts
<1>2. start \in Nat /\ usable_frames \in Nat /\ start \in Frame
  <2> HIDE DEF start
  <2>1. start \in Frame
    BY <1>1 DEF TypeOK
  <2>2. usable_frames \in Nat
    BY BudgetIsNat DEF TypeOK
  <2> QED
    BY <2>1, <2>2, BitmapLenIsFrame
<1>3. new \in Lease /\ new \notin leases /\ LeaseFrames(new) = run
  <2>1. new.id = usable_frames /\ new.start = start /\ new.cnt = cnt
    OBVIOUS
  <2>2. new \notin leases
    BY <1>2, <2>1 DEF LeasesInThePast
  <2>3. new \in Lease
    BY <1>1, <1>2 DEF Lease
  <2> HIDE DEF start
  <2> QED
    BY <2>1, <2>2, <2>3 DEF LeaseFrames
<1>4. /\ leases' = leases \cup {new}
      /\ bitmap' = bitmap \ run
      /\ usable_frames' = usable_frames - cnt
      /\ cnt <= usable_frames
      /\ next_frame' = IF start = next_frame THEN start + cnt ELSE next_frame
      /\ moved' \in BOOLEAN /\ stale' = stale
  BY DEF allocate_frames, TypeOK
<1> HIDE DEF start, new, run
<1>5. TypeOK'
  <2>1. start + cnt \in Frame
    BY <1>1, <1>2, BitmapLenIsFrame DEF Frame, BITS
  <2> QED
    BY <1>1, <1>2, <1>3, <1>4, <2>1, BudgetIsNat DEF TypeOK
<1>6. LeasesInThePast'
  <2>1. new.id = usable_frames
    BY DEF new
  <2>2. \A l \in leases : l.id \in Nat /\ usable_frames < l.id
    BY DEF LeasesInThePast, TypeOK, Lease
  <2> QED
    BY <1>1, <1>2, <1>4, <2>1, <2>2 DEF LeasesInThePast
<1>7. ~stale => run \cap Leased = {}
  BY <1>1 DEF OnlyUsableHandedOut
<1>8. NoDoubleHandOut'
  BY <1>3, <1>4, <1>7 DEF NoDoubleHandOut, Leased
<1>9. OnlyUsableHandedOut'
  <2>1. Leased' = Leased \cup run
    BY <1>3, <1>4 DEF Leased
  <2> QED
    BY <1>1, <1>4, <1>7, <2>1 DEF OnlyUsableHandedOut
<1> QED
  BY <1>5, <1>6, <1>8, <1>9

\* Giving a lease back keeps the invariant: the frame whose bit is set again
\* belongs to nobody else.
LEMMA DeallocateFrameStep ==
    ASSUME NEW l \in leases
    PROVE  IndInv /\ deallocate_frame(l) => IndInv'
<1> SUFFICES ASSUME IndInv, deallocate_frame(l)
             PROVE  IndInv'
  OBVIOUS
<1> USE DEF IndInv
<1>1. l.start \in Frame /\ l.start \in LeaseFrames(l)
  <2>1. l.start \in Frame /\ l.cnt \in Nat \ {0}
    BY DEF TypeOK, Lease
  <2>2. l.start \in Nat
    BY <2>1, BitmapLenIsFrame, Zenon
  <2> QED
    BY <2>1, <2>2 DEF LeaseFrames
<1>2. TypeOK' /\ LeasesInThePast' /\ NoDoubleHandOut'
  BY <1>1 DEF TypeOK, LeasesInThePast, NoDoubleHandOut, deallocate_frame
<1>3. ASSUME ~stale
      PROVE  l.start \notin Leased' /\ l.start \in UsableFrames
  BY <1>1, <1>3 DEF NoDoubleHandOut, OnlyUsableHandedOut, Leased, deallocate_frame
<1>4. Leased' \subseteq Leased
  BY DEF Leased, deallocate_frame
<1>5. OnlyUsableHandedOut'
  BY <1>3, <1>4 DEF OnlyUsableHandedOut, deallocate_frame
<1> QED
  BY <1>2, <1>5
-----------------------------------------------------------------------------
\* Every step of the allocator keeps the invariant.
LEMMA NextInvariant == IndInv /\ [Next]_vars => IndInv'
<1> SUFFICES ASSUME IndInv, [Next]_vars
             PROVE  IndInv'
  OBVIOUS
<1>1. CASE allocate_frame
  BY <1>1, AllocateFrameStep
<1>2. ASSUME NEW cnt \in DmaCounts, allocate_frames(cnt)
      PROVE  IndInv'
  BY <1>2, AllocateFramesStep
<1>3. ASSUME NEW l \in leases, deallocate_frame(l)
      PROVE  IndInv'
  BY <1>3, DeallocateFrameStep
<1>4. CASE UNCHANGED vars
  BY <1>4 DEF vars, IndInv, TypeOK, LeasesInThePast, NoDoubleHandOut,
              OnlyUsableHandedOut, Leased
<1> QED
  BY <1>1, <1>2, <1>3, <1>4 DEF Next, allocate_none

\* The types of the allocator's state, in particular that the cursor is always
\* an index of the bitmap, so that Bitmap::get and set never panic.
THEOREM TypeCorrect == Spec => []TypeOK
<1>1. IndInv => TypeOK
  BY DEF IndInv
<1> QED
  BY <1>1, InitInvariant, NextInvariant, PTL DEF Spec

\* No frame is held twice unless the cursor handed out a frame whose bit was
\* already clear.
THEOREM HandOutUnique == Spec => []NoDoubleHandOut
<1>1. IndInv => NoDoubleHandOut
  BY DEF IndInv
<1> QED
  BY <1>1, InitInvariant, NextInvariant, PTL DEF Spec

\* Nor is a reserved frame, or a held one marked free.
THEOREM HandOutUsable == Spec => []OnlyUsableHandedOut
<1>1. IndInv => OnlyUsableHandedOut
  BY DEF IndInv
<1> QED
  BY <1>1, InitInvariant, NextInvariant, PTL DEF Spec

\* Until allocate_frames moves it or it reaches Bitmap::len(), the cursor is on
\* a free frame, so up to then every hand-out is of a free frame.
THEOREM CursorFree == Spec => []CursorOnFreeFrame
<1>1. Init => CursorOnFreeFrame
  BY DEF Init, CursorOnFreeFrame
<1>2. IndInv /\ CursorOnFreeFrame /\ [Next]_vars => CursorOnFreeFrame'
  <2> SUFFICES ASSUME IndInv, CursorOnFreeFrame, [Next]_vars,
                      InitNextFrame \in UsableFrames,
                      ~moved', next_frame' < BitmapLen
               PROVE  next_frame' \in bitmap'
    BY DEF CursorOnFreeFrame
  <2>1. CASE allocate_frame
    <3>1. next_frame' \in bitmap /\ next_frame < next_frame'
      BY <2>1, NextFreeIsFrame DEF IndInv, allocate_frame, take_frame
    <3>2. next_frame \in Nat
      BY BitmapLenIsFrame DEF IndInv, TypeOK
    <3> QED
      BY <2>1, <3>1, <3>2 DEF allocate_frame, take_frame, ClearCursorBit
  <2>2. ASSUME NEW cnt \in DmaCounts, allocate_frames(cnt)
        PROVE  next_frame' \in bitmap'
    <3> DEFINE start == FirstRun(bitmap, next_frame, BitmapLen, cnt)
    <3>1. bitmap \in SUBSET Nat /\ next_frame \in Nat
      BY BitmapLenIsFrame DEF IndInv, TypeOK
    <3>2. start \in RunStarts(bitmap, next_frame, BitmapLen, cnt)
      BY <2>2, <3>1, FirstRunIsRun DEF allocate_frames
    <3>3. start \in Nat /\ next_frame <= start
      BY <3>1, <3>2, Zenon DEF RunStarts
    <3>4. /\ start # next_frame /\ ~moved
          /\ next_frame' = next_frame
          /\ bitmap' = bitmap \ (start .. start + cnt - 1)
      BY <2>2, Zenon DEF allocate_frames
    <3>5. next_frame \in bitmap
      BY <3>4 DEF CursorOnFreeFrame
    <3> HIDE DEF start
    <3> QED
      BY <3>1, <3>3, <3>4, <3>5
  <2>3. CASE \E l \in leases : deallocate_frame(l)
    BY <2>3 DEF deallocate_frame, CursorOnFreeFrame
  <2>4. CASE UNCHANGED vars
    BY <2>4 DEF vars, CursorOnFreeFrame
  <2> QED
    BY <2>1, <2>2, <2>3, <2>4 DEF Next, allocate_none
<1> QED
  BY <1>1, <1>2, InitInvariant, NextInvariant, PTL DEF Spec

\* Every frame handed out is paid for exactly once from a budget that nothing
\* refills.
THEOREM Budget == Spec => BudgetPaysForLeases
<1> DEFINE Pays == /\ usable_frames' <= usable_frames
                   /\ \A l \in leases' \ leases : usable_frames' + l.cnt = usable_frames
<1>1. IndInv /\ [Next]_vars => [Pays]_vars
  <2> SUFFICES ASSUME IndInv, Next
               PROVE  Pays \/ UNCHANGED vars
    OBVIOUS
  <2>1. usable_frames \in Nat
    BY BudgetIsNat DEF IndInv, TypeOK
  <2>2. CASE allocate_frame
    <3> DEFINE new == [cnt |-> 1, start |-> next_frame, id |-> usable_frames]
    <3>1. leases' \ leases \subseteq {new} /\ usable_frames' = usable_frames - 1
      BY <2>2 DEF allocate_frame, take_frame, ClearCursorBit
    <3>2. new.cnt = 1
      OBVIOUS
    <3> HIDE DEF new
    <3> QED
      BY <2>1, <3>1, <3>2
  <2>3. ASSUME NEW cnt \in DmaCounts, allocate_frames(cnt)
        PROVE  Pays
    <3> DEFINE new == [cnt |-> cnt,
                       start |-> FirstRun(bitmap, next_frame, BitmapLen, cnt),
                       id |-> usable_frames]
    <3>1. leases' \ leases \subseteq {new} /\ usable_frames' = usable_frames - cnt
      BY <2>3 DEF allocate_frames
    <3>2. new.cnt = cnt /\ cnt \in Nat
      BY DmaAssumption
    <3> HIDE DEF new
    <3> QED
      BY <2>1, <3>1, <3>2
  <2>4. CASE \E l \in leases : deallocate_frame(l)
    BY <2>1, <2>4 DEF deallocate_frame
  <2> QED
    BY <2>2, <2>3, <2>4 DEF Next, allocate_none
<1> QED
  BY <1>1, InitInvariant, NextInvariant, PTL DEF Spec, BudgetPaysForLeases

-----------------------------------------------------------------------------
(***************************************************************************)
(* What SmpBoot promises of any number of CPUs, of any processor ids and   *)
(* of any width of the halves of the HPET counter.                         *)
(***************************************************************************)
CONSTANTS Cpu, Bsp, Ids, LowTicks, MaxCounter

VARIABLES
    smp, id, pc, table, writer, todo, loaded, idt, gate, timer, hpet_init, scheduler_init, start_schedule, lazy, on,
    tick, adding, scheduled, counter, reading

Boot == INSTANCE SmpBoot

Others == Cpu \ {Bsp}

\* Where the boot CPU is before it starts the others.
Early == {"init_bsp", "load_idt", "hpet", "lock_cpus"}

BspPlaces ==
    Early \cup {"init_ap", "calibrate", "low", "high", "user_init", "scheduler_init", "kernel", "running", "panic"}

ApPlaces ==
    {"parked", "load", "load_idt", "wait_hpet", "calibrate", "low", "high", "wait_scheduler", "user_init",
     "wait_start", "running", "panic"}

\* Where the timer is calibrated.
Calibrated == {"wait_scheduler", "user_init", "wait_start", "scheduler_init", "kernel", "running", "panic"}

BootTyped ==
    /\ pc \in [Cpu -> BspPlaces \cup ApPlaces]
    /\ pc[Bsp] \in BspPlaces /\ \A c \in Others : pc[c] \in ApPlaces
    /\ DOMAIN table \subseteq Cpu /\ Bsp \in DOMAIN table
    /\ DOMAIN loaded = Cpu
    /\ todo \subseteq Cpu /\ timer \subseteq Cpu /\ on \subseteq Cpu /\ tick \subseteq Cpu
    /\ lazy \in [state : {"none", "thread", "handler", "done"}, by : Cpu, known : SUBSET Cpu]
    /\ counter \in Nat
    /\ reading \in [Cpu -> [high : Nat, low : Nat, since : Nat]]

\* CPUs take interrupts once the boot CPU has started them; SCHEDULER is filled
\* in when CPUS is complete.
Started ==
    /\ tick \subseteq on
    /\ \A c \in on : pc[c] = "running" /\ start_schedule
    /\ start_schedule => pc[Bsp] \in {"running", "panic"}
    /\ lazy.state # "none" => pc[Bsp] \in {"kernel", "running", "panic"}
    /\ lazy.state = "done" => lazy.known = DOMAIN table

\* What a CPU has set up by the time it is at a place.
SetUp ==
    \A c \in Cpu :
        /\ pc[c] \notin {"init_bsp", "parked", "load", "load_idt", "panic"} => c \in idt
        /\ pc[c] \in {"wait_start", "scheduler_init", "kernel", "running"} => c \in gate

\* A CPU is in CPUS before it runs, and its entry no longer changes once it has
\* loaded it.
Listed ==
    Boot!IdsAgree =>
        /\ pc[Bsp] \in Early => \A c \in Others : pc[c] = "parked"
        /\ \A c \in Others : pc[c] # "parked" => c \in DOMAIN table /\ c \notin todo
        /\ \A c \in Cpu : pc[c] \notin {"init_bsp", "parked", "load"} => loaded[c] = table[c]
        /\ \A c \in Cpu : pc[c] # "panic"

\* The low half is that of a counter between the two reads of the high half.
Measured ==
    \A c \in Cpu :
        /\ pc[c] \in {"low", "high"} =>
              reading[c].since <= counter /\ reading[c].high = reading[c].since \div LowTicks
        /\ pc[c] = "high" =>
              \E k \in Nat : reading[c].since <= k /\ k <= counter /\ reading[c].low = k % LowTicks
        /\ c \in timer =>
              /\ pc[c] \in Calibrated
              /\ reading[c].since <= reading[c].high * LowTicks + reading[c].low
              /\ reading[c].high * LowTicks + reading[c].low <= counter

BootInv ==
    /\ BootTyped
    /\ Started
    /\ SetUp
    /\ Listed
    /\ Measured
-----------------------------------------------------------------------------
LEMMA BootInit ==
    ASSUME Boot!BootAssumption, Boot!Init
    PROVE  BootInv
<1> USE DEF Boot!BootAssumption, Boot!Init, BootTyped
<1>1. BootTyped
  BY DEF Others, Early, BspPlaces, ApPlaces, Boot!NoReading
<1>2. Started /\ SetUp
  BY DEF Started, SetUp
<1>3. Listed /\ Measured
  BY DEF Listed, Measured, Others, Early
<1> QED
  BY <1>1, <1>2, <1>3 DEF BootInv

\* The value get_counter puts together: when the high half is the same before
\* and after the low half is read, both are halves of one value.
LEMMA HalvesAgree ==
    ASSUME NEW a \in Nat, NEW k \in Nat, NEW b \in Nat, NEW n \in Nat \ {0},
           a <= k, k <= b, a \div n = b \div n
    PROVE  (a \div n) * n + (k % n) = k
  OBVIOUS

LEMMA HalfIsNat ==
    ASSUME NEW a \in Nat, NEW n \in Nat \ {0}
    PROVE  a \div n \in Nat
  OBVIOUS

\* The boot CPU lists and starts the others while all of them are parked.
LEMMA BspInv ==
    ASSUME Boot!BootAssumption, BootInv, Boot!BspNext
    PROVE  BootInv'
<1> USE DEF Boot!BootAssumption, BootInv, BootTyped, Others, Early, BspPlaces, ApPlaces, Boot!Goto, Boot!boot, Boot!cpus, Boot!ready, Boot!flags, Boot!running, Boot!clock
<1>1. CASE Boot!init_bsp
  <2>1. BootTyped'
    BY <1>1 DEF Boot!init_bsp
  <2>2. Started'
    BY <1>1 DEF Started, Boot!init_bsp
  <2>3. SetUp'
    BY <1>1 DEF SetUp, Boot!init_bsp
  <2>4. Listed'
    BY <1>1 DEF Listed, Boot!IdsAgree, Boot!init_bsp
  <2>5. Measured'
    BY <1>1, Zenon DEF Measured, Calibrated, Boot!init_bsp
  <2> QED
    BY <2>1, <2>2, <2>3, <2>4, <2>5
<1>2. CASE Boot!load_idt(Bsp, "hpet")
  <2>1. BootTyped'
    BY <1>2 DEF Boot!load_idt
  <2>2. Started'
    BY <1>2 DEF Started, Boot!load_idt
  <2>3. SetUp'
    BY <1>2 DEF SetUp, Boot!load_idt
  <2>4. Listed'
    BY <1>2 DEF Listed, Boot!IdsAgree, Boot!load_idt
  <2>5. Measured'
    BY <1>2, Zenon DEF Measured, Calibrated, Boot!load_idt
  <2> QED
    BY <2>1, <2>2, <2>3, <2>4, <2>5
<1>3. CASE Boot!hpet_init_done
  <2>1. BootTyped'
    BY <1>3 DEF Boot!hpet_init_done
  <2>2. Started'
    BY <1>3 DEF Started, Boot!hpet_init_done
  <2>3. SetUp'
    BY <1>3 DEF SetUp, Boot!hpet_init_done
  <2>4. Listed'
    BY <1>3 DEF Listed, Boot!IdsAgree, Boot!hpet_init_done
  <2>5. Measured'
    BY <1>3, Zenon DEF Measured, Calibrated, Boot!hpet_init_done
  <2> QED
    BY <2>1, <2>2, <2>3, <2>4, <2>5
<1>4. CASE Boot!init_ap_begins
  <2>1. BootTyped'
    BY <1>4 DEF Boot!init_ap_begins
  <2>2. Started'
    BY <1>4 DEF Started, Boot!init_ap_begins
  <2>3. SetUp'
    BY <1>4 DEF SetUp, Boot!init_ap_begins
  <2>4. Listed'
    BY <1>4 DEF Listed, Boot!IdsAgree, Boot!init_ap_begins
  <2>5. Measured'
    BY <1>4, Zenon DEF Measured, Calibrated, Boot!init_ap_begins
  <2> QED
    BY <2>1, <2>2, <2>3, <2>4, <2>5
<1>5. ASSUME NEW d \in Cpu, Boot!init_ap(d)
      PROVE  BootInv'
  <2>1. BootTyped'
    BY <1>5, SMTT(30) DEF Boot!init_ap, Boot!Starts
  <2>2. Started'
    BY <1>5 DEF Started, Boot!init_ap, Boot!Starts
  <2>3. SetUp'
    BY <1>5 DEF SetUp, Boot!init_ap, Boot!Starts
  <2>4. Listed'
    BY <1>5 DEF Listed, Boot!IdsAgree, Boot!init_ap, Boot!Starts
  <2>5. Measured'
    BY <1>5 DEF Measured, Calibrated, Boot!init_ap, Boot!Starts
  <2> QED
    BY <2>1, <2>2, <2>3, <2>4, <2>5
<1>6. CASE Boot!init_ap_returns
  <2>1. BootTyped'
    BY <1>6 DEF Boot!init_ap_returns
  <2>2. Started'
    BY <1>6 DEF Started, Boot!init_ap_returns
  <2>3. SetUp'
    BY <1>6 DEF SetUp, Boot!init_ap_returns
  <2>4. Listed'
    BY <1>6 DEF Listed, Boot!IdsAgree, Boot!init_ap_returns
  <2>5. Measured'
    BY <1>6, Zenon DEF Measured, Calibrated, Boot!init_ap_returns
  <2> QED
    BY <2>1, <2>2, <2>3, <2>4, <2>5
<1>7. CASE Boot!bsp_user_init
  <2>1. BootTyped'
    BY <1>7 DEF Boot!bsp_user_init, Boot!BspSet
  <2>2. Started'
    BY <1>7 DEF Started, Boot!bsp_user_init, Boot!BspSet
  <2>3. SetUp'
    BY <1>7 DEF SetUp, Boot!bsp_user_init, Boot!BspSet
  <2>4. Listed'
    BY <1>7 DEF Listed, Boot!IdsAgree, Boot!bsp_user_init, Boot!BspSet
  <2>5. Measured'
    BY <1>7, Zenon DEF Measured, Calibrated, Boot!bsp_user_init, Boot!BspSet
  <2> QED
    BY <2>1, <2>2, <2>3, <2>4, <2>5
<1>8. CASE Boot!scheduler_init_done
  <2>1. BootTyped'
    BY <1>8 DEF Boot!scheduler_init_done, Boot!BspSet
  <2>2. Started'
    BY <1>8 DEF Started, Boot!scheduler_init_done, Boot!BspSet
  <2>3. SetUp'
    BY <1>8 DEF SetUp, Boot!scheduler_init_done, Boot!BspSet
  <2>4. Listed'
    BY <1>8 DEF Listed, Boot!IdsAgree, Boot!scheduler_init_done, Boot!BspSet
  <2>5. Measured'
    BY <1>8, Zenon DEF Measured, Calibrated, Boot!scheduler_init_done, Boot!BspSet
  <2> QED
    BY <2>1, <2>2, <2>3, <2>4, <2>5
<1>9. CASE Boot!Start
  <2>1. BootTyped'
    BY <1>9 DEF Boot!Start
  <2>2. Started'
    BY <1>9 DEF Started, Boot!Start
  <2>3. SetUp'
    BY <1>9 DEF SetUp, Boot!Start
  <2>4. Listed'
    BY <1>9 DEF Listed, Boot!IdsAgree, Boot!Start
  <2>5. Measured'
    BY <1>9, Zenon DEF Measured, Calibrated, Boot!Start
  <2> QED
    BY <2>1, <2>2, <2>3, <2>4, <2>5
<1> QED
  BY <1>1, <1>2, <1>3, <1>4, <1>5, <1>6, <1>7, <1>8, <1>9, Zenon DEF Boot!BspNext

\* A CPU that runs ap_entry is listed, and its entry is settled.
LEMMA ApInv ==
    ASSUME Boot!BootAssumption, BootInv, NEW d \in Cpu, Boot!ApNext(d)
    PROVE  BootInv'
<1> USE DEF Boot!BootAssumption, BootInv, BootTyped, Others, Early, BspPlaces, ApPlaces, Boot!Goto, Boot!boot, Boot!cpus, Boot!ready, Boot!flags, Boot!running, Boot!clock
<1>1. CASE Boot!ap_load(d)
  <2>1. BootTyped'
    BY <1>1 DEF Boot!ap_load
  <2>2. Started'
    BY <1>1 DEF Started, Boot!ap_load
  <2>3. SetUp'
    BY <1>1 DEF SetUp, Boot!ap_load
  <2>4. Listed'
    BY <1>1 DEF Listed, Boot!IdsAgree, Boot!ap_load
  <2>5. Measured'
    BY <1>1, Zenon DEF Measured, Calibrated, Boot!ap_load
  <2> QED
    BY <2>1, <2>2, <2>3, <2>4, <2>5
<1>2. CASE d # Bsp /\ Boot!load_idt(d, "wait_hpet")
  <2>1. BootTyped'
    BY <1>2 DEF Boot!load_idt
  <2>2. Started'
    BY <1>2 DEF Started, Boot!load_idt
  <2>3. SetUp'
    BY <1>2 DEF SetUp, Boot!load_idt
  <2>4. Listed'
    BY <1>2 DEF Listed, Boot!IdsAgree, Boot!load_idt
  <2>5. Measured'
    BY <1>2, Zenon DEF Measured, Calibrated, Boot!load_idt
  <2> QED
    BY <2>1, <2>2, <2>3, <2>4, <2>5
<1>3. CASE Boot!ap_waits(d)
  <2>1. BootTyped'
    BY <1>3 DEF Boot!ap_waits
  <2>2. Started'
    BY <1>3 DEF Started, Boot!ap_waits
  <2>3. SetUp'
    BY <1>3 DEF SetUp, Boot!ap_waits
  <2>4. Listed'
    BY <1>3 DEF Listed, Boot!IdsAgree, Boot!ap_waits
  <2>5. Measured'
    BY <1>3, ZenonT(30) DEF Measured, Calibrated, Boot!ap_waits
  <2> QED
    BY <2>1, <2>2, <2>3, <2>4, <2>5
<1>4. CASE Boot!ap_user_init(d)
  <2>1. BootTyped'
    BY <1>4 DEF Boot!ap_user_init
  <2>2. Started'
    BY <1>4 DEF Started, Boot!ap_user_init
  <2>3. SetUp'
    BY <1>4 DEF SetUp, Boot!ap_user_init
  <2>4. Listed'
    BY <1>4 DEF Listed, Boot!IdsAgree, Boot!ap_user_init
  <2>5. Measured'
    BY <1>4 DEF Measured, Calibrated, Boot!ap_user_init
  <2> QED
    BY <2>1, <2>2, <2>3, <2>4, <2>5
<1>5. CASE Boot!ap_runs(d)
  <2>1. BootTyped'
    BY <1>5 DEF Boot!ap_runs
  <2>2. Started'
    BY <1>5 DEF Started, Boot!ap_runs
  <2>3. SetUp'
    BY <1>5 DEF SetUp, Boot!ap_runs
  <2>4. Listed'
    BY <1>5 DEF Listed, Boot!IdsAgree, Boot!ap_runs
  <2>5. Measured'
    BY <1>5 DEF Measured, Calibrated, Boot!ap_runs
  <2> QED
    BY <2>1, <2>2, <2>3, <2>4, <2>5
<1> QED
  BY <1>1, <1>2, <1>3, <1>4, <1>5 DEF Boot!ApNext

LEMMA ReadHighMeasured ==
    ASSUME Boot!BootAssumption, BootInv, NEW d \in Cpu, Boot!read_high(d)
    PROVE  Measured'
<1>1. /\ pc[d] = "calibrate" /\ pc'[d] = "low"
      /\ reading'[d] = [high |-> counter \div LowTicks, low |-> 0, since |-> counter]
      /\ \A e \in Cpu \ {d} : pc'[e] = pc[e] /\ reading'[e] = reading[e]
      /\ UNCHANGED <<counter, timer>>
  BY Zenon DEF BootInv, BootTyped, Boot!read_high, Boot!Goto, Boot!Reads, Boot!High
<1>2. d \notin timer /\ counter \in Nat
  BY <1>1 DEF BootInv, BootTyped, Measured, Calibrated
<1>3. /\ reading'[d].since = counter /\ reading'[d].high = counter \div LowTicks
      /\ pc'[d] # "high" /\ d \notin timer'
  <2>1. reading'[d].since = counter /\ reading'[d].high = counter \div LowTicks
    BY <1>1
  <2>2. pc'[d] = "low" /\ d \notin timer'
    BY <1>1, <1>2, Zenon
  <2>3. "low" # "high"
    OBVIOUS
  <2> QED
    BY <2>1, <2>2, <2>3, Zenon
<1>4. /\ reading'[d].since <= counter' /\ reading'[d].high = reading'[d].since \div LowTicks
  BY <1>1, <1>2, <1>3
<1> QED
  BY <1>1, <1>3, <1>4 DEF BootInv, Measured

LEMMA ReadAgainMeasured ==
    ASSUME Boot!BootAssumption, BootInv, NEW d \in Cpu, Boot!read_high_again(d)
    PROVE  Measured'
<1>1. /\ pc[d] = "high"
      /\ UNCHANGED <<counter, reading>>
      /\ \A e \in Cpu \ {d} : pc'[e] = pc[e]
      /\ \/ pc'[d] = "calibrate" /\ timer' = timer
         \/ /\ counter \div LowTicks = reading[d].high
            /\ pc'[d] \in Calibrated /\ timer' = timer \cup {d}
  BY DEF BootInv, BootTyped, Boot!read_high_again, Boot!Goto, Boot!Reads, Boot!High, Calibrated
<1>2. /\ d \notin timer
      /\ counter \in Nat /\ LowTicks \in Nat \ {0} /\ reading[d].since \in Nat
      /\ reading[d].high = reading[d].since \div LowTicks
  BY <1>1 DEF Boot!BootAssumption, BootInv, BootTyped, Measured, Calibrated
<1>3. PICK k \in Nat : reading[d].since <= k /\ k <= counter /\ reading[d].low = k % LowTicks
  BY <1>1, Zenon DEF BootInv, Measured
<1>4. ASSUME counter \div LowTicks = reading[d].high
      PROVE  reading[d].high * LowTicks + reading[d].low = k
  <2>1. reading[d].since \div LowTicks = counter \div LowTicks
    BY <1>2, <1>4
  <2>2. (reading[d].since \div LowTicks) * LowTicks + (k % LowTicks) = k
    BY <1>2, <1>3, <2>1, HalvesAgree, Zenon
  <2> QED
    BY <1>2, <1>3, <2>2, Zenon
<1>5. /\ pc'[d] \notin {"low", "high"}
      /\ d \in timer' => /\ pc'[d] \in Calibrated
                         /\ reading[d].since <= reading[d].high * LowTicks + reading[d].low
                         /\ reading[d].high * LowTicks + reading[d].low <= counter
  BY <1>1, <1>2, <1>3, <1>4 DEF Calibrated
<1> QED
  BY <1>1, <1>5 DEF BootInv, Measured

\* The counter only grows, and a CPU's reading is settled when its timer runs.
LEMMA ClockInv ==
    ASSUME Boot!BootAssumption, BootInv, Boot!HpetTicks \/ \E d \in Cpu : Boot!Calibrates(d)
    PROVE  BootInv'
<1> USE DEF Boot!BootAssumption, BootInv, BootTyped, Others, Early, BspPlaces, ApPlaces, Boot!Goto, Boot!boot, Boot!cpus, Boot!ready, Boot!flags, Boot!running, Boot!clock
<1>1. CASE Boot!HpetTicks
  <2>1. BootTyped'
    BY <1>1 DEF Boot!HpetTicks
  <2>2. Started'
    BY <1>1 DEF Started, Boot!HpetTicks
  <2>3. SetUp'
    BY <1>1 DEF SetUp, Boot!HpetTicks
  <2>4. Listed'
    BY <1>1 DEF Listed, Boot!IdsAgree, Boot!HpetTicks
  <2>5. Measured'
    BY <1>1 DEF Measured, Calibrated, Boot!HpetTicks
  <2> QED
    BY <2>1, <2>2, <2>3, <2>4, <2>5
<1>2. ASSUME NEW d \in Cpu, Boot!read_high(d)
      PROVE  BootInv'
  <2>1. BootTyped'
    <3>1. counter \div LowTicks \in Nat
      BY HalfIsNat, Zenon
    <3>2. reading' \in [Cpu -> [high : Nat, low : Nat, since : Nat]]
      BY <1>2, <3>1, Zenon DEF Boot!read_high, Boot!High
    <3> QED
      BY <1>2, <3>2, Zenon DEF Boot!read_high, Boot!Reads
  <2>2. Started'
    BY <1>2, Zenon DEF Started, Boot!read_high, Boot!Reads, Boot!High
  <2>3. SetUp'
    BY <1>2 DEF SetUp, Boot!read_high, Boot!Reads, Boot!High
  <2>4. Listed'
    BY <1>2 DEF Listed, Boot!IdsAgree, Boot!read_high, Boot!Reads, Boot!High
  <2>5. Measured'
    BY <1>2, ReadHighMeasured
  <2> QED
    BY <2>1, <2>2, <2>3, <2>4, <2>5
<1>3. ASSUME NEW d \in Cpu, Boot!read_low(d)
      PROVE  BootInv'
  <2>1. BootTyped'
    BY <1>3 DEF Boot!read_low, Boot!Reads
  <2>2. Started'
    BY <1>3 DEF Started, Boot!read_low, Boot!Reads
  <2>3. SetUp'
    BY <1>3 DEF SetUp, Boot!read_low, Boot!Reads
  <2>4. Listed'
    BY <1>3 DEF Listed, Boot!IdsAgree, Boot!read_low, Boot!Reads
  <2>5. Measured'
    BY <1>3 DEF Measured, Calibrated, Boot!read_low, Boot!Reads
  <2> QED
    BY <2>1, <2>2, <2>3, <2>4, <2>5
<1>4. ASSUME NEW d \in Cpu, Boot!read_high_again(d)
      PROVE  BootInv'
  <2>1. BootTyped'
    BY <1>4, SMTT(30) DEF Boot!read_high_again, Boot!Reads, Boot!High
  <2>2. Started'
    BY <1>4 DEF Started, Boot!read_high_again, Boot!Reads, Boot!High
  <2>3. SetUp'
    BY <1>4 DEF SetUp, Boot!read_high_again, Boot!Reads, Boot!High
  <2>4. Listed'
    BY <1>4 DEF Listed, Boot!IdsAgree, Boot!read_high_again, Boot!Reads, Boot!High
  <2>5. Measured'
    BY <1>4, ReadAgainMeasured
  <2> QED
    BY <2>1, <2>2, <2>3, <2>4, <2>5
<1> QED
  BY <1>1, <1>2, <1>3, <1>4, Zenon DEF Boot!Calibrates

\* SCHEDULER is filled in, by a thread or a handler, from a table that is complete.
LEMMA SchedulerInv ==
    ASSUME Boot!BootAssumption, BootInv, Boot!new_kernel_thread \/ Boot!thread_made_scheduler
                   \/ \E d \in Cpu : Boot!timer_interrupt(d) \/ Boot!Handler(d)
    PROVE  BootInv'
<1> USE DEF Boot!BootAssumption, BootInv, BootTyped, Others, Early, BspPlaces, ApPlaces, Boot!Goto, Boot!boot, Boot!cpus, Boot!ready, Boot!flags, Boot!running, Boot!clock
<1>1. CASE Boot!new_kernel_thread
  <2>1. BootTyped'
    BY <1>1 DEF Boot!new_kernel_thread
  <2>2. Started'
    BY <1>1 DEF Started, Boot!new_kernel_thread
  <2>3. SetUp' /\ Listed' /\ Measured'
    BY <1>1 DEF SetUp, Listed, Boot!IdsAgree, Measured, Boot!new_kernel_thread
  <2> QED
    BY <2>1, <2>2, <2>3
<1>2. CASE Boot!thread_made_scheduler
  <2>1. BootTyped'
    BY <1>2, Zenon DEF Boot!thread_made_scheduler
  <2>2. Started'
    BY <1>2 DEF Started, Boot!thread_made_scheduler
  <2>3. SetUp' /\ Listed' /\ Measured'
    BY <1>2 DEF SetUp, Listed, Boot!IdsAgree, Measured, Boot!thread_made_scheduler
  <2> QED
    BY <2>1, <2>2, <2>3
<1>3. ASSUME NEW d \in Cpu, Boot!timer_interrupt(d)
      PROVE  BootInv'
  <2>1. BootTyped'
    BY <1>3 DEF Boot!timer_interrupt
  <2>2. Started'
    BY <1>3 DEF Started, Boot!timer_interrupt
  <2>3. SetUp' /\ Listed' /\ Measured'
    BY <1>3, ZenonT(30) DEF SetUp, Listed, Boot!IdsAgree, Measured, Boot!timer_interrupt
  <2> QED
    BY <2>1, <2>2, <2>3
<1>4. ASSUME NEW d \in Cpu, Boot!handler_makes_scheduler(d)
      PROVE  BootInv'
  <2>1. BootTyped'
    <3>1. /\ \/ lazy' = [lazy EXCEPT !.state = "handler", !.by = d]
             \/ lazy' = [lazy EXCEPT !.state = "done", !.known = DOMAIN table]
          /\ UNCHANGED <<pc, Boot!cpus, Boot!ready, on, tick, Boot!clock>>
      BY <1>4 DEF Boot!handler_makes_scheduler
    <3>2. lazy' \in [state : {"none", "thread", "handler", "done"}, by : Cpu, known : SUBSET Cpu]
      <4>1. CASE lazy' = [lazy EXCEPT !.state = "handler", !.by = d]
        BY <4>1, Zenon
      <4>2. CASE lazy' = [lazy EXCEPT !.state = "done", !.known = DOMAIN table]
        BY <4>2, Zenon
      <4> QED
        BY <3>1, <4>1, <4>2
    <3> QED
      BY <3>1, <3>2
  <2>2. Started'
    BY <1>4, Zenon DEF Started, Boot!handler_makes_scheduler
  <2>3. SetUp' /\ Listed' /\ Measured'
    BY <1>4 DEF SetUp, Listed, Boot!IdsAgree, Measured, Boot!handler_makes_scheduler
  <2> QED
    BY <2>1, <2>2, <2>3
<1>5. ASSUME NEW d \in Cpu, Boot!schedule(d)
      PROVE  BootInv'
  <2>1. BootTyped'
    BY <1>5, Zenon DEF Boot!schedule
  <2>2. Started'
    BY <1>5 DEF Started, Boot!schedule
  <2>3. SetUp'
    BY <1>5 DEF SetUp, Boot!schedule
  <2>4. Listed'
    <3>1. Boot!IdsAgree => d \in DOMAIN table
      BY <1>5 DEF Boot!schedule, Started, Listed
    <3>2. Boot!IdsAgree => pc' = pc
      BY <1>5, <3>1 DEF Boot!schedule, Started
    <3> QED
      BY <1>5, <3>2 DEF Boot!schedule, Listed, Boot!IdsAgree
  <2>5. Measured'
    BY <1>5, ZenonT(30) DEF Measured, Calibrated, Boot!schedule
  <2> QED
    BY <2>1, <2>2, <2>3, <2>4, <2>5
<1> QED
  BY <1>1, <1>2, <1>3, <1>4, <1>5, Zenon DEF Boot!Handler
-----------------------------------------------------------------------------
LEMMA BootNext ==
    ASSUME Boot!BootAssumption, BootInv, [Boot!Next]_(Boot!vars)
    PROVE  BootInv'
<1>1. CASE UNCHANGED Boot!vars
  BY <1>1, Zenon DEF Boot!vars, Boot!boot, Boot!cpus, Boot!ready, Boot!flags, Boot!running, Boot!clock,
              BootInv, BootTyped, Started, SetUp, Listed, Boot!IdsAgree, Measured
<1> QED
  BY <1>1, BspInv, ApInv, ClockInv, SchedulerInv DEF Boot!Next

\* Whatever the order in which the CPUs come up, the invariant of the boot holds.
THEOREM BootSound == Boot!BootAssumption => (Boot!Spec => []BootInv)
<1> SUFFICES ASSUME Boot!BootAssumption PROVE Boot!Spec => []BootInv
  OBVIOUS
<1>1. Boot!Init => BootInv
  BY BootInit
<1>2. BootInv /\ [Boot!Next]_(Boot!vars) => BootInv'
  BY BootNext
<1> QED
  BY <1>1, <1>2, PTL DEF Boot!Spec

\* On a machine with any number of CPUs, the timer handler finds its CPU in CPUS
\* and in the scheduler and runs on tables that are its own, and no CPU panics
\* on its way there, when the processor ids tell the BSP from the others.
THEOREM HandlerFindsCpu == Boot!BootAssumption => (Boot!Spec => []Boot!TickFindsItsCpu)
<1> SUFFICES ASSUME Boot!BootAssumption PROVE Boot!Spec => []Boot!TickFindsItsCpu
  OBVIOUS
<1>1. BootInv => Boot!TickFindsItsCpu
  BY Zenon DEF Boot!BootAssumption, BootInv, BootTyped, Started, SetUp, Listed, Boot!TickFindsItsCpu, Others
<1> QED
  BY <1>1, BootSound, PTL

\* get_counter returns a value that the counter had while it was read, whatever
\* the width of the halves and however often the low one overflows.
THEOREM CounterWhole == Boot!BootAssumption => (Boot!Spec => []Boot!CounterNotTorn)
<1> SUFFICES ASSUME Boot!BootAssumption PROVE Boot!Spec => []Boot!CounterNotTorn
  OBVIOUS
<1>1. BootInv => Boot!CounterNotTorn
  BY DEF BootInv, BootTyped, Measured, Boot!CounterNotTorn
<1> QED
  BY <1>1, BootSound, PTL
=============================================================================
