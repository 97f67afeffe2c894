---------------------------- MODULE PciBar_proofs ----------------------------
(***************************************************************************)
(* Proofs about the way from read_config, write_config and cam_offset to   *)
(* what pci_bar_init records.  For every function and register, the        *)
(* hardware finds behind the word on the address port, and behind          *)
(* cam_offset, the register that was meant.  For every function whose      *)
(* registers are wired the way PCI asks for, each step of pci_bar_init     *)
(* keeps SizingInv, from which it follows that every register is left as   *)
(* firmware set it and that what bar_init stores is what the hardware has. *)
(***************************************************************************)
EXTENDS PciBar, TLAPS

\* The digits of a number, in the bases of the address fields.
LEMMA Digits8 ==
    ASSUME NEW p \in Int, NEW u \in Int, 0 <= u, u < 8
    PROVE  (p * 8 + u) \div 8 = p /\ (p * 8 + u) % 8 = u
  BY SMT

LEMMA Digits32 ==
    ASSUME NEW p \in Int, NEW u \in Int, 0 <= u, u < 32
    PROVE  (p * 32 + u) \div 32 = p /\ (p * 32 + u) % 32 = u
  BY SMT

LEMMA Digits256 ==
    ASSUME NEW p \in Int, NEW u \in Int, 0 <= u, u < 256
    PROVE  (p * 256 + u) \div 256 = p /\ (p * 256 + u) % 256 = u
  BY SMT

LEMMA Digits4096 ==
    ASSUME NEW p \in Int, NEW u \in Int, 0 <= u, u < 4096
    PROVE  (p * 4096 + u) \div 4096 = p /\ (p * 4096 + u) % 4096 = u
  BY SMT

\* Dividing by a product of bases is dividing twice.
LEMMA Twice ==
    ASSUME NEW w \in Int
    PROVE  /\ w \div 2048 = (w \div 256) \div 8
           /\ w \div 65536 = ((w \div 256) \div 8) \div 32
           /\ w \div 32768 = (w \div 4096) \div 8
           /\ w \div 1048576 = ((w \div 4096) \div 8) \div 32
  BY SMT

\* The number of a function among all functions tells its parts.
LEMMA FunctionNumber ==
    ASSUME NEW b \in Int, NEW d \in Int, NEW f \in Int, NEW n \in Int,
           0 <= d, d < 32, 0 <= f, f < 8, n = (b * 32 + d) * 8 + f
    PROVE  n % 8 = f /\ (n \div 8) % 32 = d /\ (n \div 8) \div 32 = b
<1> DEFINE m == b * 32 + d
<1>1. m \in Int /\ m % 32 = d /\ m \div 32 = b
  BY Digits32
<1>2. n = m * 8 + f
  OBVIOUS
<1> HIDE DEF m
<1>3. n % 8 = f /\ n \div 8 = m
  BY <1>1, <1>2, Digits8
<1> QED
  BY ONLY <1>1, <1>3

LEMMA CamBound ==
    ASSUME NEW a \in Int, NEW d \in Int, NEW f \in Int, NEW u \in Int, NEW c \in Int, NEW e \in Int,
           c <= a, a <= e, 0 <= d, d < 32, 0 <= f, f < 8, 0 <= u, u <= 4092
    PROVE  (((a - c) * 32 + d) * 8 + f) * 4096 + u \in 0 .. (e - c + 1) * 1048576 - 4
  BY SMT

LEMMA Span ==
    ASSUME NEW r \in 0 .. ConfigSpan - 1
    PROVE  r \in Int /\ 0 <= r /\ r < 4096
<1>1. ConfigSpan = 4096
  BY DEF ConfigSpan
<1>2. r \in Int /\ 0 <= r /\ r <= ConfigSpan - 1
  BY <1>1
<1> QED
  BY ONLY <1>1, <1>2

LEMMA BdfParts ==
    ASSUME NEW a \in Bdf
    PROVE  /\ a.bus \in Int /\ a.device \in Int /\ a.function \in Int
           /\ 0 <= a.device /\ a.device < 32 /\ 0 <= a.function /\ a.function < 8
  BY DEF Bdf

LEMMA BdfIs ==
    ASSUME NEW a \in Bdf
    PROVE  a = [bus |-> a.bus, device |-> a.device, function |-> a.function]
  BY DEF Bdf

\* The word on the address port selects the function and the word of its first
\* 256 bytes that read_config and write_config were called for: no field
\* spills into another one.
THEOREM PortReachesRegister ==
    ASSUME NEW a \in Bdf, NEW r \in 0 .. 255
    PROVE  Selected(port_address(a, r)) = [bdf |-> a, register |-> (r \div 4) * 4]
<1> DEFINE b == a.bus  d == a.device  f == a.function
           u == (r \div 4) * 4
           n == (b * 32 + d) * 8 + f
           w == port_address(a, r)
<1>1. b \in Int /\ d \in Int /\ f \in Int /\ 0 <= d /\ d < 32 /\ 0 <= f /\ f < 8
  BY BdfParts
<1>2. u \in Int /\ 0 <= u /\ u < 256
  OBVIOUS
<1>3. w = b * 65536 + d * 2048 + f * 256 + u
  BY DEF port_address
<1>4. a = [bus |-> b, device |-> d, function |-> f]
  BY BdfIs
<1> HIDE DEF b, d, f, u, w
<1>5. n \in Int /\ w = n * 256 + u
  BY ONLY <1>1, <1>2, <1>3, SMT
<1>6. n % 8 = f /\ (n \div 8) % 32 = d /\ (n \div 8) \div 32 = b
  BY ONLY <1>1, <1>5, FunctionNumber
<1> HIDE DEF n
<1>7. w \in Int /\ w \div 256 = n /\ w % 256 = u
  BY ONLY <1>2, <1>5, Digits256
<1>8. w \div 65536 = b /\ (w \div 2048) % 32 = d /\ (w \div 256) % 8 = f
  BY ONLY <1>6, <1>7, Twice
<1> QED
  BY ONLY <1>4, <1>7, <1>8 DEF Selected, w, u

\* The offset that cam_offset computes is the place of the same register of the
\* same function in the window of a root, wherever its buses begin.
THEOREM WindowReachesRegister ==
    ASSUME NEW begin \in Int, NEW a \in Bdf, NEW r \in 0 .. ConfigSpan - 1
    PROVE  Windowed(begin, cam_offset(begin, a, r)) = [bdf |-> a, register |-> r]
<1> DEFINE b == a.bus  d == a.device  f == a.function
           c == b - begin
           n == (c * 32 + d) * 8 + f
           w == cam_offset(begin, a, r)
<1>1. b \in Int /\ d \in Int /\ f \in Int /\ 0 <= d /\ d < 32 /\ 0 <= f /\ f < 8
  BY BdfParts
<1>2. r \in Int /\ 0 <= r /\ r < 4096
  BY Span
<1>3. w = n * 4096 + r
  BY DEF cam_offset
<1>4. a = [bus |-> b, device |-> d, function |-> f]
  BY BdfIs
<1> HIDE DEF b, d, f, w
<1>5. c \in Int /\ n \in Int /\ begin + c = b
  BY ONLY <1>1, begin \in Int, SMT
<1> HIDE DEF c
<1>6. n % 8 = f /\ (n \div 8) % 32 = d /\ (n \div 8) \div 32 = c
  BY ONLY <1>1, <1>5, FunctionNumber
<1> HIDE DEF n
<1>7. w \in Int /\ w \div 4096 = n /\ w % 4096 = r
  BY ONLY <1>2, <1>3, <1>5, Digits4096
<1>8. w \div 1048576 = c /\ (w \div 32768) % 32 = d /\ (w \div 4096) % 8 = f
  BY ONLY <1>6, <1>7, Twice
<1>9. begin + w \div 1048576 = b
  BY ONLY <1>5, <1>8
<1> QED
  BY ONLY <1>4, <1>7, <1>8, <1>9 DEF Windowed, BusSpan, ConfigSpan, w

\* Every access through the window of a root (PciRoot::read_config and
\* write_config, "within the MMIO range of the CAM") is to the configuration
\* space of the root's buses.
THEOREM WindowKept ==
    ASSUME NEW begin \in Int, NEW end \in Int, NEW a \in Bdf, NEW r \in 0 .. ConfigSpan - 1,
           begin <= a.bus, a.bus <= end, r % 4 = 0
    PROVE  cam_offset(begin, a, r) \in 0 .. (end - begin + 1) * BusSpan - 4
<1>1. r \in Int /\ 0 <= r /\ r <= 4092
  <2>1. r \in Int /\ 0 <= r /\ r < 4096
    BY Span
  <2> QED
    BY ONLY <2>1, r % 4 = 0
<1>2. (((a.bus - begin) * 32 + a.device) * 8 + a.function) * 4096 + r
        \in 0 .. (end - begin + 1) * 1048576 - 4
  BY ONLY <1>1, BdfParts, CamBound, a \in Bdf, begin \in Int, end \in Int, begin <= a.bus, a.bus <= end
<1> QED
  BY ONLY <1>2, SMT DEF cam_offset, BusSpan

-----------------------------------------------------------------------------
\* The constants, as far as PCI fixes them: registers are words of a multiple of
\* 16, and their offsets are below 256.
Widths ==
    /\ Modulus \in Nat /\ Modulus > 16 /\ Modulus % 16 = 0
    /\ BarCount \in 1 .. 6
    /\ Page \in Nat \ {0}

\* The functions have addresses, and are wired the way PCI asks for.
HardwareWired ==
    /\ DOMAIN device \subseteq Bdf
    /\ \A f \in DOMAIN device :
          /\ Wired(device[f])
          /\ \A i \in Index : device[f][i].size >= Page => device[f][i].size % Page = 0

\* What is kept per function or per register has an entry for each.
Tables ==
    /\ DOMAIN regs = DOMAIN device
    /\ \A f \in DOMAIN device : DOMAIN regs[f] = Index
    /\ DOMAIN command = DOMAIN device
    /\ DOMAIN standard_device_bar = DOMAIN device
    /\ DOMAIN result = DOMAIN device
    /\ DOMAIN device_bar = Index

\* Where pci_bar_init is.
Placed ==
    /\ stage \in {"idle", "read", "ones", "mask", "restore", "top"}
    /\ sizing \in Bdf
    /\ bar_index \in 0 .. BarCount
    /\ bar_index_ignore \in -1 .. bar_index
    /\ stage # "idle" => sizing \in DOMAIN device
    /\ stage \in {"ones", "mask", "restore", "top"} =>
          bar_index < BarCount /\ bar_index_ignore < bar_index
    /\ stage = "top" => bar_index < BarCount - 1

\* One register at a time holds what the ones written to it left there, and
\* what it held before is remembered.
Remembered ==
    ~divided =>
        /\ \A f \in DOMAIN device : \A i \in Index :
              regs[f][i] = IF stage \in {"mask", "restore"} /\ f = sizing /\ i = bar_index
                           THEN Take(device[f], i, Modulus - 1)
                           ELSE Assigned(device[f], i)
        /\ stage \in {"ones", "mask", "restore", "top"} =>
              bar_orig = Assigned(device[sizing], bar_index)
        /\ stage \in {"restore", "top"} =>
              size_mask = Take(device[sizing], bar_index, Modulus - 1)

\* BarRight, with the pages that are mapped as a parameter.
Right(hw, bar, pages) ==
    /\ hw.kind \in {"memory", "memory64"} =>
          /\ bar = [kind |-> "memory", size |-> hw.size, address |-> hw.base,
                    type |-> TypeOf(hw.flags), prefetchable |-> hw.flags \div 8 = 1]
          /\ hw.size >= Page => \A b \in 0 .. hw.size - 1 : (hw.base + b) \div Page \in pages
    /\ hw.kind = "io" => IoBarRight(hw, bar)
    /\ hw.kind \in {"none", "upper"} => bar = Unused

\* The registers that pci_bar_init is through with are recorded right, the
\* others not at all, and it is about to ignore exactly an upper half.
SoFar ==
    ~divided /\ stage # "idle" /\ Sizable(sizing) =>
        /\ \A i \in Index :
              IF i < bar_index THEN Right(device[sizing][i], device_bar[i], mapped)
              ELSE device_bar[i] = Unused
        /\ bar_index < BarCount =>
              (device[sizing][bar_index].kind = "upper" <=> bar_index = bar_index_ignore)
        /\ stage = "top" => device[sizing][bar_index].kind = "memory64"

\* What bar_init has stored is right, and an error has its reason.
Stored ==
    ~divided => \A f \in DOMAIN device : Sizable(f) =>
        /\ result[f] = "ok" =>
              \A i \in Index : Right(device[f][i], standard_device_bar[f][i], mapped)
        /\ result[f] = "error" => \E i \in Index : Illegal(device[f], i)

\* The driver writes the address port for an access that it goes on to make.
Addressed ==
    "driver" \in selecting /\ stage # "idle" => bar_index < BarCount /\ bar_index # bar_index_ignore

\* The inductive invariant of pci_bar_init.
SizingInv ==
    /\ HardwareWired /\ Tables /\ Placed /\ Addressed
    /\ Remembered /\ SoFar /\ Stored

\* Nobody has come between address and data of an access, or is about to.
Undisturbed ==
    /\ ~divided
    /\ "driver" \in selecting /\ stage # "idle" => port = port_address(sizing, Wanted)

\* What a step of pci_bar_init leaves alone, and what the others may rely on.
Effect ==
    /\ UNCHANGED <<device, sizing>>
    /\ ~divided' => ~divided /\ command' = command
    /\ stage' = "idle" => result'[sizing] \in {"ok", "error"} /\ "driver" \notin selecting'
    /\ Undisturbed => Undisturbed'

-----------------------------------------------------------------------------
\* Rounding down to a multiple drops what is below it.
LEMMA RoundDown ==
    ASSUME NEW x \in Int, NEW s \in Nat \ {0}, NEW f \in Nat, x % s = 0, f < s
    PROVE  ((x + f) \div s) * s = x
<1> DEFINE k == x \div s
<1>1. k \in Int /\ x = k * s
  OBVIOUS
<1>2. k * s <= x + f /\ x + f < (k + 1) * s
  BY <1>1
<1>3. (x + f) \div s = k
  BY <1>1, <1>2
<1> QED
  BY <1>1, <1>3

LEMMA MultipleMod ==
    ASSUME NEW n \in Int, NEW s \in Nat \ {0}
    PROVE  (n * s) % s = 0
<1>1. n * s <= n * s /\ n * s < (n + 1) * s /\ n * s \in Int
  OBVIOUS
<1>2. (n * s) \div s = n
  BY <1>1
<1> QED
  BY <1>1, <1>2

LEMMA Regroup ==
    ASSUME NEW k \in Int, NEW q \in Int, NEW j \in Int, NEW s \in Int
    PROVE  k * s - q * (j * s) = (k - q * j) * s
OBVIOUS

\* What is left of a multiple of the size below 2^32 is a multiple of it.
LEMMA LowPart ==
    ASSUME NEW b \in Nat, NEW s \in Nat \ {0}, NEW m \in Nat \ {0}, b % s = 0, m % s = 0
    PROVE  (b % m) % s = 0
<1> DEFINE k == b \div s  j == m \div s  q == b \div m  r == b % m
<1>1. k \in Int /\ b = k * s /\ j \in Int /\ m = j * s /\ q \in Int /\ r \in Int
  OBVIOUS
<1>2. b = q * m + r
  OBVIOUS
<1> HIDE DEF k, j, q, r
<1>3. r = k * s - q * (j * s)
  BY <1>1, <1>2
<1>4. r = (k - q * j) * s /\ k - q * j \in Int
  BY <1>1, <1>3, Regroup
<1>5. r % s = 0
  BY <1>4, MultipleMod
<1> QED
  BY <1>5 DEF r

\* Ones written to a register come back as 2^32 less the size.
LEMMA OnesKept ==
    ASSUME NEW s \in Nat \ {0}, NEW m \in Nat \ {0}, m % s = 0
    PROVE  ((m - 1) \div s) * s = m - s
<1> DEFINE j == m \div s
<1>1. j \in Int /\ m = j * s
  OBVIOUS
<1>2. (j - 1) * s <= m - 1 /\ m - 1 < ((j - 1) + 1) * s
  BY <1>1
<1>3. (m - 1) \div s = j - 1
  BY <1>1, <1>2
<1> QED
  BY <1>1, <1>3

\* A multiple of a multiple of 2^32 is one, and its upper half is a multiple of
\* the upper half of the size.
LEMMA HighPart ==
    ASSUME NEW b \in Nat, NEW s \in Nat \ {0}, NEW m \in Nat \ {0}, b % s = 0, s % m = 0
    PROVE  /\ b % m = 0
           /\ s \div m \in Nat \ {0}
           /\ (b \div m) % (s \div m) = 0
<1> DEFINE k == b \div s  j == s \div m
<1>1. k \in Int /\ b = k * s /\ j \in Int /\ s = j * m
  OBVIOUS
<1>2. j > 0
  BY <1>1
<1> HIDE DEF k, j
<1>3. b = (k * j) * m /\ k * j \in Int
  BY <1>1
<1>4. b % m = 0
  BY <1>3, MultipleMod
<1>5. b \div m = k * j
  <2> DEFINE n == k * j
  <2>1. n \in Int /\ b = n * m
    BY <1>3
  <2> HIDE DEF n
  <2>2. n * m <= b /\ b < (n + 1) * m
    BY <2>1
  <2>3. b \div m = n
    BY <2>1, <2>2
  <2> QED
    BY <2>3 DEF n
<1>6. k \in Int /\ j \in Nat \ {0}
  BY <1>1, <1>2
<1>7. (k * j) % j = 0
  BY <1>6, MultipleMod
<1> QED
  BY <1>4, <1>5, <1>6, <1>7 DEF j

\* The word size of the registers, and which registers there are.
LEMMA Sizes ==
    ASSUME Widths
    PROVE  /\ Modulus \in Nat \ {0} /\ Modulus > 16 /\ Modulus % 16 = 0
           /\ BarCount \in 1 .. 6 /\ Index = 0 .. BarCount - 1
           /\ Page \in Nat \ {0}
BY DEF Widths, Index

Hardware ==
    [kind : {"none", "io", "memory", "memory64", "upper"}, size : Nat, base : Nat, flags : 0 .. 15]

\* What a register of a wired function has behind it.
LEMMA WiredAt ==
    ASSUME NEW d, Wired(d), NEW i \in Index
    PROVE  /\ d[i] \in Hardware
           /\ (d[i].kind = "upper") <=> (i > 0 /\ d[i - 1].kind = "memory64")
           /\ d[i].kind \in {"none", "upper"} => d[i].size = 0
           /\ d[i].kind \in {"io", "memory", "memory64"} => Decodes(d[i])
BY DEF Wired, Hardware

LEMMA HardwareFields ==
    ASSUME NEW hw \in Hardware
    PROVE  /\ hw.kind \in {"none", "io", "memory", "memory64", "upper"}
           /\ hw.size \in Nat /\ hw.base \in Nat /\ hw.flags \in 0 .. 15
BY DEF Hardware

\* The flags lie below the size.
LEMMA FlagsBelowSize ==
    ASSUME NEW hw \in Hardware, hw.kind \in {"io", "memory", "memory64"}, Decodes(hw)
    PROVE  hw.size \in Nat \ {0} /\ hw.flags \in Nat /\ hw.flags < hw.size
<1>1. hw.size \in Nat \ {0} /\ hw.flags \in 0 .. 15
  BY HardwareFields DEF Decodes
<1>2. CASE hw.kind = "io"
  BY <1>1, <1>2 DEF Decodes
<1>3. CASE hw.kind \in {"memory", "memory64"}
  <2>1. hw.size % 16 = 0
    BY <1>3 DEF Decodes, IsMemory
  <2> DEFINE n == hw.size
  <2>2. n \in Nat \ {0} /\ n % 16 = 0
    BY <1>1, <2>1
  <2> HIDE DEF n
  <2>3. n >= 16
    BY <2>2
  <2> QED
    BY <1>1, <2>3 DEF n
<1> QED
  BY <1>1, <1>2, <1>3

\* What firmware assigned is what the register gives back after a write of it.
LEMMA TakeAssigned ==
    ASSUME Widths, NEW d, Wired(d), NEW i \in Index
    PROVE  Take(d, i, Assigned(d, i)) = Assigned(d, i)
<1>1. CASE d[i].kind = "none"
  <2>1. Assigned(d, i) = 0
    BY <1>1 DEF Assigned
  <2>2. \A v : Take(d, i, v) = 0
    <3>1. ~(d[i].size >= Modulus)
      BY <1>1, WiredAt, Sizes
    <3> QED
      BY <1>1, <3>1 DEF Take
  <2> QED
    BY <2>1, <2>2
<1>2. CASE d[i].kind = "upper"
  <2> DEFINE b == d[i - 1].base  s == d[i - 1].size
  <2>1. i - 1 \in Index /\ d[i - 1].kind = "memory64"
    BY <1>2, WiredAt, Sizes
  <2>2. d[i - 1] \in Hardware /\ Decodes(d[i - 1])
    BY <2>1, WiredAt
  <2>3. b \in Nat /\ s \in Nat \ {0} /\ b % s = 0 /\ (s >= Modulus => s % Modulus = 0)
    BY <2>1, <2>2, HardwareFields, FlagsBelowSize, Sizes DEF Decodes
  <2>4. Assigned(d, i) = b \div Modulus
    BY <1>2 DEF Assigned
  <2>5. \A v : Take(d, i, v) =
            IF s <= Modulus THEN v ELSE (v \div (s \div Modulus)) * (s \div Modulus)
    <3>1. ~(d[i].size >= Modulus)
      BY <1>2, WiredAt, Sizes
    <3> QED
      BY <1>2, <3>1 DEF Take
  <2> HIDE DEF b, s
  <2>6. CASE s <= Modulus
    BY <2>4, <2>5, <2>6
  <2>7. CASE s > Modulus
    <3>1. s % Modulus = 0
      BY <2>3, <2>7, Sizes
    <3>2. s \div Modulus \in Nat \ {0} /\ (b \div Modulus) % (s \div Modulus) = 0
      BY <2>3, <3>1, HighPart, Sizes, Zenon
    <3> DEFINE x == b \div Modulus  t == s \div Modulus
    <3>3. x \in Int /\ t \in Nat \ {0} /\ x % t = 0
      BY <2>3, <3>2, Sizes
    <3> HIDE DEF x, t
    <3>4. (x \div t) * t = x
      BY <3>3
    <3> QED
      BY <2>3, <2>4, <2>5, <2>7, <3>4, Sizes DEF x, t
  <2> QED
    BY <2>3, <2>6, <2>7, Sizes
<1>3. CASE d[i].kind \in {"io", "memory", "memory64"}
  <2> DEFINE b == d[i].base  s == d[i].size  f == d[i].flags
  <2>1. d[i] \in Hardware /\ Decodes(d[i])
    BY <1>3, WiredAt
  <2>2. b \in Nat /\ s \in Nat \ {0} /\ f \in Nat /\ f < s /\ b % s = 0
    BY <1>3, <2>1, HardwareFields, FlagsBelowSize DEF Decodes
  <2>3. IF s < Modulus THEN Modulus % s = 0 ELSE s % Modulus = 0
    BY <2>1 DEF Decodes
  <2>4. Assigned(d, i) = (b % Modulus) + f
    BY <1>3 DEF Assigned
  <2>5. \A v : Take(d, i, v) = IF s >= Modulus THEN f ELSE (v \div s) * s + f
    BY <1>3 DEF Take
  <2> HIDE DEF b, s, f
  <2>6. CASE s < Modulus
    <3>1. b % Modulus \in Int /\ (b % Modulus) % s = 0
      <4>1. Modulus % s = 0 /\ Modulus \in Nat \ {0}
        BY <2>3, <2>6, Sizes
      <4>2. (b % Modulus) % s = 0
        BY <2>2, <4>1, LowPart, Zenon
      <4> QED
        BY <2>2, <4>1, <4>2
    <3>2. (((b % Modulus) + f) \div s) * s = b % Modulus
      BY <2>2, <3>1, RoundDown, Zenon
    <3>3. ~(s >= Modulus)
      BY <2>2, <2>6, Sizes
    <3>4. Take(d, i, (b % Modulus) + f) = (((b % Modulus) + f) \div s) * s + f
      BY <2>5, <3>3
    <3> QED
      BY <2>4, <3>2, <3>4
  <2>7. CASE s >= Modulus
    <3>1. b % Modulus = 0
      <4>1. s % Modulus = 0 /\ Modulus \in Nat \ {0}
        BY <2>2, <2>3, <2>7, Sizes
      <4> QED
        BY <2>2, <4>1, HighPart, Zenon
    <3>2. Take(d, i, (b % Modulus) + f) = f
      BY <2>5, <2>7
    <3> QED
      BY <2>2, <2>4, <3>1, <3>2
  <2> QED
    BY <2>2, <2>6, <2>7, Sizes
<1> QED
  BY <1>1, <1>2, <1>3, WiredAt, HardwareFields

\* A register with nothing behind it reads as nought.
LEMMA NothingRead ==
    ASSUME Widths, NEW d, Wired(d), NEW i \in Index, d[i].kind = "none"
    PROVE  SizeOf(Take(d, i, Modulus - 1)) = 0
<1>1. ~(d[i].size >= Modulus)
  BY WiredAt, Sizes
<1>2. Take(d, i, Modulus - 1) = 0
  BY <1>1 DEF Take
<1>3. (Modulus - (0 \div 16) * 16) % Modulus = 0
  BY Sizes
<1> QED
  BY <1>2, <1>3 DEF SizeOf

\* The size that the code makes of the mask.
LEMMA MaskSize ==
    ASSUME NEW m \in Nat, m > 16, m % 16 = 0,
           NEW s \in Nat \ {0}, s < m, s % (IF s < 16 THEN 4 ELSE 16) = 0,
           NEW f \in 0 .. 15, s < 16 => f = 1
    PROVE  (m - (((m - s) + f) \div 16) * 16) % m = IF s < 16 THEN 16 ELSE s
<1>1. CASE s < 16
  <2>1. s >= 4 /\ f = 1
    BY <1>1
  <2>2. (((m - s) + f) \div 16) * 16 = m - 16
    BY <1>1, <2>1
  <2> QED
    BY <1>1, <2>2
<1>2. CASE s >= 16
  <2>1. s % 16 = 0
    BY <1>2
  <2>2. (((m - s) + f) \div 16) * 16 = m - s
    BY <2>1
  <2> QED
    BY <1>2, <2>2
<1> QED
  BY <1>1, <1>2

\* The size of a BAR below 2^32 bytes is read, an I/O BAR's from 16 bytes on.
LEMMA SizeRead ==
    ASSUME Widths, NEW d, Wired(d), NEW i \in Index,
           d[i].kind \in {"io", "memory", "memory64"}, d[i].size < Modulus
    PROVE  SizeOf(Take(d, i, Modulus - 1)) = IF d[i].size < 16 THEN 16 ELSE d[i].size
<1> DEFINE s == d[i].size  f == d[i].flags
<1>1. d[i] \in Hardware /\ Decodes(d[i])
  BY WiredAt
<1>2. s \in Nat \ {0} /\ f \in 0 .. 15 /\ s < Modulus /\ f < s
  BY <1>1, HardwareFields, FlagsBelowSize
<1>3. Modulus % s = 0
  BY <1>1 DEF Decodes
<1>4. s % (IF s < 16 THEN 4 ELSE 16) = 0 /\ (s < 16 => f = 1)
  <2>1. CASE d[i].kind = "io"
    BY <1>1, <2>1 DEF Decodes
  <2>2. CASE d[i].kind \in {"memory", "memory64"}
    <3>1. s % 16 = 0
      BY <1>1, <2>2 DEF Decodes, IsMemory
    <3> HIDE DEF s
    <3>2. s >= 16
      BY <1>2, <3>1
    <3> QED
      BY <1>2, <3>1, <3>2
  <2> QED
    BY <2>1, <2>2
<1>5. ~(s >= Modulus)
  BY <1>2, Sizes
<1>6. Take(d, i, Modulus - 1) = ((Modulus - 1) \div s) * s + f
  BY <1>5 DEF Take
<1> HIDE DEF s, f
<1>7. ((Modulus - 1) \div s) * s = Modulus - s
  BY <1>2, <1>3, OnesKept, Sizes, Zenon
<1>8. Take(d, i, Modulus - 1) = (Modulus - s) + f
  BY <1>6, <1>7
<1>9. (Modulus - (((Modulus - s) + f) \div 16) * 16) % Modulus = IF s < 16 THEN 16 ELSE s
  BY <1>2, <1>4, MaskSize, Sizes, Zenon
<1>10. SizeOf(Take(d, i, Modulus - 1)) = IF s < 16 THEN 16 ELSE s
  BY <1>8, <1>9 DEF SizeOf
<1> QED
  BY <1>10 DEF s

\* The low four bits of what firmware left say what the BAR is, and the rest is
\* the address.
LEMMA LowBits ==
    ASSUME NEW x \in Nat, x % 16 = 0, NEW f \in 0 .. 15
    PROVE  /\ (x + f) % 2 = f % 2
           /\ ((x + f) % 8) \div 2 = (f % 8) \div 2
           /\ (((x + f) \div 8) % 2 = 1) <=> (f \div 8 = 1)
           /\ ((x + f) \div 16) * 16 = x
<1>1. PICK k \in Nat : x = 16 * k
  BY x \div 16 \in Nat /\ x = 16 * (x \div 16)
<1> QED
  BY <1>1

LEMMA MemoryOrig ==
    ASSUME Widths, NEW d, Wired(d), NEW i \in Index,
           d[i].kind \in {"memory", "memory64"}, d[i].size < Modulus
    PROVE  LET orig == Assigned(d, i)
           IN  /\ ~IsIo(orig)
               /\ TypeOf(orig) = TypeOf(d[i].flags)
               /\ ((orig \div 8) % 2 = 1) <=> (d[i].flags \div 8 = 1)
               /\ (orig \div 16) * 16 = d[i].base % Modulus
               /\ IsWide(orig) <=> d[i].kind = "memory64"
<1> DEFINE b == d[i].base  s == d[i].size  f == d[i].flags  x == b % Modulus
<1>1. d[i] \in Hardware /\ Decodes(d[i])
  BY WiredAt
<1>2. b \in Nat /\ s \in Nat \ {0} /\ f \in 0 .. 15
  BY <1>1, HardwareFields, FlagsBelowSize
<1>3. b % s = 0 /\ s % 16 = 0 /\ f % 2 = 0 /\ ((d[i].kind = "memory64") <=> ((f % 8) \div 2 = 2))
  BY <1>1 DEF Decodes, IsMemory
<1>4. Assigned(d, i) = x + f
  BY DEF Assigned
<1> HIDE DEF b, s, f
<1>5. b % 16 = 0
  <2>1. ASSUME NEW m \in Nat \ {0}, s % m = 0
        PROVE  b % m = 0
    BY <1>2, <1>3, <2>1, HighPart, Zenon
  <2> QED
    BY <1>3, <2>1
<1>6. x \in Nat /\ x % 16 = 0
  <2>1. (b % Modulus) % 16 = 0
    <3>1. \A t \in Nat \ {0} : b % t = 0 /\ Modulus % t = 0 => (b % Modulus) % t = 0
      BY <1>2, LowPart, Sizes, Zenon
    <3> QED
      BY <1>5, <3>1, Sizes
  <2> QED
    BY <1>2, <2>1, Sizes
<1> HIDE DEF x
<1>7. /\ (x + f) % 2 = f % 2
      /\ ((x + f) % 8) \div 2 = (f % 8) \div 2
      /\ (((x + f) \div 8) % 2 = 1) <=> (f \div 8 = 1)
      /\ ((x + f) \div 16) * 16 = x
  BY <1>2, <1>6, LowBits, Zenon
<1>8. ~IsIo(x + f) /\ TypeOf(x + f) = TypeOf(f)
  BY <1>3, <1>7 DEF IsIo, TypeOf
<1>9. IsWide(x + f) <=> d[i].kind = "memory64"
  BY <1>3, <1>8 DEF IsWide, TypeOf
<1> QED
  BY <1>4, <1>7, <1>8, <1>9 DEF b, f, x

LEMMA IoOrig ==
    ASSUME Widths, NEW d, Wired(d), NEW i \in Index, d[i].kind = "io", d[i].size < Modulus
    PROVE  LET orig == Assigned(d, i)
           IN  IsIo(orig) /\ (orig \div 4) * 4 = d[i].base
<1> DEFINE b == d[i].base  s == d[i].size
<1>1. d[i] \in Hardware /\ Decodes(d[i])
  BY WiredAt
<1>2. b \in Nat /\ s \in Nat \ {0}
  BY <1>1, HardwareFields, FlagsBelowSize
<1>3. b % s = 0 /\ s % (IF s < 16 THEN 4 ELSE 16) = 0 /\ d[i].flags = 1 /\ b < Modulus
  BY <1>1 DEF Decodes
<1>4. Assigned(d, i) = (b % Modulus) + 1
  BY <1>3 DEF Assigned
<1> HIDE DEF b, s
<1>5. s % 4 = 0
  BY <1>2, <1>3
<1>6. b % 4 = 0
  <2>1. ASSUME NEW m \in Nat \ {0}, s % m = 0
        PROVE  b % m = 0
    BY <1>2, <1>3, <2>1, HighPart, Zenon
  <2> QED
    BY <1>5, <2>1
<1>7. b % Modulus = b
  BY <1>2, <1>3, Sizes
<1>8. (b + 1) % 2 = 1 /\ ((b + 1) \div 4) * 4 = b
  BY <1>2, <1>6
<1> QED
  BY <1>4, <1>7, <1>8 DEF IsIo, b

\* A memory BAR is decoded to what it is, given the upper half of its address.
LEMMA MemoryDecoded ==
    ASSUME Widths, NEW d, Wired(d), NEW i \in Index,
           d[i].kind \in {"memory", "memory64"}, d[i].size < Modulus
    PROVE  Decoded(Assigned(d, i), SizeOf(Take(d, i, Modulus - 1)),
                        IF d[i].kind = "memory64" THEN d[i].base \div Modulus ELSE 0)
           = [kind |-> "memory", size |-> d[i].size, address |-> d[i].base,
              type |-> TypeOf(d[i].flags), prefetchable |-> d[i].flags \div 8 = 1]
<1> DEFINE b == d[i].base  s == d[i].size
           top == IF d[i].kind = "memory64" THEN b \div Modulus ELSE 0
           orig == Assigned(d, i)
<1>1. d[i] \in Hardware /\ Decodes(d[i])
  BY WiredAt
<1>2. b \in Nat /\ s \in Nat \ {0} /\ (d[i].kind # "memory64" => b < Modulus) /\ s % 16 = 0
  BY <1>1, HardwareFields, FlagsBelowSize DEF Decodes, IsMemory
<1>3. SizeOf(Take(d, i, Modulus - 1)) = s
  <2>1. SizeOf(Take(d, i, Modulus - 1)) = IF s < 16 THEN 16 ELSE s
    BY SizeRead
  <2> HIDE DEF s
  <2>2. s >= 16
    BY <1>2
  <2> QED
    BY <1>2, <2>1, <2>2
<1>4. /\ ~IsIo(orig)
      /\ TypeOf(orig) = TypeOf(d[i].flags)
      /\ ((orig \div 8) % 2 = 1) <=> (d[i].flags \div 8 = 1)
      /\ (orig \div 16) * 16 = b % Modulus
  BY MemoryOrig
<1>5. (b % Modulus) + top * Modulus = b
  <2>1. Modulus \in Nat \ {0}
    BY Sizes
  <2>2. ASSUME NEW m \in Nat \ {0}, NEW x \in Nat
        PROVE  /\ (x % m) + (x \div m) * m = x
               /\ x < m => x % m = x
    OBVIOUS
  <2> HIDE DEF b
  <2>3. CASE d[i].kind = "memory64"
    <3>1. top = b \div Modulus
      BY <2>3
    <3> QED
      BY <1>2, <2>1, <2>2, <3>1, Zenon
  <2>4. CASE d[i].kind # "memory64"
    <3>1. top = 0 /\ b % Modulus = b
      BY <1>2, <2>1, <2>2, <2>4, SMTT(30)
    <3>2. 0 * Modulus = 0 /\ b + 0 = b
      BY <1>2, <2>1
    <3> QED
      BY <3>1, <3>2
  <2> QED
    BY <2>3, <2>4
<1>6. ((orig \div 8) % 2 = 1) = (d[i].flags \div 8 = 1)
  BY <1>4
<1> HIDE DEF b, s, top, orig
<1>7. Decoded(orig, s, top) =
        [kind |-> "memory", size |-> s, address |-> (orig \div 16) * 16 + top * Modulus,
         type |-> TypeOf(orig), prefetchable |-> (orig \div 8) % 2 = 1]
  BY <1>4 DEF Decoded
<1>8. Decoded(orig, s, top) =
        [kind |-> "memory", size |-> s, address |-> b,
         type |-> TypeOf(d[i].flags), prefetchable |-> d[i].flags \div 8 = 1]
  BY <1>4, <1>5, <1>6, <1>7
<1> QED
  BY <1>3, <1>8 DEF b, s, top, orig

\* An I/O BAR is decoded to its address, its kind and its size from 16 bytes on.
LEMMA IoDecoded ==
    ASSUME Widths, NEW d, Wired(d), NEW i \in Index, d[i].kind = "io", d[i].size < Modulus, NEW top
    PROVE  IoBarRight(d[i], Decoded(Assigned(d, i),
                                              SizeOf(Take(d, i, Modulus - 1)), top))
BY IoOrig, SizeRead DEF IoBarRight, Decoded

\* The pages of a BAR that begins and ends on a page hold all its bytes.
LEMMA PageOfByte ==
    ASSUME NEW b \in Nat, NEW s \in Nat \ {0}, NEW p \in Nat \ {0}, b % s = 0, s % p = 0,
           NEW x \in 0 .. s - 1
    PROVE  \E i \in 0 .. (s \div p) - 1 : (b + x) \div p = b \div p + i
<1> DEFINE k == b \div p  n == s \div p  j == x \div p
<1>1. b % p = 0
  BY HighPart, Zenon
<1>2. k \in Nat /\ b = k * p /\ n \in Nat /\ s = n * p /\ j \in Nat /\ j * p <= x /\ x < (j + 1) * p
  BY <1>1
<1> HIDE DEF k, n, j
<1>3. (k + j) * p <= b + x /\ b + x < ((k + j) + 1) * p
  BY <1>2
<1>4. (b + x) \div p = k + j
  <2> DEFINE y == b + x  z == k + j
  <2>1. y \in Nat /\ z \in Nat /\ z * p <= y /\ y < (z + 1) * p
    BY <1>2, <1>3
  <2> HIDE DEF y, z
  <2>2. y \div p = z
    BY <2>1
  <2> QED
    BY <2>2 DEF y, z
<1>5. j < n
  <2>1. j * p < n * p
    BY <1>2
  <2> QED
    BY <1>2, <2>1
<1> QED
  BY <1>2, <1>4, <1>5 DEF k, n

LEMMA RightMore ==
    ASSUME NEW hw, NEW bar, NEW P, NEW Q, Right(hw, bar, P), P \subseteq Q
    PROVE  Right(hw, bar, Q)
BY DEF Right

\* What pci_bar_init records of a register is right, and its pages are mapped.
LEMMA RecordRight ==
    ASSUME Widths, NEW d, Wired(d), NEW i \in Index,
           d[i].kind \in {"io", "memory", "memory64"}, d[i].size < Modulus,
           d[i].size >= Page => d[i].size % Page = 0,
           NEW top, d[i].kind \in {"memory", "memory64"} =>
                        top = IF d[i].kind = "memory64" THEN d[i].base \div Modulus ELSE 0,
           NEW bar, bar = Decoded(Assigned(d, i), SizeOf(Take(d, i, Modulus - 1)), top),
           NEW pages, ~IsIo(Assigned(d, i)) => PagesOf(bar) \subseteq pages
    PROVE  Right(d[i], bar, pages)
<1>1. CASE d[i].kind = "io"
  BY <1>1, IoDecoded DEF Right
<1>2. CASE d[i].kind \in {"memory", "memory64"}
  <2>1. bar = [kind |-> "memory", size |-> d[i].size, address |-> d[i].base,
               type |-> TypeOf(d[i].flags), prefetchable |-> d[i].flags \div 8 = 1]
    BY <1>2, MemoryDecoded
  <2>2. PagesOf(bar) \subseteq pages
    BY <1>2, MemoryOrig
  <2>3. d[i] \in Hardware /\ Decodes(d[i])
    BY WiredAt
  <2>4. d[i].base \in Nat /\ d[i].size \in Nat \ {0} /\ d[i].base % d[i].size = 0
    BY <2>3, HardwareFields, FlagsBelowSize DEF Decodes
  <2>5. ASSUME NEW b \in 0 .. d[i].size - 1, d[i].size % Page = 0
        PROVE  (d[i].base + b) \div Page \in pages
    <3> DEFINE a == d[i].base  s == d[i].size
    <3>0. a \in Nat /\ s \in Nat \ {0} /\ a % s = 0 /\ s % Page = 0 /\ Page \in Nat \ {0} /\ b \in 0 .. s - 1
      BY <2>4, <2>5, Sizes
    <3> HIDE DEF a, s
    <3>1. PICK k \in 0 .. (s \div Page) - 1 : (a + b) \div Page = a \div Page + k
      BY <3>0, PageOfByte, ZenonT(30)
    <3> USE DEF a, s
    <3>2. (d[i].base + b) \div Page \in PagesOf(bar)
      BY <2>1, <3>1 DEF PagesOf
    <3> QED
      BY <2>2, <3>2
  <2> QED
    BY <1>2, <2>1, <2>5 DEF Right
<1> QED
  BY <1>1, <1>2

-----------------------------------------------------------------------------
\* The word that is written to the address port leads to the register it is for.
LEMMA PortMeans ==
    ASSUME NEW b \in Bdf
    PROVE  /\ \A i \in 0 .. 6 : Selected(port_address(b, OffsetOf(i)))
                                    = [bdf |-> b, register |-> 16 + 4 * i]
           /\ Selected(port_address(b, STATUS_COMMAND_OFFSET)) = [bdf |-> b, register |-> 4]
<1>1. ASSUME NEW i \in 0 .. 6
      PROVE  Selected(port_address(b, OffsetOf(i))) = [bdf |-> b, register |-> 16 + 4 * i]
  <2>1. OffsetOf(i) = 16 + 4 * i /\ 16 + 4 * i \in 0 .. 255 /\ ((16 + 4 * i) \div 4) * 4 = 16 + 4 * i
    BY DEF OffsetOf, BAR0_OFFSET
  <2> QED
    BY <2>1, PortReachesRegister, Zenon
<1>2. Selected(port_address(b, STATUS_COMMAND_OFFSET)) = [bdf |-> b, register |-> 4]
  <2>1. STATUS_COMMAND_OFFSET = 4 /\ 4 \in 0 .. 255 /\ (4 \div 4) * 4 = 4
    BY DEF STATUS_COMMAND_OFFSET
  <2> QED
    BY <2>1, PortReachesRegister
<1> QED
  BY <1>1, <1>2

\* The second half of an access of pci_bar_init meets the register it was meant
\* for, unless it was divided.
LEMMA DataDone ==
    ASSUME Widths, SizingInv, stage # "idle", data("driver", sizing, Wanted)
    PROVE  /\ "driver" \notin selecting'
           /\ device' = device /\ port' = port
           /\ bar_index < BarCount /\ bar_index # bar_index_ignore
           /\ Undisturbed => ~divided'
           /\ ~divided' => ~divided /\ Selected(port) =
                 [bdf |-> sizing, register |-> 16 + 4 * (IF stage = "top" THEN bar_index + 1 ELSE bar_index)]
<1> DEFINE n == IF stage = "top" THEN bar_index + 1 ELSE bar_index
<1>1. "driver" \in selecting /\ "driver" \notin selecting' /\ device' = device /\ port' = port
      /\ divided' = (divided \/ port # port_address(sizing, Wanted))
  BY DEF data
<1>2. bar_index < BarCount /\ bar_index # bar_index_ignore
  BY <1>1 DEF SizingInv, Addressed
<1>3. Wanted = OffsetOf(n) /\ n \in 0 .. 6 /\ sizing \in Bdf
  BY <1>2, Sizes DEF Wanted, SizingInv, Placed
<1>4. Selected(port_address(sizing, Wanted)) = [bdf |-> sizing, register |-> 16 + 4 * n]
  BY <1>3, PortMeans
<1> HIDE DEF n
<1>5. ~divided' => ~divided /\ Selected(port) = [bdf |-> sizing, register |-> 16 + 4 * n]
  BY <1>1, <1>4, Zenon
<1>6. Undisturbed => ~divided'
  BY <1>1, Zenon DEF Undisturbed
<1> QED
  BY <1>1, <1>2, <1>5, <1>6 DEF n

\* A write reaches that register and no other, and a read returns it.
LEMMA BarReached ==
    ASSUME Widths, SizingInv, sizing \in DOMAIN device, NEW i \in Index,
           Selected(port) = [bdf |-> sizing, register |-> 16 + 4 * i]
    PROVE  /\ DataRead = regs[sizing][i]
           /\ \A v : /\ RegsWith(Selected(port), v)
                            = [regs EXCEPT ![sizing][i] = Take(device[sizing], i, v)]
                     /\ CommandWith(Selected(port), v) = command
<1>1. IsBar(16 + 4 * i) /\ BarOf(16 + 4 * i) = i /\ 16 + 4 * i # STATUS_COMMAND_OFFSET
  BY Sizes DEF IsBar, BarOf, BAR0_OFFSET, STATUS_COMMAND_OFFSET
<1> DEFINE s == Selected(port)
<1>2. s.bdf = sizing /\ s.register = 16 + 4 * i
  OBVIOUS
<1> HIDE DEF s
<1>3. Content(s) = regs[sizing][i]
  BY <1>1, <1>2 DEF Content
<1>4. \A v : RegsWith(s, v) = [regs EXCEPT ![sizing][i] = Take(device[sizing], i, v)]
  BY <1>1, <1>2, Zenon DEF RegsWith
<1>5. \A v : CommandWith(s, v) = command
  BY <1>1, <1>2 DEF CommandWith
<1> QED
  BY <1>3, <1>4, <1>5 DEF DataRead, s

\* Wherever a write goes, there are as many registers as before.
LEMMA WritesKeepTables ==
    ASSUME Tables, NEW s, NEW v
    PROVE  /\ DOMAIN RegsWith(s, v) = DOMAIN device
           /\ \A f \in DOMAIN device : DOMAIN RegsWith(s, v)[f] = Index
           /\ DOMAIN CommandWith(s, v) = DOMAIN device
BY DEF Tables, RegsWith, CommandWith

LEMMA RegisterWritten ==
    ASSUME Tables, NEW g \in DOMAIN device, NEW j \in Index, NEW v,
           regs' = [regs EXCEPT ![g][j] = v],
           NEW f \in DOMAIN device, NEW i \in Index
    PROVE  regs'[f][i] = IF f = g /\ i = j THEN v ELSE regs[f][i]
BY DEF Tables

\* A step of pci_bar_init leaves the hardware alone, and what the others rely on.
LEMMA StepDone ==
    ASSUME SizingInv, stage # "idle", "driver" \notin selecting', UNCHANGED <<device, sizing>>,
           stage' = "idle" => result'[sizing] \in {"ok", "error"},
           ~divided' => ~divided /\ command' = command,
           Undisturbed => ~divided'
    PROVE  HardwareWired' /\ Effect
BY DEF SizingInv, HardwareWired, Effect, Undisturbed

LEMMA SkipSound ==
    ASSUME Widths, SizingInv, skip
    PROVE  SizingInv' /\ Effect
<1> USE DEF skip, At, portVars
<1>1. bar_index \in 0 .. BarCount - 1 /\ bar_index' = bar_index + 1 /\ sizing \in DOMAIN device
      /\ "driver" \notin selecting
  BY Sizes DEF SizingInv, Placed, Addressed
<1>2. HardwareWired' /\ Effect
  BY <1>1, StepDone DEF Undisturbed
<1>3. Tables'
  BY DEF SizingInv, Tables
<1>4. Placed'
  BY <1>1, Sizes DEF SizingInv, Placed
<1>5. Addressed'
  BY <1>1 DEF SizingInv, Addressed
<1>6. Remembered'
  BY DEF SizingInv, Remembered
<1>7. SoFar'
  <2> SUFFICES ASSUME ~divided, Sizable(sizing)
               PROVE  /\ \A i \in Index :
                            IF i < bar_index + 1 THEN Right(device[sizing][i], device_bar[i], mapped)
                            ELSE device_bar[i] = Unused
                      /\ bar_index + 1 < BarCount =>
                            (device[sizing][bar_index + 1].kind = "upper" <=> bar_index + 1 = bar_index_ignore)
    BY <1>1 DEF SoFar, Sizable
  <2>1. device[sizing][bar_index].kind = "upper"
    BY <1>1, Sizes DEF SizingInv, SoFar
  <2>2. Right(device[sizing][bar_index], Unused, mapped)
    BY <2>1 DEF Right
  <2>3. bar_index + 1 < BarCount => device[sizing][bar_index + 1].kind # "upper"
    <3>1. ASSUME bar_index + 1 < BarCount
          PROVE  bar_index + 1 \in Index /\ (bar_index + 1) - 1 = bar_index
      BY <1>1, <3>1, Sizes
    <3>2. Wired(device[sizing])
      BY <1>1 DEF SizingInv, HardwareWired
    <3> QED
      BY <2>1, <3>1, <3>2, WiredAt
  <2>4. \A i \in Index : i < bar_index + 1 => i < bar_index \/ i = bar_index
    BY <1>1, Sizes
  <2> QED
    BY <1>1, <2>2, <2>3, <2>4, Sizes DEF SizingInv, SoFar
<1>8. Stored'
  BY DEF SizingInv, Stored, Sizable
<1> QED
  BY <1>2, <1>3, <1>4, <1>5, <1>6, <1>7, <1>8 DEF SizingInv

LEMMA AddressSound ==
    ASSUME Widths, SizingInv, address
    PROVE  SizingInv' /\ Effect
<1> USE DEF address, select, barVars
<1>1. HardwareWired' /\ Tables'
  BY DEF SizingInv, HardwareWired, Tables
<1>2. Placed' /\ Addressed'
  BY DEF SizingInv, Placed, Addressed
<1>3. Remembered' /\ SoFar' /\ Stored'
  BY DEF SizingInv, Remembered, SoFar, Stored, Sizable
<1>4. Effect
  BY DEF Effect, Undisturbed, Wanted
<1> QED
  BY <1>1, <1>2, <1>3, <1>4 DEF SizingInv

LEMMA StoreSound ==
    ASSUME Widths, SizingInv, store
    PROVE  SizingInv' /\ Effect
<1> USE DEF store, portVars
<1>1. sizing \in DOMAIN device /\ "driver" \notin selecting /\ bar_index = BarCount
      /\ DOMAIN result = DOMAIN device /\ DOMAIN standard_device_bar = DOMAIN device
  BY Sizes DEF SizingInv, Placed, Addressed, Tables
<1>2. HardwareWired' /\ Effect
  BY <1>1, StepDone DEF Undisturbed
<1>3. Tables'
  BY DEF SizingInv, Tables
<1>4. Placed'
  BY DEF SizingInv, Placed
<1>5. Addressed'
  BY <1>1 DEF SizingInv, Addressed
<1>6. Remembered' /\ SoFar'
  BY DEF SizingInv, Remembered, SoFar
<1>7. Stored'
  <2>1. ~divided /\ Sizable(sizing) => \A i \in Index : Right(device[sizing][i], device_bar[i], mapped)
    <3>1. stage # "idle" /\ \A i \in Index : i < bar_index
      BY <1>1, Sizes
    <3> QED
      BY <3>1, Zenon DEF SizingInv, SoFar
  <2> QED
    BY <1>1, <2>1 DEF SizingInv, Stored, Sizable
<1> QED
  BY <1>2, <1>3, <1>4, <1>5, <1>6, <1>7 DEF SizingInv

\* Steps of pci_bar_init on one register, which records nothing yet.
LEMMA StillOnRegister ==
    ASSUME Widths, SizingInv, stage # "idle", stage' \notin {"idle", "top"},
           UNCHANGED <<device, sizing, bar_index, bar_index_ignore, device_bar, mapped, standard_device_bar, result>>,
           divided => divided'
    PROVE  SoFar' /\ Stored'
BY DEF SizingInv, SoFar, Stored, Sizable

LEMMA ReadOrigSound ==
    ASSUME Widths, SizingInv, read_orig
    PROVE  SizingInv' /\ Effect
<1> USE DEF read_orig, At, read_config
<1>1. /\ "driver" \notin selecting' /\ device' = device
      /\ bar_index < BarCount /\ bar_index # bar_index_ignore
      /\ Undisturbed => ~divided'
      /\ ~divided' => ~divided /\ Selected(port) = [bdf |-> sizing, register |-> 16 + 4 * bar_index]
  BY DataDone
<1>2. sizing \in DOMAIN device /\ bar_index \in Index
  BY <1>1, Sizes DEF SizingInv, Placed
<1>3. HardwareWired' /\ Effect
  BY <1>1, StepDone
<1>4. Tables'
  BY <1>1 DEF SizingInv, Tables
<1>5. Placed'
  BY <1>1, Sizes DEF SizingInv, Placed
<1>6. Addressed'
  BY <1>1 DEF Addressed
<1>7. Remembered'
  <2> SUFFICES ASSUME ~divided' PROVE Remembered'
    BY DEF Remembered
  <2>1. ~divided /\ bar_orig' = regs[sizing][bar_index]
    BY <1>1, <1>2, BarReached
  <2>2. bar_orig' = Assigned(device[sizing], bar_index)
    BY <1>2, <2>1 DEF SizingInv, Remembered
  <2> QED
    BY <1>1, <2>1, <2>2 DEF SizingInv, Remembered
<1>8. SoFar' /\ Stored'
  BY <1>1, StillOnRegister
<1> QED
  BY <1>3, <1>4, <1>5, <1>6, <1>7, <1>8 DEF SizingInv

LEMMA WriteOnesSound ==
    ASSUME Widths, SizingInv, write_ones
    PROVE  SizingInv' /\ Effect
<1> USE DEF write_ones, At, write_config
<1>1. /\ "driver" \notin selecting' /\ device' = device
      /\ bar_index < BarCount /\ bar_index # bar_index_ignore
      /\ Undisturbed => ~divided'
      /\ ~divided' => ~divided /\ Selected(port) = [bdf |-> sizing, register |-> 16 + 4 * bar_index]
  BY DataDone
<1>2. sizing \in DOMAIN device /\ bar_index \in Index
  BY <1>1, Sizes DEF SizingInv, Placed
<1>3. ~divided' =>
        /\ regs' = [regs EXCEPT ![sizing][bar_index] = Take(device[sizing], bar_index, Modulus - 1)]
        /\ command' = command
  BY <1>1, <1>2, BarReached
<1>4. HardwareWired' /\ Effect
  BY <1>1, <1>3, StepDone
<1>5. Tables'
  BY <1>1, WritesKeepTables DEF SizingInv, Tables
<1>6. Placed'
  BY <1>1 DEF SizingInv, Placed
<1>7. Addressed'
  BY <1>1, Zenon DEF Addressed
<1>8. Remembered'
  <2> SUFFICES ASSUME ~divided' PROVE Remembered'
    BY DEF Remembered
  <2>1. ASSUME NEW f \in DOMAIN device, NEW i \in Index
        PROVE  regs'[f][i] = IF f = sizing /\ i = bar_index THEN Take(device[f], i, Modulus - 1)
                             ELSE Assigned(device[f], i)
    <3>1. regs[f][i] = Assigned(device[f], i)
      BY <1>1 DEF SizingInv, Remembered
    <3>2. regs'[f][i] = IF f = sizing /\ i = bar_index
                        THEN Take(device[sizing], bar_index, Modulus - 1) ELSE regs[f][i]
      BY <1>2, <1>3, RegisterWritten DEF SizingInv
    <3> QED
      BY <3>1, <3>2
  <2> QED
    BY <1>1, <2>1 DEF SizingInv, Remembered
<1>9. SoFar' /\ Stored'
  BY <1>1, StillOnRegister
<1> QED
  BY <1>4, <1>5, <1>6, <1>7, <1>8, <1>9 DEF SizingInv

LEMMA ReadMaskSound ==
    ASSUME Widths, SizingInv, read_mask
    PROVE  SizingInv' /\ Effect
<1> USE DEF read_mask, At, read_config
<1>1. /\ "driver" \notin selecting' /\ device' = device
      /\ bar_index < BarCount /\ bar_index # bar_index_ignore
      /\ Undisturbed => ~divided'
      /\ ~divided' => ~divided /\ Selected(port) = [bdf |-> sizing, register |-> 16 + 4 * bar_index]
  BY DataDone
<1>2. sizing \in DOMAIN device /\ bar_index \in Index
  BY <1>1, Sizes DEF SizingInv, Placed
<1>3. HardwareWired' /\ Effect
  BY <1>1, StepDone
<1>4. Tables'
  BY <1>1 DEF SizingInv, Tables
<1>5. Placed'
  BY <1>1 DEF SizingInv, Placed
<1>6. Addressed'
  BY <1>1 DEF Addressed
<1>7. Remembered'
  <2> SUFFICES ASSUME ~divided' PROVE Remembered'
    BY DEF Remembered
  <2>1. ~divided /\ size_mask' = regs[sizing][bar_index]
    BY <1>1, <1>2, BarReached
  <2>2. size_mask' = Take(device[sizing], bar_index, Modulus - 1)
    BY <1>2, <2>1 DEF SizingInv, Remembered
  <2> QED
    BY <1>1, <2>1, <2>2 DEF SizingInv, Remembered
<1>8. SoFar' /\ Stored'
  BY <1>1, StillOnRegister
<1> QED
  BY <1>3, <1>4, <1>5, <1>6, <1>7, <1>8 DEF SizingInv

\* What the sizes and flags read say of the register.
LEMMA RegisterKind ==
    ASSUME Widths, SizingInv, ~divided, stage \in {"restore", "top"}, Sizable(sizing)
    PROVE  LET hw == device[sizing][bar_index]
           IN  /\ hw.kind \in {"none", "io", "memory", "memory64"}
               /\ (SizeOf(size_mask) = 0) <=> (hw.kind = "none")
               /\ hw.kind # "none" => ((hw.kind = "io") <=> IsIo(bar_orig))
               /\ hw.kind # "none" => ((hw.kind = "memory64") <=> IsWide(bar_orig))
               /\ hw.kind \in {"memory", "memory64"} => TypeOf(bar_orig) = TypeOf(hw.flags)
<1> DEFINE d == device[sizing]  hw == d[bar_index]
<1>1. sizing \in DOMAIN device /\ bar_index \in Index /\ bar_index # bar_index_ignore
  BY Sizes DEF SizingInv, Placed
<1>2. Wired(d) /\ hw.size < Modulus
  BY <1>1 DEF SizingInv, HardwareWired, Sizable
<1>3. bar_orig = Assigned(d, bar_index) /\ size_mask = Take(d, bar_index, Modulus - 1)
  BY Zenon DEF SizingInv, Remembered
<1>4. hw \in Hardware /\ hw.kind # "upper"
  BY <1>1, <1>2, Sizes, WiredAt DEF SizingInv, SoFar
<1>5. hw.kind \in {"none", "io", "memory", "memory64"} /\ hw.size \in Nat
  BY <1>4, HardwareFields, Zenon
<1> HIDE DEF d
<1>6. hw.kind = "none" => SizeOf(size_mask) = 0
  BY <1>1, <1>2, <1>3, NothingRead
<1>7. hw.kind # "none" => SizeOf(size_mask) # 0
  <2>1. hw.kind # "none" => SizeOf(size_mask) = IF hw.size < 16 THEN 16 ELSE hw.size
    BY <1>1, <1>2, <1>3, <1>5, SizeRead
  <2> QED
    BY <1>5, <2>1
<1>8. hw.kind = "io" => IsIo(bar_orig) /\ ~IsWide(bar_orig)
  BY <1>1, <1>2, <1>3, IoOrig DEF IsWide
<1>9. hw.kind \in {"memory", "memory64"} =>
        /\ ~IsIo(bar_orig)
        /\ TypeOf(bar_orig) = TypeOf(hw.flags)
        /\ IsWide(bar_orig) <=> hw.kind = "memory64"
  BY <1>1, <1>2, <1>3, MemoryOrig
<1> QED
  BY <1>5, <1>6, <1>7, <1>8, <1>9 DEF d

\* Going on to the next register.
LEMMA Advance ==
    ASSUME Widths, SizingInv, stage # "idle", bar_index \in Index, sizing \in DOMAIN device,
           device' = device, sizing' = sizing, bar_index' = bar_index + 1, stage' = "read",
           divided => divided', mapped \subseteq mapped',
           \A i \in Index : i # bar_index => device_bar'[i] = device_bar[i],
           ~divided' /\ Sizable(sizing) =>
               /\ Right(device[sizing][bar_index], device_bar'[bar_index], mapped')
               /\ (device[sizing][bar_index].kind = "memory64") <=> (bar_index_ignore' = bar_index + 1)
    PROVE  SoFar'
<1> SUFFICES ASSUME ~divided', Sizable(sizing)
             PROVE  /\ \A i \in Index :
                          IF i < bar_index + 1 THEN Right(device[sizing][i], device_bar'[i], mapped')
                          ELSE device_bar'[i] = Unused
                    /\ bar_index + 1 < BarCount =>
                          (device[sizing][bar_index + 1].kind = "upper" <=> bar_index + 1 = bar_index_ignore')
  BY DEF SoFar, Sizable
<1>1. ASSUME NEW i \in Index
      PROVE  IF i < bar_index + 1 THEN Right(device[sizing][i], device_bar'[i], mapped')
             ELSE device_bar'[i] = Unused
  <2>1. CASE i < bar_index
    <3>1. Right(device[sizing][i], device_bar[i], mapped) /\ i # bar_index
      BY <2>1, Sizes DEF SizingInv, SoFar
    <3>2. Right(device[sizing][i], device_bar'[i], mapped')
      BY <3>1, RightMore
    <3> QED
      BY <2>1, <3>2, Sizes
  <2>2. CASE i = bar_index
    BY <2>2, Sizes
  <2>3. CASE i > bar_index
    BY <2>3, Sizes DEF SizingInv, SoFar
  <2>4. i < bar_index \/ i = bar_index \/ i > bar_index
    BY Sizes
  <2> QED
    BY <2>1, <2>2, <2>3, <2>4, Zenon
<1>2. ASSUME bar_index + 1 < BarCount
      PROVE  device[sizing][bar_index + 1].kind = "upper" <=> bar_index + 1 = bar_index_ignore'
  <2>1. bar_index + 1 \in Index /\ (bar_index + 1) - 1 = bar_index /\ bar_index + 1 > 0
    BY <1>2, Sizes, SMTT(30)
  <2>2. Wired(device[sizing])
    BY DEF SizingInv, HardwareWired
  <2> QED
    BY <2>1, <2>2, WiredAt
<1> QED
  BY <1>1, <1>2

\* What is stored stays right when more pages are mapped.
LEMMA StoredKept ==
    ASSUME Widths, SizingInv, UNCHANGED <<device, standard_device_bar, result>>,
           divided => divided', mapped \subseteq mapped'
    PROVE  Stored'
BY RightMore DEF SizingInv, Stored, Sizable

\* What firmware left is back in the register before anything else is done.
LEMMA RestoreSound ==
    ASSUME Widths, SizingInv, restore
    PROVE  SizingInv' /\ Effect
<1> DEFINE size == SizeOf(size_mask)
           Absent == /\ size = 0 /\ bar_index' = bar_index + 1 /\ stage' = "read"
                     /\ UNCHANGED <<device_bar, mapped, result>>
           Refused == /\ size # 0 /\ InvalidBarType(bar_orig)
                      /\ result' = [result EXCEPT ![sizing] = "error"] /\ stage' = "idle"
                      /\ UNCHANGED <<bar_index, device_bar, mapped>>
           Halved == /\ size # 0 /\ ~InvalidBarType(bar_orig) /\ IsWide(bar_orig)
                     /\ stage' = "top" /\ UNCHANGED <<bar_index, device_bar, mapped, result>>
           Whole == /\ size # 0 /\ ~InvalidBarType(bar_orig) /\ ~IsWide(bar_orig)
                    /\ Record(0) /\ UNCHANGED result
<1>1. /\ stage = "restore" /\ write_config("driver", sizing, Wanted, bar_orig)
      /\ UNCHANGED <<sizing, bar_index_ignore, bar_orig, size_mask, standard_device_bar>>
      /\ Absent \/ Refused \/ Halved \/ Whole
  BY DEF restore, At, Restored
<1> HIDE DEF Absent, Refused, Halved, Whole
<1>2. /\ "driver" \notin selecting' /\ device' = device
      /\ bar_index < BarCount /\ bar_index # bar_index_ignore
      /\ Undisturbed => ~divided'
      /\ ~divided' => ~divided /\ Selected(port) = [bdf |-> sizing, register |-> 16 + 4 * bar_index]
  BY <1>1, DataDone DEF write_config
<1>3. sizing \in DOMAIN device /\ bar_index \in Index /\ bar_index \in 0 .. BarCount - 1
      /\ bar_index_ignore \in -1 .. bar_index - 1 /\ sizing \in Bdf
  BY <1>1, <1>2, Sizes DEF SizingInv, Placed
<1>4. Wired(device[sizing])
  BY <1>3 DEF SizingInv, HardwareWired
<1>5. ~divided' => /\ regs' = [regs EXCEPT ![sizing][bar_index] = Assigned(device[sizing], bar_index)]
                   /\ command' = command
  <2>1. ~divided => bar_orig = Assigned(device[sizing], bar_index)
    BY <1>1 DEF SizingInv, Remembered
  <2>2. Take(device[sizing], bar_index, Assigned(device[sizing], bar_index))
            = Assigned(device[sizing], bar_index)
    BY <1>3, <1>4, TakeAssigned
  <2> QED
    BY <1>1, <1>2, <1>3, <2>1, <2>2, BarReached DEF write_config
<1>6. ~divided' => \A f \in DOMAIN device : \A i \in Index : regs'[f][i] = Assigned(device[f], i)
  <2> SUFFICES ASSUME ~divided', NEW f \in DOMAIN device, NEW i \in Index
               PROVE  regs'[f][i] = Assigned(device[f], i)
    OBVIOUS
  <2>1. regs'[f][i] = IF f = sizing /\ i = bar_index THEN Assigned(device[sizing], bar_index) ELSE regs[f][i]
    BY <1>3, <1>5, RegisterWritten DEF SizingInv
  <2>2. f # sizing \/ i # bar_index => regs[f][i] = Assigned(device[f], i)
    BY <1>2 DEF SizingInv, Remembered
  <2> QED
    BY <2>1, <2>2
<1>7. stage' \in {"idle", "read", "top"}
  BY <1>1 DEF Absent, Refused, Halved, Whole, Record
<1>8. HardwareWired' /\ Effect
  <2>1. stage' = "idle" => result'[sizing] \in {"ok", "error"}
    BY <1>1, <1>3 DEF Absent, Refused, Halved, Whole, Record, SizingInv, Tables
  <2> QED
    BY <1>1, <1>2, <1>5, <2>1, StepDone, Zenon
<1>9. Addressed'
  BY <1>1, <1>2, Zenon DEF Addressed
<1>10. Remembered'
  <2>1. stage' = "top" => bar_index' = bar_index
    BY <1>1 DEF Absent, Refused, Halved, Whole, Record
  <2> QED
    BY <1>1, <1>2, <1>6, <1>7, <2>1 DEF SizingInv, Remembered
<1>11. regs' = RegsWith(Selected(port), bar_orig) /\ command' = CommandWith(Selected(port), bar_orig)
  BY <1>1 DEF write_config
<1>12. /\ DOMAIN regs' = DOMAIN device /\ DOMAIN command' = DOMAIN device
       /\ \A f \in DOMAIN device : DOMAIN regs'[f] = Index
  BY <1>11, WritesKeepTables DEF SizingInv
<1>13. CASE Absent
  <2> USE DEF Absent
  <2>1. Tables'
    BY <1>1, <1>2, <1>12, <1>13 DEF SizingInv, Tables
  <2>2. Placed'
    BY <1>1, <1>2, <1>3, <1>13, Sizes DEF SizingInv, Placed
  <2>3. ASSUME ~divided', Sizable(sizing)
        PROVE  /\ Right(device[sizing][bar_index], device_bar'[bar_index], mapped')
               /\ (device[sizing][bar_index].kind = "memory64") <=> (bar_index_ignore' = bar_index + 1)
    <3>1. device[sizing][bar_index].kind = "none"
      BY <1>1, <1>2, <1>13, <2>3, RegisterKind, Zenon
    <3>2. device_bar'[bar_index] = Unused
      <4>1. device_bar' = device_bar /\ stage # "idle" /\ ~divided /\ ~(bar_index < bar_index)
        BY <1>1, <1>2, <1>3, <1>13, <2>3
      <4> QED
        BY <1>3, <2>3, <4>1 DEF SizingInv, SoFar
    <3>3. Right(device[sizing][bar_index], device_bar'[bar_index], mapped')
      BY <3>1, <3>2 DEF Right
    <3>4. bar_index_ignore' # bar_index + 1
      BY <1>1, <1>3, Sizes
    <3> QED
      BY <3>1, <3>3, <3>4
  <2>4. SoFar'
    BY <1>1, <1>2, <1>3, <1>13, <2>3, Advance, Zenon
  <2>5. Stored'
    BY <1>1, <1>2, <1>13, StoredKept
  <2> QED
    BY <1>8, <1>9, <1>10, <2>1, <2>2, <2>4, <2>5 DEF SizingInv
<1>14. CASE Refused
  <2> USE DEF Refused
  <2>1. Tables'
    BY <1>1, <1>2, <1>12, <1>14 DEF SizingInv, Tables
  <2>2. Placed'
    BY <1>1, <1>2, <1>3, <1>14, Sizes DEF SizingInv, Placed
  <2>3. ~divided' /\ Sizable(sizing) => Illegal(device[sizing], bar_index)
    <3> SUFFICES ASSUME ~divided', Sizable(sizing)
                 PROVE  Illegal(device[sizing], bar_index)
      OBVIOUS
    <3> DEFINE hw == device[sizing][bar_index]
    <3>1. /\ hw.kind \in {"memory", "memory64"}
          /\ (hw.kind = "memory64") <=> IsWide(bar_orig)
          /\ TypeOf(bar_orig) = TypeOf(hw.flags)
      BY <1>1, <1>2, <1>14, RegisterKind, Zenon DEF InvalidBarType
    <3>2. ~IsIo(bar_orig) /\ (TypeOf(bar_orig) = 3 \/ (TypeOf(bar_orig) = 2 /\ bar_index >= BarCount - 1))
      BY <1>14 DEF InvalidBarType
    <3>3. bar_index >= BarCount - 1 => bar_index = BarCount - 1
      BY <1>3, Sizes
    <3> QED
      BY <3>1, <3>2, <3>3 DEF Illegal, IsMemory, IsWide
  <2>4. SoFar'
    BY <1>14, Zenon DEF SoFar
  <2>5. Stored'
    BY <1>1, <1>2, <1>3, <1>14, <2>3 DEF SizingInv, Stored, Tables, Sizable
  <2> QED
    BY <1>8, <1>9, <1>10, <2>1, <2>2, <2>4, <2>5 DEF SizingInv
<1>15. CASE Halved
  <2> USE DEF Halved
  <2>1. Tables'
    BY <1>1, <1>2, <1>12, <1>15, Zenon DEF SizingInv, Tables
  <2>2. bar_index < BarCount - 1
    BY <1>3, <1>15, Sizes DEF InvalidBarType, IsWide
  <2>3. Placed'
    BY <1>1, <1>2, <1>3, <1>15, <2>2, Sizes, Zenon DEF SizingInv, Placed
  <2>4. ~divided' /\ Sizable(sizing) => device[sizing][bar_index].kind = "memory64"
    BY <1>1, <1>2, <1>15, RegisterKind
  <2>5. SoFar'
    BY <1>1, <1>2, <1>15, <2>4, Zenon DEF SizingInv, SoFar, Sizable
  <2>6. Stored'
    BY <1>1, <1>2, <1>15, StoredKept
  <2> QED
    BY <1>8, <1>9, <1>10, <2>1, <2>3, <2>5, <2>6 DEF SizingInv
<1>16. CASE Whole
  <2> DEFINE bar == Decoded(bar_orig, size, 0)
  <2>1. /\ size # 0 /\ ~IsWide(bar_orig) /\ result' = result
        /\ device_bar' = [device_bar EXCEPT ![bar_index] = bar]
        /\ mapped' = (IF IsIo(bar_orig) THEN mapped ELSE mapped \cup PagesOf(bar))
        /\ bar_index' = bar_index + 1 /\ stage' = "read"
    BY <1>16 DEF Whole, Record
  <2> HIDE DEF bar
  <2>2. Tables'
    BY <1>1, <1>2, <1>12, <2>1 DEF SizingInv, Tables
  <2>3. Placed'
    BY <1>1, <1>2, <1>3, <2>1, Sizes DEF SizingInv, Placed
  <2>4. mapped \subseteq mapped' /\ device_bar'[bar_index] = bar
        /\ \A i \in Index : i # bar_index => device_bar'[i] = device_bar[i]
    BY <1>3, <2>1 DEF SizingInv, Tables
  <2>5. ~divided' /\ Sizable(sizing) =>
            Right(device[sizing][bar_index], bar, mapped') /\ device[sizing][bar_index].kind # "memory64"
    <3> SUFFICES ASSUME ~divided', Sizable(sizing)
                 PROVE  Right(device[sizing][bar_index], bar, mapped')
                        /\ device[sizing][bar_index].kind # "memory64"
      BY Zenon
    <3> DEFINE d == device[sizing]
    <3>1. d[bar_index].kind \in {"io", "memory"} /\ d[bar_index].size < Modulus
      BY <1>1, <1>2, <1>3, <2>1, RegisterKind DEF Sizable
    <3>2. d[bar_index].size >= Page => d[bar_index].size % Page = 0
      BY <1>3, Zenon DEF SizingInv, HardwareWired
    <3>3. bar_orig = Assigned(d, bar_index) /\ size_mask = Take(d, bar_index, Modulus - 1)
      BY <1>1, <1>2 DEF SizingInv, Remembered
    <3>4. bar = Decoded(Assigned(d, bar_index), SizeOf(Take(d, bar_index, Modulus - 1)), 0)
      BY <3>3 DEF bar
    <3>5. ~IsIo(Assigned(d, bar_index)) => PagesOf(bar) \subseteq mapped'
      BY <2>1, <3>3
    <3> HIDE DEF d
    <3>6. Right(d[bar_index], bar, mapped')
      BY <1>3, <1>4, <3>1, <3>2, <3>4, <3>5, RecordRight, Zenon DEF d
    <3> QED
      BY <3>1, <3>6 DEF d
  <2>6. bar_index_ignore' # bar_index + 1
    BY <1>1, <1>3, Sizes
  <2>7. SoFar'
    BY <1>1, <1>2, <1>3, <2>1, <2>4, <2>5, <2>6, Advance, Zenon
  <2>8. Stored'
    BY <1>1, <1>2, <2>1, <2>4, StoredKept
  <2> QED
    BY <1>8, <1>9, <1>10, <2>2, <2>3, <2>7, <2>8 DEF SizingInv
<1> QED
  BY <1>1, <1>13, <1>14, <1>15, <1>16

\* The upper half of the address comes from the register behind, which is then
\* passed over.
LEMMA ReadTopSound ==
    ASSUME Widths, SizingInv, read_top
    PROVE  SizingInv' /\ Effect
<1> DEFINE bar == Decoded(bar_orig, SizeOf(size_mask), DataRead)
<1>1. /\ stage = "top" /\ read_config("driver", sizing, Wanted)
      /\ UNCHANGED <<sizing, bar_orig, size_mask, standard_device_bar, result>>
      /\ bar_index_ignore' = bar_index + 1
      /\ device_bar' = [device_bar EXCEPT ![bar_index] = bar]
      /\ mapped' = (IF IsIo(bar_orig) THEN mapped ELSE mapped \cup PagesOf(bar))
      /\ bar_index' = bar_index + 1 /\ stage' = "read"
  BY DEF read_top, At, Record, Ignores
<1> HIDE DEF bar
<1>2. /\ "driver" \notin selecting' /\ device' = device
      /\ Undisturbed => ~divided'
      /\ ~divided' => ~divided /\ Selected(port) = [bdf |-> sizing, register |-> 16 + 4 * (bar_index + 1)]
  BY <1>1, DataDone DEF read_config
<1>3. regs' = regs /\ command' = command
  BY <1>1 DEF read_config
<1>4. /\ sizing \in DOMAIN device /\ sizing \in Bdf
      /\ bar_index \in Index /\ bar_index + 1 \in Index /\ bar_index \in 0 .. BarCount - 2
  BY <1>1, Sizes DEF SizingInv, Placed
<1>5. Wired(device[sizing])
  BY <1>4 DEF SizingInv, HardwareWired
<1>6. HardwareWired' /\ Effect
  BY <1>1, <1>2, <1>3, StepDone
<1>7. Tables'
  BY <1>1, <1>2, <1>3 DEF SizingInv, Tables
<1>8. Placed'
  BY <1>1, <1>2, <1>4, Sizes DEF SizingInv, Placed
<1>9. Addressed'
  BY <1>1, <1>2 DEF Addressed
<1>10. Remembered'
  BY <1>1, <1>2, <1>3, Zenon DEF SizingInv, Remembered
<1>11. mapped \subseteq mapped' /\ device_bar'[bar_index] = bar
       /\ \A i \in Index : i # bar_index => device_bar'[i] = device_bar[i]
  BY <1>1, <1>4, Zenon DEF SizingInv, Tables
<1>12. ~divided' /\ Sizable(sizing) =>
           Right(device[sizing][bar_index], bar, mapped') /\ device[sizing][bar_index].kind = "memory64"
  <2> SUFFICES ASSUME ~divided', Sizable(sizing)
               PROVE  Right(device[sizing][bar_index], bar, mapped')
                      /\ device[sizing][bar_index].kind = "memory64"
    BY Zenon
  <2> DEFINE d == device[sizing]
  <2>1. d[bar_index].kind = "memory64" /\ d[bar_index].size < Modulus
    BY <1>1, <1>2, <1>4 DEF SizingInv, SoFar, Sizable
  <2>2. d[bar_index].size >= Page => d[bar_index].size % Page = 0
    BY <1>4 DEF SizingInv, HardwareWired
  <2>3. bar_orig = Assigned(d, bar_index) /\ size_mask = Take(d, bar_index, Modulus - 1)
    BY <1>1, <1>2, Zenon DEF SizingInv, Remembered
  <2>4. DataRead = Assigned(d, bar_index + 1)
    BY <1>1, <1>2, <1>4, BarReached, Zenon DEF SizingInv, Remembered
  <2>5. d[bar_index + 1].kind = "upper" /\ (bar_index + 1) - 1 = bar_index
    <3>1. (bar_index + 1) - 1 = bar_index /\ bar_index + 1 > 0
      BY <1>4, Sizes
    <3>2. d[bar_index + 1].kind = "upper" <=>
             (bar_index + 1 > 0 /\ d[(bar_index + 1) - 1].kind = "memory64")
      BY <1>4, <1>5, WiredAt, Zenon
    <3>3. d[(bar_index + 1) - 1] = d[bar_index]
      BY <3>1
    <3> QED
      BY <2>1, <3>1, <3>2, <3>3, Zenon
  <2>6. DataRead = d[bar_index].base \div Modulus
    BY <2>4, <2>5 DEF Assigned
  <2>7. bar = Decoded(Assigned(d, bar_index), SizeOf(Take(d, bar_index, Modulus - 1)),
                           DataRead)
    BY <2>3 DEF bar
  <2>8. ~IsIo(Assigned(d, bar_index)) => PagesOf(bar) \subseteq mapped'
    BY <1>1, <2>3
  <2> HIDE DEF d
  <2>9. Right(d[bar_index], bar, mapped')
    BY <1>4, <1>5, <2>1, <2>2, <2>6, <2>7, <2>8, RecordRight, Zenon DEF d
  <2> QED
    BY <2>1, <2>9 DEF d
<1>13. SoFar'
  BY <1>1, <1>2, <1>4, <1>11, <1>12, Advance, Zenon
<1>14. Stored'
  BY <1>1, <1>2, <1>11, StoredKept
<1> QED
  BY <1>6, <1>7, <1>8, <1>9, <1>10, <1>13, <1>14 DEF SizingInv

-----------------------------------------------------------------------------
\* Nothing is sized when the machine is switched on.
LEMMA PowerOn ==
    ASSUME Widths, HardwareWired, PortsInit, BarInit
    PROVE  SizingInv /\ Undisturbed /\ "driver" \notin selecting
<1> USE DEF PortsInit, BarInit
<1>1. Tables
  BY DEF Tables, NoBars
<1>2. Placed /\ Addressed
  BY Sizes DEF Placed, Addressed, Bdf
<1>3. Remembered /\ SoFar /\ Stored
  BY Zenon DEF Remembered, SoFar, Stored
<1> QED
  BY <1>1, <1>2, <1>3 DEF SizingInv, Undisturbed

\* bar_init begins with nothing recorded.
LEMMA SizingBegins ==
    ASSUME Widths, SizingInv, NEW f \in DOMAIN device, "driver" \notin selecting, bar_init(f)
    PROVE  SizingInv'
<1> USE DEF bar_init, portVars
<1>1. HardwareWired' /\ Tables'
  BY DEF SizingInv, HardwareWired, Tables, NoBars
<1>2. Placed' /\ Addressed'
  BY Sizes DEF SizingInv, Placed, Addressed, HardwareWired
<1>3. Remembered'
  BY DEF SizingInv, Remembered
<1>4. SoFar'
  <2>1. Wired(device[f]) /\ 0 \in Index
    BY Sizes DEF SizingInv, HardwareWired
  <2>2. \A i \in Index : ~(i < 0) /\ ~(0 > 0) /\ 0 # -1
    BY Sizes
  <2>3. device[f][0].kind # "upper"
    BY <2>1, <2>2, WiredAt, Zenon
  <2>4. \A i \in Index : device_bar'[i] = Unused
    BY DEF NoBars
  <2> QED
    BY <2>1, <2>2, <2>3, <2>4, Zenon DEF SoFar
<1>5. Stored'
  BY DEF SizingInv, Stored, Sizable
<1> QED
  BY <1>1, <1>2, <1>3, <1>4, <1>5 DEF SizingInv

\* Whatever else is done to the ports, as long as the driver does not begin an
\* access in the middle of pci_bar_init.
LEMMA OthersQuiet ==
    ASSUME SizingInv, UNCHANGED <<device, regs, barVars>>, DOMAIN command' = DOMAIN device,
           "driver" \in selecting' /\ stage # "idle" => "driver" \in selecting,
           divided => divided'
    PROVE  SizingInv'
<1> USE DEF barVars
<1>1. HardwareWired' /\ Tables'
  BY DEF SizingInv, HardwareWired, Tables
<1>2. Placed' /\ Addressed'
  BY DEF SizingInv, Placed, Addressed
<1>3. Remembered'
  BY Zenon DEF SizingInv, Remembered
<1>4. SoFar'
  BY DEF SizingInv, SoFar, Sizable
<1>5. Stored'
  BY DEF SizingInv, Stored, Sizable
<1> QED
  BY <1>1, <1>2, <1>3, <1>4, <1>5 DEF SizingInv

\* Every step of pci_bar_init keeps the invariant.
THEOREM SizingSound ==
    ASSUME Widths, SizingInv,
           skip \/ address \/ read_orig \/ write_ones \/ read_mask \/ restore \/ read_top \/ store
    PROVE  SizingInv' /\ Effect
BY SkipSound, AddressSound, ReadOrigSound, WriteOnesSound, ReadMaskSound, RestoreSound,
   ReadTopSound, StoreSound, Zenon

\* What RegistersRestored says follows from the invariant.
LEMMA RegistersLeft ==
    ASSUME SizingInv
    PROVE  RegistersRestored
BY Zenon DEF SizingInv, Remembered, RegistersRestored

\* What BarsRight says follows from the invariant.
LEMMA BarsStored ==
    ASSUME SizingInv
    PROVE  BarsRight
<1>1. \A hw, bar : Right(hw, bar, mapped) => BarRight(hw, bar)
  BY Zenon DEF Right, BarRight, MemoryBarRight, IsMemory
<1> QED
  BY <1>1 DEF SizingInv, Stored, BarsRight

\* A usable function comes out of bar_init with a memory BAR in its first register.
LEMMA FirstBarFound ==
    ASSUME Widths, SizingInv, ~divided, NEW f \in DOMAIN device, result[f] \in {"ok", "error"},
           Sizable(f), IsMemory(device[f][0]), \A i \in Index : ~Illegal(device[f], i)
    PROVE  standard_device_bar[f][0].kind = "memory"
<1>1. result[f] = "ok" /\ 0 \in Index
  BY Sizes DEF SizingInv, Stored
<1>2. Right(device[f][0], standard_device_bar[f][0], mapped)
  BY <1>1 DEF SizingInv, Stored
<1> DEFINE hw == device[f][0]
<1>3. standard_device_bar[f][0] =
        [kind |-> "memory", size |-> hw.size, address |-> hw.base,
         type |-> TypeOf(hw.flags), prefetchable |-> hw.flags \div 8 = 1]
  BY <1>2, Zenon DEF Right, IsMemory
<1> QED
  BY ONLY <1>3

\* A write to the command register of a function changes no BAR.
LEMMA CommandWritten ==
    ASSUME Widths, SizingInv, sizing \in DOMAIN device, NEW v, ~divided,
           port = port_address(sizing, STATUS_COMMAND_OFFSET),
           write_config("driver", sizing, STATUS_COMMAND_OFFSET, v)
    PROVE  /\ UNCHANGED <<device, regs>> /\ ~divided' /\ "driver" \notin selecting'
           /\ command' = [command EXCEPT ![sizing] = v]
<1> DEFINE s == Selected(port)
<1>1. s = [bdf |-> sizing, register |-> 4]
  BY PortMeans DEF SizingInv, Placed
<1>2. s.bdf = sizing /\ s.register = 4
  BY <1>1
<1>3. ~IsBar(4) /\ STATUS_COMMAND_OFFSET = 4
  BY Sizes DEF IsBar, BAR0_OFFSET, STATUS_COMMAND_OFFSET
<1> HIDE DEF s
<1>4. RegsWith(s, v) = regs
  BY <1>2, <1>3 DEF RegsWith
<1>5. CommandWith(s, v) = [command EXCEPT ![sizing] = v]
  BY <1>2, <1>3 DEF CommandWith
<1>6. UNCHANGED <<device, regs>> /\ command' = [command EXCEPT ![sizing] = v]
  BY <1>4, <1>5 DEF write_config, data, s
<1>7. ~divided' /\ "driver" \notin selecting'
  BY Zenon DEF write_config, data
<1> QED
  BY <1>6, <1>7
=============================================================================
