---------------------------- MODULE NvmeTransfer ----------------------------
(***************************************************************************)
(* How reads and writes are cut into NVMe commands: read, write,           *)
(* read_copied, write_copied, batched_read and batched_write of NvmeDevice *)
(* (src/drivers/nvme/nvme.rs), over the chunks of a DMA slice              *)
(* (src/drivers/nvme/memory.rs), and read_block and write_block            *)
(* (src/drivers/nvme/mod.rs), which are what the kernel calls.             *)
(*                                                                         *)
(* Offsets and sizes are the bytes of the code; what memory and disk hold  *)
(* is told apart by block of 512 bytes.  NVME_CONS is held for a whole     *)
(* call, so calls do not overlap, and one step is one chunk: the commands  *)
(* of a chunk are submitted together and waited for together.              *)
(***************************************************************************)
EXTENDS Integers

CONSTANTS
    Capacity,   \* blocks of the namespace
    BadBlock,   \* the blocks on which a command fails
    Kind,       \* the calls that are made: "dma", "copied", "batched", "block"
    Lba,        \* the first blocks they are made with
    Size,       \* the sizes of their data, in blocks
    Batch,      \* the batch_len they are made with
    MaxCalls

ASSUME TransferAssumption ==
    /\ Capacity \in Nat /\ Capacity >= 1
    /\ BadBlock \subseteq 0 .. Capacity - 1
    /\ Lba \subseteq 0 .. Capacity - 1
    /\ Size \subseteq Nat \ {0}
    /\ Batch \subseteq Nat \ {0}

VARIABLES
    disk,       \* what each block of the namespace holds
    memory,     \* what each block of the caller's data or destination holds
    call,       \* the call in progress, or the last one
    position,   \* the byte of its data where the next chunk starts
    lba,        \* its lba variable
    outcome,    \* "running", "returned" or "panicked"
    before,     \* the disk when the call started
    calls       \* the calls made so far

vars == <<disk, memory, call, position, lba, outcome, before, calls>>

Block == 0 .. Capacity - 1

BlockBytes == 512
PageBytes == 4096

Smaller(a, b) == IF a <= b THEN a ELSE b

\* Contents: block i as the n-th call wrote it, as the disk held it at
\* first (call 0), and bytes that belong to no block of the call.
Stale == <<0, Capacity>>

NoCall == [lba |-> 0, kind |-> "none", write |-> FALSE, size |-> 0, batch |-> 1]

Call == [lba : Lba, kind : Kind, write : BOOLEAN, size : Size, batch : Batch]

\* Dma::allocate rounds up to whole pages; read_block and write_block use that
\* buffer for one block, the others use data of the size they are called with.
RoundUp(bytes) == IF bytes % PageBytes # 0 THEN (bytes \div PageBytes + 1) * PageBytes ELSE bytes

BytesOf(c) ==
    CASE c.kind = "block" -> RoundUp(BlockBytes)
      [] c.kind = "dma" -> RoundUp(c.size * BlockBytes)
      [] OTHER -> c.size * BlockBytes

Init ==
    /\ disk = [b \in Block |-> <<0, b>>]
    /\ before = disk
    /\ call = NoCall
    /\ memory = << >>
    /\ position = 0 /\ lba = 0
    /\ outcome = "returned"
    /\ calls = 0
-----------------------------------------------------------------------------
\* The data of a write; of a page of write_block only the first block is filled.
DataOf(c, n) ==
    [i \in 0 .. BytesOf(c) \div BlockBytes - 1 |->
        IF ~c.write \/ (c.kind = "block" /\ i > 0) THEN Stale ELSE <<n, i>>]

start(c) ==
    /\ outcome = "returned" /\ calls < MaxCalls
    /\ call' = c
    /\ memory' = DataOf(c, calls + 1)
    /\ position' = 0 /\ lba' = c.lba
    /\ outcome' = "running"
    /\ before' = disk
    /\ calls' = calls + 1
    /\ UNCHANGED disk
-----------------------------------------------------------------------------
\* The size of the device's staging buffer.
BufferBytes == PageBytes

ChunkBytes(kind) ==
    CASE kind = "copied" -> 128 * PageBytes
      [] kind = "batched" -> PageBytes
      [] OTHER -> 2 * PageBytes

\* DmaChunks::next, and chunks of a slice: the last one may be short.
ChunkLen == Smaller(ChunkBytes(call.kind), BytesOf(call) - position)

\* The second pointer of a command that starts at byte off of the chunk.
Ptr1None(off, bytes) == 0
Ptr1(off, bytes) == IF bytes <= PageBytes THEN 0 ELSE off + PageBytes

Command(off, blocks, at) ==
    [lba |-> at, off |-> off, blocks |-> blocks, ptr1 |-> Ptr1(off, blocks * BlockBytes)]

\* namespace_io for read, write and the copied calls: one command per chunk.
BlocksOver(len) == len \div BlockBytes + 1
Blocks(len) == (len + BlockBytes - 1) \div BlockBytes

\* batched_read and batched_write.
BatchLen(len) == Smaller(call.batch, len \div BlockBytes)

BatchBlocks(len) == (len \div BatchLen(len)) \div BlockBytes

Commands(len) ==
    IF call.kind = "batched"
    THEN [i \in 0 .. BatchLen(len) - 1 |->
             Command(i * (len \div BatchLen(len)), BatchBlocks(len), lba + i * BatchBlocks(len))]
    ELSE [i \in {0} |-> Command(0, Blocks(len), lba)]

\* How far lba advances over a chunk.
Advance(len) ==
    IF call.kind = "batched" THEN BatchLen(len) * BatchBlocks(len) ELSE Blocks(len)

\* The byte of the chunk where the controller finds block k of a command: the
\* first pointer up to the end of its page, then the second; -1 when that is 0.
Location(c, k) ==
    LET byte == c.off + k * BlockBytes
        page == (c.off \div PageBytes + 1) * PageBytes
    IN  IF byte < page THEN byte
        ELSE IF c.ptr1 = 0 THEN -1 ELSE c.ptr1 + (byte - page)

Covers(c, b) == c.lba <= b /\ b < c.lba + c.blocks

\* The controller fails a command that leaves the namespace or meets a bad block.
Succeeds(c) ==
    /\ c.lba + c.blocks <= Capacity
    /\ \A b \in BadBlock : ~Covers(c, b)

\* What the caller's memory holds at a byte of the chunk.
Fetch(byte) ==
    IF byte >= 0 /\ byte % BlockBytes = 0 /\ (position + byte) \div BlockBytes \in DOMAIN memory
    THEN memory[(position + byte) \div BlockBytes] ELSE Stale

Written(cmds) ==
    [b \in Block |->
        IF \E i \in DOMAIN cmds : Succeeds(cmds[i]) /\ Covers(cmds[i], b)
        THEN LET i == CHOOSE i \in DOMAIN cmds : Succeeds(cmds[i]) /\ Covers(cmds[i], b)
             IN  Fetch(Location(cmds[i], b - cmds[i].lba))
        ELSE disk[b]]

\* The blocks of disk that a chunk's commands put at byte o of the chunk.
Landing(cmds, o) ==
    {disk[b] : b \in {x \in Block : \E i \in DOMAIN cmds :
        Succeeds(cmds[i]) /\ Covers(cmds[i], x) /\ Location(cmds[i], x - cmds[i].lba) = o}}

Loaded(cmds, len) ==
    [i \in DOMAIN memory |->
        LET o == i * BlockBytes - position IN
        IF o \in 0 .. len - 1
        THEN IF Landing(cmds, o) = {} THEN Stale ELSE CHOOSE v \in Landing(cmds, o) : TRUE
        ELSE memory[i]]

\* complete_io looks at the status of the last command of the chunk.
ChunkFailed(cmds) ==
    \E last \in DOMAIN cmds : (\A i \in DOMAIN cmds : i <= last) /\ ~Succeeds(cmds[last])

\* These calls go through the staging buffer: a read copies out of it last, once
\* its commands have come through.
Staged == call.kind \in {"copied", "batched"}

\* The staging buffer is indexed with the length of the chunk: the call panics,
\* and what its own variables hold no longer matters.
Overruns(len) == call.kind = "copied" /\ len > BufferBytes

chunk ==
    /\ outcome = "running" /\ position < BytesOf(call)
    /\ LET len == ChunkLen
           cmds == Commands(len)
       IN  \/ /\ Overruns(len)
              /\ outcome' = "panicked"
              /\ UNCHANGED <<disk, memory, position, lba>>
           \/ /\ ~Overruns(len)
              /\ disk' = IF call.write THEN Written(cmds) ELSE disk
              /\ memory' = IF call.write \/ (ChunkFailed(cmds) /\ Staged) THEN memory
                           ELSE Loaded(cmds, len)
              /\ position' = position + len
              /\ lba' = lba + Advance(len)
              /\ outcome' = IF ChunkFailed(cmds) THEN "panicked" ELSE "running"
    /\ UNCHANGED <<call, before, calls>>

return ==
    /\ outcome = "running" /\ position >= BytesOf(call)
    /\ outcome' = "returned"
    /\ UNCHANGED <<disk, memory, call, position, lba, before, calls>>

Next == (\E c \in Call : start(c)) \/ chunk \/ return

Spec == Init /\ [][Next]_vars
-----------------------------------------------------------------------------
\* The blocks a call is about.
Target == call.lba .. call.lba + (BytesOf(call) \div BlockBytes) - 1

\* Of the page that read_block and write_block move, the caller sees one block.
Asked == IF call.kind = "block" THEN {call.lba} ELSE Target

Finished == outcome = "returned" /\ calls > 0

\* A chunk of n blocks is split evenly: batched_read and batched_write round the
\* blocks of each command down and lose the rest.
EvenBatches ==
    call.kind = "batched" =>
        \A n \in {8, call.size % 8} \ (IF call.size < 8 THEN {0, 8} ELSE {0}) :
            n % Smaller(call.batch, n) = 0

\* Of several commands for a chunk only the status of the last is looked at, so
\* the blocks of a real batch have to be good.
StatusSeen ==
    call.kind = "batched" /\ call.batch > 1 => Target \subseteq Block \ BadBlock

\* A call that returns has moved every block of its data to or from the block
\* of the disk at the same distance from lba, whatever chunks, pages and
\* batches it was cut into, as long as the batches are even and their failures
\* are seen.
ReturnMeansDone ==
    Finished /\ EvenBatches /\ StatusSeen =>
        \A b \in Asked : b \in Block /\ disk[b] = memory[b - call.lba]

\* At no time has a call changed a block outside the ones it is about, or a
\* read changed any.
OutsideUntouched ==
    calls > 0 => \A b \in Block : disk[b] # before[b] => call.write /\ b \in Target
=============================================================================
