--------------------------- MODULE AddressSpaces ----------------------------
(***************************************************************************)
(* Page tables, and who uses them: the table of the kernel, the copies of  *)
(* it that processes get, the user heap and stack that are mapped into the *)
(* copies, and the consoles, whose buffers switch_to maps onto the screen. *)
(*                                                                         *)
(* Tables are kept where they are in memory: mem.tbl gives for each frame  *)
(* that is a table what its entries point to.  The four levels are two     *)
(* here, a directory of regions and a table of pages for each region.      *)
(* Everything is done under the lock of the frame allocator, so that an    *)
(* operation, or a stage of creating a process, is one step.  Addresses in *)
(* a heap are counted in units, UnitsPerPage to a page.                    *)
(***************************************************************************)
EXTENDS Integers, FiniteSets, Sequences, SequencesExt

CONSTANTS
    Process,       \* the processes that may be created, counted from 1
    Tty,           \* the consoles, counted from 0
    BufferPages,   \* pages of a console's buffer, as of the screen
    Vram,          \* the frames of the screen, by page
    Usable,        \* the frames that are free at first; others hold the kernel
    UnitsPerPage,
    USER_HEAP_INIT_SIZE,  \* units of the heap a process starts with
    MaxHeap,       \* bound on the pages of a heap
    Layout,        \* the sizes that are allocated, in units
    Pixel,         \* what can be drawn on a page; 0 among them
    Bounds         \* what a behaviour is about: which processes use their heap, whether
                   \* the consoles are drawn on, and how often they are switched

VARIABLES
    bound,         \* one of Bounds
    partial,       \* whether the buffers end inside their last page
    mem,           \* frames and tables
    root,          \* the directory of each address space, or None
    stage,         \* how far a process is
    heap,          \* the heap of each process
    content,       \* what the frames hold that the consoles have in the kernel's table, or the screen
    drawn,         \* what was last drawn on each page of a console
    current,       \* CURRENT_TTY
    init,          \* INIT
    switches,      \* the switches so far
    stray          \* whether something was drawn on a frame the console has left

screen == <<content, drawn, current, init, switches, stray>>
vars == <<bound, partial, mem, root, stage, heap, screen>>

Kernel == 0
None == 0
VramFrames == Range(Vram)

\* Pages: of the consoles' buffers, in the kernel's heap, and of a process.
TtyPage(t, i) == <<"tty", t, i>>
TtyPages == {TtyPage(t, i) : t \in Tty, i \in 1 .. BufferPages}
HeapPage(n) == <<"heap", n, 0>>
SegmentPage == <<"segment", 0, 0>>
StackPage == <<"stack", 0, 0>>

Region(page) == page[1]
Regions == <<"tty", "segment", "heap", "stack">>

Entry(table, key) == IF key \in DOMAIN table THEN table[key] ELSE None
Empty == [k \in {} |-> None]
With(f, k, v) == [x \in DOMAIN f \cup {k} |-> IF x = k THEN v ELSE f[x]]
Drop(f, k) == [x \in DOMAIN f \ {k} |-> f[x]]
-----------------------------------------------------------------------------
(* Operations on a memory m: the free frames (free), the cursor (next) and *)
(* budget (usable) of the frame allocator, the frame it last handed out    *)
(* (got), the tables (tbl), whether a frame of the screen was handed out   *)
(* (lent) and whether no call has panicked (ok).                           *)

translate_page(m, dir, page) ==
    LET table == Entry(m.tbl[dir], Region(page))
    IN  IF table = None THEN None ELSE Entry(m.tbl[table], page)

\* As in FrameAllocator: the cursor goes on to the next set bit and never back.
\* A frame of the screen can come up when it has been freed.
allocate_frame(m) ==
    LET ahead == {f \in m.free : f > m.next}
    IN  IF m.usable = 0 THEN [m EXCEPT !.ok = FALSE]
        ELSE [m EXCEPT !.usable = @ - 1, !.free = @ \ {m.next}, !.got = m.next,
                       !.lent = @ \/ m.next \in VramFrames,
                       !.next = IF ahead = {} THEN m.end ELSE CHOOSE f \in ahead : \A g \in ahead : f <= g]

deallocate_frame(m, f) == [m EXCEPT !.free = @ \cup {f}]

\* map_to makes the table of the region when there is none, and fails when the
\* page is mapped; all callers here unwrap the result.
map_to(m, dir, page, frame) ==
    LET made == allocate_frame(m)
        m2 == IF Entry(m.tbl[dir], Region(page)) # None THEN m
              ELSE [made EXCEPT !.tbl = With(With(@, dir, With(@[dir], Region(page), made.got)), made.got, Empty)]
        table == m2.tbl[dir][Region(page)]
    IN  IF ~m2.ok \/ translate_page(m2, dir, page) # None THEN [m2 EXCEPT !.ok = FALSE]
        ELSE [m2 EXCEPT !.tbl[table] = With(@, page, frame)]

unmap(m, dir, page) == [m EXCEPT !.tbl[m.tbl[dir][Region(page)]] = Drop(@, page)]

\* One page of alloc_range, of heap.init and of sbrk.
alloc_page(m, dir, page) ==
    LET m2 == allocate_frame(m)
    IN  IF m2.ok THEN map_to(m2, dir, page, m2.got) ELSE m2

alloc_range(m, dir, pages) == FoldLeft(LAMBDA n, page : alloc_page(n, dir, page), m, pages)

\* A table of its own for every region, with the same entries.
copy_region_shared(m, dir, source, region) ==
    [m EXCEPT !.tbl[dir] = With(@, region, m.tbl[source][region])]
copy_region(m, dir, source, region) ==
    LET m2 == allocate_frame(m)
    IN  [m2 EXCEPT !.tbl = With(With(@, dir, With(@[dir], region, m2.got)), m2.got, @[@[source][region]])]

\* create_page_table_from_kernel; the new directory is the first frame taken.
new_from_address(m, source) ==
    LET m2 == allocate_frame(m)
        dir == m2.got
        m3 == [m2 EXCEPT !.tbl = With(@, dir, Empty)]
    IN  FoldLeft(LAMBDA n, r : copy_region(n, dir, source, r), m3,
                 SelectSeq(Regions, LAMBDA r : r \in DOMAIN m.tbl[source]))

\* clean_up gives back the tables that have no entry left, and nothing else.
clean_up(m, dir) ==
    LET unused == {r \in DOMAIN m.tbl[dir] : m.tbl[m.tbl[dir][r]] = Empty}
    IN  [m EXCEPT !.free = @ \cup {m.tbl[dir][r] : r \in unused},
                  !.tbl[dir] = [r \in DOMAIN @ \ unused |-> @[r]]]
-----------------------------------------------------------------------------
KernelDir == 1
KernelTable == 2
FirstBuffer == 3
EndOfMemory == 1 + CHOOSE f \in Usable \cup VramFrames : \A g \in Usable \cup VramFrames : g <= f

NewHeap == [size |-> USER_HEAP_INIT_SIZE, usable_size |-> USER_HEAP_INIT_SIZE,
            talc |-> 0 .. USER_HEAP_INIT_SIZE - 1, blocks |-> {}, cleared |-> FALSE]

\* After the kernel's heap and the buffers are there, before the first switch_to.
Init ==
    /\ bound \in Bounds
    /\ partial \in BOOLEAN
    /\ mem = [tbl |-> KernelDir :> ("tty" :> KernelTable)
                      @@ KernelTable :> [page \in TtyPages |-> FirstBuffer + page[2] * BufferPages + page[3] - 1],
              free |-> Usable,
              next |-> CHOOSE f \in Usable : \A g \in Usable : f <= g,
              usable |-> Cardinality(Usable),
              ok |-> TRUE,
              got |-> None,
              lent |-> FALSE,
              end |-> EndOfMemory]
    /\ root = [s \in {Kernel} \cup Process |-> IF s = Kernel THEN KernelDir ELSE None]
    /\ stage = [p \in Process |-> "none"]
    /\ heap = [p \in Process |-> NewHeap]
    /\ content = [f \in Range(mem.tbl[KernelTable]) \cup VramFrames |-> 0]
    /\ drawn = [page \in TtyPages |-> 0]
    /\ current = 0
    /\ init = FALSE
    /\ switches = 0
    /\ stray = FALSE

\* After a panic the system is halted.  What becomes of it when a process or
\* a table has got a frame of the screen, or when something was drawn on a
\* frame that the console has left, is not followed.
Runs == mem.ok /\ ~mem.lent /\ ~stray

-----------------------------------------------------------------------------
(* Processes. *)

\* Process::new; ids are given in order.
new_process(p) ==
    /\ Runs /\ init
    /\ stage[p] = "none" /\ \A q \in Process : q < p => stage[q] # "none"
    /\ mem' = new_from_address(mem, KernelDir)
    /\ root' = [root EXCEPT ![p] = mem.next]
    /\ stage' = [stage EXCEPT ![p] = "copied"]
    /\ UNCHANGED <<bound, partial, heap, screen>>

HeapPages(first, units) ==
    [n \in 1 .. (units + UnitsPerPage - 1) \div UnitsPerPage |-> HeapPage(first \div UnitsPerPage + n - 1)]

\* heap.init
heap_init(p) ==
    /\ Runs
    /\ stage[p] = "copied"
    /\ mem' = alloc_range(mem, root[p], HeapPages(0, USER_HEAP_INIT_SIZE))
    /\ stage' = [stage EXCEPT ![p] = "heap"]
    /\ UNCHANGED <<bound, partial, root, heap, screen>>

\* map_segments, and the stack of the first thread.
map_segments(p) ==
    /\ Runs
    /\ stage[p] = "heap"
    /\ mem' = alloc_range(mem, root[p], <<SegmentPage, StackPage>>)
    /\ stage' = [stage EXCEPT ![p] = "runs"]
    /\ UNCHANGED <<bound, partial, root, heap, screen>>

\* new_user_thread for a process that has a thread: the address of the user
\* stack is fixed, so that its page is mapped already.
new_user_thread(p) ==
    /\ Runs
    /\ stage[p] = "runs"
    /\ mem' = alloc_range(mem, root[p], <<StackPage>>)
    /\ UNCHANGED <<bound, partial, root, stage, heap, screen>>

\* The last reference goes: Drop for Process.
drop_process(p) ==
    /\ Runs
    /\ stage[p] = "runs"
    /\ mem' = clean_up(mem, root[p])
    /\ stage' = [stage EXCEPT ![p] = "gone"]
    /\ UNCHANGED <<bound, partial, root, heap, screen>>
-----------------------------------------------------------------------------
(* The heap of a process.  Its allocator keeps the units it was given      *)
(* (talc) and hands out blocks <<first unit, units>> of those not in use.  *)

Units(b) == b[1] .. b[1] + b[2] - 1
Taken(h) == UNION {Units(b) : b \in h.blocks}
Fits(h, n) == {a \in h.talc : Units(<<a, n>>) \subseteq h.talc \ Taken(h)}

allocated(h, a, n) == [h EXCEPT !.blocks = @ \cup {<<a, n>>}, !.usable_size = @ - n]

allocate(p, n) ==
    /\ Runs
    /\ stage[p] = "runs"
    /\ \E a \in Fits(heap[p], n) : heap' = [heap EXCEPT ![p] = allocated(@, a, n)]
    /\ UNCHANGED <<bound, partial, mem, root, stage, screen>>

\* sbrk(2 * n): the allocator gets the units behind size, then whole pages are
\* mapped for them, and size and usable_size grow by whole pages.
sbrk_bytes(h, units) ==
    [h EXCEPT !.talc = @ \cup (h.size .. h.size + units - 1),
              !.size = @ + UnitsPerPage * Len(HeapPages(h.size, units)),
              !.usable_size = @ + units]
sbrk(h, units) ==
    LET grown == UnitsPerPage * Len(HeapPages(h.size, units))
    IN  [h EXCEPT !.talc = @ \cup (h.size .. h.size + units - 1),
                  !.size = @ + grown,
                  !.usable_size = @ + grown]

allocate_growing(p, n) ==
    LET h == sbrk(heap[p], 2 * n)
    IN  /\ Runs
        /\ stage[p] = "runs"
        /\ Fits(heap[p], n) = {}
        /\ h.size <= MaxHeap * UnitsPerPage
        /\ mem' = alloc_range(mem, root[p], HeapPages(heap[p].size, 2 * n))
        /\ \E a \in Fits(h, n) : heap' = [heap EXCEPT ![p] = allocated(h, a, n)]
        /\ UNCHANGED <<bound, partial, root, stage, screen>>

deallocate(p, b) ==
    /\ Runs
    /\ stage[p] = "runs"
    /\ b \in heap[p].blocks
    /\ heap' = [heap EXCEPT ![p].blocks = @ \ {b}, ![p].usable_size = @ + b[2]]
    /\ UNCHANGED <<bound, partial, mem, root, stage, screen>>

give_back_unmapped(m, dir, page) == unmap(m, dir, page)
give_back(m, dir, page) == deallocate_frame(unmap(m, dir, page), translate_page(m, dir, page))

\* clear unmaps and frees the pages; the allocator keeps what it was given.  A
\* heap is cleared once.
clear_mapped(p) ==
    /\ Runs
    /\ stage[p] = "runs"
    /\ ~heap[p].cleared
    /\ mem' = FoldLeft(LAMBDA m, page : deallocate_frame(m, translate_page(m, root[p], page)),
                       mem, HeapPages(0, heap[p].size))
    /\ heap' = [heap EXCEPT ![p].size = 0, ![p].usable_size = 0, ![p].cleared = TRUE]
    /\ UNCHANGED <<bound, partial, root, stage, screen>>
clear(p) ==
    /\ Runs
    /\ stage[p] = "runs"
    /\ ~heap[p].cleared
    /\ mem' = FoldLeft(LAMBDA m, page : give_back(m, root[p], page), mem, HeapPages(0, heap[p].size))
    /\ heap' = [heap EXCEPT ![p].size = 0, ![p].usable_size = 0, ![p].cleared = TRUE]
    /\ UNCHANGED <<bound, partial, root, stage, screen>>
-----------------------------------------------------------------------------
(* The consoles. *)

Numbers == [i \in 1 .. BufferPages |-> i]

\* buffer_len / 4096: a page the buffer ends in does not count.
WholePages == SelectSeq(Numbers, LAMBDA i : ~(partial /\ i = BufferPages))

FrameOf(m, t, i) == translate_page(m, KernelDir, TtyPage(t, i))

\* The console that leaves the screen gets frames of its own again.
leave_screen(m, t) ==
    FoldLeft(LAMBDA n, i : LET n2 == allocate_frame(n)
                           IN  map_to(unmap(n2, KernelDir, TtyPage(t, i)), KernelDir, TtyPage(t, i), n2.got),
             m, WholePages)

\* The buffer of the new console is mapped onto the screen.  The loop runs once
\* for each byte: at the first byte of a page it frees the buffer's frame, at
\* the others the frame of the screen that it has just mapped.
enter_screen(m, t) ==
    FoldLeft(LAMBDA n, i : LET n2 == give_back(n, KernelDir, TtyPage(t, i))
                           IN  map_to(deallocate_frame(n2, Vram[i]), KernelDir, TtyPage(t, i), Vram[i]),
             m, Numbers)

\* The frames the consoles have in the kernel's table of memory m.
ConsoleFrames(m) == {FrameOf(m, t, i) : t \in Tty, i \in 1 .. BufferPages}

\* copy_from_slice, of the screen into the buffer of the console that leaves
\* it, and of the buffer of the new one, where c says what is in memory m,
\* onto the screen.
screen_saved_not(m) ==
    [f \in ConsoleFrames(m) \cup VramFrames |-> IF f \in DOMAIN content THEN content[f] ELSE 0]
screen_saved(m) ==
    [f \in ConsoleFrames(m) \cup VramFrames |->
        IF \E i \in 1 .. BufferPages : f = FrameOf(m, current, i)
        THEN content[Vram[CHOOSE i \in 1 .. BufferPages : f = FrameOf(m, current, i)]]
        ELSE content[f]]

buffer_shown(m, c, t) ==
    [f \in DOMAIN c |->
        IF f \in VramFrames THEN c[FrameOf(m, t, CHOOSE i \in 1 .. BufferPages : f = Vram[i])] ELSE c[f]]

\* The first call, with 0 and before INIT is set, comes from tty::init.
switch_to(t) ==
    LET left == IF init THEN leave_screen(mem, current) ELSE mem
        shown == buffer_shown(left, IF init THEN screen_saved(left) ELSE content, t)
        after == enter_screen(left, t)
    IN  /\ Runs
        /\ init \/ t = 0
        /\ switches <= bound.switches
        /\ switches' = switches + 1
        /\ mem' = IF left.ok THEN after ELSE left
        /\ content' = IF left.ok THEN [f \in ConsoleFrames(after) \cup VramFrames |-> shown[f]] ELSE content
        /\ current' = t
        /\ init' = TRUE
        /\ UNCHANGED <<bound, partial, root, stage, heap, drawn, stray>>

\* write_pixel, by a thread that runs in address space s.
write_pixel(s, t, i, v) ==
    LET page == TtyPage(t, i)
        frame == translate_page(mem, root[s], page)
    IN  /\ Runs /\ init /\ bound.drawn
        /\ s \in {Kernel} \cup {p \in Process : stage[p] = "runs"}
        /\ content' = IF frame \in DOMAIN content THEN [content EXCEPT ![frame] = v] ELSE content
        /\ drawn' = [drawn EXCEPT ![page] = v]
        /\ stray' = (stray \/ frame # FrameOf(mem, t, i))
        /\ UNCHANGED <<bound, partial, mem, root, stage, heap, current, init, switches>>
-----------------------------------------------------------------------------
Next ==
    \/ \E p \in Process :
          \/ new_process(p) \/ heap_init(p) \/ map_segments(p) \/ new_user_thread(p) \/ drop_process(p)
          \/ p \in bound.users /\ \E n \in Layout : allocate(p, n) \/ allocate_growing(p, n)
          \/ \E b \in heap[p].blocks : deallocate(p, b)
          \/ p \in bound.users /\ clear(p)
    \/ \E t \in Tty : switch_to(t)
    \/ \E s \in {Kernel} \cup Process, t \in Tty, i \in 1 .. BufferPages, v \in Pixel : write_pixel(s, t, i, v)

Spec == Init /\ [][Next]_vars
-----------------------------------------------------------------------------
Live == {Kernel} \cup {p \in Process : stage[p] \notin {"none", "gone"}}

Tables(s) == {mem.tbl[root[s]][r] : r \in DOMAIN mem.tbl[root[s]]}
TableFrames(s) == {root[s]} \cup Tables(s)
Maps(s, f) == \E table \in Tables(s) : \E page \in DOMAIN mem.tbl[table] : mem.tbl[table][page] = f

\* No two address spaces share a page table, no page table is mapped as data,
\* and the pages a process is given for itself, its heap, segment and stack,
\* are mapped in no other address space: new_from_recursion copies the tables,
\* not only the top one, and nothing hands out a frame twice.
SpacesApart ==
    Runs => \A s, t \in Live :
        /\ s # t => TableFrames(s) \cap TableFrames(t) = {}
        /\ \A f \in TableFrames(s) : ~Maps(t, f)
        /\ s # t => \A table \in Tables(s) : \A page \in DOMAIN mem.tbl[table] \ TtyPages :
                      ~Maps(t, mem.tbl[table][page])

\* What an address space maps, and its tables, are not free, but for two things
\* that switch_to leaves behind: the frames of the screen, and the frames of a
\* console that a process still maps because it copied the table before.
MappedNotFree ==
    Runs => \A s \in Live :
        /\ TableFrames(s) \cap mem.free = {}
        /\ \A table \in Tables(s) : \A page \in DOMAIN mem.tbl[table] :
              mem.tbl[table][page] \in mem.free =>
                  \/ mem.tbl[table][page] \in VramFrames
                  \/ s # Kernel /\ page \in TtyPages

\* Frames are lost, neither free nor in use, only by dropping a process:
\* clear and switch_to give back what they replace.
LostOnlyByDrop ==
    Runs /\ (\E f \in Usable \ mem.free : \A s \in Live : f \notin TableFrames(s) /\ ~Maps(s, f))
        => \E p \in Process : stage[p] = "gone"

\* The screen shows the current console, and every console holds what was last
\* drawn on it, however often it has been switched away and back, if buffers
\* are whole pages and nobody has drawn through a table copied before a switch.
ConsolesKept ==
    Runs /\ init /\ ~partial =>
        /\ \A t \in Tty, i \in 1 .. BufferPages : content[FrameOf(mem, t, i)] = drawn[TtyPage(t, i)]
        /\ \A i \in 1 .. BufferPages : content[Vram[i]] = drawn[TtyPage(current, i)]

\* Every block of a heap lies in mapped pages, overlaps no other block, and is
\* accounted for in usable_size, unless the heap has been cleared.
HeapBacked ==
    Runs => \A p \in Process : stage[p] = "runs" /\ ~heap[p].cleared =>
        /\ \A u \in Taken(heap[p]) : translate_page(mem, root[p], HeapPage(u \div UnitsPerPage)) # None
        /\ heap[p].usable_size + Cardinality(Taken(heap[p])) = heap[p].size
=============================================================================
