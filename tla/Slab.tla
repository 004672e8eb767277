-------------------------------- MODULE Slab ---------------------------------
(****************************************************************************)
(* The allocator of shared memory zones (core/ngx_slab.c) as operators on a  *)
(* pool.  A pool has pages; a page is part of a run of free pages, part of   *)
(* one allocation of whole pages, or cut into chunks of one power of two.    *)
(* Small chunks (below ngx_slab_exact_size) keep the bitmap of the page in    *)
(* its first chunks, chunks of the exact size have it in one word of the     *)
(* page's descriptor, big ones in the upper half of that word.               *)
(*                                                                           *)
(* A bitmap is the set of the chunks that are busy, a linked list a sequence  *)
(* of page numbers, an address the distance from the pool's start.           *)
(****************************************************************************)
EXTENDS Integers, Sequences, FiniteSets, SequencesExt

CONSTANTS PageShift,  \* ngx_pagesize_shift
          Word,       \* bits of a uintptr_t
          MinShift,   \* pool->min_shift
          Pages       \* the pages of the pool, whatever its descriptors leave of the zone

PageSize == 2 ^ PageShift
MaxSize == PageSize \div 2              \* ngx_slab_max_size
ExactSize == PageSize \div Word         \* ngx_slab_exact_size
Shifts == MinShift .. (PageShift - 1)   \* the slots of the pool
ExactShift == CHOOSE s \in 0 .. PageShift : 2 ^ s = ExactSize

FreePage == [kind |-> "free", n |-> 0, shift |-> 0, map |-> {}]

\* ngx_slab_init: one run of free pages, empty slots.
SlabInit ==
    [page |-> [i \in 0 .. (Pages - 1) |-> IF i = 0 THEN [FreePage EXCEPT !.n = Pages] ELSE FreePage],
     free |-> <<0>>, slots |-> [s \in Shifts |-> << >>]]

\* Which kind of chunk a page is cut into, and how many chunks its bitmap takes.
Type(shift) == IF shift < ExactShift THEN "small" ELSE IF shift = ExactShift THEN "exact" ELSE "big"

ChunksOf(shift) == 2 ^ (PageShift - shift)

BitmapChunks(shift) ==
    IF Type(shift) # "small" THEN 0
    ELSE LET n == (ChunksOf(shift) \div 8) \div 2 ^ shift IN IF n = 0 THEN 1 ELSE n

Unlist(l, i) == SelectSeq(l, LAMBDA j : j # i)

\* ngx_slab_alloc_pages: the first run that is long enough, cut from its start.
\* Returns the page, or -1.
AllocPages(sl, n) ==
    LET fits == SelectSeq(sl.free, LAMBDA i : sl.page[i].n >= n)
        i == Head(fits)
        rest == sl.page[i].n - n
        marked == [j \in DOMAIN sl.page |->
                      IF j = i THEN [FreePage EXCEPT !.kind = "pages", !.n = n]
                      ELSE IF j \in (i + 1) .. (i + n - 1) THEN [FreePage EXCEPT !.kind = "busy"]
                      ELSE IF j = i + n /\ rest > 0 THEN [FreePage EXCEPT !.n = rest]
                      ELSE sl.page[j]]
        list == IF rest > 0 THEN [k \in DOMAIN sl.free |-> IF sl.free[k] = i THEN i + n ELSE sl.free[k]]
                ELSE Unlist(sl.free, i)
    IN  IF fits = << >> THEN [sl |-> sl, p |-> -1]
        ELSE [sl |-> [sl EXCEPT !.page = marked, !.free = list], p |-> i]

\* ngx_slab_free_pages: the page leaves the list it is in, the run goes to the head of the free
\* list, neighbours are not joined.
FreePages(sl, i, n) ==
    LET p == sl.page[i]
        unlisted == IF p.kind = "chunks" THEN [sl.slots EXCEPT ![p.shift] = Unlist(@, i)] ELSE sl.slots
    IN  [page |-> [j \in DOMAIN sl.page |->
                      IF j = i THEN [FreePage EXCEPT !.n = n]
                      ELSE IF j \in (i + 1) .. (i + n - 1) THEN FreePage ELSE sl.page[j]],
         free |-> <<i>> \o Unlist(sl.free, i), slots |-> unlisted]

\* The slot of a size.
ShiftOf(size) ==
    IF size <= 2 ^ MinShift THEN MinShift ELSE CHOOSE s \in Shifts : 2 ^ s >= size /\ 2 ^ (s - 1) < size

\* The first free chunk of the slot's first page; a page that becomes full leaves the slot.
AllocChunk(sl, shift) ==
    LET i == Head(sl.slots[shift])
        all == 0 .. (ChunksOf(shift) - 1)
        c == CHOOSE k \in all \ sl.page[i].map : \A j \in all \ sl.page[i].map : k <= j
        map == sl.page[i].map \cup {c}
    IN  [sl |-> [sl EXCEPT !.page[i].map = map,
                           !.slots[shift] = IF map = all THEN Unlist(@, i) ELSE @],
         p |-> i * PageSize + c * 2 ^ shift]

\* A new page for the slot, the bitmap's own chunks and the first other one taken.
AllocInNewPage(sl, shift) ==
    LET got == AllocPages(sl, 1)
        i == got.p
        n == BitmapChunks(shift)
    IN  IF i = -1 THEN got
        ELSE [sl |-> [got.sl EXCEPT !.page[i] = [kind |-> "chunks", n |-> 0, shift |-> shift, map |-> 0 .. n],
                                    !.slots[shift] = <<i>>],
              p |-> i * PageSize + 2 ^ shift * n]

\* ngx_slab_alloc_locked: the address, or -1.
AllocLocked(sl, size) ==
    LET shift == ShiftOf(size)
        whole == AllocPages(sl, (size + PageSize - 1) \div PageSize)
    IN  IF size >= MaxSize THEN [whole EXCEPT !.p = IF @ = -1 THEN -1 ELSE @ * PageSize]
        ELSE IF sl.slots[shift] # << >> THEN AllocChunk(sl, shift)
        ELSE AllocInNewPage(sl, shift)

\* A mistaken form: a full page is not listed again.
FreeChunkUnlisted(sl, i, p) ==
    LET shift == sl.page[i].shift
        map == sl.page[i].map \ {(p % PageSize) \div 2 ^ shift}
        less == [sl EXCEPT !.page[i].map = map]
    IN  [sl |-> IF map \subseteq 0 .. (BitmapChunks(shift) - 1) THEN FreePages(less, i, 1) ELSE less,
         alert |-> "none"]

\* A chunk of a page: a full page is listed again, an empty one given back.
FreeChunk(sl, i, p) ==
    LET shift == sl.page[i].shift
        c == (p % PageSize) \div 2 ^ shift
        full == sl.page[i].map = 0 .. (ChunksOf(shift) - 1)
        map == sl.page[i].map \ {c}
        less == [sl EXCEPT !.page[i].map = map, !.slots[shift] = IF full THEN <<i>> \o @ ELSE @]
    IN  IF p % 2 ^ shift # 0 THEN [sl |-> sl, alert |-> "wrong chunk"]
        ELSE IF c \notin sl.page[i].map THEN [sl |-> sl, alert |-> "chunk is already free"]
        ELSE [sl |-> IF map \subseteq 0 .. (BitmapChunks(shift) - 1) THEN FreePages(less, i, 1) ELSE less,
              alert |-> "none"]

\* An allocation of whole pages.
FreeWhole(sl, i, p) ==
    LET page == sl.page[i]
        Alert(text) == [sl |-> sl, alert |-> text]
    IN  IF p % PageSize # 0 THEN Alert("wrong chunk")
        ELSE IF page.kind = "free" /\ page.n = 0 THEN Alert("page is already free")
        ELSE IF page.kind = "busy" THEN Alert("wrong page")
        ELSE [sl |-> FreePages(sl, i, page.n), alert |-> "none"]

\* A page's list and type tell what it holds: a page at the head of a free run is taken for an
\* allocation of that run.
\* ngx_slab_free_locked: what is given back, or the alert that is logged.
FreeLocked(sl, p) ==
    LET i == p \div PageSize
    IN  IF p < 0 \/ p > Pages * PageSize THEN [sl |-> sl, alert |-> "outside of pool"]
        ELSE IF sl.page[i].kind = "chunks" THEN FreeChunk(sl, i, p)
        ELSE FreeWhole(sl, i, p)
==============================================================================
