------------------------------ MODULE SimPage ------------------------------
(***************************************************************************)
(* The demand-paging simulator of src/test/simulation/sim_page.h: a page   *)
(* table over a smaller physical memory, a second-chance clock whose ring  *)
(* is threaded through the page table (cnext), and one swap file per page. *)
(*                                                                         *)
(* The page table is struct __page_entry taken apart into one function per *)
(* field.  curr_c and last_c, pointers into the table in the code, are     *)
(* page numbers here.  A page's bytes are a function on Offsets, so that a *)
(* store to one byte and the transfer of a whole page are told apart.      *)
(***************************************************************************)
EXTENDS Integers, FiniteSets

CONSTANTS
    NumPages,     \* vir_mem_size / PAGE_SIZE
    FrameCounts,  \* the values of PHYS_MEM_SIZE / PAGE_SIZE
    Offsets,      \* byte offsets within a page
    Bytes,        \* values of a byte
    Zero          \* the byte memset and mmap fill with

\* init_page_table indexes pgtable[init_np - 1] and takes "% init_np".
ASSUME SizesAssumption ==
    /\ NumPages \in Nat
    /\ FrameCounts \subseteq 1 .. NumPages

ASSUME BytesAssumption == Zero \in Bytes

Pages == 0 .. NumPages - 1

PageData == [Offsets -> Bytes]
ZeroPage == [o \in Offsets |-> Zero]

VARIABLES
    init_np,                      \* frames: PHYS_MEM_SIZE is an argument of the program
    pframe, cnext, clear, dirty,  \* the fields of pgtable[p]
    last_c, curr_c,               \* the clock hand and the page behind it
    phys_mem,                     \* the frames
    files, swap,                  \* pages that have a swap file, its contents
    call, ret, pc                 \* the outstanding get/put and where it is

tableVars == <<pframe, cnext, clear, dirty, last_c, curr_c>>
storeVars == <<phys_mem, files, swap>>
vars == <<init_np, tableVars, storeVars, call, ret, pc>>

Frames == 0 .. init_np - 1

Gets  == [op : {"get"}, page : Pages, off : Offsets]
Puts  == [op : {"put"}, page : Pages, off : Offsets, val : Bytes]
Calls == Gets \cup Puts
NoCall == [op |-> "none"]

Resident == {p \in Pages : clear[p] # -1}

Init ==
    /\ init_np \in FrameCounts
    /\ pframe = [p \in Pages |-> IF p < init_np THEN p ELSE 0]
    /\ cnext  = [p \in Pages |-> IF p < init_np THEN (p + 1) % init_np ELSE 0]
    /\ clear  = [p \in Pages |-> IF p < init_np THEN 1 ELSE -1]
    /\ dirty  = [p \in Pages |-> 0]
    /\ last_c = init_np - 1
    /\ curr_c = 0
    /\ phys_mem = [f \in Frames |-> ZeroPage]
    /\ files = {}
    /\ swap = [p \in Pages |-> ZeroPage]
    /\ call = NoCall
    /\ ret = Zero
    /\ pc = "idle"

-----------------------------------------------------------------------------
(* get and put up to the test of pe->clear. *)
Invoke(c) ==
    /\ pc = "idle"
    /\ call' = c
    /\ pc' = IF clear[c.page] = -1 THEN "fault" ELSE "access"
    /\ UNCHANGED <<init_np, tableVars, storeVars, ret>>

(* One round of the loop of page_fault.  The test is "clear != 0". *)
Sweep ==
    /\ pc = "fault" /\ clear[curr_c] # 0
    /\ clear' = [clear EXCEPT ![curr_c] = 0]
    /\ last_c' = curr_c
    /\ curr_c' = cnext[curr_c]
    /\ UNCHANGED <<init_np, pframe, cnext, dirty, storeVars, call, ret, pc>>

(* Mutant: nothing is written. *)
page_flush_lost(victim) == UNCHANGED <<swap, files>>

(* page_flush writes the victim's frame to its swap file. *)
page_flush(victim) ==
    /\ swap' = [swap EXCEPT ![victim] = phys_mem[pframe[victim]]]
    /\ files' = files \cup {victim}

(* page_load reads the swap file, or clears the frame when there is none. *)
page_load(v, f) ==
    phys_mem' = [phys_mem EXCEPT ![f] = IF v \in files THEN swap[v] ELSE ZeroPage]

(* Mutants: the page's successor by number; last_c is not linked; the two  *)
(* assignments in the other order.                                         *)
Splice_next(v) ==
    LET linked == [cnext EXCEPT ![last_c] = v]
    IN  cnext' = [linked EXCEPT ![v] = v + 1]
Splice_unlinked(v) == cnext' = [cnext EXCEPT ![v] = cnext[curr_c]]
Splice_swapped(v) ==
    LET copied == [cnext EXCEPT ![v] = cnext[curr_c]]
    IN  cnext' = [copied EXCEPT ![last_c] = v]

(* last_c->cnext = vframe and then pe->cnext = curr_c->cnext, in that order: *)
(* with one frame last_c and curr_c are the same entry.                      *)
Splice(v) ==
    LET linked == [cnext EXCEPT ![last_c] = v]
    IN  cnext' = [linked EXCEPT ![v] = linked[curr_c]]

(* Mutant: the victim is not marked absent. *)
Install_both(v) ==
    /\ pframe' = [pframe EXCEPT ![v] = pframe[curr_c]]
    /\ clear' = [clear EXCEPT ![v] = 1]
    /\ dirty' = [dirty EXCEPT ![v] = 0]

(* The victim becomes absent and page v takes its frame. *)
Install(v) ==
    /\ pframe' = [pframe EXCEPT ![v] = pframe[curr_c]]
    /\ clear' = [clear EXCEPT ![curr_c] = -1, ![v] = 1]
    /\ dirty' = [dirty EXCEPT ![v] = 0]

(* page_fault after the loop. *)
Replace ==
    LET v == call.page
    IN  /\ pc = "fault" /\ clear[curr_c] = 0
        /\ IF dirty[curr_c] = 1 THEN page_flush(curr_c) ELSE UNCHANGED <<files, swap>>
        /\ page_load(v, pframe[curr_c])
        /\ Splice(v)
        /\ Install(v)
        /\ curr_c' = v
        /\ pc' = "access"
        /\ UNCHANGED <<init_np, last_c, call, ret>>

(* Mutant: the store does not set the dirty flag. *)
Store_clean(v) ==
    /\ phys_mem' = [phys_mem EXCEPT ![pframe[v]][call.off] = call.val]
    /\ UNCHANGED dirty

(* The store of put. *)
Store(v) ==
    /\ dirty' = [dirty EXCEPT ![v] = 1]
    /\ phys_mem' = [phys_mem EXCEPT ![pframe[v]][call.off] = call.val]

(* The tail of get and of put, with the page in its frame. *)
Access ==
    LET v == call.page
    IN  /\ pc = "access"
        /\ clear' = [clear EXCEPT ![v] = 1]
        /\ \/ /\ call.op = "put"
              /\ Store(v)
              /\ UNCHANGED ret
           \/ /\ call.op = "get"
              /\ ret' = phys_mem[pframe[v]][call.off]
              /\ UNCHANGED <<dirty, phys_mem>>
        /\ call' = NoCall
        /\ pc' = "idle"
        /\ UNCHANGED <<init_np, pframe, cnext, last_c, curr_c, files, swap>>

Step == Sweep \/ Replace \/ Access

Next == Step \/ \E c \in Calls : Invoke(c)

Safe == Init /\ [][Next]_vars

(* A call runs to its end: the simulator is one thread that nothing blocks. *)
Spec == Safe /\ WF_vars(Step)

-----------------------------------------------------------------------------
\* Every variable has its type; pc and the outstanding call agree.
TypeOK ==
    /\ init_np \in FrameCounts
    /\ pframe \in [Pages -> Frames]
    /\ cnext \in [Pages -> Pages]
    /\ clear \in [Pages -> {-1, 0, 1}]
    /\ dirty \in [Pages -> {0, 1}]
    /\ last_c \in Pages /\ curr_c \in Pages
    /\ phys_mem \in [Frames -> PageData]
    /\ files \in SUBSET Pages
    /\ swap \in [Pages -> PageData]
    /\ call \in Calls \cup {NoCall}
    /\ ret \in Bytes
    /\ pc \in {"idle", "fault", "access"}
    /\ (pc = "idle") = (call = NoCall)

\* No two resident pages share a frame and no frame is lost: page_fault hands
\* the victim's frame on, never duplicates or leaks it.
FrameOwnership ==
    /\ \A p, q \in Resident : pframe[p] = pframe[q] => p = q
    /\ \A f \in Frames : \E p \in Resident : pframe[p] = f

\* The clock ring: following cnext from the hand visits every resident page,
\* only resident pages, and comes back after init_np moves, so the sweep of
\* page_fault can reach every candidate and never meets an evicted entry.
RingIsOneCycle ==
    LET hand[n \in 0 .. init_np] == IF n = 0 THEN curr_c ELSE cnext[hand[n - 1]]
    IN  /\ hand[init_np] = curr_c
        /\ {hand[n] : n \in 0 .. init_np - 1} = Resident

\* What page_load would bring in for page p.
SwapImage(p) == IF p \in files THEN swap[p] ELSE ZeroPage

\* A resident page whose dirty flag is 0 is what its swap file (or the absence
\* of one) says: dropping it without page_flush loses nothing.
CleanMatchesSwap ==
    \A p \in Resident : dirty[p] = 0 => phys_mem[pframe[p]] = SwapImage(p)

-----------------------------------------------------------------------------
(* The flat memory the caller sees. *)
FlatMem == [p \in Pages |-> IF clear[p] # -1 THEN phys_mem[pframe[p]] ELSE SwapImage(p)]

VM == INSTANCE VirtMem WITH mem <- FlatMem

\* get and put over page table, clock and swap files behave as a flat memory:
\* a get returns the last byte put there or zero, and every call returns.
Refines == VM!Spec
=============================================================================
