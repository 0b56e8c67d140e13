------------------------------ MODULE VirtMem ------------------------------
(***************************************************************************)
(* What the paging simulator promises to its caller: a flat byte-addressed *)
(* memory.  One call is outstanding at a time; it is served against the    *)
(* whole memory, and every call is eventually served.                      *)
(***************************************************************************)
CONSTANTS Pages, Offsets, Bytes, Zero

VARIABLES mem, call, ret

vars == <<mem, call, ret>>

Calls == [op : {"get"}, page : Pages, off : Offsets]
         \cup [op : {"put"}, page : Pages, off : Offsets, val : Bytes]
NoCall == [op |-> "none"]

Init ==
    /\ mem = [p \in Pages |-> [o \in Offsets |-> Zero]]
    /\ call = NoCall
    /\ ret = Zero

\* get(vaddr) or put(vaddr, c) is entered.
Invoke(c) ==
    /\ call = NoCall
    /\ call' = c
    /\ UNCHANGED <<mem, ret>>

\* The outstanding call takes effect and returns.
Serve ==
    /\ call # NoCall
    /\ call' = NoCall
    /\ \/ /\ call.op = "put"
          /\ mem' = [mem EXCEPT ![call.page][call.off] = call.val]
          /\ UNCHANGED ret
       \/ /\ call.op = "get"
          /\ ret' = mem[call.page][call.off]
          /\ UNCHANGED mem

Next == Serve \/ \E c \in Calls : Invoke(c)

Safe == Init /\ [][Next]_vars

Spec == Safe /\ WF_vars(Serve)
=============================================================================
