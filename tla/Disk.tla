-------------------------------- MODULE Disk --------------------------------
(***************************************************************************)
(* What the block layer expects of a block device: a submitted request is  *)
(* finished once, a read gets what the last finished write of the page     *)
(* wrote, and every request is finished.  A write takes effect when it is  *)
(* finished.  The block layer has one request at a time on a page, as the  *)
(* swap cache guarantees.  A machine that crashes promises nothing.        *)
(***************************************************************************)
CONSTANTS
    Req,    \* the request tags
    Page,   \* the pages of the device
    Val,    \* the contents of a page
    Zero    \* the content of a page that was never written

VARIABLES
    mem,  \* mem[p]: what page p holds
    io,   \* io[q]: request q
    up    \* the machine runs

diskVars == <<mem, io, up>>

Ops == [st : {"idle", "busy", "done"}, write : BOOLEAN,
        pages : SUBSET Page, val : Val]

Init ==
    /\ mem = [p \in Page |-> Zero]
    /\ io = [q \in Req |-> [st |-> "idle", write |-> FALSE, pages |-> {},
                            val |-> Zero]]
    /\ up = TRUE

Submit(q) ==
    /\ up /\ io[q].st # "busy"
    /\ io'[q] \in Ops /\ io'[q].st = "busy" /\ io'[q].pages # {}
    /\ \A r \in Req \ {q} :
         io[r].st = "busy" => io[r].pages \cap io'[q].pages = {}
    /\ io' = [io EXCEPT ![q] = io'[q]]
    /\ UNCHANGED <<mem, up>>

(* A read is finished with the content of its page in val. *)
Finish(q) ==
    /\ up /\ io[q].st = "busy"
    /\ IF io[q].write
       THEN /\ mem' = [p \in Page |-> IF p \in io[q].pages THEN io[q].val ELSE mem[p]]
            /\ io' = [io EXCEPT ![q].st = "done"]
       ELSE /\ io' = [io EXCEPT ![q].st = "done",
                                ![q].val = mem[CHOOSE p \in io[q].pages : TRUE]]
            /\ UNCHANGED mem
    /\ UNCHANGED up

Crash == up /\ up' = FALSE /\ UNCHANGED <<mem, io>>

Next == Crash \/ \E q \in Req : Submit(q) \/ Finish(q)

Safe == Init /\ [][Next]_diskVars

Spec == Safe /\ \A q \in Req : WF_diskVars(Finish(q))
=============================================================================
