----------------------------- MODULE MemMonitor -----------------------------
(***************************************************************************)
(* How much memory the daemons lend: rdma_session_init and the loop of     *)
(* free_mem with its filter, thresholds and hit counters, closed through   *)
(* the free memory of the host, which falls with every chunk the daemon    *)
(* allocates and clears.  Chunks are counted; which one is lent to which   *)
(* client, and the messages of evict_mem, are FreeMem and Daemon.          *)
(***************************************************************************)
EXTENDS Integers, FiniteSetsExt

CONSTANTS
    Daemon,            \* the servers of the portal, by their index
    Loaded,            \* those on hosts whose applications' memory changes
    Sess,              \* chunks of the client's device
    HostGb,            \* memory of a host
    InitialApp,        \* what applications use when the daemon starts
    MaxSwing,          \* bound: GB they take or return between two samples
    MAX_FREE_MEM_GB,
    FREE_MEM_EVICT_THRESHOLD,
    FREE_MEM_EXPAND_THRESHOLD,
    MEM_EVICT_HIT_THRESHOLD,
    MEM_EXPAND_HIT_THRESHOLD

ASSUME MemMonitorAssumption ==
    /\ Loaded \subseteq Daemon /\ InitialApp \subseteq 0 .. HostGb
    /\ {HostGb, MaxSwing, MAX_FREE_MEM_GB, FREE_MEM_EVICT_THRESHOLD,
        FREE_MEM_EXPAND_THRESHOLD, MEM_EVICT_HIT_THRESHOLD,
        MEM_EXPAND_HIT_THRESHOLD} \subseteq Nat
    /\ FREE_MEM_EVICT_THRESHOLD < FREE_MEM_EXPAND_THRESHOLD
    /\ MEM_EVICT_HIT_THRESHOLD > 0 /\ MEM_EXPAND_HIT_THRESHOLD > 0

VARIABLES
    app,   \* memory the applications of each host use
    swing, \* how much of it has changed since the last sample
    rr,    \* rdma_remote of each daemon: allocated chunks, counters, chunks lent
    fm     \* the locals of free_mem

monVars == <<app, swing, rr, fm>>

(* get_free_mem, in GB.  An allocated chunk is resident: it was cleared.   *)
FreeGb(d) == HostGb - app[d] - rr[d].chunks

(* Mutant: the filter rounds up. *)
Filtered_up(now, last) == (7 * now + 3 * last + 9) \div 10

(* The filter of free_mem: weights 0.7 and 0.3, the sum truncated.  The    *)
(* code's floating point gives one less for a few pairs, as 85 and 5.      *)
Filtered(now, last) == (7 * now + 3 * last) \div 10

Least(a, b) == IF a < b THEN a ELSE b

(* rdma_session_init: what it allocates when it finds f GB free.           *)
InitialSize(f) ==
    Least(MAX_FREE_MEM_GB,
          CASE f > FREE_MEM_EXPAND_THRESHOLD ->
                  f - (FREE_MEM_EVICT_THRESHOLD + FREE_MEM_EXPAND_THRESHOLD) \div 2
            [] f > FREE_MEM_EVICT_THRESHOLD /\ f <= FREE_MEM_EXPAND_THRESHOLD ->
                  f - FREE_MEM_EVICT_THRESHOLD
            [] OTHER -> 0)

MonInit ==
    /\ app \in [Daemon -> InitialApp]
    /\ swing = [d \in Daemon |-> 0]
    /\ rr = [d \in Daemon |->
               LET g == InitialSize(HostGb - app[d])
               IN [chunks |-> g, size_gb |-> g, mapped_size |-> 0, lent |-> {}]]
    /\ fm = [d \in Daemon |->
               [pc |-> "sleep", amount |-> 0, last |-> FreeGb(d),
                evict_hit |-> 0, expand_hit |-> 0]]

(* Applications of a host take or return memory. *)
AppChange(d, n) ==
    /\ d \in Loaded /\ n \in {-1, 1} /\ swing[d] < MaxSwing
    /\ app[d] + n >= 0 /\ FreeGb(d) - n >= 0
    /\ app' = [app EXCEPT ![d] = @ + n]
    /\ swing' = [swing EXCEPT ![d] = @ + 1]
    /\ UNCHANGED <<rr, fm>>

(* A round of free_mem up to its call of evict_mem or its loop of          *)
(* allocations, with the two thresholds.  A hit counter is only reset by   *)
(* the other threshold.                                                    *)
Round(d, evictBelow, expandAbove) ==
    LET f      == Filtered(FreeGb(d), fm[d].last)
        low    == f < evictBelow
        high   == f > expandAbove
        evict  == low /\ fm[d].evict_hit + 1 >= MEM_EVICT_HIT_THRESHOLD
        expand == high /\ fm[d].expand_hit + 1 >= MEM_EXPAND_HIT_THRESHOLD
        stop   == Least(evictBelow - f, rr[d].size_gb)
        grow   == Least(f - expandAbove, MAX_FREE_MEM_GB - rr[d].size_gb)
    IN
    /\ fm[d].pc = "sleep"
    /\ fm' = [fm EXCEPT ![d] =
                [pc |-> IF evict /\ stop > 0 THEN "evict" ELSE IF expand THEN "expand"
                        ELSE "sleep",
                 amount |-> IF evict THEN stop ELSE IF expand THEN grow ELSE 0,
                 last |-> IF evict THEN f + stop ELSE IF expand THEN f - grow ELSE f,
                 evict_hit |-> IF evict \/ high THEN 0 ELSE IF low THEN @.evict_hit + 1
                               ELSE @.evict_hit,
                 expand_hit |-> IF expand \/ low THEN 0 ELSE IF high THEN @.expand_hit + 1
                                ELSE @.expand_hit]]
    /\ swing' = [swing EXCEPT ![d] = 0]
    /\ UNCHANGED <<app, rr>>

(* Mutant: the two thresholds are mixed up. *)
Sample_swapped(d) == Round(d, FREE_MEM_EXPAND_THRESHOLD, FREE_MEM_EVICT_THRESHOLD)

Sample(d) == Round(d, FREE_MEM_EVICT_THRESHOLD, FREE_MEM_EXPAND_THRESHOLD)

(* The allocations: the loop ends at the last empty chunk or when it has   *)
(* counted expand_size_g, which it never does when that is zero.           *)
Expand(d) ==
    LET g     == fm[d].amount
        empty == MAX_FREE_MEM_GB - rr[d].chunks
        added == IF g \in 1 .. empty THEN g ELSE empty
    IN
    /\ fm[d].pc = "expand"
    /\ rr' = [rr EXCEPT ![d] = [@ EXCEPT !.chunks = rr[d].chunks + added,
                                         !.size_gb = rr[d].size_gb + g]]
    /\ fm' = [fm EXCEPT ![d] = [@ EXCEPT !.pc = "sleep", !.amount = 0]]
    /\ UNCHANGED <<app, swing>>

(* Mutant: what is freed is not counted. *)
EvictUnmapped_uncounted(d) ==
    LET freed == Least(rr[d].chunks - Cardinality(rr[d].lent), fm[d].amount) IN
    /\ fm[d].pc = "evict"
    /\ rr' = [rr EXCEPT ![d] = [@ EXCEPT !.chunks = rr[d].chunks - freed]]
    /\ fm' = [fm EXCEPT ![d] = [@ EXCEPT !.pc = IF freed = fm[d].amount THEN "sleep" ELSE "ask",
                                         !.amount = fm[d].amount - freed]]
    /\ UNCHANGED <<app, swing>>

(* evict_mem up to its messages: unmapped chunks are freed first.          *)
EvictUnmapped(d) ==
    LET unmapped == rr[d].chunks - Cardinality(rr[d].lent)
        freed    == Least(unmapped, fm[d].amount)
    IN
    /\ fm[d].pc = "evict"
    /\ rr' = [rr EXCEPT ![d] = [@ EXCEPT !.chunks = rr[d].chunks - freed,
                                         !.size_gb = rr[d].size_gb - freed]]
    /\ fm' = [fm EXCEPT ![d] = [@ EXCEPT !.pc = IF freed = fm[d].amount THEN "sleep" ELSE "ask",
                                         !.amount = fm[d].amount - freed]]
    /\ UNCHANGED <<app, swing>>

(* The rest of evict_mem: the least active of the mapped chunks are        *)
(* stopped, and send_stop waits for the DONE.  With no more than           *)
(* EXTRA_CHUNK_NUM chunks beyond those wanted, all are candidates.         *)
LeastActive(n, lent, activity) ==
    {S \in kSubset(n, lent) : \A s \in S, t \in lent \ S : activity[s] <= activity[t]}

EvictMapped(d, S, activity) ==
    /\ fm[d].pc = "ask"
    /\ S \in LeastActive(Least(fm[d].amount, Cardinality(rr[d].lent)), rr[d].lent, activity)
    /\ fm' = [fm EXCEPT ![d] = [@ EXCEPT !.pc = IF S = {} THEN "sleep" ELSE "stop", !.amount = 0]]
    /\ UNCHANGED <<app, swing, rr>>

(* Mutant: what comes back stays counted as mapped. *)
recv_done_mapped(d, S) ==
    /\ rr' = [rr EXCEPT ![d] = [@ EXCEPT !.lent = rr[d].lent \ S,
                                         !.chunks = rr[d].chunks - Cardinality(S),
                                         !.size_gb = rr[d].size_gb - Cardinality(S)]]
    /\ fm' = [fm EXCEPT ![d] = [@ EXCEPT !.pc = "sleep"]]
    /\ UNCHANGED <<app, swing>>

(* recv_done: the chunks come back and are freed, and evict_mem returns.   *)
recv_done(d, S) ==
    /\ rr' = [rr EXCEPT ![d] = [@ EXCEPT !.lent = rr[d].lent \ S,
                                         !.chunks = rr[d].chunks - Cardinality(S),
                                         !.size_gb = rr[d].size_gb - Cardinality(S),
                                         !.mapped_size = rr[d].mapped_size - Cardinality(S)]]
    /\ fm' = [fm EXCEPT ![d] = [@ EXCEPT !.pc = "sleep"]]
    /\ UNCHANGED <<app, swing>>

(* The answer to QUERY. *)
FreeSize(d) == rr[d].size_gb - rr[d].mapped_size

(* The answer to BIND_SINGLE counts a chunk as mapped, and lends one if    *)
(* one is left.                                                            *)
CanLend(d) == rr[d].chunks > Cardinality(rr[d].lent)

send_single_mr(d, s) ==
    /\ rr' = [rr EXCEPT ![d] = [@ EXCEPT !.mapped_size = rr[d].mapped_size + 1,
                                         !.lent = IF CanLend(d) THEN rr[d].lent \cup {s}
                                                  ELSE rr[d].lent]]
    /\ UNCHANGED <<app, swing, fm>>
=============================================================================
