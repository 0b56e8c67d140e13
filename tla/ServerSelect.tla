---------------------------- MODULE ServerSelect ----------------------------
(***************************************************************************)
(* The client's choice of a server for a chunk of its device: the activity *)
(* filter of rdma_trigger, and IS_single_chunk_map with its candidates,    *)
(* their answers and the choice among them.  One call at a time; calls     *)
(* that overlap are BlockDevice.  Composed with the daemons' MemMonitor.   *)
(***************************************************************************)
EXTENDS MemMonitor, SequencesExt

CONSTANTS
    SERVER_SELECT_NUM,
    Width,             \* bits of the unsigned long of last_ops
    MaxOps,            \* bound: requests for a chunk in a second
    Losable,           \* servers that may be lost
    Env                \* what may happen while a call waits

ASSUME ServerSelectAssumption ==
    /\ IsFiniteSet(Daemon) /\ Daemon = 0 .. Cardinality(Daemon) - 1
    /\ IsFiniteSet(Sess) /\ Sess = 0 .. Cardinality(Sess) - 1 /\ Sess # {}
    /\ SERVER_SELECT_NUM > 0 /\ Width \in Nat /\ MaxOps \in Nat

RDMA_W_WEIGHT == 50
RDMA_CUR_WEIGHT == 80

VARIABLES
    cb_state,     \* cb_state_list
    cb_index_map, \* the server of each chunk of the device, or -1
    next,         \* the chunk rdma_trigger comes to next
    last_ops,     \* the activity of a chunk, as the servers are told
    remap,        \* chunks the handler of a lost or evicting server maps again
    handler,      \* the server whose handler that is, or -1
    sel           \* the locals of IS_single_chunk_map

selVars == <<cb_state, cb_index_map, next, last_ops, remap, handler, sel>>
vars == <<app, swing, rr, fm, cb_state, cb_index_map, next, last_ops, remap, handler, sel>>

NUM_CB == Cardinality(Daemon)

NoCall == [pc |-> "idle", by |-> "none", chunk |-> -1, selection |-> <<>>,
           free_mem |-> <<>>, sorted |-> <<>>, cb_index |-> -1]

Init ==
    /\ MonInit
    /\ cb_state = [d \in Daemon |-> "IDLE"]
    /\ cb_index_map = [s \in Sess |-> -1]
    /\ next = 0 /\ last_ops = [s \in Sess |-> 0]
    /\ remap = {} /\ handler = -1 /\ sel = NoCall

-----------------------------------------------------------------------------
(* IS_single_chunk_map *)

(* Mutant: an evicting server is a candidate. *)
Avail_evicting == {d \in Daemon : cb_state[d] # "FAIL"}

(* Servers below CB_EVICTING in cb_state_list. *)
Avail == {d \in Daemon : cb_state[d] \notin {"EVICTING", "FAIL"}}

(* All of them when there are no more than SERVER_SELECT_NUM, otherwise    *)
(* that many, different ones, drawn at random.                             *)
Selections ==
    IF Cardinality(Avail) <= SERVER_SELECT_NUM
    THEN {SetToSortSeq(Avail, <)}
    ELSE UNION {SetToSeqs(S) : S \in kSubset(SERVER_SELECT_NUM, Avail)}

(* A call up to its first message; without a server it returns -1 at once. *)
Call(by, s) ==
    IF Avail = {} THEN sel' = sel
    ELSE \E q \in Selections :
            sel' = [NoCall EXCEPT !.pc = "ask", !.by = by, !.chunk = s, !.selection = q]

(* The next candidate is asked or connected to; a failed one is skipped    *)
(* and leaves the initial -1 and NUM_CB.                                   *)
Ask ==
    LET d == sel.selection[Len(sel.free_mem) + 1]
        skip == cb_state[d] = "FAIL"
    IN
    /\ sel.pc = "ask" /\ Len(sel.free_mem) < Len(sel.selection)
    /\ sel' = [sel EXCEPT !.free_mem = Append(@, IF skip THEN -1 ELSE FreeSize(d)),
                          !.sorted = Append(@, IF skip THEN NUM_CB ELSE d)]
    /\ cb_state' = [cb_state EXCEPT ![d] = IF @ = "IDLE" THEN "CONNECTED" ELSE @]
    /\ UNCHANGED <<app, swing, rr, fm, cb_index_map, next, last_ops, remap, handler>>

(* Mutant: the pass swaps a smaller answer to the front. *)
Foremost_least == FoldLeftDomain(LAMBDA b, j : IF sel.free_mem[b] > sel.free_mem[j] THEN j ELSE b,
                        1, sel.free_mem)

(* The pass that swaps a greater answer to the front. *)
Foremost == FoldLeftDomain(LAMBDA b, j : IF sel.free_mem[b] < sel.free_mem[j] THEN j ELSE b,
                        1, sel.free_mem)

(* Zero free memory is no answer.  NUM_CB is no server: the call uses a    *)
(* pointer from behind cb_list.                                            *)
Choose ==
    LET d == sel.sorted[Foremost] IN
    /\ sel.pc = "ask" /\ Len(sel.free_mem) = Len(sel.selection)
    /\ sel' = IF sel.free_mem[Foremost] = 0 THEN NoCall
              ELSE [sel EXCEPT !.pc = IF d = NUM_CB THEN "wild" ELSE "bind", !.cb_index = d]
    /\ UNCHANGED <<app, swing, rr, fm, cb_state, cb_index_map, next, last_ops, remap, handler>>

(* BIND_SINGLE and its answer INFO_SINGLE; a lost server gives none. *)
Bind ==
    LET d == sel.cb_index IN
    /\ sel.pc = "bind" /\ cb_state[d] # "FAIL"
    /\ send_single_mr(d, sel.chunk)
    /\ cb_state' = [cb_state EXCEPT ![d] = "MAPPED"]
    /\ cb_index_map' = IF CanLend(d) THEN [cb_index_map EXCEPT ![sel.chunk] = d]
                       ELSE cb_index_map
    /\ sel' = NoCall
    /\ UNCHANGED <<next, last_ops, remap, handler>>

-----------------------------------------------------------------------------
(* The callers of IS_single_chunk_map *)

(* Mutant: the old activity is added without a weight. *)
filtered_ops_sum(s, ops) ==
    (RDMA_CUR_WEIGHT * (RDMA_W_WEIGHT * ops) + last_ops[s]) % 2 ^ Width

(* The filter of rdma_trigger, for ops requests since its last pass.  The  *)
(* weights are percentages, and nothing divides by a hundred.              *)
filtered_ops(s, ops) ==
    (RDMA_CUR_WEIGHT * (RDMA_W_WEIGHT * ops) + (100 - RDMA_CUR_WEIGHT) * last_ops[s])
        % 2 ^ Width

(* Mutant: only a chunk with more than one weight of activity is mapped. *)
Trigger_weight(ops) ==
    LET f == filtered_ops(next, ops) IN
    /\ sel.by # "trigger"
    /\ last_ops' = [last_ops EXCEPT ![next] = f]
    /\ next' = (next + 1) % Cardinality(Sess)
    /\ IF f > RDMA_W_WEIGHT /\ handler = -1 /\ cb_index_map[next] = -1
       THEN Call("trigger", next) ELSE sel' = sel
    /\ UNCHANGED <<app, swing, rr, fm, cb_state, cb_index_map, remap, handler>>

(* rdma_trigger at its next chunk; a handler at work has cleared           *)
(* trigger_enable.                                                         *)
Trigger(ops) ==
    LET f == filtered_ops(next, ops) IN
    /\ sel.by # "trigger"
    /\ last_ops' = [last_ops EXCEPT ![next] = f]
    /\ next' = (next + 1) % Cardinality(Sess)
    /\ IF f > 0 /\ handler = -1 /\ cb_index_map[next] = -1
       THEN Call("trigger", next) ELSE sel' = sel
    /\ UNCHANGED <<app, swing, rr, fm, cb_state, cb_index_map, remap, handler>>

(* evict_mem has the activities and stops chunks: the messages EVICT,      *)
(* ACTIVITY and STOP.  The handler of that server must be waiting.         *)
Stop(d) ==
    /\ handler = -1
    /\ \E S \in SUBSET Sess :
          /\ EvictMapped(d, S, last_ops)
          /\ remap' = S
          /\ handler' = IF S = {} THEN -1 ELSE d
    /\ UNCHANGED <<cb_state, cb_index_map, next, last_ops, sel>>

(* Mutant: evict_handler sends DONE and leaves the chunks mapped. *)
Done_mapped ==
    /\ handler # -1 /\ fm[handler].pc = "stop"
    /\ sel.pc = "idle" \/ "overlapping_calls" \in Env
    /\ cb_state' = [cb_state EXCEPT ![handler] = "EVICTING"]
    /\ recv_done(handler, remap)
    /\ UNCHANGED <<cb_index_map, next, last_ops, remap, handler, sel>>

(* evict_handler unmaps the chunks and sends DONE. *)
Done ==
    /\ handler # -1 /\ fm[handler].pc = "stop"
    /\ sel.pc = "idle" \/ "overlapping_calls" \in Env
    /\ cb_index_map' = [s \in Sess |-> IF s \in remap THEN -1 ELSE cb_index_map[s]]
    /\ cb_state' = [cb_state EXCEPT ![handler] = "EVICTING"]
    /\ recv_done(handler, remap)
    /\ UNCHANGED <<next, last_ops, remap, handler, sel>>

(* A handler maps its chunks again, one after the other. *)
Remap ==
    /\ handler # -1 /\ fm[handler].pc # "stop" /\ sel.pc = "idle" /\ remap # {}
    /\ Call("handler", Min(remap))
    /\ remap' = remap \ {Min(remap)}
    /\ UNCHANGED <<app, swing, rr, fm, cb_state, cb_index_map, next, last_ops, handler>>

HandlerEnd ==
    /\ handler # -1 /\ fm[handler].pc # "stop" /\ sel.pc = "idle" /\ remap = {}
    /\ handler' = -1
    /\ cb_state' = [cb_state EXCEPT ![handler] = IF @ = "FAIL" THEN @ ELSE "MAPPED"]
    /\ UNCHANGED <<app, swing, rr, fm, cb_index_map, next, last_ops, remap, sel>>

(* A server is lost: IS_disconnect_handler.  One that has lent nothing is  *)
(* only marked.                                                            *)
Lose(d) ==
    /\ d \in Losable /\ handler = -1 /\ cb_state[d] \in {"CONNECTED", "MAPPED"}
    /\ sel.pc = "idle" \/ "lost_while_choosing" \in Env
    /\ cb_state' = [cb_state EXCEPT ![d] = "FAIL"]
    /\ fm' = [fm EXCEPT ![d] = [@ EXCEPT !.pc = "dead"]]
    /\ rr' = [rr EXCEPT ![d] = [chunks |-> 0, size_gb |-> 0, mapped_size |-> 0, lent |-> {}]]
    /\ LET S == {s \in Sess : cb_index_map[s] = d} IN
       IF cb_state[d] = "CONNECTED" THEN UNCHANGED <<cb_index_map, remap, handler>>
       ELSE /\ cb_index_map' = [s \in Sess |-> IF s \in S THEN -1 ELSE cb_index_map[s]]
            /\ remap' = S /\ handler' = d
    /\ UNCHANGED <<app, swing, next, last_ops, sel>>

-----------------------------------------------------------------------------
Rounds(d) == (Sample(d) \/ Expand(d)) /\ UNCHANGED selVars

(* Memory is given up while no call waits for answers: otherwise an answer *)
(* may be stale when it is used.                                           *)
GiveUp(d) ==
    /\ sel.pc = "idle" \/ "stale_answers" \in Env
    /\ EvictUnmapped(d) /\ UNCHANGED selVars

Application(d) == \E n \in {-1, 1} : AppChange(d, n) /\ UNCHANGED selVars

Next ==
    \/ \E d \in Daemon : Application(d) \/ Rounds(d) \/ GiveUp(d) \/ Stop(d) \/ Lose(d)
    \/ \E ops \in 0 .. MaxOps : Trigger(ops)
    \/ Ask \/ Choose \/ Bind \/ Done \/ Remap \/ HandlerEnd

(* free_mem goes round once a second, rdma_trigger comes to its next       *)
(* chunk, calls and handlers are answered.  GiveUp is strongly fair: it    *)
(* only waits for a call to end here, which does not stop it in the code.  *)
Spec ==
    /\ Init /\ [][Next]_vars
    /\ \A d \in Daemon : WF_vars(Rounds(d)) /\ WF_vars(Stop(d))
    /\ SF_vars(\E d \in Daemon : GiveUp(d))
    /\ WF_vars(\E ops \in 0 .. MaxOps : Trigger(ops))
    /\ WF_vars(Ask \/ Choose \/ Bind) /\ WF_vars(Done \/ Remap \/ HandlerEnd)

-----------------------------------------------------------------------------
(* size_gb is the number of chunks that are allocated, and never more than *)
(* MAX_FREE_MEM_GB, through every round of free_mem and every DONE.        *)
SizeIsChunks ==
    \A d \in Daemon : rr[d].size_gb = rr[d].chunks /\ rr[d].chunks <= MAX_FREE_MEM_GB

(* The free size a daemon answers with is the number of chunks it can      *)
(* lend: never negative, and what it counts as mapped is lent.             *)
AnswerIsTrue ==
    \A d \in Daemon : FreeSize(d) = rr[d].chunks - Cardinality(rr[d].lent)

(* A call binds to a server of the portal that had memory, and no          *)
(* candidate that answered had more.                                       *)
ChosenIsBest ==
    sel.pc = "wild" \/ sel.pc = "bind" =>
        /\ sel.cb_index \in Daemon
        /\ sel.cb_index \in ToSet(sel.selection)
        /\ \E i \in DOMAIN sel.selection :
              /\ sel.selection[i] = sel.cb_index /\ sel.free_mem[i] > 0
              /\ \A j \in DOMAIN sel.free_mem : sel.free_mem[j] <= sel.free_mem[i]

(* Client and servers agree on who holds a chunk.                          *)
MapIsLent ==
    \A d \in Daemon : {s \in Sess : cb_index_map[s] = d} = rr[d].lent

(* A handler does not put a chunk back on the server that evicts it or was *)
(* lost.                                                                   *)
NotBack == sel.by = "handler" => handler \notin ToSet(sel.selection)

(* A host short of memory gets it back, as far as the daemon has chunks.   *)
PressureRelieved ==
    \A d \in Daemon :
        []<>(FreeGb(d) >= FREE_MEM_EVICT_THRESHOLD \/ rr[d].chunks = 0)

(* Where applications keep what they have, the daemon stops giving up and  *)
(* taking memory: the two thresholds do not chase each other.              *)
Settles ==
    \A d \in Daemon : <>[][app' = app]_vars => <>[][rr'[d].chunks = rr[d].chunks]_vars

Serving == {d \in Avail : FreeSize(d) > 0}

(* A chunk that is used again and again gets a server, if however the      *)
(* candidates are drawn one of them has memory.                            *)
BusyIsMapped ==
    \A s \in Sess :
        ([]<>(last_ops[s] > 0) /\ <>[](Cardinality(Avail \ Serving) < SERVER_SELECT_NUM /\ Serving # {}))
            => []<>(cb_index_map[s] # -1)

(* The activity of a chunk nobody uses is forgotten, although the filter   *)
(* multiplies it by twenty a second: two low bits more are zero each time. *)
IdleForgotten ==
    \A s \in Sess :
        <>[][next = s => \A ops \in 1 .. MaxOps : ~Trigger(ops)]_vars => <>[](last_ops[s] = 0)
=============================================================================
