------------------------------- MODULE Daemon -------------------------------
(***************************************************************************)
(* infiniswap-daemon: the memory it lends (struct rdma_remote_mem), its    *)
(* connections (struct connection, rdma_session) and its three threads:    *)
(*   main      the CM event loop (on_event),                               *)
(*   poll_cq   on_completion, one receive completion at a time,            *)
(*   free_mem  rdma_session_init, then evict_mem and the expansion loop.   *)
(* None of the shared state is locked.  A test of the maps and the write   *)
(* that follows it are separate steps wherever two threads meet on the     *)
(* same chunk; the rest of a handler is one step.  Undefined behaviour (a  *)
(* NULL connection, index -1) and die() end the process: alive = FALSE.    *)
(***************************************************************************)
EXTENDS Wire

VARIABLES
    malloc_map,   \* the chunks that are CHUNK_MALLOCED
    conn_map,     \* conn_map[i]: slot that uses chunk i, or -1
    size_gb, mapped_size,
    conns,        \* conns[s]: the client of slot s, or None (NULL)
    conns_state,  \* conns_state[s]: "IDLE", "CONNECTED" or "MAPPED"
    conn_num, running,
    conn,         \* conn[c]: the struct connection of client c
    poll,         \* the poll_cq thread inside send_single_mr
    fm,           \* the free_mem thread
    alive

session    == <<malloc_map, conn_map, size_gb, mapped_size,
                conns, conns_state, conn_num, running>>
daemonVars == <<session, conn, poll, fm, alive>>

(* Mutant: conn_index is one less than the slot. *)
NewConn_below(s) == [conn_index |-> s - 1, sess |-> {}, mapped_chunk_size |-> 0,
                     evict_sem |-> 0, stop_sem |-> 0]

(* Mutant: build_connection leaves conn_index 0. *)
NewConn_unset(s) == [conn_index |-> 0, sess |-> {}, mapped_chunk_size |-> 0,
                     evict_sem |-> 0, stop_sem |-> 0]

(* A struct connection after build_connection's initialisation.  sess is   *)
(* the set of i with sess_chunk_map[i] = i, the only value it is given.    *)
NewConn(s) == [conn_index |-> s, sess |-> {}, mapped_chunk_size |-> 0,
               evict_sem |-> 0, stop_sem |-> 0]

PollIdle == [pc |-> "idle", c |-> None, i |-> 0]

(* Locals of free_mem and evict_mem: list = {s : send_list[s] # -1},       *)
(* stop = {s : send_list[s] = 2}, todo the slots the current loop has left,*)
(* got the (slot, chunk_index) entries of evict_list, last = conn_index.   *)
FmAt(pc) == [pc |-> pc, i |-> 0, freed |-> 0, evict_g |-> 0, list |-> {},
             stop |-> {}, todo |-> {}, k |-> 0, got |-> {}, last |-> 0,
             c |-> None]

(* The globals are zero until free_mem's thread runs rdma_session_init. *)
DaemonInit ==
    /\ malloc_map = {}
    /\ conn_map = [i \in Chunks |-> 0]
    /\ size_gb = 0 /\ mapped_size = 0
    /\ conns = [s \in Slots |-> None]
    /\ conns_state = [s \in Slots |-> "IDLE"]
    /\ conn_num = 0 /\ running = TRUE
    /\ conn = [c \in Client |-> NewConn(0)]
    /\ poll = PollIdle
    /\ fm = FmAt("init")
    /\ alive = TRUE

DaemonTypeOK ==
    /\ malloc_map \subseteq Chunks
    /\ conn_map \in [Chunks -> Slots \cup {-1}]
    /\ size_gb \in Int /\ mapped_size \in Int
    /\ conns \in [Slots -> Client \cup {None}]
    /\ conns_state \in [Slots -> {"IDLE", "CONNECTED", "MAPPED"}]
    /\ conn_num \in Int /\ running \in BOOLEAN
    /\ conn \in [Client -> [conn_index : Slots, sess : SUBSET Chunks,
                            mapped_chunk_size : Int,
                            evict_sem : Nat, stop_sem : Nat]]
    /\ poll \in [pc : {"idle", "scan", "map", "send"},
                 c : Client \cup {None}, i : 0 .. NumChunks]
    /\ fm \in [pc : {"init", "idle", "scan", "free", "select", "spin",
                     "evict", "act", "actwait", "choose", "stop", "stopwait",
                     "grow", "exit"},
               i : 0 .. NumChunks, freed : Nat, evict_g : Int,
               list : SUBSET Slots, stop : SUBSET Slots, todo : SUBSET Slots,
               k : Int, got : SUBSET (Slots \X Chunks), last : Slots,
               c : Client \cup {None}]
    /\ alive \in BOOLEAN

(* send_message: the NIC will read send_msg[c] some time later. *)
PostMsg(c, m) ==
    /\ send_msg' = [send_msg EXCEPT ![c] = m]
    /\ msg_posted' = [msg_posted EXCEPT ![c] = @ + 1]

(* post_receives *)
PostReceive(c) == rmsg_state' = [rmsg_state EXCEPT ![c] = "posted"]

Die == alive' = FALSE /\ UNCHANGED <<session, conn, poll, fm>>

-----------------------------------------------------------------------------
(* main: the CM events *)

IdleSlots == {s \in Slots : conns_state[s] = "IDLE"}

(* The slot that build_connection's loop gives: the first CONN_IDLE one.   *)
(* When there is none, conn_index keeps whatever malloc returned.          *)
SlotGiven == IF IdleSlots = {} THEN Slots
             ELSE {s \in IdleSlots : \A r \in IdleSlots : s <= r}

on_connect_request(c) ==
    /\ alive /\ link[c] = "requested"
    /\ \E s \in SlotGiven :
         /\ conn' = [conn EXCEPT ![c] = NewConn(s)]
         /\ IF IdleSlots = {}
            THEN UNCHANGED <<conns, conns_state>>
            ELSE /\ conns' = [conns EXCEPT ![s] = c]
                 /\ conns_state' = [conns_state EXCEPT ![s] = "CONNECTED"]
    /\ conn_num' = conn_num + 1
    /\ PostReceive(c)
    /\ link' = [link EXCEPT ![c] = "accepted"]
    /\ UNCHANGED <<malloc_map, conn_map, size_gb, mapped_size, running,
                   poll, fm, alive, toClient, send_buf, buf_posted, recv_msg>>

FreeSizeMsg(c) ==
    [send_msg[c] EXCEPT !.type = "FREE_SIZE", !.size = size_gb - mapped_size]

on_connection(c) ==
    /\ alive /\ link[c] = "accepted"
    /\ link' = [link EXCEPT ![c] = "up"]
    /\ PostMsg(c, FreeSizeMsg(c))
    /\ UNCHANGED <<daemonVars, recv_buf, recv_state, toDaemon>>

(* The connection is freed.  When poll_cq is inside send_single_mr for it, *)
(* that thread goes on with freed memory: undefined.                       *)
destroy_connection(c) ==
    LET s == conn[c].conn_index IN
    /\ alive /\ link[c] = "closed"
    /\ link' = [link EXCEPT ![c] = "freed"]
    /\ \/ poll.c = c /\ Die
       \/ /\ poll.c # c
          /\ IF conn[c].mapped_chunk_size > 0
             THEN /\ conn_map' = [i \in Chunks |->
                         IF i \in conn[c].sess THEN -1 ELSE conn_map[i]]
                  /\ mapped_size' = mapped_size - conn[c].mapped_chunk_size
             ELSE UNCHANGED <<conn_map, mapped_size>>
          /\ conns' = [conns EXCEPT ![s] = None]
          /\ conns_state' = [conns_state EXCEPT ![s] = "IDLE"]
          /\ conn_num' = conn_num - 1
          /\ running' = (running /\ conn_num' # 0)
          /\ UNCHANGED <<malloc_map, size_gb, conn, poll, fm, alive>>
    /\ UNCHANGED <<toClient, toDaemon>>

-----------------------------------------------------------------------------
(* poll_cq: on_completion *)

(* A receive completed, maybe just before the client went away. *)
Arrived(c, type) ==
    /\ alive /\ poll.pc = "idle" /\ link[c] \in {"up", "closed"}
    /\ rmsg_state[c] = "arrived" /\ recv_msg[c].type = type

(* Mutant: send_free_mem_size fills the message and does not send it. *)
on_query_silent(c) ==
    /\ Arrived(c, "QUERY")
    /\ send_msg' = [send_msg EXCEPT ![c] = FreeSizeMsg(c)]
    /\ PostReceive(c)
    /\ UNCHANGED <<daemonVars, link, msg_posted, recv_buf, recv_state,
                   send_buf, buf_posted, recv_msg>>

on_query(c) ==
    /\ Arrived(c, "QUERY")
    /\ PostMsg(c, FreeSizeMsg(c))
    /\ PostReceive(c)
    /\ UNCHANGED <<daemonVars, link, recv_buf, recv_state,
                   send_buf, buf_posted, recv_msg>>

(* send_single_mr up to its search *)
on_bind_single(c) ==
    /\ Arrived(c, "BIND_SINGLE")
    /\ send_msg' = [send_msg EXCEPT ![c].size = recv_msg[c].size,
                                    ![c].rkey = {}]
    /\ rmsg_state' = [rmsg_state EXCEPT ![c] = "held"]
    /\ poll' = [pc |-> "scan", c |-> c, i |-> 0]
    /\ UNCHANGED <<session, conn, fm, alive, link, msg_posted, recv_buf,
                   recv_state, send_buf, buf_posted, recv_msg>>

(* Mutants: half of the test. *)
Unmapped_lent(i) == i \in malloc_map
Unmapped_freed(i) == conn_map[i] = -1

(* malloced and not lent: what line 671 and line 274 look for *)
Unmapped(i) == i \in malloc_map /\ conn_map[i] = -1

(* the test of line 671 *)
bind_scan ==
    /\ alive /\ poll.pc = "scan"
    /\ poll' = CASE Unmapped(poll.i)      -> [poll EXCEPT !.pc = "map"]
                 [] poll.i + 1 = NumChunks -> [poll EXCEPT !.pc = "send"]
                 [] OTHER                  -> [poll EXCEPT !.i = @ + 1]
    /\ UNCHANGED <<session, conn, fm, alive, wireVars>>

(* lines 672-678: the chunk is taken *)
bind_map ==
    /\ alive /\ poll.pc = "map"
    /\ conn' = [conn EXCEPT ![poll.c].sess = @ \cup {poll.i}]
    /\ conn_map' = [conn_map EXCEPT ![poll.i] = conn[poll.c].conn_index]
    /\ send_msg' = [send_msg EXCEPT ![poll.c].rkey = @ \cup {poll.i}]
    /\ poll' = [poll EXCEPT !.pc = "send"]
    /\ UNCHANGED <<malloc_map, size_gb, mapped_size, conns, conns_state,
                   conn_num, running, fm, alive, link, msg_posted, recv_buf,
                   recv_state, toDaemon>>

(* Mutant: only the session's counter is incremented. *)
bind_send_uncounted ==
    LET c == poll.c IN
    /\ alive /\ poll.pc = "send"
    /\ mapped_size' = mapped_size + 1
    /\ PostMsg(c, [send_msg[c] EXCEPT !.type = "INFO_SINGLE"])
    /\ conns_state' = [conns_state EXCEPT ![conn[c].conn_index] = "MAPPED"]
    /\ PostReceive(c)
    /\ poll' = PollIdle
    /\ UNCHANGED <<malloc_map, conn_map, size_gb, conns, conn_num, running,
                   conn, fm, alive, link, recv_buf, recv_state,
                   send_buf, buf_posted, recv_msg>>

(* the rest of send_single_mr and of the BIND_SINGLE case *)
bind_send ==
    LET c == poll.c IN
    /\ alive /\ poll.pc = "send"
    /\ mapped_size' = mapped_size + 1
    /\ conn' = [conn EXCEPT ![c].mapped_chunk_size = @ + 1]
    /\ PostMsg(c, [send_msg[c] EXCEPT !.type = "INFO_SINGLE"])
    /\ conns_state' = [conns_state EXCEPT ![conn[c].conn_index] = "MAPPED"]
    /\ PostReceive(c)
    /\ poll' = PollIdle
    /\ UNCHANGED <<malloc_map, conn_map, size_gb, conns, conn_num, running,
                   fm, alive, link, recv_buf, recv_state,
                   send_buf, buf_posted, recv_msg>>

(* Mutant: like the other cases, ACTIVITY posts the receive again. *)
on_activity_repost(c) ==
    /\ Arrived(c, "ACTIVITY")
    /\ conn' = [conn EXCEPT ![c].evict_sem = @ + 1]
    /\ PostReceive(c)
    /\ UNCHANGED <<session, poll, fm, alive, link, toClient,
                   send_buf, buf_posted, recv_msg>>

(* ACTIVITY keeps the receive buffer until evict_mem has read it. *)
on_activity(c) ==
    /\ Arrived(c, "ACTIVITY")
    /\ conn' = [conn EXCEPT ![c].evict_sem = @ + 1]
    /\ rmsg_state' = [rmsg_state EXCEPT ![c] = "held"]
    /\ UNCHANGED <<session, poll, fm, alive, link, toClient,
                   send_buf, buf_posted, recv_msg>>

recv_done(c) ==
    LET stopped == recv_msg[c].rkey
        evict_g == recv_msg[c].size
        left    == conn[c].mapped_chunk_size - evict_g
    IN
    /\ Arrived(c, "DONE")
    /\ IF stopped \subseteq conn[c].sess
       THEN /\ conn' = [conn EXCEPT ![c].sess = @ \ stopped,
                                    ![c].mapped_chunk_size = left,
                                    ![c].stop_sem = @ + 1]
            /\ conn_map' = [i \in Chunks |->
                              IF i \in stopped THEN -1 ELSE conn_map[i]]
            /\ malloc_map' = malloc_map \ stopped
            /\ size_gb' = size_gb - evict_g
            /\ mapped_size' = mapped_size - evict_g
            /\ conns_state' = IF left = 0
                 THEN [conns_state EXCEPT ![conn[c].conn_index] = "CONNECTED"]
                 ELSE conns_state
            /\ UNCHANGED <<conns, conn_num, running, poll, fm, alive>>
       ELSE Die    \* mr_list[-1], region_list[-1]
    /\ PostReceive(c)
    /\ UNCHANGED <<link, toClient, send_buf, buf_posted, recv_msg>>

(* A send to a client that is gone completes in error: die(). *)
send_error(c) ==
    /\ alive /\ link[c] = "closed" /\ msg_posted[c] > 0
    /\ Die
    /\ UNCHANGED wireVars
=============================================================================
