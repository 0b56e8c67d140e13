----------------------------- MODULE Infiniswap -----------------------------
(***************************************************************************)
(* The paging system: the daemon (Daemon, FreeMem) and its block devices   *)
(* (BlockDevice) over their connections (Wire).  Env names what else may   *)
(* happen in an instance.                                                  *)
(***************************************************************************)
EXTENDS FreeMem, BlockDevice

CONSTANTS
    Env,        \* "overlap": a round of free_mem and a mapping may overlap
                \* "early_connect": a client connects before rdma_session_init
                \* "early_recv": a message may precede ESTABLISHED
                \* "refuse": a connection may fail
                \* "depart": a client may go away
                \* "kill": the daemon may go away
    MaxMaps,    \* calls of IS_single_chunk_map by each trigger thread
    MaxRounds   \* evicting or expanding rounds of free_mem

ASSUME EnvAssumption ==
    /\ Env \subseteq {"overlap", "early_connect", "early_recv", "refuse",
                      "depart", "kill"}
    /\ MaxMaps \in Nat /\ MaxRounds \in Nat

VARIABLES maps, rounds   \* the counters of those bounds

vars == <<wireVars, daemonVars, clientVars, maps, rounds>>

Init ==
    /\ WireInit /\ DaemonInit /\ ClientInit
    /\ maps = [c \in Client |-> 0] /\ rounds = 0

(* Nothing is under way anywhere. *)
Quiet ==
    /\ fm.pc \in {"idle", "exit"} /\ poll = PollIdle
    /\ \A c \in Client :
         /\ msg_posted[c] = 0 /\ recv_state[c] # "arrived"
         /\ buf_posted[c] = 0 /\ rmsg_state[c] # "arrived"
         /\ PC(c, "evict") \in {"none", "wait"} /\ cb[c].c_state # "C_EVICT"
         /\ PC(c, "disc") \in {"none", "idle"}

Serial == "overlap" \in Env \/ (Quiet /\ \A c \in Client : PC(c, "trig") = "idle")

Trigger(c, s) ==
    /\ maps[c] < MaxMaps
    /\ "early_connect" \in Env \/ fm.pc # "init"
    /\ \/ "overlap" \in Env
       \/ fm.pc \in {"init", "idle", "exit"} /\ PC(c, "evict") \in {"none", "wait"}
    /\ rdma_trigger(c, s)
    /\ maps' = [maps EXCEPT ![c] = @ + 1]
    /\ UNCHANGED <<daemonVars, rounds>>

Round ==
    /\ rounds < MaxRounds /\ Serial
    /\ \E g \in 0 .. NumChunks : evict_mem(g) \/ expand(g)
    /\ rounds' = rounds + 1
    /\ UNCHANGED <<clientVars, maps>>

(* kill: the process is stopped from outside. *)
Kill ==
    /\ "kill" \in Env /\ alive
    /\ Die
    /\ UNCHANGED <<wireVars, clientVars, maps, rounds>>

(* The daemon's threads. *)
MainStep ==
    /\ \E c \in Client : \/ on_connect_request(c) \/ on_connection(c)
                         \/ destroy_connection(c)
    /\ UNCHANGED <<clientVars, maps, rounds>>

PollStep ==
    /\ \/ \E c \in Client :
            \/ on_query(c) \/ on_bind_single(c) \/ on_activity(c)
            \/ recv_done(c) \/ send_error(c)
       \/ bind_scan \/ bind_map \/ bind_send
    /\ UNCHANGED <<clientVars, maps, rounds>>

FreeMemStep ==
    /\ freeMemStep
    /\ UNCHANGED <<clientVars, maps, rounds>>

ClientStep(c) ==
    /\ clientStep(c)
    /\ UNCHANGED <<daemonVars, maps, rounds>>

Network(c) ==
    /\ \/ ("early_recv" \in Env \/ cb[c].established) /\ TransmitToClient(c)
       \/ TransmitToDaemon(c)
    /\ UNCHANGED <<daemonVars, clientVars, maps, rounds>>

Mishap(c) ==
    /\ \/ "refuse" \in Env /\ connect_error(c)
       \/ "depart" \in Env /\ depart(c)
       \/ ~alive /\ disconnected(c)
    /\ UNCHANGED <<daemonVars, maps, rounds>>

Next ==
    \/ MainStep \/ PollStep \/ FreeMemStep \/ Round \/ Kill
    \/ \E c \in Client :
         \/ \E s \in Sess : Trigger(c, s)
         \/ ClientStep(c) \/ Network(c) \/ Mishap(c)

Spec == Init /\ [][Next]_vars

(* Every thread that can go on does, and a posted message is delivered. *)
Fairness ==
    /\ WF_vars(MainStep) /\ WF_vars(PollStep) /\ WF_vars(FreeMemStep)
    /\ \A c \in Client : WF_vars(ClientStep(c)) /\ WF_vars(Network(c))

FairSpec == Spec /\ Fairness

-----------------------------------------------------------------------------
(* Properties *)

(* The type of every variable of the composition. *)
TypeOK ==
    /\ WireTypeOK /\ DaemonTypeOK /\ ClientTypeOK
    /\ maps \in [Client -> 0 .. MaxMaps] /\ rounds \in 0 .. MaxRounds

(* The client has a struct connection at the daemon. *)
Live(c) == link[c] \in {"accepted", "up", "closed"}

(* A chunk is lent to one client at a time: no two connections list the    *)
(* same chunk in sess_chunk_map, and a listed chunk is never marked free   *)
(* in conn_map, which is all that send_single_mr looks at before it lends. *)
LentOnce ==
    \A c \in Client : Live(c) =>
      /\ \A i \in conn[c].sess : conn_map[i] # -1
      /\ \A d \in Client \ {c} : Live(d) => conn[c].sess \cap conn[d].sess = {}

(* conn_map and the connections' sess_chunk_map, written apart by          *)
(* send_single_mr, recv_done and destroy_connection, say the same.         *)
ConnMapAgrees ==
    \A c \in Client : Live(c) =>
      conn[c].sess = {i \in Chunks : conn_map[i] = conn[c].conn_index}

(* Every session chunk that IS_request would send to remote memory lies in *)
(* a chunk that the daemon lends to this client: DONE leaves a client only *)
(* after it has stopped using what the daemon will free.                   *)
UsableOwned ==
    alive => \A c \in Client : up[c] /\ link[c] = "up" =>
      \A s \in cb[c].mapped : cb[c].cb_chunk[s] \in conn[c].sess

(* What the daemon lends is allocated, so that the region it registers for *)
(* a client is never one that evict_mem has freed.                         *)
LentIsMalloced ==
    alive => \A c \in Client : Live(c) => conn[c].sess \subseteq malloc_map

(* While an ACTIVITY message waits for evict_mem, its buffer stays out of  *)
(* the receive queue: on_completion posts evict_sem and no receive.        *)
ActivityHeld ==
    \A c \in Client : Live(c) /\ conn[c].evict_sem > 0 =>
      /\ conn[c].evict_sem = 1
      /\ rmsg_state[c] = "held" /\ recv_msg[c].type = "ACTIVITY"

(* The client's two chunk maps are inverse on what is mapped, so that      *)
(* IS_request finds for a mapped session chunk the chunk that holds it.    *)
MappedHasChunk ==
    \A c \in Client : up[c] => \A s \in cb[c].mapped :
      /\ cb[c].cb_chunk[s] # -1
      /\ cb[c].chunk_map[cb[c].cb_chunk[s]] = s

(* free_chunk_index, moved by three handlers, is the last index of a list  *)
(* of the unmapped chunks: it never leaves unmapped_chunk_list.            *)
FreeIndexExact ==
    \A c \in Client : up[c] =>
      cb[c].free_chunk_index =
        NumSess - 1 - Cardinality({s \in Sess : cb[c].cb_chunk[s] # -1})

(* unmapped_chunk_list is never indexed past its end, whatever evictions,  *)
(* mappings and disconnections overlap: a chunk that evict_handler or      *)
(* IS_disconnect_handler gives back was taken before.                      *)
FreeIndexBounded ==
    \A c \in Client : up[c] => cb[c].free_chunk_index < NumSess

(* The session's mapped_size is the sum of the connections'                *)
(* mapped_chunk_size, through BIND, DONE and disconnections.               *)
MappedSizeIsSum ==
    alive => mapped_size = MapThenSumSet(LAMBDA c : conn[c].mapped_chunk_size,
                                         {c \in Client : Live(c)})

(* Neither side follows a NULL connection or an index of -1, and no die(). *)
NoFault == alive /\ \A c \in Client : up[c]

(* Between rounds size_gb, kept by free_mem and by recv_done, is the       *)
(* number of chunks allocated.                                             *)
SizeExact == alive /\ fm.pc = "idle" => size_gb = Cardinality(malloc_map)

(* evict_mem and the expansion loop end: every EVICT is answered with its  *)
(* ACTIVITY and every STOP with its DONE.                                  *)
RoundEnds == fm.pc \notin {"idle", "exit"} ~> fm.pc \in {"idle", "exit"}

(* A call of IS_single_chunk_map by the trigger thread returns: neither    *)
(* wait on cb->sem is for ever.                                            *)
MapReturns ==
    \A c \in Client : PC(c, "trig") # "idle" ~> PC(c, "trig") = "idle"

(* An eviction, which turns the trigger off, turns it on again. *)
TriggerBack == \A c \in Client : ~cb[c].trigger_on ~> cb[c].trigger_on

-----------------------------------------------------------------------------
(* Statements of the code's own comments and checks *)

(* recv_done prints "error evict" unless the DONE message stops as many    *)
(* chunks as its size says (rdma-common.c:505).                            *)
DoneCountsItsChunks ==
    \A c \in Client :
      rmsg_state[c] = "arrived" /\ recv_msg[c].type = "DONE" =>
        recv_msg[c].size = Cardinality(recv_msg[c].rkey)

(* IS_single_chunk_init: "from server, this chunk is allocated and given   *)
(* to you" (is_mq.c:824).                                                  *)
InfoIsMalloced ==
    alive => \A c \in Client :
      recv_state[c] = "arrived" /\ recv_buf[c].type = "INFO_SINGLE" =>
        recv_buf[c].rkey \subseteq malloc_map

(* The daemon evicts when memory is short (README.md:72) as long as it     *)
(* serves a client: "while (running) {// server is working".               *)
EvictorRuns ==
    alive => \A c \in Client : link[c] = "up" => fm.pc # "exit"
=============================================================================
