---------------------------- MODULE BlockDevice -----------------------------
(***************************************************************************)
(* The client side: one infiniswap block device (struct IS_session) with   *)
(* one control block (struct kernel_cb) for the daemon.  Its threads:      *)
(*   trig    rdma_trigger: maps a busy chunk that is not mapped,           *)
(*   evict   evict_handler: answers EVICT and STOP,                        *)
(*   disc    IS_disconnect_handler, run by the CM callback,                *)
(* and the completion handler client_recv.  The three threads all call     *)
(* IS_single_chunk_map, and all share cb->state, cb->send_buf and          *)
(* cb_state_list without a lock.                                           *)
(***************************************************************************)
EXTENDS Wire

Threads == {"trig", "evict", "disc"}

VARIABLES
    cb,       \* cb[c]: the control block and the session's maps
    thr,      \* thr[c][t]: where thread t is, and its locals
    up        \* up[c]: the client machine runs

clientVars == <<cb, thr, up>>

(* chunk_map[i]: the session chunk that the daemon's chunk i holds, or -1; *)
(* mapped: the session chunks with cb_index_map # NO_CB_MAPPED; stop: the  *)
(* i with evict_chunk_map[i] = 's'.                                        *)
NewCb == [cb_state |-> "IDLE", state |-> "IDLE", c_state |-> "C_IDLE",
          target |-> 0, shrink |-> 0, stop |-> {},
          chunk_map |-> [i \in Chunks |-> -1],
          mapped |-> {}, cb_chunk |-> [s \in Sess |-> -1],
          free_chunk_index |-> NumSess - 1,
          trigger_on |-> TRUE, rdma_on |-> FALSE, established |-> FALSE]

(* s the chunk being mapped, list the chunks of evict_list, size = size_g *)
ThreadAt(pc) == [pc |-> pc, s |-> 0, list |-> {}, size |-> 0]

ClientInit ==
    /\ cb = [c \in Client |-> NewCb]
    /\ thr = [c \in Client |-> [trig |-> ThreadAt("idle"),
                                evict |-> ThreadAt("none"),
                                disc |-> ThreadAt("none")]]
    /\ up = [c \in Client |-> TRUE]

States == {"IDLE", "CONNECTED", "FREE_MEM_RECV", "AFTER_FREE_MEM",
           "WAIT_OPS", "RECV_STOP", "RECV_EVICT", "CM_DISCONNECT", "ERROR"}

ClientTypeOK ==
    /\ cb \in [Client ->
         [cb_state : {"IDLE", "CONNECTED", "MAPPED", "EVICTING", "FAIL"},
          state : States, c_state : {"C_IDLE", "C_READY", "C_EVICT", "C_STOP"},
          target : Int, shrink : Int, stop : SUBSET Chunks,
          chunk_map : [Chunks -> Sess \cup {-1}], mapped : SUBSET Sess,
          cb_chunk : [Sess -> Chunks \cup {-1}], free_chunk_index : Int,
          trigger_on : BOOLEAN, rdma_on : BOOLEAN, established : BOOLEAN]]
    /\ thr \in [Client -> [Threads ->
         [pc : {"none", "idle", "sleep", "map", "connect", "size", "info",
                "remap", "wait", "stop", "done"},
          s : Sess, list : SUBSET Sess, size : Int]]]
    /\ up \in [Client -> BOOLEAN]

SetCb(c, r) == cb' = [cb EXCEPT ![c] = r]
SetThr(c, t, r) == thr' = [thr EXCEPT ![c][t] = r]
PC(c, t) == thr[c][t].pc

(* ib_post_send of cb->sq_wr: the NIC will read send_buf[c] later. *)
PostBuf(c, m) ==
    /\ send_buf' = [send_buf EXCEPT ![c] = m]
    /\ buf_posted' = [buf_posted EXCEPT ![c] = @ + 1]

NoSend == UNCHANGED wireVars

(* One end of the connection is gone. *)
Close(c) ==
    link' = [link EXCEPT ![c] = IF @ \in {"accepted", "up"} THEN "closed" ELSE @]

(* The kernel writes outside its arrays: the machine is lost. *)
Oops(c) ==
    /\ up' = [up EXCEPT ![c] = FALSE]
    /\ Close(c)
    /\ UNCHANGED <<cb, thr, toClient, toDaemon>>

-----------------------------------------------------------------------------
(* IS_single_chunk_map, called by thread t for session chunk thr[c][t].s.   *)
(* With one control block, it is the only candidate.                        *)

(* Mutant: every caller is taken for the trigger thread. *)
Return_trigger(t) == "idle"

(* Where the caller goes on once the call is over. *)
Return(t) == IF t = "trig" THEN "idle" ELSE "remap"

(* lines 1642-1673 *)
map_none(c, t) ==
    /\ up[c] /\ PC(c, t) = "map"
    /\ cb[c].cb_state \in {"EVICTING", "FAIL"}
    /\ SetThr(c, t, [thr[c][t] EXCEPT !.pc = Return(t)])
    /\ NoSend /\ UNCHANGED <<cb, up>>

(* IS_send_query *)
map_query(c, t) ==
    /\ up[c] /\ PC(c, t) = "map"
    /\ cb[c].cb_state \in {"CONNECTED", "MAPPED"}
    /\ PostBuf(c, [send_buf[c] EXCEPT !.type = "QUERY"])
    /\ SetThr(c, t, [thr[c][t] EXCEPT !.pc = "size"])
    /\ UNCHANGED <<cb, up, link, toClient, recv_msg, rmsg_state>>

(* kernel_cb_init, rdma_connect_upper and rdma_connect_down to rdma_connect *)
map_connect(c, t) ==
    /\ up[c] /\ PC(c, t) = "map" /\ cb[c].cb_state = "IDLE"
    /\ SetCb(c, [cb[c] EXCEPT !.state = "IDLE", !.c_state = "C_IDLE",
                   !.chunk_map = [i \in Chunks |-> -1], !.stop = {}])
    /\ link' = [link EXCEPT ![c] = "requested"]
    /\ SetThr(c, t, [thr[c][t] EXCEPT !.pc = "connect"])
    /\ UNCHANGED <<up, toClient, toDaemon>>

(* RDMA_CM_EVENT_ESTABLISHED at the client *)
established(c) ==
    /\ up[c] /\ link[c] \in {"accepted", "up"} /\ ~cb[c].established
    /\ SetCb(c, [cb[c] EXCEPT !.state = "CONNECTED", !.established = TRUE])
    /\ NoSend /\ UNCHANGED <<thr, up>>

(* RDMA_CM_EVENT_REJECTED, UNREACHABLE, ... *)
connect_error(c) ==
    /\ up[c] /\ link[c] = "requested"
    /\ SetCb(c, [cb[c] EXCEPT !.state = "ERROR"])
    /\ link' = [link EXCEPT ![c] = "none"]
    /\ UNCHANGED <<thr, up, toClient, toDaemon>>

(* lines 1684-1722 of is_main.c, once FREE_SIZE is in.  fresh: line 1693. *)
map_bind(c, t) ==
    LET fresh == PC(c, t) = "connect"
        cs    == IF fresh THEN "CONNECTED" ELSE cb[c].cb_state
        new   == [cb[c] EXCEPT !.state = "AFTER_FREE_MEM", !.cb_state = cs]
        th    == [thr[c] EXCEPT ![t] = [thr[c][t] EXCEPT !.pc = "info"]]
    IN
    /\ up[c] /\ PC(c, t) \in {"connect", "size"}
    /\ cb[c].state = "FREE_MEM_RECV"
    /\ SetCb(c, new)
    /\ \/ /\ cb[c].target = 0
          /\ SetThr(c, t, [thr[c][t] EXCEPT !.pc = Return(t)])
          /\ NoSend
       \/ /\ cb[c].target # 0
          /\ PostBuf(c, [send_buf[c] EXCEPT !.type = "BIND_SINGLE",
                                            !.size = thr[c][t].s])
          /\ thr' = [thr EXCEPT ![c] =
                       IF cs = "CONNECTED"
                       THEN [th EXCEPT !["evict"] = ThreadAt("wait")] ELSE th]
          /\ UNCHANGED <<link, toClient, recv_msg, rmsg_state>>
    /\ UNCHANGED up

(* lines 1723-1725 *)
map_end(c, t) ==
    /\ up[c] /\ PC(c, t) = "info" /\ cb[c].state = "WAIT_OPS"
    /\ SetCb(c, [cb[c] EXCEPT !.rdma_on = TRUE])
    /\ SetThr(c, t, [thr[c][t] EXCEPT !.pc = Return(t)])
    /\ NoSend /\ UNCHANGED up

-----------------------------------------------------------------------------
(* rdma_trigger: chunk s is busy, the trigger is on, s is not mapped *)
rdma_trigger(c, s) ==
    /\ up[c] /\ PC(c, "trig") = "idle"
    /\ cb[c].trigger_on /\ s \notin cb[c].mapped
    /\ SetThr(c, "trig", [ThreadAt("map") EXCEPT !.s = s])
    /\ NoSend /\ UNCHANGED <<cb, up>>

-----------------------------------------------------------------------------
(* rdma_cq_event_handler and client_recv *)

(* Mutants: chunk_map_cb_chunk is not filled; the list is not shortened. *)
IS_single_chunk_init_half(b, s, rkey) ==
    LET i == Min(rkey) IN
    [b EXCEPT !.free_chunk_index = @ - 1, !.cb_chunk[s] = i,
              !.c_state = "C_READY", !.mapped = @ \cup {s}]
IS_single_chunk_init_list(b, s, rkey) ==
    LET i == Min(rkey) IN
    [b EXCEPT !.cb_chunk[s] = i,
              !.chunk_map[i] = s, !.c_state = "C_READY", !.mapped = @ \cup {s}]

(* IS_single_chunk_init: the first chunk with a key holds session chunk s. *)
IS_single_chunk_init(b, s, rkey) ==
    LET i == Min(rkey) IN
    [b EXCEPT !.free_chunk_index = @ - 1, !.cb_chunk[s] = i,
              !.chunk_map[i] = s, !.c_state = "C_READY", !.mapped = @ \cup {s}]

(* Mutant: an off-by-one in the test for an empty request. *)
client_recv_evict_one(b, m) ==
    IF m.size <= 1 THEN b
    ELSE [b EXCEPT !.shrink = m.size, !.c_state = "C_EVICT"]

client_recv_evict(b, m) ==
    IF m.size = 0 THEN b
    ELSE [b EXCEPT !.shrink = m.size, !.c_state = "C_EVICT"]

client_recv_stop(b, m) ==
    [b EXCEPT !.shrink = m.size, !.c_state = "C_STOP",
              !.stop = IF m.size = 0 THEN @ ELSE m.rkey]

Received(b, m) ==
    CASE m.type = "FREE_SIZE" ->
           [b EXCEPT !.target = m.size, !.state = "FREE_MEM_RECV"]
      [] m.type = "INFO_SINGLE" ->
           LET n == [b EXCEPT !.cb_state = "MAPPED", !.state = "WAIT_OPS"]
           IN  IF m.rkey = {} THEN n ELSE IS_single_chunk_init(n, m.size, m.rkey)
      [] m.type = "EVICT" ->
           client_recv_evict([b EXCEPT !.state = "RECV_EVICT"], m)
      [] m.type = "STOP" ->
           client_recv_stop([b EXCEPT !.state = "RECV_STOP"], m)

(* A message before ESTABLISHED, or of no known type: goto error, and the  *)
(* receive is not posted again.                                            *)
client_recv(c) ==
    LET m == recv_buf[c] IN
    /\ up[c] /\ recv_state[c] = "arrived" /\ cb[c].state # "ERROR"
    /\ \/ /\ cb[c].state = "IDLE"
          /\ SetCb(c, [cb[c] EXCEPT !.state = "ERROR"])
          /\ recv_state' = [recv_state EXCEPT ![c] = "lost"]
          /\ UNCHANGED <<up, link>>
       \/ /\ cb[c].state # "IDLE"
          /\ m.type = "INFO_SINGLE" /\ m.rkey # {} => m.size \in Sess
          /\ SetCb(c, Received(cb[c], m))
          /\ recv_state' = [recv_state EXCEPT ![c] = "posted"]
          /\ UNCHANGED <<up, link>>
       \/ /\ cb[c].state # "IDLE"
          /\ m.type = "INFO_SINGLE" /\ m.rkey # {} /\ m.size \notin Sess
          /\ up' = [up EXCEPT ![c] = FALSE]
          /\ Close(c)
          /\ UNCHANGED <<cb, recv_state>>
    /\ UNCHANGED <<thr, send_msg, msg_posted, recv_buf, toDaemon>>

-----------------------------------------------------------------------------
(* evict_handler *)

(* lines 684-687: EVICT is answered with the activity of the mapped chunks *)
evict_activity(c) ==
    /\ up[c] /\ PC(c, "evict") = "wait" /\ cb[c].state # "ERROR"
    /\ cb[c].c_state = "C_EVICT"
    /\ PostBuf(c, [send_buf[c] EXCEPT !.type = "ACTIVITY",
                     !.buf = {i \in Chunks : cb[c].chunk_map[i] # -1}])
    /\ SetThr(c, "evict", ThreadAt("stop"))
    /\ UNCHANGED <<cb, up, link, toClient, recv_msg, rmsg_state>>

(* Mutant: cb_index_map keeps the stopped chunks. *)
StopChunks_used(b) ==
    [b EXCEPT !.trigger_on = FALSE,
              !.chunk_map = [i \in Chunks |->
                               IF i \in b.stop THEN -1 ELSE b.chunk_map[i]]]

(* lines 702-714: the stopped chunks are no longer mapped *)
StopChunks(b) ==
    [b EXCEPT !.trigger_on = FALSE,
              !.mapped = @ \ {b.chunk_map[i] : i \in b.stop},
              !.chunk_map = [i \in Chunks |->
                               IF i \in b.stop THEN -1 ELSE b.chunk_map[i]]]

(* lines 688-714: the chunks to stop are unmapped and tagged in send_buf;  *)
(* an index of -1 for one of them writes before the arrays                 *)
evict_unmap(c) ==
    LET b    == cb[c]
        gone == {b.chunk_map[i] : i \in b.stop}
    IN
    /\ up[c] /\ PC(c, "evict") = "stop" /\ b.c_state = "C_STOP"
    /\ \/ /\ b.shrink = 0
          /\ SetCb(c, [b EXCEPT !.c_state = "C_READY"])
          /\ SetThr(c, "evict", ThreadAt("wait"))
          /\ NoSend /\ UNCHANGED up
       \/ /\ b.shrink # 0 /\ -1 \notin gone
          /\ SetCb(c, StopChunks(b))
          /\ send_buf' = [send_buf EXCEPT ![c].rkey = b.stop]
          /\ SetThr(c, "evict", [ThreadAt("done") EXCEPT !.list = gone,
                                                       !.size = b.shrink])
          /\ UNCHANGED <<up, link, toClient, buf_posted, recv_msg, rmsg_state>>
       \/ b.shrink # 0 /\ -1 \in gone /\ Oops(c)

(* lines 716-730: DONE is sent once no request uses the stopped chunks *)
evict_done(c) ==
    /\ up[c] /\ PC(c, "evict") = "done"
    /\ SetCb(c, [cb[c] EXCEPT !.shrink = 0, !.c_state = "C_READY",
                              !.cb_state = "EVICTING"])
    /\ PostBuf(c, [send_buf[c] EXCEPT !.type = "DONE",
                                      !.size = thr[c]["evict"].size])
    /\ SetThr(c, "evict", [thr[c]["evict"] EXCEPT !.pc = "remap"])
    /\ UNCHANGED <<up, link, toClient, recv_msg, rmsg_state>>

(* lines 731-740: every evicted chunk is mapped again, then the loop *)
evict_remap(c) ==
    LET e == thr[c]["evict"] IN
    /\ up[c] /\ e.pc = "remap"
    /\ \/ /\ e.list # {}
          /\ LET s == Min(e.list) IN
             /\ SetCb(c, [cb[c] EXCEPT !.cb_chunk[s] = -1,
                                       !.free_chunk_index = @ + 1])
             /\ SetThr(c, "evict", [e EXCEPT !.pc = "map", !.s = s,
                                             !.list = @ \ {s}])
       \/ /\ e.list = {}
          /\ SetCb(c, [cb[c] EXCEPT !.cb_state = "MAPPED", !.trigger_on = TRUE])
          /\ SetThr(c, "evict", ThreadAt("wait"))
    /\ NoSend /\ UNCHANGED up

-----------------------------------------------------------------------------
(* IS_disconnect_handler: RDMA_CM_EVENT_DISCONNECTED once the daemon is gone *)

(* lines 606 and 455-485 *)
disconnected(c) ==
    LET b    == [cb[c] EXCEPT !.state = "CM_DISCONNECT", !.cb_state = "FAIL"]
        used == {i \in Chunks : b.chunk_map[i] # -1}
        gone == {b.chunk_map[i] : i \in used}
    IN
    /\ up[c] /\ b.established /\ PC(c, "disc") = "none"
    /\ IF cb[c].cb_state = "CONNECTED"
       THEN SetCb(c, b) /\ SetThr(c, "disc", ThreadAt("idle"))
       ELSE /\ SetCb(c, [b EXCEPT !.trigger_on = FALSE, !.rdma_on = FALSE,
                                  !.mapped = @ \ gone])
            /\ SetThr(c, "disc", [ThreadAt("sleep") EXCEPT !.list = gone])
    /\ Close(c)
    /\ UNCHANGED <<up, toClient, toDaemon>>

(* lines 489-537, after the sleep *)
disc_release(c) ==
    LET b    == cb[c]
        used == {i \in Chunks : b.chunk_map[i] # -1}
        gone == {b.chunk_map[i] : i \in used}
    IN
    /\ up[c] /\ PC(c, "disc") = "sleep"
    /\ SetCb(c, [b EXCEPT !.rdma_on = TRUE,
                   !.free_chunk_index = @ + Cardinality(used),
                   !.cb_chunk = [s \in Sess |-> IF s \in gone THEN -1 ELSE @[s]],
                   !.chunk_map = [i \in Chunks |-> -1]])
    /\ SetThr(c, "disc", [thr[c]["disc"] EXCEPT !.pc = "remap"])
    /\ NoSend /\ UNCHANGED up

(* lines 538-544 *)
disc_remap(c) ==
    LET d == thr[c]["disc"] IN
    /\ up[c] /\ d.pc = "remap"
    /\ \/ /\ d.list # {}
          /\ LET s == Min(d.list) IN
             SetThr(c, "disc", [d EXCEPT !.pc = "map", !.s = s, !.list = @ \ {s}])
          /\ UNCHANGED cb
       \/ /\ d.list = {}
          /\ SetCb(c, [cb[c] EXCEPT !.trigger_on = TRUE])
          /\ SetThr(c, "disc", ThreadAt("idle"))
    /\ NoSend /\ UNCHANGED up

(* The client machine goes away: the daemon's CM will report it. *)
depart(c) ==
    /\ up[c] /\ link[c] = "up"
    /\ Oops(c)

(* Every step that the client takes of itself. *)
clientStep(c) ==
    \/ \E t \in Threads : \/ map_none(c, t) \/ map_query(c, t)
                          \/ map_connect(c, t) \/ map_bind(c, t)
                          \/ map_end(c, t)
    \/ established(c) \/ client_recv(c)
    \/ evict_activity(c) \/ evict_unmap(c) \/ evict_done(c) \/ evict_remap(c)
    \/ disc_release(c) \/ disc_remap(c)
=============================================================================
