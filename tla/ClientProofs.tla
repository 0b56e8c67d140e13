--------------------------- MODULE ClientProofs -----------------------------
(***************************************************************************)
(* Proofs about the block devices of the composition, for every number of  *)
(* clients, chunks and slots and with everything that Env allows: what the *)
(* messages in the buffers are, that a client connects once, and that      *)
(* unmapped_chunk_list is never indexed past its end.                      *)
(***************************************************************************)
EXTENDS Infiniswap, SetLemmas

-----------------------------------------------------------------------------
(* The daemon's messages *)

DaemonTypes == {"FREE_SIZE", "INFO_SINGLE", "EVICT", "STOP"}

(* A send buffer of the daemon, whatever its size field says. *)
IsDaemonMsg(m) ==
    /\ DOMAIN m = {"type", "size", "rkey"}
    /\ m.type \in DaemonTypes \cup {"NONE"}
    /\ m.rkey \subseteq Chunks

(* What a NIC may read is a message: no send is posted before its buffer   *)
(* is filled, and no receive completes with an empty one.                  *)
Messages ==
    /\ DOMAIN send_msg = Client /\ DOMAIN recv_buf = Client
    /\ msg_posted \in [Client -> Nat] /\ DOMAIN recv_state = Client
    /\ \A c \in Client :
         /\ IsDaemonMsg(send_msg[c]) /\ IsDaemonMsg(recv_buf[c])
         /\ msg_posted[c] > 0 => send_msg[c].type # "NONE"
         /\ recv_state[c] = "arrived" => recv_buf[c].type # "NONE"

(* The search of send_single_mr stays inside the chunks. *)
PollInRange == DOMAIN poll = {"pc", "c", "i"} /\ poll.i \in Chunks

WInv == Messages /\ PollInRange

LEMMA InitWInv == Init => WInv
<1> SUFFICES ASSUME Init PROVE WInv
  OBVIOUS
<1>1. IsDaemonMsg(NoDaemonMsg)
  BY DEF IsDaemonMsg, NoDaemonMsg
<1>2. Messages
  BY <1>1 DEF Init, WireInit, Messages
<1>3. PollInRange
  BY SizeAssumption DEF Init, DaemonInit, PollIdle, PollInRange, Chunks
<1> QED BY <1>2, <1>3 DEF WInv

(* send_message keeps it, for a message of one of the four types. *)
LEMMA PostMessages ==
    ASSUME Messages, NEW c, NEW m,
           c \in Client => IsDaemonMsg(m) /\ m.type # "NONE",
           PostMsg(c, m), UNCHANGED <<recv_buf, recv_state>>
    PROVE  Messages'
<1>1. /\ DOMAIN send_msg' = Client
      /\ \A d \in Client : send_msg'[d] = IF d = c THEN m ELSE send_msg[d]
  BY UpdateAt DEF Messages, PostMsg
<1>2. msg_posted' \in [Client -> Nat]
  <2>1. msg_posted' = [msg_posted EXCEPT ![c] = msg_posted[c] + 1]
    BY DEF PostMsg
  <2>2. c \in Client => msg_posted[c] + 1 \in Nat
    BY DEF Messages
  <2> QED BY <2>1, <2>2, Zenon DEF Messages
<1>3. \A d \in Client : d # c => msg_posted'[d] = msg_posted[d]
  BY DEF Messages, PostMsg
<1> QED BY <1>1, <1>2, <1>3, ZenonT(40) DEF Messages

(* So does a change of the size and the keys in a buffer. *)
LEMMA RewriteMessages ==
    ASSUME Messages, DOMAIN send_msg' = Client,
           \A c \in Client : /\ IsDaemonMsg(send_msg'[c])
                             /\ send_msg'[c].type = send_msg[c].type,
           UNCHANGED <<msg_posted, recv_buf, recv_state>>
    PROVE  Messages'
BY DEF Messages

LEMMA SameMessages ==
    ASSUME WInv, UNCHANGED <<toClient, poll>>
    PROVE  WInv'
BY DEF WInv, Messages, IsDaemonMsg, PollInRange, toClient

LEMMA MainWInv ==
    ASSUME WInv, MainStep
    PROVE  WInv'
<1>1. PICK c \in Client :
        on_connect_request(c) \/ on_connection(c) \/ destroy_connection(c)
  BY DEF MainStep
<1>2. CASE on_connect_request(c) \/ destroy_connection(c)
  <2>1. UNCHANGED <<toClient, poll>>
    BY <1>2, Zenon DEF on_connect_request, destroy_connection, Die
  <2> QED BY <2>1, SameMessages, Zenon
<1>3. CASE on_connection(c)
  <2>1. IsDaemonMsg(FreeSizeMsg(c)) /\ FreeSizeMsg(c).type # "NONE"
    BY DEF FreeSizeMsg, WInv, Messages, IsDaemonMsg, DaemonTypes
  <2>2. PostMsg(c, FreeSizeMsg(c)) /\ UNCHANGED <<recv_buf, recv_state, poll>>
    BY <1>3 DEF on_connection, daemonVars
  <2>3. Messages'
    BY <2>1, <2>2, PostMessages, Zenon DEF WInv
  <2> QED BY <2>2, <2>3, Zenon DEF WInv, PollInRange
<1> QED BY <1>1, <1>2, <1>3

LEMMA PollWInv ==
    ASSUME WInv, PollStep
    PROVE  WInv'
<1>1. ASSUME NEW c \in Client, on_query(c)
      PROVE  WInv'
  <2>1. IsDaemonMsg(FreeSizeMsg(c)) /\ FreeSizeMsg(c).type # "NONE"
    BY DEF FreeSizeMsg, WInv, Messages, IsDaemonMsg, DaemonTypes
  <2>2. PostMsg(c, FreeSizeMsg(c)) /\ UNCHANGED <<recv_buf, recv_state, poll>>
    BY <1>1, Zenon DEF on_query, daemonVars
  <2>3. Messages'
    BY <2>1, <2>2, PostMessages DEF WInv
  <2> QED BY <2>2, <2>3 DEF WInv, PollInRange
<1>2. ASSUME NEW c \in Client, on_bind_single(c)
      PROVE  WInv'
  <2>1. /\ send_msg' = [send_msg EXCEPT ![c] = [send_msg[c] EXCEPT
                                          !.size = recv_msg[c].size, !.rkey = {}]]
        /\ UNCHANGED <<msg_posted, recv_buf, recv_state>>
        /\ poll' = [pc |-> "scan", c |-> c, i |-> 0]
    BY <1>2, Zenon DEF on_bind_single
  <2>2. DOMAIN send_msg' = Client
    BY <2>1 DEF WInv, Messages
  <2>3. \A d \in Client : /\ IsDaemonMsg(send_msg'[d])
                          /\ send_msg'[d].type = send_msg[d].type
    BY <2>1 DEF WInv, Messages, IsDaemonMsg
  <2>4. PollInRange'
    BY <2>1, SizeAssumption DEF PollInRange, Chunks
  <2> QED BY <2>1, <2>2, <2>3, <2>4, RewriteMessages, ZenonT(40) DEF WInv
<1>3. ASSUME NEW c \in Client, on_activity(c) \/ recv_done(c) \/ send_error(c)
      PROVE  WInv'
  <2>1. UNCHANGED <<toClient, poll>>
    BY <1>3 DEF on_activity, recv_done, send_error, Die, wireVars
  <2> QED BY <2>1, SameMessages
<1>4. CASE bind_scan
  <2>1. UNCHANGED toClient
    BY <1>4, Zenon DEF bind_scan, wireVars
  <2>2. Messages'
    BY <2>1 DEF WInv, Messages, IsDaemonMsg, toClient
  <2>3. PollInRange'
    BY <1>4, SizeAssumption DEF bind_scan, WInv, PollInRange, Chunks
  <2> QED BY <2>2, <2>3 DEF WInv
<1>5. CASE bind_map
  <2>1. /\ send_msg' = [send_msg EXCEPT ![poll.c] = [send_msg[poll.c] EXCEPT
                                          !.rkey = @ \cup {poll.i}]]
        /\ UNCHANGED <<msg_posted, recv_buf, recv_state>>
        /\ poll' = [poll EXCEPT !.pc = "send"]
    BY <1>5 DEF bind_map
  <2>2. DOMAIN send_msg' = Client
    BY <2>1 DEF WInv, Messages
  <2>3. \A d \in Client : /\ IsDaemonMsg(send_msg'[d])
                          /\ send_msg'[d].type = send_msg[d].type
    BY <2>1 DEF WInv, Messages, IsDaemonMsg, PollInRange
  <2>4. PollInRange'
    BY <2>1 DEF WInv, PollInRange
  <2> QED BY <2>1, <2>2, <2>3, <2>4, RewriteMessages, Zenon DEF WInv
<1>6. CASE bind_send
  <2> DEFINE c == poll.c
             m == [send_msg[c] EXCEPT !.type = "INFO_SINGLE"]
  <2>1. PostMsg(c, m) /\ UNCHANGED <<recv_buf, recv_state>> /\ poll' = PollIdle
    BY <1>6 DEF bind_send
  <2>2. PollInRange'
    BY <2>1, SizeAssumption DEF PollIdle, PollInRange, Chunks
  <2>3. c \in Client => IsDaemonMsg(m) /\ m.type # "NONE"
    BY DEF WInv, Messages, IsDaemonMsg, DaemonTypes
  <2> QED BY <2>1, <2>2, <2>3, PostMessages, Zenon DEF WInv
<1> QED BY <1>1, <1>2, <1>3, <1>4, <1>5, <1>6, ZenonT(40) DEF PollStep

LEMMA FreeMemWInv ==
    ASSUME WInv, freeMemStep \/ \E g \in 0 .. NumChunks : evict_mem(g) \/ expand(g)
    PROVE  WInv'
<1>1. CASE \/ rdma_session_init \/ free_mem_exit \/ evict_scan \/ evict_free
           \/ evict_next \/ activity_of \/ stopped \/ evict_fault \/ grow
           \/ \E g \in 0 .. NumChunks : evict_mem(g) \/ expand(g)
  <2>1. UNCHANGED <<toClient, poll>>
    BY <1>1 DEF rdma_session_init, free_mem_exit, evict_scan, evict_free,
                evict_next, activity_of, stopped, evict_fault, grow, evict_mem,
                expand, OnlyFm, Die, wireVars
  <2> QED BY <2>1, SameMessages, Zenon
<1>2. CASE evict_select
  <2>1. UNCHANGED <<toClient, poll>>
    BY <1>2, Zenon DEF evict_select, wireVars
  <2> QED BY <2>1, SameMessages
<1>3. CASE send_evict
  <2> DEFINE m == [type |-> "EVICT", size |-> fm.evict_g, rkey |-> {}]
  <2>1. PostMsg(conns[Slot], m) /\ UNCHANGED <<recv_buf, recv_state, poll>>
    BY <1>3, Zenon DEF send_evict
  <2>2. IsDaemonMsg(m) /\ m.type # "NONE"
    BY DEF IsDaemonMsg, DaemonTypes
  <2> QED BY <2>1, <2>2, PostMessages, Zenon DEF WInv, PollInRange
<1>4. CASE send_stop
  <2> DEFINE c == conns[Slot]
             m == [send_msg[c] EXCEPT !.type = "STOP", !.size = StopSize(Slot)]
  <2>1. PostMsg(c, m) /\ UNCHANGED <<recv_buf, recv_state, poll>>
    BY <1>4 DEF send_stop
  <2>2. c \in Client => IsDaemonMsg(m) /\ m.type # "NONE"
    BY DEF WInv, Messages, IsDaemonMsg, DaemonTypes
  <2> QED BY <2>1, <2>2, PostMessages, Zenon DEF WInv, PollInRange
<1>5. CASE recv_activity
  <2>1. /\ send_msg' = [send_msg EXCEPT ![fm.c] = [send_msg[fm.c] EXCEPT
                                                     !.size = 0, !.rkey = {}]]
        /\ UNCHANGED <<msg_posted, recv_buf, recv_state, poll>>
    BY <1>5, ZenonT(40) DEF recv_activity
  <2>2. DOMAIN send_msg' = Client
    BY <2>1, Zenon DEF WInv, Messages
  <2>3. \A d \in Client : /\ IsDaemonMsg(send_msg'[d])
                          /\ send_msg'[d].type = send_msg[d].type
    BY <2>1 DEF WInv, Messages, IsDaemonMsg
  <2> QED BY <2>1, <2>2, <2>3, RewriteMessages, ZenonT(40) DEF WInv, PollInRange
<1>6. CASE evict_choose
  <2>1. UNCHANGED <<msg_posted, recv_buf, recv_state, poll>>
    BY <1>6, Zenon DEF evict_choose
  <2>2. PICK f \in Picks :
          LET P    == {i \in Chunks : f[i] > 0}
              Of(c) == {i \in P : conns[conn_map[i]] = c}
          IN  send_msg' = [c \in Client |->
                [send_msg[c] EXCEPT
                   !.rkey = @ \cup Of(c),
                   !.size = @ + MapThenSumSet(LAMBDA i : f[i], Of(c))]]
    BY <1>6, ZenonT(40) DEF evict_choose
  <2> DEFINE Of(c) == {i \in {i \in Chunks : f[i] > 0} : conns[conn_map[i]] = c}
             Sum(c) == MapThenSumSet(LAMBDA i : f[i], Of(c))
  <2>3. send_msg' = [c \in Client |->
          [send_msg[c] EXCEPT !.rkey = send_msg[c].rkey \cup Of(c),
                              !.size = send_msg[c].size + Sum(c)]]
    BY <2>2, Zenon
  <2>4. \A c \in Client : Of(c) \subseteq Chunks
    OBVIOUS
  <2> HIDE DEF Of, Sum
  <2>5. DOMAIN send_msg' = Client
    BY <2>3, ZenonT(40)
  <2>6. \A d \in Client : /\ IsDaemonMsg(send_msg'[d])
                          /\ send_msg'[d].type = send_msg[d].type
    BY <2>3, <2>4, Zenon DEF WInv, Messages, IsDaemonMsg
  <2> QED BY <2>1, <2>5, <2>6, RewriteMessages, ZenonT(40) DEF WInv, PollInRange
<1> QED BY <1>1, <1>2, <1>3, <1>4, <1>5, <1>6, ZenonT(40) DEF freeMemStep

(* A client only receives. *)
LEMMA ClientWInv ==
    ASSUME WInv, NEW c \in Client,
           ClientStep(c) \/ Network(c) \/ Mishap(c) \/ \E s \in Sess : Trigger(c, s)
    PROVE  WInv'
<1>0. UNCHANGED poll
  BY DEF ClientStep, Network, Mishap, Trigger, daemonVars
<1>1. CASE Mishap(c) \/ \E s \in Sess : Trigger(c, s)
  <2>1. UNCHANGED toClient
    BY <1>1, Zenon DEF Mishap, connect_error, depart, Oops, disconnected, Trigger,
                rdma_trigger, NoSend, wireVars
  <2> QED BY <1>0, <2>1, SameMessages, ZenonT(40)
<1>2. CASE clientStep(c)
  <2>1. CASE client_recv(c)
    <3>1. /\ UNCHANGED <<send_msg, msg_posted, recv_buf>>
          /\ \/ UNCHANGED recv_state
             \/ recv_state' = [recv_state EXCEPT ![c] = "lost"]
             \/ recv_state' = [recv_state EXCEPT ![c] = "posted"]
      BY <2>1, Zenon DEF client_recv
    <3>2. /\ DOMAIN recv_state' = Client
          /\ \A d \in Client : recv_state'[d] = "arrived" => recv_state[d] = "arrived"
      BY <3>1, Zenon DEF WInv, Messages
    <3> QED BY <1>0, <3>1, <3>2, ZenonT(40) DEF WInv, Messages, IsDaemonMsg, PollInRange
  <2>2. ASSUME NEW t \in Threads, \/ map_none(c, t) \/ map_query(c, t)
                                  \/ map_connect(c, t) \/ map_bind(c, t)
                                  \/ map_end(c, t)
        PROVE  UNCHANGED toClient
    BY <2>2, ZenonT(40) DEF map_none, map_query, map_connect, map_bind, map_end, NoSend, wireVars
  <2>3. CASE \/ established(c) \/ evict_activity(c) \/ evict_unmap(c)
             \/ evict_done(c) \/ evict_remap(c) \/ disc_release(c) \/ disc_remap(c)
    <3>1. UNCHANGED toClient
      BY <2>3, Zenon DEF established, evict_activity, evict_unmap, evict_done, evict_remap,
                  disc_release, disc_remap, Oops, NoSend, wireVars
    <3> QED BY <1>0, <3>1, SameMessages
  <2> QED BY <1>0, <1>2, <2>1, <2>2, <2>3, SameMessages, ZenonT(40) DEF clientStep
<1>3. CASE Network(c)
  <2>1. CASE TransmitToClient(c)
    <3>1. /\ msg_posted[c] > 0 /\ UNCHANGED send_msg
          /\ recv_buf' = [recv_buf EXCEPT ![c] = send_msg[c]]
          /\ recv_state' = [recv_state EXCEPT ![c] = "arrived"]
          /\ msg_posted' = [msg_posted EXCEPT ![c] = msg_posted[c] - 1]
      BY <2>1, Zenon DEF TransmitToClient
    <3>2. /\ msg_posted[c] - 1 \in Nat
          /\ DOMAIN recv_buf' = Client /\ DOMAIN recv_state' = Client
      BY <3>1 DEF WInv, Messages
    <3>3. msg_posted' \in [Client -> Nat]
      BY <3>1, <3>2, ZenonT(40) DEF WInv, Messages
    <3>4. \A d \in Client :
            /\ IsDaemonMsg(send_msg'[d]) /\ IsDaemonMsg(recv_buf'[d])
            /\ msg_posted'[d] > 0 => send_msg'[d].type # "NONE"
            /\ recv_state'[d] = "arrived" => recv_buf'[d].type # "NONE"
      BY <3>1, Zenon DEF WInv, Messages
    <3>5. Messages'
      BY <3>1, <3>2, <3>3, <3>4, Zenon DEF WInv, Messages, IsDaemonMsg
    <3> QED BY <1>0, <3>5, Zenon DEF WInv, PollInRange
  <2>2. CASE TransmitToDaemon(c)
    <3>1. UNCHANGED toClient
      BY <2>2 DEF TransmitToDaemon
    <3> QED BY <1>0, <3>1, SameMessages
  <2> QED BY <1>3, <2>1, <2>2, Zenon DEF Network
<1> QED BY <1>1, <1>2, <1>3 DEF ClientStep

(* Every send the daemon posts finds a message in its buffer, and every    *)
(* completed receive of a client delivers one.                            *)
THEOREM MessagesInv == Spec => []WInv
<1>1. WInv /\ [Next]_vars => WInv'
  <2> SUFFICES ASSUME WInv, [Next]_vars PROVE WInv'
    OBVIOUS
  <2>1. CASE Kill \/ UNCHANGED vars
    <3>1. UNCHANGED <<toClient, poll>>
      BY <2>1 DEF Kill, Die, vars, daemonVars, wireVars
    <3> QED BY <3>1, SameMessages, Zenon
  <2>2. CASE MainStep \/ PollStep
    BY <2>2, MainWInv, PollWInv, Zenon
  <2>3. CASE FreeMemStep \/ Round
    BY <2>3, FreeMemWInv, Zenon DEF FreeMemStep, Round
  <2> QED BY <2>1, <2>2, <2>3, ClientWInv, Zenon DEF Next
<1> QED BY InitWInv, <1>1, PTL DEF Spec

-----------------------------------------------------------------------------
(* The client's control block and threads *)

CbFields == {"cb_state", "state", "c_state", "target", "shrink", "stop",
             "chunk_map", "mapped", "cb_chunk", "free_chunk_index",
             "trigger_on", "rdma_on", "established"}

IsCb(b) ==
    /\ DOMAIN b = CbFields
    /\ b.stop \subseteq Chunks
    /\ b.chunk_map \in [Chunks -> Sess \cup {-1}]
    /\ b.free_chunk_index \in Int

IsThread(r) == DOMAIN r = {"pc", "s", "list", "size"} /\ r.list \subseteq Sess

IsThreads(th) == DOMAIN th = Threads /\ \A t \in Threads : IsThread(th[t])

(* The daemon's chunks that the client has in use. *)
Used(b) == {i \in Chunks : b.chunk_map[i] # -1}

(* A client connects once: while cb_state_list holds CB_IDLE, the trigger  *)
(* thread is the only one, and it waits for the connection if it asked for *)
(* one.                                                                    *)
ConnectsOnce(b, th, l) ==
    b.cb_state = "IDLE" =>
      /\ th["evict"].pc = "none" /\ th["disc"].pc = "none"
      /\ l = "none" \/ th["trig"].pc = "connect"

(* What FreeIndexBounded rests on: the chunks in use, and those that       *)
(* evict_handler has stopped and not yet given back, were all taken from   *)
(* unmapped_chunk_list.                                                    *)
WithinBudget(b, th) ==
    b.free_chunk_index <=
      NumSess - 1 - Cardinality(Used(b)) - Cardinality(th["evict"].list)

ClientOK(b, th, l) ==
    /\ IsCb(b) /\ IsThreads(th)
    /\ ConnectsOnce(b, th, l)
    /\ WithinBudget(b, th)

ClientInv ==
    /\ link \in [Client -> Links] /\ DOMAIN cb = Client /\ DOMAIN thr = Client
    /\ \A c \in Client : ClientOK(cb[c], thr[c], link[c])

LEMMA ThreadIsThread ==
    ASSUME NEW x
    PROVE  IsThread(ThreadAt(x)) /\ ThreadAt(x).pc = x /\ ThreadAt(x).list = {}
BY DEF IsThread, ThreadAt

(* Index sets are finite sets of natural numbers. *)
LEMMA IndexSets ==
    /\ IsFiniteSet(Chunks) /\ IsFiniteSet(Sess)
    /\ Chunks \subseteq Nat /\ Sess \subseteq Nat /\ -1 \notin Sess
    /\ \A S \in SUBSET Chunks : IsFiniteSet(S) /\ Cardinality(S) \in Nat
    /\ \A S \in SUBSET Sess : IsFiniteSet(S) /\ Cardinality(S) \in Nat
<1>1. IsFiniteSet(Chunks) /\ IsFiniteSet(Sess)
  BY SizeAssumption, FS_Interval DEF Chunks, Sess
<1>2. Chunks \subseteq Nat /\ Sess \subseteq Nat /\ -1 \notin Sess
  BY SizeAssumption DEF Chunks, Sess
<1>3. \A S \in SUBSET Chunks : IsFiniteSet(S) /\ Cardinality(S) \in Nat
  BY <1>1, PartCardinality, Zenon
<1>4. \A S \in SUBSET Sess : IsFiniteSet(S) /\ Cardinality(S) \in Nat
  BY <1>1, PartCardinality, Zenon
<1> QED BY <1>1, <1>2, <1>3, <1>4, ZenonT(40)

LEMMA InitClientInv == Init => ClientInv
<1> SUFFICES ASSUME Init PROVE ClientInv
  OBVIOUS
<1> DEFINE th == [trig |-> ThreadAt("idle"), evict |-> ThreadAt("none"),
                  disc |-> ThreadAt("none")]
<1>1. IsCb(NewCb)
  BY SizeAssumption DEF IsCb, NewCb, CbFields
<1>2. IsThreads(th)
  BY ThreadIsThread DEF IsThreads, Threads
<1>3. th["evict"].pc = "none" /\ th["disc"].pc = "none" /\ th["evict"].list = {}
  BY ThreadIsThread, Zenon
<1>4. Used(NewCb) = {} /\ NewCb.free_chunk_index = NumSess - 1
  BY Zenon DEF Used, NewCb
<1>5. WithinBudget(NewCb, th)
  BY <1>3, <1>4, FS_EmptySet, SizeAssumption, SMTT(40) DEF WithinBudget
<1>6. ClientOK(NewCb, th, "none")
  BY <1>1, <1>2, <1>3, <1>5, ZenonT(40) DEF ClientOK, ConnectsOnce
<1> HIDE DEF th
<1>7. /\ cb = [c \in Client |-> NewCb] /\ thr = [c \in Client |-> th]
      /\ link = [c \in Client |-> "none"]
  BY ZenonT(40) DEF Init, WireInit, ClientInit, th
<1> QED BY <1>6, <1>7, ZenonT(40) DEF ClientInv, Links

(* f is updated at x to v, or is left alone and has that value there. *)
Becomes(f, g, x, v) == g = [f EXCEPT ![x] = v] \/ (g = f /\ f[x] = v)

(* A step of client c. *)
LEMMA OneClient ==
    ASSUME ClientInv, NEW c \in Client, NEW b, NEW th, NEW l \in Links,
           Becomes(cb, cb', c, b), Becomes(thr, thr', c, th), Becomes(link, link', c, l),
           ClientOK(b, th, l)
    PROVE  ClientInv'
<1>1. /\ DOMAIN cb' = Client /\ DOMAIN thr' = Client /\ link' \in [Client -> Links]
      /\ \A d \in Client : /\ cb'[d] = IF d = c THEN b ELSE cb[d]
                           /\ thr'[d] = IF d = c THEN th ELSE thr[d]
                           /\ link'[d] = IF d = c THEN l ELSE link[d]
  BY ZenonT(40) DEF ClientInv, Becomes
<1>2. \A d \in Client : ClientOK(cb'[d], thr'[d], link'[d])
  BY <1>1, ZenonT(40) DEF ClientInv
<1> QED BY <1>1, <1>2, Zenon DEF ClientInv, ClientOK, IsCb, IsThreads, ConnectsOnce,
                          WithinBudget, Used, IsThread

(* A control block that differs only in fields no other invariant reads,   *)
(* with threads that differ only in where they are and in what disc has.   *)
LEMMA KeepsBudget ==
    ASSUME NEW b, NEW th, NEW l, NEW b2, NEW th2,
           ClientOK(b, th, l),
           IsCb(b2), IsThreads(th2),
           b2.chunk_map = b.chunk_map, b2.free_chunk_index = b.free_chunk_index,
           th2["evict"].list \subseteq th["evict"].list
    PROVE  WithinBudget(b2, th2)
<1>1. Cardinality(th2["evict"].list) <= Cardinality(th["evict"].list)
  <2>1. "evict" \in Threads
    BY Zenon DEF Threads
  <2>2. IsFiniteSet(th["evict"].list)
    BY <2>1, IndexSets, Zenon DEF ClientOK, IsThreads, IsThread
  <2> QED BY <2>2, FS_Subset, ZenonT(40)
<1>2. /\ Cardinality(th2["evict"].list) \in Nat /\ Cardinality(th["evict"].list) \in Nat
  BY IndexSets, Zenon DEF ClientOK, IsThreads, IsThread, Threads
<1>3. Used(b2) = Used(b) /\ Cardinality(Used(b)) \in Nat
  BY IndexSets, Zenon DEF Used
<1>4. b.free_chunk_index \in Int /\ b2.free_chunk_index = b.free_chunk_index
  BY DEF ClientOK, IsCb
<1> QED BY <1>1, <1>2, <1>3, <1>4, SizeAssumption, SMTT(40) DEF ClientOK, WithinBudget

(* One thread of a client. *)
LEMMA OneThread ==
    ASSUME NEW th, IsThreads(th), NEW t \in Threads, NEW r, IsThread(r)
    PROVE  LET th2 == [th EXCEPT ![t] = r]
           IN  /\ IsThreads(th2)
               /\ \A u \in Threads : th2[u] = IF u = t THEN r ELSE th[u]
BY Zenon DEF IsThreads

(* ... and what evict_handler still has to give back then. *)
LEMMA ListAfter ==
    ASSUME NEW b, NEW th, NEW l, ClientOK(b, th, l),
           NEW t \in Threads, NEW r, IsThread(r)
    PROVE  /\ IsThreads([th EXCEPT ![t] = r])
           /\ t # "evict" => [th EXCEPT ![t] = r]["evict"].list = th["evict"].list
           /\ t = "evict" => [th EXCEPT ![t] = r]["evict"].list = r.list
<1>1. IsThreads(th) /\ "evict" \in Threads
  BY Zenon DEF ClientOK, Threads
<1> QED BY <1>1, Zenon DEF IsThreads

(* A call of IS_single_chunk_map up to the answer to its query. *)
LEMMA MapClientInv ==
    ASSUME ClientInv, NEW c \in Client, NEW t \in Threads,
           \/ map_none(c, t) \/ map_query(c, t) \/ map_connect(c, t) \/ map_end(c, t)
    PROVE  ClientInv'
<1> DEFINE r(x) == [thr[c][t] EXCEPT !.pc = x]
           th(x) == [thr[c] EXCEPT ![t] = r(x)]
<1>0. ClientOK(cb[c], thr[c], link[c]) /\ link[c] \in Links
  BY Zenon DEF ClientInv
<1>1. \A x : IsThread(r(x)) /\ r(x).pc = x /\ r(x).list = thr[c][t].list
  BY <1>0, Zenon DEF ClientOK, IsThreads, IsThread
<1>2. \A x : /\ IsThreads(th(x))
             /\ \A u \in Threads : th(x)[u] = IF u = t THEN r(x) ELSE thr[c][u]
             /\ th(x)["evict"].list = thr[c]["evict"].list
  BY <1>0, <1>1, OneThread DEF ClientOK, Threads
<1>3. "evict" \in Threads /\ "disc" \in Threads /\ "trig" \in Threads
  BY DEF Threads
<1> HIDE DEF r, th
<1>4. CASE map_none(c, t) \/ map_query(c, t)
  <2>1. PICK x : thr' = [thr EXCEPT ![c] = th(x)] /\ UNCHANGED <<cb, link>>
                 /\ cb[c].cb_state # "IDLE"
    BY <1>4, Zenon DEF map_none, map_query, SetThr, NoSend, wireVars, th, r
  <2>2. ClientOK(cb[c], th(x), link[c])
    BY <1>0, <1>2, <2>1, KeepsBudget, Zenon DEF ClientOK, ConnectsOnce
  <2> QED BY <1>0, <2>1, <2>2, OneClient, ZenonT(40) DEF Becomes
<1>5. CASE map_connect(c, t)
  <2> DEFINE b == [cb[c] EXCEPT !.state = "IDLE", !.c_state = "C_IDLE",
                     !.chunk_map = [i \in Chunks |-> -1], !.stop = {}]
  <2>1. /\ cb' = [cb EXCEPT ![c] = b] /\ thr' = [thr EXCEPT ![c] = th("connect")]
        /\ link' = [link EXCEPT ![c] = "requested"] /\ cb[c].cb_state = "IDLE"
        /\ thr[c][t].pc = "map"
    BY <1>5, Zenon DEF map_connect, SetCb, SetThr, PC, th, r
  <2>2. t = "trig"
    BY <1>0, <2>1, Zenon DEF ClientOK, ConnectsOnce, Threads
  <2>3. IsCb(b) /\ b.cb_state = "IDLE" /\ b.free_chunk_index = cb[c].free_chunk_index
    BY <1>0, <2>1, Zenon DEF ClientOK, IsCb, CbFields
  <2>4. ConnectsOnce(b, th("connect"), "requested")
    BY <1>0, <1>1, <1>2, <1>3, <2>1, <2>2, ZenonT(40) DEF ClientOK, ConnectsOnce
  <2>5. WithinBudget(b, th("connect"))
    <3>1. Used(b) = {}
      BY <1>0, Zenon DEF Used, ClientOK, IsCb, CbFields
    <3>2. Cardinality(Used(cb[c])) \in Nat /\ Cardinality(thr[c]["evict"].list) \in Nat
      BY <1>0, <1>3, IndexSets, ZenonT(40) DEF Used, ClientOK, IsThreads, IsThread
    <3> HIDE DEF b
    <3> QED BY <1>0, <1>2, <2>3, <3>1, <3>2, FS_EmptySet, SizeAssumption
            DEF ClientOK, WithinBudget, IsCb
  <2>6. ClientOK(b, th("connect"), "requested")
    BY <1>2, <2>3, <2>4, <2>5, ZenonT(40) DEF ClientOK
  <2> HIDE DEF b
  <2> QED BY <2>1, <2>6, OneClient, Zenon DEF Becomes, Links
<1>6. CASE map_end(c, t)
  <2> DEFINE b == [cb[c] EXCEPT !.rdma_on = TRUE]
  <2>1. /\ cb' = [cb EXCEPT ![c] = b] /\ thr' = [thr EXCEPT ![c] = th(Return(t))]
        /\ link' = link /\ thr[c][t].pc = "info"
    BY <1>6, Zenon DEF map_end, SetCb, SetThr, PC, NoSend, wireVars, th, r
  <2>2. /\ IsCb(b) /\ b.free_chunk_index = cb[c].free_chunk_index
        /\ b.cb_state = cb[c].cb_state /\ b.chunk_map = cb[c].chunk_map
    BY <1>0, <2>1, Zenon DEF ClientOK, IsCb, CbFields
  <2> HIDE DEF b
  <2>3. ConnectsOnce(b, th(Return(t)), link[c])
    BY <1>0, <1>2, <1>3, <2>1, <2>2, ZenonT(40) DEF ClientOK, ConnectsOnce, Threads
  <2>4. ClientOK(b, th(Return(t)), link[c])
    BY <1>0, <1>2, <2>2, <2>3, KeepsBudget, Zenon DEF ClientOK
  <2> QED BY <1>0, <2>1, <2>4, OneClient, Zenon DEF Becomes
<1> QED BY <1>4, <1>5, <1>6, ZenonT(40)

(* A connection that is not new stays one: only map_connect asks for it. *)
LEMMA OnlyLink ==
    ASSUME ClientInv, UNCHANGED <<cb, thr>>, link' \in [Client -> Links],
           \A c \in Client : link[c] = "none" => link'[c] = "none"
    PROVE  ClientInv'
<1>1. \A c \in Client : ClientOK(cb[c], thr[c], link'[c])
  BY DEF ClientInv, ClientOK, ConnectsOnce
<1> QED BY <1>1, ZenonT(40) DEF ClientInv, ClientOK, IsCb, IsThreads, ConnectsOnce,
                    WithinBudget, Used, IsThread

LEMMA CloseLink ==
    ASSUME link \in [Client -> Links], NEW c \in Client, Close(c)
    PROVE  /\ \E l \in Links : link' = [link EXCEPT ![c] = l] /\ (l = "none" <=> link[c] = "none")
           /\ link' \in [Client -> Links]
           /\ \A d \in Client : link[d] = "none" => link'[d] = "none"
BY Zenon DEF Close, Links

(* The rest of IS_single_chunk_map, which starts evict_handler. *)
LEMMA BindClientInv ==
    ASSUME ClientInv, NEW c \in Client, NEW t \in Threads, map_bind(c, t)
    PROVE  ClientInv'
<1> DEFINE fresh == thr[c][t].pc = "connect"
           cs == IF fresh THEN "CONNECTED" ELSE cb[c].cb_state
           b == [cb[c] EXCEPT !.state = "AFTER_FREE_MEM", !.cb_state = cs]
<1>0. ClientOK(cb[c], thr[c], link[c]) /\ link[c] \in Links
  BY Zenon DEF ClientInv
<1>1. /\ IsCb(b) /\ b.free_chunk_index = cb[c].free_chunk_index
      /\ b.cb_state = cs /\ b.chunk_map = cb[c].chunk_map
  BY <1>0, Zenon DEF ClientOK, IsCb, CbFields
<1>2. "evict" \in Threads /\ "disc" \in Threads /\ "trig" \in Threads
  BY Zenon DEF Threads
<1>3. cb' = [cb EXCEPT ![c] = b] /\ link' = link /\ thr[c][t].pc \in {"connect", "size"}
  BY Zenon DEF map_bind, SetCb, PC, NoSend, wireVars
<1> DEFINE r(x) == [thr[c][t] EXCEPT !.pc = x]
           th(x) == [thr[c] EXCEPT ![t] = r(x)]
<1>4. \A x : IsThread(r(x)) /\ r(x).pc = x /\ r(x).list = thr[c][t].list
  BY <1>0, Zenon DEF ClientOK, IsThreads, IsThread
<1>5. \A x : /\ IsThreads(th(x))
             /\ \A u \in Threads : th(x)[u] = IF u = t THEN r(x) ELSE thr[c][u]
             /\ th(x)["evict"].list = thr[c]["evict"].list
  BY <1>0, <1>4, OneThread DEF ClientOK, Threads
<1>6. ASSUME NEW th2, thr' = [thr EXCEPT ![c] = th2], IsThreads(th2),
             th2["evict"].list \subseteq thr[c]["evict"].list,
             cs = "IDLE" => /\ th2["evict"].pc = thr[c]["evict"].pc
                            /\ th2["disc"].pc = thr[c]["disc"].pc
      PROVE  ClientInv'
  <2> HIDE DEF b
  <2>1. ConnectsOnce(b, th2, link[c])
    <3>1. CASE cs = "IDLE"
      <4>1. ~fresh /\ cb[c].cb_state = "IDLE"
        BY <3>1, Zenon
      <4>2. t = "trig"
        BY <1>0, <1>3, <4>1, Zenon DEF ClientOK, ConnectsOnce, Threads
      <4> QED BY <1>0, <1>1, <1>6, <4>1, <4>2, ZenonT(40) DEF ClientOK, ConnectsOnce
    <3>2. CASE cs # "IDLE"
      BY <1>1, <3>2, Zenon DEF ConnectsOnce
    <3> QED BY <3>1, <3>2, Zenon
  <2>2. ClientOK(b, th2, link[c])
    BY <1>0, <1>1, <1>6, <2>1, KeepsBudget, Zenon DEF ClientOK
  <2> QED BY <1>0, <1>3, <1>6, <2>2, OneClient, ZenonT(40) DEF Becomes
<1>7. cs = "IDLE" => t = "trig"
  BY <1>0, <1>3, Zenon DEF ClientOK, ConnectsOnce, Threads
<1> HIDE DEF r, b
<1>8. CASE thr' = [thr EXCEPT ![c][t] = r(Return(t))]
  <2>1. thr' = [thr EXCEPT ![c] = th(Return(t))]
    BY <1>8
  <2> HIDE DEF th, cs
  <2> QED BY <1>2, <1>5, <1>6, <1>7, <2>1, Zenon
<1>9. CASE thr' = [thr EXCEPT ![c] =
                     IF cs = "CONNECTED"
                     THEN [th("info") EXCEPT !["evict"] = ThreadAt("wait")]
                     ELSE th("info")]
  <2> DEFINE th2 == IF cs = "CONNECTED"
                    THEN [th("info") EXCEPT !["evict"] = ThreadAt("wait")]
                    ELSE th("info")
  <2>1. thr' = [thr EXCEPT ![c] = th2]
    BY <1>9, Zenon
  <2>2. IsThreads(th2) /\ th2["evict"].list \subseteq thr[c]["evict"].list
    <3> HIDE DEF th, cs
    <3>1. CASE cs = "CONNECTED"
      BY <1>2, <1>5, <3>1, ThreadIsThread, OneThread, SMTT(40)
    <3>2. CASE cs # "CONNECTED"
      BY <1>5, <3>2, Zenon
    <3> QED BY <3>1, <3>2, Zenon
  <2>3. cs = "IDLE" => th2 = th("info")
    BY Zenon
  <2>4. th("info")["disc"].pc = thr[c]["disc"].pc \/ t # "trig"
    BY <1>2, <1>5
  <2>5. th("info")["evict"].pc = thr[c]["evict"].pc \/ t # "trig"
    BY <1>2, <1>5
  <2> HIDE DEF th2, th, cs
  <2> QED BY <1>6, <1>7, <2>1, <2>2, <2>3, <2>4, <2>5, ZenonT(40)
<1> QED BY <1>8, <1>9, ZenonT(40) DEF map_bind, SetThr, PC, r

(* Only the control block's state changes. *)
LEMMA StateClientInv ==
    ASSUME ClientInv, NEW c \in Client, NEW b,
           cb' = [cb EXCEPT ![c] = b], UNCHANGED thr,
           IsCb(b), b.chunk_map = cb[c].chunk_map,
           b.free_chunk_index = cb[c].free_chunk_index,
           b.cb_state = cb[c].cb_state \/ b.cb_state # "IDLE",
           UNCHANGED link \/ link' = [link EXCEPT ![c] = "none"]
    PROVE  ClientInv'
<1>0. ClientOK(cb[c], thr[c], link[c]) /\ link[c] \in Links
  BY Zenon DEF ClientInv
<1>1. PICK l \in Links : Becomes(link, link', c, l) /\ (l = link[c] \/ l = "none")
  BY <1>0, Zenon DEF Becomes, Links
<1>2. ClientOK(b, thr[c], l)
  BY <1>0, <1>1, KeepsBudget, Zenon DEF ClientOK, ConnectsOnce
<1> QED BY <1>1, <1>2, OneClient, Zenon DEF Becomes

(* What thread t does to itself alone. *)
LEMMA ThreadClientInv ==
    ASSUME ClientInv, NEW c \in Client, NEW t \in Threads, NEW b, NEW r,
           Becomes(cb, cb', c, b), SetThr(c, t, r), UNCHANGED link,
           IsCb(b), IsThread(r), b.cb_state # "IDLE" \/ t = "trig",
           t = "trig" /\ cb[c].cb_state = "IDLE" => r.pc = "connect" \/ link[c] = "none",
           b.cb_state = cb[c].cb_state \/ b.cb_state # "IDLE",
           WithinBudget(b, [thr[c] EXCEPT ![t] = r])
    PROVE  ClientInv'
<1> DEFINE th == [thr[c] EXCEPT ![t] = r]
<1>0. ClientOK(cb[c], thr[c], link[c]) /\ link[c] \in Links
  BY Zenon DEF ClientInv
<1>a. IsThreads(thr[c]) /\ ConnectsOnce(cb[c], thr[c], link[c])
  BY <1>0, Zenon DEF ClientOK
<1>b. "evict" \in Threads /\ "disc" \in Threads /\ "trig" \in Threads
  BY Zenon DEF Threads
<1>1. IsThreads(th) /\ \A u \in Threads : th[u] = IF u = t THEN r ELSE thr[c][u]
  BY <1>a, OneThread
<1>2. thr' = [thr EXCEPT ![c] = th]
  BY Zenon DEF SetThr
<1> HIDE DEF th
<1>3. ConnectsOnce(b, th, link[c])
  <2>1. CASE b.cb_state # "IDLE"
    BY <2>1, Zenon DEF ConnectsOnce
  <2>2. CASE b.cb_state = "IDLE"
    <3>1. t = "trig" /\ cb[c].cb_state = "IDLE"
      BY <2>2, Zenon
    <3>2. th["evict"] = thr[c]["evict"] /\ th["disc"] = thr[c]["disc"] /\ th["trig"] = r
      BY <1>1, <1>b, <3>1, Zenon
    <3>3. thr[c]["evict"].pc = "none" /\ thr[c]["disc"].pc = "none"
      BY <1>a, <3>1, Zenon DEF ConnectsOnce
    <3> QED BY <3>1, <3>2, <3>3, ZenonT(40) DEF ConnectsOnce
  <2> QED BY <2>1, <2>2, Zenon
<1>4. WithinBudget(b, th)
  BY Zenon DEF th
<1>5. ClientOK(b, th, link[c])
  BY <1>1, <1>3, <1>4, Zenon DEF ClientOK
<1> QED BY <1>0, <1>2, <1>5, OneClient, ZenonT(40) DEF Becomes

LEMMA SmallClientInv ==
    ASSUME ClientInv, NEW c \in Client,
           \/ established(c) \/ connect_error(c) \/ evict_activity(c)
           \/ evict_done(c) \/ disc_remap(c) \/ \E s \in Sess : rdma_trigger(c, s)
    PROVE  ClientInv'
<1>0. ClientOK(cb[c], thr[c], link[c]) /\ link[c] \in Links
  BY Zenon DEF ClientInv
<1>a. "evict" \in Threads /\ "disc" \in Threads /\ "trig" \in Threads
  BY Zenon DEF Threads
<1>b. IsThread(thr[c]["evict"]) /\ IsThread(thr[c]["disc"])
  BY <1>0, <1>a, Zenon DEF ClientOK, IsThreads
<1>c. thr[c]["evict"].pc # "none" \/ thr[c]["disc"].pc # "none" => cb[c].cb_state # "IDLE"
  BY <1>0, Zenon DEF ClientOK, ConnectsOnce
<1>1. CASE established(c)
  <2> DEFINE b == [cb[c] EXCEPT !.state = "CONNECTED", !.established = TRUE]
  <2>1. cb' = [cb EXCEPT ![c] = b] /\ UNCHANGED <<thr, link>>
    BY <1>1, Zenon DEF established, SetCb, NoSend, wireVars
  <2>2. /\ IsCb(b) /\ b.cb_state = cb[c].cb_state /\ b.chunk_map = cb[c].chunk_map
        /\ b.free_chunk_index = cb[c].free_chunk_index
    BY <1>0 DEF ClientOK, IsCb, CbFields
  <2> HIDE DEF b
  <2> QED BY <2>1, <2>2, StateClientInv, Zenon
<1>2. CASE connect_error(c)
  <2> DEFINE b == [cb[c] EXCEPT !.state = "ERROR"]
  <2>1. cb' = [cb EXCEPT ![c] = b] /\ UNCHANGED thr /\ link' = [link EXCEPT ![c] = "none"]
    BY <1>2, Zenon DEF connect_error, SetCb
  <2>2. /\ IsCb(b) /\ b.cb_state = cb[c].cb_state /\ b.chunk_map = cb[c].chunk_map
        /\ b.free_chunk_index = cb[c].free_chunk_index
    BY <1>0, SMTT(40) DEF ClientOK, IsCb, CbFields
  <2> HIDE DEF b
  <2> QED BY <2>1, <2>2, StateClientInv, Zenon
<1>3. CASE evict_activity(c)
  <2> DEFINE r == ThreadAt("stop")
  <2>1. SetThr(c, "evict", r) /\ UNCHANGED <<cb, link>> /\ cb[c].cb_state # "IDLE"
    BY <1>3, <1>c, Zenon DEF evict_activity, PC
  <2>2. IsThread(r) /\ r.list = {}
    BY ThreadIsThread, ZenonT(40)
  <2> HIDE DEF r
  <2>3. /\ IsThreads([thr[c] EXCEPT !["evict"] = r])
        /\ [thr[c] EXCEPT !["evict"] = r]["evict"].list = {}
    BY <1>0, <1>a, <2>2, OneThread DEF ClientOK
  <2>4. WithinBudget(cb[c], [thr[c] EXCEPT !["evict"] = r])
    BY <1>0, <2>3, KeepsBudget, Zenon DEF ClientOK
  <2> QED BY <1>0, <1>a, <2>1, <2>2, <2>4, ThreadClientInv, Zenon DEF Becomes, ClientOK
<1>4. CASE evict_done(c)
  <2> DEFINE r == [thr[c]["evict"] EXCEPT !.pc = "remap"]
             b == [cb[c] EXCEPT !.shrink = 0, !.c_state = "C_READY",
                                !.cb_state = "EVICTING"]
  <2>1. SetThr(c, "evict", r) /\ UNCHANGED link /\ SetCb(c, b)
    BY <1>4, Zenon DEF evict_done
  <2>2. IsThread(r) /\ r.list = thr[c]["evict"].list
    BY <1>b, Zenon DEF IsThread
  <2>3. /\ IsCb(b) /\ b.cb_state = "EVICTING" /\ b.chunk_map = cb[c].chunk_map
        /\ b.free_chunk_index = cb[c].free_chunk_index
    BY <1>0, Zenon DEF ClientOK, IsCb, CbFields
  <2> HIDE DEF r, b
  <2>4. /\ IsThreads([thr[c] EXCEPT !["evict"] = r])
        /\ [thr[c] EXCEPT !["evict"] = r]["evict"].list = thr[c]["evict"].list
    BY <1>0, <1>a, <2>2, OneThread DEF ClientOK
  <2>5. WithinBudget(b, [thr[c] EXCEPT !["evict"] = r])
    BY <1>0, <2>3, <2>4, KeepsBudget, ZenonT(40)
  <2> QED BY <1>a, <2>1, <2>2, <2>3, <2>5, ThreadClientInv, ZenonT(40) DEF Becomes, SetCb
<1>5. CASE disc_remap(c)
  <2>0. cb[c].cb_state # "IDLE" /\ UNCHANGED link
    BY <1>5, <1>c, ZenonT(40) DEF disc_remap, NoSend, wireVars
  <2>1. PICK r, b :
          /\ SetThr(c, "disc", r) /\ IsThread(r) /\ Becomes(cb, cb', c, b)
          /\ IsCb(b) /\ b.cb_state = cb[c].cb_state /\ b.chunk_map = cb[c].chunk_map
          /\ b.free_chunk_index = cb[c].free_chunk_index
    <3>1. CASE thr[c]["disc"].list # {}
      <4> DEFINE d == thr[c]["disc"]
                 r == [d EXCEPT !.pc = "map", !.s = Min(d.list), !.list = d.list \ {Min(d.list)}]
      <4>1. SetThr(c, "disc", r) /\ UNCHANGED cb
        BY <1>5, <3>1, ZenonT(40) DEF disc_remap, SetThr
      <4>2. IsThread(r)
        BY <1>b, ZenonT(40) DEF IsThread
      <4>3. Becomes(cb, cb', c, cb[c]) /\ IsCb(cb[c])
        BY <1>0, <4>1, ZenonT(40) DEF Becomes, ClientOK
      <4> HIDE DEF r
      <4> QED BY <4>1, <4>2, <4>3, ZenonT(40)
    <3>2. CASE thr[c]["disc"].list = {}
      <4> DEFINE b == [cb[c] EXCEPT !.trigger_on = TRUE]
      <4>1. SetThr(c, "disc", ThreadAt("idle")) /\ SetCb(c, b)
        BY <1>5, <3>2, Zenon DEF disc_remap
      <4>2. /\ IsCb(b) /\ b.cb_state = cb[c].cb_state /\ b.chunk_map = cb[c].chunk_map
            /\ b.free_chunk_index = cb[c].free_chunk_index
        BY <1>0, Zenon DEF ClientOK, IsCb, CbFields
      <4>3. Becomes(cb, cb', c, b) /\ IsThread(ThreadAt("idle"))
        BY <4>1, ThreadIsThread, Zenon DEF Becomes, SetCb
      <4> HIDE DEF b
      <4> QED BY <4>1, <4>2, <4>3, ZenonT(40)
    <3> QED BY <3>1, <3>2, ZenonT(40)
  <2>2. /\ IsThreads([thr[c] EXCEPT !["disc"] = r])
        /\ [thr[c] EXCEPT !["disc"] = r]["evict"].list = thr[c]["evict"].list
    BY <1>0, <1>a, <2>1, ListAfter
  <2>3. WithinBudget(b, [thr[c] EXCEPT !["disc"] = r])
    BY <1>0, <2>1, <2>2, KeepsBudget, ZenonT(40)
  <2> QED BY <1>a, <2>0, <2>1, <2>3, ThreadClientInv, ZenonT(40)
<1>6. ASSUME NEW s \in Sess, rdma_trigger(c, s)
      PROVE  ClientInv'
  <2> DEFINE r == [ThreadAt("map") EXCEPT !.s = s]
  <2>1. SetThr(c, "trig", r) /\ UNCHANGED <<cb, link>> /\ thr[c]["trig"].pc = "idle"
    BY <1>6 DEF rdma_trigger, NoSend, wireVars, PC
  <2>2. IsThread(r)
    BY Zenon DEF IsThread, ThreadAt
  <2> HIDE DEF r
  <2>3. /\ IsThreads([thr[c] EXCEPT !["trig"] = r])
        /\ [thr[c] EXCEPT !["trig"] = r]["evict"].list = thr[c]["evict"].list
    BY <1>0, <1>a, <2>2, ListAfter
  <2>4. WithinBudget(cb[c], [thr[c] EXCEPT !["trig"] = r])
    BY <1>0, <2>3, KeepsBudget, Zenon DEF ClientOK
  <2>5. cb[c].cb_state = "IDLE" => link[c] = "none"
    BY <1>0, <2>1, ZenonT(40) DEF ClientOK, ConnectsOnce
  <2> QED BY <1>0, <1>a, <2>1, <2>2, <2>4, <2>5, ThreadClientInv, Zenon DEF Becomes, ClientOK
<1> QED BY <1>1, <1>2, <1>3, <1>4, <1>5, <1>6, ZenonT(40)

(* The machine of client c is lost, or its daemon: only the link changes. *)
LEMMA LostClientInv ==
    ASSUME ClientInv, NEW c \in Client, UNCHANGED <<cb, thr>>, Close(c)
    PROVE  ClientInv'
<1>1. link \in [Client -> Links]
  BY Zenon DEF ClientInv
<1> QED BY <1>1, CloseLink, OnlyLink, ZenonT(40)

(* client_recv: IS_single_chunk_init takes an index from the list and      *)
(* fills one entry of the map.                                             *)
LEMMA RecvClientInv ==
    ASSUME WInv, ClientInv, NEW c \in Client, client_recv(c)
    PROVE  ClientInv'
<1> DEFINE m == recv_buf[c]
<1>0. ClientOK(cb[c], thr[c], link[c]) /\ link[c] \in Links
  BY Zenon DEF ClientInv
<1>1. m.type \in DaemonTypes /\ m.rkey \subseteq Chunks /\ UNCHANGED thr
  BY DEF client_recv, WInv, Messages, IsDaemonMsg
<1>2. CASE SetCb(c, [cb[c] EXCEPT !.state = "ERROR"]) /\ UNCHANGED link
  <2> DEFINE b == [cb[c] EXCEPT !.state = "ERROR"]
  <2>1. /\ IsCb(b) /\ b.cb_state = cb[c].cb_state /\ b.chunk_map = cb[c].chunk_map
        /\ b.free_chunk_index = cb[c].free_chunk_index
    BY <1>0, Zenon DEF ClientOK, IsCb, CbFields
  <2> HIDE DEF b
  <2> QED BY <1>1, <1>2, <2>1, StateClientInv, Zenon DEF SetCb, b
<1>3. CASE UNCHANGED cb /\ Close(c)
  BY <1>1, <1>3, LostClientInv, ZenonT(40)
<1>4. CASE /\ m.type = "INFO_SINGLE" /\ m.rkey # {} => m.size \in Sess
           /\ SetCb(c, Received(cb[c], m)) /\ UNCHANGED link
  <2> DEFINE b == Received(cb[c], m)
  <2>1. CASE m.type = "INFO_SINGLE" /\ m.rkey # {}
    <3> DEFINE i == Min(m.rkey)
               n == [cb[c] EXCEPT !.cb_state = "MAPPED", !.state = "WAIT_OPS"]
    <3>1. i \in m.rkey /\ i \in Chunks /\ m.size \in Sess
      BY <1>1, <1>4, <2>1, IndexSets, MinIsMember, ZenonT(40)
    <3>2. b = IS_single_chunk_init(n, m.size, m.rkey)
      BY <2>1, Zenon DEF Received
    <3>3. DOMAIN n = CbFields /\ n.chunk_map = cb[c].chunk_map /\ n.stop = cb[c].stop
          /\ n.free_chunk_index = cb[c].free_chunk_index /\ n.cb_state = "MAPPED"
      BY <1>0, Zenon DEF ClientOK, IsCb, CbFields
    <3> HIDE DEF n, i, m
    <3>4. /\ DOMAIN b = CbFields /\ b.stop = n.stop /\ b.cb_state = n.cb_state
          /\ b.free_chunk_index = n.free_chunk_index - 1
          /\ b.chunk_map = [n.chunk_map EXCEPT ![i] = m.size]
      BY <3>2, <3>3, SMTT(40) DEF IS_single_chunk_init, CbFields, i
    <3> HIDE DEF b
    <3>5. IsCb(b)
      BY <1>0, <3>1, <3>3, <3>4, SMTT(40) DEF ClientOK, IsCb
    <3>6. Used(b) = Used(cb[c]) \cup {i}
      <4>1. cb[c].chunk_map \in [Chunks -> Sess \cup {-1}] /\ m.size # -1
        BY <1>0, <3>1, IndexSets, ZenonT(40) DEF ClientOK, IsCb
      <4> QED BY <3>1, <3>3, <3>4, <4>1, ZenonT(40) DEF Used
    <3>7. /\ Cardinality(Used(b)) <= Cardinality(Used(cb[c])) + 1
          /\ Cardinality(Used(b)) \in Nat /\ Cardinality(Used(cb[c])) \in Nat
      <4>1. Used(cb[c]) \subseteq Chunks /\ Used(b) \subseteq Chunks
        BY Zenon DEF Used
      <4>2. IsFiniteSet(Used(cb[c])) /\ Cardinality(Used(cb[c])) \in Nat
            /\ Cardinality(Used(b)) \in Nat
        BY <4>1, IndexSets, ZenonT(40)
      <4>3. \/ Cardinality(Used(cb[c]) \cup {i}) = Cardinality(Used(cb[c]))
            \/ Cardinality(Used(cb[c]) \cup {i}) = Cardinality(Used(cb[c])) + 1
        BY <4>2, FS_AddElement, ZenonT(40)
      <4> QED BY <3>6, <4>2, <4>3
    <3>8. /\ Cardinality(thr[c]["evict"].list) \in Nat /\ cb[c].free_chunk_index \in Int
      BY <1>0, IndexSets, ZenonT(40) DEF ClientOK, IsThreads, IsThread, Threads, IsCb
    <3>9. WithinBudget(b, thr[c])
      <4>1. WithinBudget(cb[c], thr[c]) /\ NumSess \in Nat
        BY <1>0, SizeAssumption, ZenonT(40) DEF ClientOK
      <4>2. b.free_chunk_index = cb[c].free_chunk_index - 1
        BY <3>3, <3>4, ZenonT(40)
      <4> QED BY <3>7, <3>8, <4>1, <4>2 DEF WithinBudget
    <3>10. ClientOK(b, thr[c], link[c])
      BY <1>0, <3>3, <3>4, <3>5, <3>9, ZenonT(40) DEF ClientOK, ConnectsOnce
    <3> QED BY <1>0, <1>1, <1>4, <3>10, OneClient, ZenonT(40) DEF Becomes, SetCb, b, m
  <2>2. CASE ~(m.type = "INFO_SINGLE" /\ m.rkey # {})
    <3>1. /\ DOMAIN b = CbFields /\ b.chunk_map = cb[c].chunk_map
          /\ b.free_chunk_index = cb[c].free_chunk_index
          /\ b.stop = cb[c].stop \/ b.stop = m.rkey
          /\ b.cb_state = cb[c].cb_state \/ b.cb_state = "MAPPED"
      BY <1>0, <1>1, <2>2, ZenonT(40) DEF Received, client_recv_evict, client_recv_stop,
                              ClientOK, IsCb, CbFields, DaemonTypes
    <3> HIDE DEF b, m
    <3>2. IsCb(b)
      BY <1>0, <1>1, <3>1, ZenonT(40) DEF ClientOK, IsCb
    <3> QED BY <1>1, <1>4, <3>1, <3>2, StateClientInv, ZenonT(40) DEF SetCb, b
  <2> QED BY <2>1, <2>2, ZenonT(40)
<1> QED BY <1>2, <1>3, <1>4, ZenonT(40) DEF client_recv

(* lines 688-714 of evict_handler: the chunks it stops are still counted. *)
LEMMA UnmapClientInv ==
    ASSUME ClientInv, NEW c \in Client, evict_unmap(c)
    PROVE  ClientInv'
<1> DEFINE b == cb[c]
           gone == {b.chunk_map[i] : i \in b.stop}
<1>0. ClientOK(b, thr[c], link[c]) /\ link[c] \in Links
  BY Zenon DEF ClientInv
<1>a. "evict" \in Threads /\ b.cb_state # "IDLE"
  BY <1>0 DEF Threads, ClientOK, ConnectsOnce, evict_unmap, PC
<1>1. CASE b.shrink = 0
  <2> DEFINE r == ThreadAt("wait")
             b2 == [b EXCEPT !.c_state = "C_READY"]
  <2>1. SetThr(c, "evict", r) /\ UNCHANGED link /\ SetCb(c, b2)
    BY <1>1, ZenonT(40) DEF evict_unmap, NoSend, wireVars
  <2>2. IsThread(r) /\ r.list = {}
    BY ThreadIsThread, ZenonT(40)
  <2>3. /\ IsCb(b2) /\ b2.cb_state = b.cb_state /\ b2.chunk_map = b.chunk_map
        /\ b2.free_chunk_index = b.free_chunk_index
    BY <1>0, ZenonT(40) DEF ClientOK, IsCb, CbFields
  <2> HIDE DEF r, b2
  <2>4. /\ IsThreads([thr[c] EXCEPT !["evict"] = r])
        /\ [thr[c] EXCEPT !["evict"] = r]["evict"].list = {}
    BY <1>0, <1>a, <2>2, OneThread DEF ClientOK
  <2>5. WithinBudget(b2, [thr[c] EXCEPT !["evict"] = r])
    BY <1>0, <2>3, <2>4, KeepsBudget, Zenon
  <2> QED BY <1>a, <2>1, <2>2, <2>3, <2>5, ThreadClientInv, ZenonT(40) DEF Becomes, SetCb
<1>2. CASE b.shrink # 0 /\ -1 \notin gone
  <2> DEFINE r == [ThreadAt("done") EXCEPT !.list = gone, !.size = b.shrink]
             b2 == StopChunks(b)
             map == [i \in Chunks |-> IF i \in b.stop THEN -1 ELSE b.chunk_map[i]]
  <2>1. SetThr(c, "evict", r) /\ UNCHANGED link /\ SetCb(c, b2)
    BY <1>2, ZenonT(40) DEF evict_unmap, Oops
  <2>2. gone \subseteq Sess /\ b.stop \subseteq Chunks /\ \A i \in b.stop : b.chunk_map[i] # -1
    BY <1>0, <1>2, ZenonT(40) DEF ClientOK, IsCb
  <2>3. IsThread(r) /\ r.list = gone
    BY <2>2, ZenonT(40) DEF IsThread, ThreadAt
  <2>4. /\ DOMAIN b2 = CbFields /\ b2.stop = b.stop /\ b2.cb_state = b.cb_state
        /\ b2.free_chunk_index = b.free_chunk_index /\ b2.chunk_map = map
    BY <1>0, ZenonT(40) DEF ClientOK, IsCb, CbFields, StopChunks
  <2>5. map \in [Chunks -> Sess \cup {-1}]
    BY <1>0, <2>2, ZenonT(40) DEF ClientOK, IsCb
  <2>6. Used(b2) = Used(b) \ b.stop /\ b.stop \subseteq Used(b)
    BY <2>2, <2>4, ZenonT(40) DEF Used
  <2>7. Cardinality(gone) <= Cardinality(b.stop)
    <3>1. IsFiniteSet(b.stop)
      BY <2>2, IndexSets, ZenonT(40)
    <3> HIDE DEF b
    <3> QED BY <3>1, ImageCardinality, ZenonT(40)
  <2>8. Cardinality(Used(b2)) = Cardinality(Used(b)) - Cardinality(b.stop)
    <3>1. IsFiniteSet(Used(b))
      BY IndexSets, ZenonT(40) DEF Used
    <3> QED BY <2>6, <3>1, PartCardinality, ZenonT(40)
  <2>9. /\ Cardinality(Used(b)) \in Nat /\ Cardinality(b.stop) \in Nat
        /\ Cardinality(gone) \in Nat /\ b.free_chunk_index \in Int
    BY <1>0, <2>2, IndexSets, ZenonT(40) DEF Used, ClientOK, IsCb
  <2> HIDE DEF r, b2, map
  <2>10. IsCb(b2)
    BY <1>0, <2>4, <2>5, ZenonT(40) DEF ClientOK, IsCb
  <2>11. [thr[c] EXCEPT !["evict"] = r]["evict"].list = gone
    BY <1>0, <1>a, <2>3, ZenonT(40) DEF ClientOK, IsThreads
  <2>12. b.free_chunk_index <=
           NumSess - 1 - Cardinality(Used(b)) - Cardinality(thr[c]["evict"].list)
    BY <1>0, ZenonT(40) DEF ClientOK, WithinBudget
  <2>13. Cardinality(thr[c]["evict"].list) \in Nat
    BY <1>0, <1>a, IndexSets, ZenonT(40) DEF ClientOK, IsThreads, IsThread
  <2> HIDE DEF gone, b
  <2>14. WithinBudget(b2, [thr[c] EXCEPT !["evict"] = r])
    BY <2>4, <2>7, <2>8, <2>9, <2>11, <2>12, <2>13, SizeAssumption, SMTT(40) DEF WithinBudget
  <2> QED BY <1>a, <2>1, <2>3, <2>4, <2>10, <2>14, ThreadClientInv, ZenonT(40) DEF Becomes, SetCb, b
<1>3. CASE b.shrink # 0 /\ -1 \in gone
  <2>1. UNCHANGED <<cb, thr>> /\ Close(c)
    BY <1>3, ZenonT(40) DEF evict_unmap, Oops
  <2> QED BY <2>1, LostClientInv, ZenonT(40)
<1> QED BY <1>1, <1>2, <1>3, ZenonT(40)

(* lines 731-740: a stopped chunk is given back to the list. *)
LEMMA RemapClientInv ==
    ASSUME ClientInv, NEW c \in Client, evict_remap(c)
    PROVE  ClientInv'
<1> DEFINE e == thr[c]["evict"]
<1>0. ClientOK(cb[c], thr[c], link[c]) /\ link[c] \in Links
  BY Zenon DEF ClientInv
<1>a. /\ "evict" \in Threads /\ cb[c].cb_state # "IDLE" /\ UNCHANGED link
      /\ e.list \subseteq Sess /\ IsThread(e)
  BY <1>0 DEF Threads, ClientOK, ConnectsOnce, evict_remap, IsThreads, IsThread, NoSend, wireVars
<1>1. CASE e.list # {}
  <2> DEFINE s == Min(e.list)
             r == [e EXCEPT !.pc = "map", !.s = s, !.list = e.list \ {s}]
             b == [cb[c] EXCEPT !.cb_chunk[s] = -1, !.free_chunk_index = @ + 1]
  <2>1. SetThr(c, "evict", r) /\ SetCb(c, b)
    BY <1>1, ZenonT(40) DEF evict_remap, SetThr
  <2>2. s \in e.list
    BY <1>1, <1>a, IndexSets, MinIsMember, Zenon
  <2>3. IsThread(r) /\ r.list = e.list \ {s}
    BY <1>a, ZenonT(40) DEF IsThread
  <2> HIDE DEF r, s
  <2>4. /\ DOMAIN b = CbFields /\ b.stop = cb[c].stop /\ b.cb_state = cb[c].cb_state
        /\ b.chunk_map = cb[c].chunk_map
        /\ b.free_chunk_index = cb[c].free_chunk_index + 1
    BY <1>0, Zenon DEF ClientOK, IsCb, CbFields
  <2> HIDE DEF b
  <2>5. IsCb(b)
    BY <1>0, <2>4, SMTT(40) DEF ClientOK, IsCb
  <2>6. [thr[c] EXCEPT !["evict"] = r]["evict"].list = e.list \ {s}
    BY <1>0, <1>a, <2>3, Zenon DEF ClientOK, IsThreads
  <2>7. IsFiniteSet(e.list) /\ Cardinality(e.list) \in Nat
    BY <1>a, IndexSets, ZenonT(40)
  <2>8. Cardinality(e.list \ {s}) = Cardinality(e.list) - 1
    BY <2>2, <2>7, FS_RemoveElement, Zenon
  <2>9. Used(b) = Used(cb[c]) /\ Cardinality(Used(cb[c])) \in Nat
    BY <2>4, IndexSets, ZenonT(40) DEF Used
  <2>10. /\ cb[c].free_chunk_index \in Int
         /\ cb[c].free_chunk_index <=
              NumSess - 1 - Cardinality(Used(cb[c])) - Cardinality(e.list)
    BY <1>0, ZenonT(40) DEF ClientOK, WithinBudget, IsCb
  <2>11. WithinBudget(b, [thr[c] EXCEPT !["evict"] = r])
    <3> DEFINE rest == e.list \ {s}
    <3>1. b.free_chunk_index <= NumSess - 1 - Cardinality(Used(b)) - Cardinality(rest)
      <4> HIDE DEF e, rest
      <4> QED BY <2>4, <2>7, <2>8, <2>9, <2>10, SizeAssumption DEF rest
    <3> QED BY <2>6, <3>1, ZenonT(40) DEF WithinBudget
  <2> QED BY <1>a, <2>1, <2>3, <2>4, <2>5, <2>11, ThreadClientInv, Zenon DEF Becomes, SetCb
<1>2. CASE e.list = {}
  <2> DEFINE r == ThreadAt("wait")
             b == [cb[c] EXCEPT !.cb_state = "MAPPED", !.trigger_on = TRUE]
  <2>1. SetThr(c, "evict", r) /\ SetCb(c, b)
    BY <1>2, ZenonT(40) DEF evict_remap
  <2>2. IsThread(r) /\ r.list = {}
    BY ThreadIsThread
  <2>3. /\ IsCb(b) /\ b.cb_state = "MAPPED" /\ b.chunk_map = cb[c].chunk_map
        /\ b.free_chunk_index = cb[c].free_chunk_index
    BY <1>0, ZenonT(40) DEF ClientOK, IsCb, CbFields
  <2> HIDE DEF r, b
  <2>4. /\ IsThreads([thr[c] EXCEPT !["evict"] = r])
        /\ [thr[c] EXCEPT !["evict"] = r]["evict"].list = {}
    BY <1>0, <1>a, <2>2, ListAfter
  <2>5. WithinBudget(b, [thr[c] EXCEPT !["evict"] = r])
    BY <1>0, <2>3, <2>4, KeepsBudget, Zenon
  <2> QED BY <1>a, <2>1, <2>2, <2>3, <2>5, ThreadClientInv, ZenonT(40) DEF Becomes, SetCb
<1> QED BY <1>1, <1>2, ZenonT(40)

(* IS_disconnect_handler: at once, the requests are turned away. *)
LEMMA DisconnectClientInv ==
    ASSUME ClientInv, NEW c \in Client, disconnected(c)
    PROVE  ClientInv'
<1> DEFINE b0 == [cb[c] EXCEPT !.state = "CM_DISCONNECT", !.cb_state = "FAIL"]
           used == {i \in Chunks : b0.chunk_map[i] # -1}
           gone == {b0.chunk_map[i] : i \in used}
           b1 == [b0 EXCEPT !.trigger_on = FALSE, !.rdma_on = FALSE,
                            !.mapped = b0.mapped \ gone]
           r1 == [ThreadAt("sleep") EXCEPT !.list = gone]
<1>0. ClientOK(cb[c], thr[c], link[c]) /\ link \in [Client -> Links]
  BY ZenonT(40) DEF ClientInv
<1>a. "evict" \in Threads /\ "disc" \in Threads
  BY Zenon DEF Threads
<1>1. /\ IsCb(b0) /\ b0.cb_state = "FAIL" /\ b0.chunk_map = cb[c].chunk_map
      /\ b0.free_chunk_index = cb[c].free_chunk_index
  BY <1>0, ZenonT(40) DEF ClientOK, IsCb, CbFields
<1>2. /\ IsCb(b1) /\ b1.cb_state = "FAIL" /\ b1.chunk_map = cb[c].chunk_map
      /\ b1.free_chunk_index = cb[c].free_chunk_index
  <2> HIDE DEF b0, gone
  <2> QED BY <1>1, ZenonT(40) DEF IsCb, CbFields
<1>3. gone \subseteq Sess
  <2>1. b0.chunk_map \in [Chunks -> Sess \cup {-1}]
    BY <1>1, ZenonT(40) DEF IsCb
  <2> HIDE DEF b0
  <2> QED BY <2>1, ZenonT(40)
<1>4. IsThread(r1) /\ IsThread(ThreadAt("idle"))
  BY <1>3, ZenonT(40) DEF IsThread, ThreadAt
<1>5. PICK b, r :
        /\ IsCb(b) /\ b.cb_state = "FAIL" /\ b.chunk_map = cb[c].chunk_map
        /\ b.free_chunk_index = cb[c].free_chunk_index
        /\ IsThread(r) /\ SetCb(c, b) /\ SetThr(c, "disc", r)
  <2>1. \/ SetCb(c, b0) /\ SetThr(c, "disc", ThreadAt("idle"))
        \/ SetCb(c, b1) /\ SetThr(c, "disc", r1)
    BY ZenonT(40) DEF disconnected
  <2> HIDE DEF b0, b1, r1
  <2> QED BY <1>1, <1>2, <1>4, <2>1, Zenon
<1> DEFINE th == [thr[c] EXCEPT !["disc"] = r]
<1>6. IsThreads(th) /\ th["evict"].list = thr[c]["evict"].list
  BY <1>0, <1>a, <1>5, ListAfter
<1>7. thr' = [thr EXCEPT ![c] = th]
  BY <1>5 DEF SetThr
<1>8. PICK l \in Links : link' = [link EXCEPT ![c] = l]
  <2>1. Close(c)
    BY DEF disconnected
  <2> QED BY <1>0, <2>1, CloseLink
<1> HIDE DEF th
<1>9. ClientOK(b, th, l)
  BY <1>0, <1>5, <1>6, KeepsBudget, ZenonT(40) DEF ClientOK, ConnectsOnce
<1> QED BY <1>5, <1>7, <1>8, <1>9, OneClient, Zenon DEF Becomes, SetCb

(* ... and after the sleep, everything in use goes back to the list. *)
LEMMA ReleaseClientInv ==
    ASSUME ClientInv, NEW c \in Client, disc_release(c)
    PROVE  ClientInv'
<1> DEFINE used == {i \in Chunks : cb[c].chunk_map[i] # -1}
           none == [i \in Chunks |-> -1]
           gone == {cb[c].chunk_map[i] : i \in used}
           b == [cb[c] EXCEPT !.rdma_on = TRUE,
                   !.free_chunk_index = @ + Cardinality(used),
                   !.cb_chunk = [s \in Sess |-> IF s \in gone THEN -1 ELSE @[s]],
                   !.chunk_map = none]
           r == [thr[c]["disc"] EXCEPT !.pc = "remap"]
<1>0. ClientOK(cb[c], thr[c], link[c]) /\ link[c] \in Links
  BY DEF ClientInv
<1>a. "evict" \in Threads /\ "disc" \in Threads /\ cb[c].cb_state # "IDLE" /\ UNCHANGED link
  BY <1>0, ZenonT(40) DEF Threads, ClientOK, ConnectsOnce, disc_release, PC, NoSend, wireVars
<1>1. SetThr(c, "disc", r) /\ SetCb(c, b)
  BY DEF disc_release
<1>2. IsThread(r)
  BY <1>0, <1>a, ZenonT(40) DEF ClientOK, IsThreads, IsThread
<1>3. used = Used(cb[c]) /\ Cardinality(used) \in Nat
  BY IndexSets, Zenon DEF Used
<1> HIDE DEF used, gone
<1>4. /\ DOMAIN b = CbFields /\ b.stop = cb[c].stop /\ b.cb_state = cb[c].cb_state
      /\ b.chunk_map = none
      /\ b.free_chunk_index = cb[c].free_chunk_index + Cardinality(used)
  BY <1>0, ZenonT(40) DEF ClientOK, IsCb, CbFields
<1> HIDE DEF b, r
<1>5. Used(b) = {}
  BY <1>4, Zenon DEF Used
<1>6. IsCb(b)
  <2>1. cb[c].stop \subseteq Chunks /\ cb[c].free_chunk_index \in Int
    BY <1>0, ZenonT(40) DEF ClientOK, IsCb
  <2>2. b.free_chunk_index \in Int
    BY <1>3, <1>4, <2>1
  <2>3. none \in [Chunks -> Sess \cup {-1}]
    BY Zenon
  <2> HIDE DEF none
  <2> QED BY <1>4, <2>1, <2>2, <2>3, ZenonT(40) DEF IsCb
<1>7. [thr[c] EXCEPT !["disc"] = r]["evict"].list = thr[c]["evict"].list
  BY <1>0, <1>a, ZenonT(40) DEF ClientOK, IsThreads
<1>8. /\ cb[c].free_chunk_index \in Int /\ Cardinality(thr[c]["evict"].list) \in Nat
      /\ cb[c].free_chunk_index <=
           NumSess - 1 - Cardinality(used) - Cardinality(thr[c]["evict"].list)
  BY <1>0, <1>a, <1>3, IndexSets, ZenonT(40) DEF ClientOK, WithinBudget, IsCb, IsThreads, IsThread
<1>9. WithinBudget(b, [thr[c] EXCEPT !["disc"] = r])
  <2> DEFINE th == [thr[c] EXCEPT !["disc"] = r]
  <2>1. th["evict"].list = thr[c]["evict"].list
    BY <1>7, ZenonT(40)
  <2>2. Cardinality(Used(b)) = 0
    BY <1>5, FS_EmptySet, ZenonT(40)
  <2>3. b.free_chunk_index <= NumSess - 1 - 0 - Cardinality(thr[c]["evict"].list)
    BY <1>3, <1>4, <1>8, SizeAssumption
  <2> HIDE DEF th
  <2>4. WithinBudget(b, th)
    BY <2>1, <2>2, <2>3, ZenonT(40) DEF WithinBudget
  <2> QED BY <2>4, Zenon DEF th
<1> QED BY <1>a, <1>1, <1>2, <1>4, <1>6, <1>9, ThreadClientInv, ZenonT(40) DEF Becomes, SetCb

LEMMA NextClientInv ==
    ASSUME WInv, ClientInv, [Next]_vars
    PROVE  ClientInv'
<1>1. CASE MainStep
  <2>1. PICK c \in Client :
          on_connect_request(c) \/ on_connection(c) \/ destroy_connection(c)
    BY <1>1, Zenon DEF MainStep
  <2>2. UNCHANGED <<cb, thr>>
    BY <1>1, Zenon DEF MainStep, clientVars
  <2>3. \E l \in {"accepted", "up", "freed"} :
          link' = [link EXCEPT ![c] = l] /\ link[c] # "none"
    <3>1. CASE on_connect_request(c)
      BY <3>1, Zenon DEF on_connect_request
    <3>2. CASE on_connection(c)
      BY <3>2, Zenon DEF on_connection
    <3>3. CASE destroy_connection(c)
      BY <3>3, Zenon DEF destroy_connection
    <3> QED BY <2>1, <3>1, <3>2, <3>3, ZenonT(40)
  <2>4. /\ link' \in [Client -> Links]
        /\ \A d \in Client : link[d] = "none" => link'[d] = "none"
    BY <2>3, Zenon DEF ClientInv, Links
  <2> QED BY <2>2, <2>4, OnlyLink, ZenonT(40)
<1>2. CASE \/ PollStep \/ FreeMemStep \/ Round \/ Kill \/ UNCHANGED vars
           \/ \E c \in Client : Network(c)
  <2>1. UNCHANGED <<cb, thr, link>>
    <3>1. CASE PollStep
      BY <3>1, ZenonT(40) DEF PollStep, on_query, on_bind_single, on_activity, recv_done,
                  send_error, bind_scan, bind_map, bind_send, clientVars, wireVars
    <3>2. CASE FreeMemStep
      <4>1. UNCHANGED <<cb, thr>> /\ freeMemStep
        BY <3>2, Zenon DEF FreeMemStep, clientVars
      <4>2. CASE evict_choose
        BY <4>1, <4>2, ZenonT(40) DEF evict_choose
      <4>3. CASE evict_select
        BY <4>1, <4>3, Zenon DEF evict_select, wireVars
      <4> QED BY <4>1, <4>2, <4>3, ZenonT(40)
              DEF freeMemStep, rdma_session_init, free_mem_exit, evict_scan,
                  evict_free, send_evict, evict_next, activity_of, recv_activity,
                  send_stop, stopped, evict_fault, grow, OnlyFm, wireVars
    <3>3. CASE Round
      BY <3>3, Zenon DEF Round, evict_mem, expand, OnlyFm, wireVars, clientVars
    <3>4. CASE Kill \/ UNCHANGED vars
      BY <3>4, Zenon DEF Kill, vars, wireVars, clientVars
    <3>5. CASE \E c \in Client : Network(c)
      BY <3>5, ZenonT(40) DEF Network, TransmitToClient, TransmitToDaemon, clientVars
    <3> QED BY <1>2, <3>1, <3>2, <3>3, <3>4, <3>5, ZenonT(40)
  <2>2. link' \in [Client -> Links]
    BY <2>1, Zenon DEF ClientInv
  <2> QED BY <2>1, <2>2, OnlyLink, ZenonT(40)
<1>3. ASSUME NEW c \in Client, ClientStep(c) PROVE ClientInv'
  BY <1>3, MapClientInv, BindClientInv, SmallClientInv, RecvClientInv,
     UnmapClientInv, RemapClientInv, ReleaseClientInv, ZenonT(40) DEF ClientStep, clientStep
<1>4. ASSUME NEW c \in Client, NEW s \in Sess, Trigger(c, s) PROVE ClientInv'
  BY <1>4, SmallClientInv, Zenon DEF Trigger
<1>5. ASSUME NEW c \in Client, Mishap(c) PROVE ClientInv'
  <2>1. CASE depart(c)
    BY <2>1, LostClientInv, Zenon DEF depart, Oops
  <2> QED BY <1>5, <2>1, SmallClientInv, DisconnectClientInv, ZenonT(40) DEF Mishap
<1> QED BY <1>1, <1>2, <1>3, <1>4, <1>5, ZenonT(40) DEF Next

(* Each block device keeps its count of free indices within the chunks it  *)
(* has not mapped, and connects once, through all its handlers.            *)
THEOREM ClientCorrect == Spec => []ClientInv
BY MessagesInv, InitClientInv, NextClientInv, PTL DEF Spec

(* unmapped_chunk_list is never indexed past its end, however evictions,   *)
(* mappings, disconnections and failures overlap: evict_handler and        *)
(* IS_disconnect_handler give back only what IS_single_chunk_init took.    *)
THEOREM ListNeverOverrun == Spec => []FreeIndexBounded
<1>1. ClientInv => FreeIndexBounded
  <2> SUFFICES ASSUME ClientInv, NEW c \in Client
               PROVE  cb[c].free_chunk_index < NumSess
    BY Zenon DEF FreeIndexBounded
  <2>1. /\ cb[c].free_chunk_index \in Int
        /\ Cardinality(Used(cb[c])) \in Nat
        /\ Cardinality(thr[c]["evict"].list) \in Nat
    BY IndexSets DEF ClientInv, ClientOK, IsCb, Used, IsThreads, IsThread, Threads
  <2> QED BY <2>1, SizeAssumption DEF ClientInv, ClientOK, WithinBudget
<1> QED BY <1>1, ClientCorrect, PTL
=============================================================================
