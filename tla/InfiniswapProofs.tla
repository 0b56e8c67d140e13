-------------------------- MODULE InfiniswapProofs --------------------------
(***************************************************************************)
(* Proofs about the daemon of the composition, for every number of         *)
(* clients, chunks and slots and with everything that Env allows: the      *)
(* three unlocked threads, clients that leave, connections that arrive     *)
(* before rdma_session_init and clients that find no idle slot.            *)
(***************************************************************************)
EXTENDS ClientProofs

-----------------------------------------------------------------------------
(* A chunk is never lent twice.                                            *)
(*                                                                         *)
(* LentOnce is not inductive.  Between line 671, which finds chunk i free, *)
(* and line 673, which marks it, the chunk must stay free: no other thread *)
(* writes a slot into conn_map.  And rdma_session_init frees every chunk   *)
(* while connections may exist: until then the zeroed conn_map lends none. *)

(* What is needed of the types of the variables. *)
Shape ==
    /\ link \in [Client -> Links]
    /\ conn_map \in [Chunks -> Slots \cup {-1}]
    /\ DOMAIN conn = Client
    /\ \A c \in Client : /\ {"conn_index", "sess"} \subseteq DOMAIN conn[c]
                         /\ conn[c].conn_index \in Slots
                         /\ conn[c].sess \subseteq Chunks
    /\ poll \in [pc : {"idle", "scan", "map", "send"},
                 c : Client \cup {None}, i : Chunks]
    /\ poll.pc # "idle" => poll.c \in Client
    /\ "pc" \in DOMAIN fm

(* poll_cq is about to take the chunk it found: it is free still. *)
FoundIsFree == poll.pc = "map" => conn_map[poll.i] = -1

(* Before rdma_session_init nothing can be found free and nothing is lent. *)
NothingBeforeInit ==
    fm.pc = "init" =>
      /\ poll.pc # "map"
      /\ \A i \in Chunks : conn_map[i] # -1
      /\ \A c \in Client : Live(c) => conn[c].sess = {}

LInv == Shape /\ LentOnce /\ FoundIsFree /\ NothingBeforeInit

LEMMA InitLInv == Init => LInv
<1> SUFFICES ASSUME Init PROVE LInv
  OBVIOUS
<1> USE SizeAssumption
<1>1. 0 \in Slots /\ 0 \in Chunks
  BY DEF Slots, Chunks
<1>2. link \in [Client -> Links] /\ \A c \in Client : ~Live(c)
  BY ZenonT(40) DEF Init, WireInit, Links, Live
<1>3. Shape
  BY <1>1, <1>2, ZenonT(40) DEF Init, DaemonInit, Shape, NewConn, PollIdle, FmAt
<1>4. LentOnce /\ FoundIsFree /\ NothingBeforeInit
  BY <1>2 DEF Init, DaemonInit, LentOnce, FoundIsFree, NothingBeforeInit, PollIdle
<1> QED BY <1>3, <1>4, ZenonT(40) DEF LInv

(* A step that lends nothing and takes nothing back keeps the invariant,   *)
(* whatever it does to the rest.                                           *)
LEMMA Elsewhere ==
    ASSUME LInv,
           link' \in [Client -> Links],
           \A c \in Client : Live(c)' => Live(c),
           conn_map' = conn_map, poll' = poll,
           DOMAIN conn' = Client,
           \A c \in Client : /\ DOMAIN conn'[c] = DOMAIN conn[c]
                             /\ conn'[c].conn_index = conn[c].conn_index
                             /\ conn'[c].sess = conn[c].sess,
           "pc" \in DOMAIN fm',
           fm'.pc = "init" => fm.pc = "init"
    PROVE  LInv'
<1>1. Shape'
  BY ZenonT(40) DEF LInv, Shape
<1>2. LentOnce'
  BY DEF LInv, LentOnce
<1>3. FoundIsFree' /\ NothingBeforeInit'
  BY DEF LInv, FoundIsFree, NothingBeforeInit
<1> QED BY <1>1, <1>2, <1>3, ZenonT(40) DEF LInv

(* The steps of a client and of its NIC reach the daemon's state through   *)
(* link alone, and none of them opens a connection.                        *)
LEMMA ClientLInv ==
    ASSUME LInv, NEW c \in Client, UNCHANGED daemonVars,
           \/ UNCHANGED link
           \/ Close(c)
           \/ link' = [link EXCEPT ![c] = "requested"]
           \/ link' = [link EXCEPT ![c] = "none"]
    PROVE  LInv'
<1>1. UNCHANGED <<conn_map, conn, poll, fm>>
  BY Zenon DEF daemonVars, session
<1>2. link \in [Client -> Links] /\ "pc" \in DOMAIN fm /\ DOMAIN conn = Client
  BY DEF LInv, Shape
<1>3. link' \in [Client -> Links] /\ \A d \in Client : Live(d)' => Live(d)
  BY <1>2, ZenonT(40) DEF Close, Live, Links
<1> QED BY <1>1, <1>2, <1>3, Elsewhere, ZenonT(40)

LEMMA ClientStepLInv ==
    ASSUME LInv, NEW c \in Client,
           ClientStep(c) \/ Network(c) \/ Mishap(c) \/ \E s \in Sess : Trigger(c, s)
    PROVE  LInv'
<1>1. UNCHANGED daemonVars
  BY Zenon DEF ClientStep, Network, Mishap, Trigger
<1>2. CASE Network(c)
  BY <1>1, <1>2, ClientLInv, ZenonT(40) DEF Network, TransmitToClient, TransmitToDaemon
<1>3. CASE Mishap(c)
  BY <1>1, <1>3, ClientLInv, ZenonT(40) DEF Mishap, connect_error, depart, Oops, disconnected
<1>4. CASE \E s \in Sess : Trigger(c, s)
  BY <1>1, <1>4, ClientLInv, ZenonT(40) DEF Trigger, rdma_trigger, NoSend, wireVars
<1>5. CASE clientStep(c)
  <2>1. ASSUME NEW t \in Threads,
               map_none(c, t) \/ map_query(c, t) \/ map_bind(c, t) \/ map_end(c, t)
        PROVE  UNCHANGED link
    BY <2>1, ZenonT(40) DEF map_none, map_query, map_bind, map_end, NoSend, wireVars
  <2>2. ASSUME NEW t \in Threads, map_connect(c, t)
        PROVE  link' = [link EXCEPT ![c] = "requested"]
    BY <2>2, ZenonT(40) DEF map_connect
  <2>3. CASE established(c) \/ evict_activity(c) \/ evict_done(c) \/ evict_remap(c)
               \/ disc_release(c) \/ disc_remap(c)
    <3>1. UNCHANGED link
      BY <2>3, ZenonT(40) DEF established, evict_activity, evict_done, evict_remap,
                  disc_release, disc_remap, NoSend, wireVars
    <3> QED BY <1>1, <3>1, ClientLInv, ZenonT(40)
  <2>4. CASE client_recv(c)
    <3>1. UNCHANGED link \/ Close(c)
      BY <2>4, ZenonT(40) DEF client_recv
    <3> QED BY <1>1, <3>1, ClientLInv, ZenonT(40)
  <2>5. CASE evict_unmap(c)
    <3>1. UNCHANGED link \/ Close(c)
      BY <2>5, ZenonT(40) DEF evict_unmap, Oops, NoSend, wireVars
    <3> QED BY <1>1, <3>1, ClientLInv
  <2> QED BY <1>1, <1>5, <2>1, <2>2, <2>3, <2>4, <2>5, ClientLInv, ZenonT(40) DEF clientStep
<1> QED BY <1>2, <1>3, <1>4, <1>5, ZenonT(40) DEF ClientStep

(* main: a new connection lends nothing, and one that goes away gives back *)
(* only chunks of its own.                                                 *)
LEMMA MainLInv ==
    ASSUME LInv, MainStep
    PROVE  LInv'
<1> USE DEF LInv
<1>1. PICK c \in Client :
        on_connect_request(c) \/ on_connection(c) \/ destroy_connection(c)
  BY DEF MainStep
<1>2. CASE on_connect_request(c)
  <2>1. PICK s \in Slots : conn' = [conn EXCEPT ![c] = NewConn(s)]
    <3>1. SlotGiven \subseteq Slots
      BY Zenon DEF SlotGiven, IdleSlots
    <3> QED BY <1>2, <3>1, Zenon DEF on_connect_request
  <2>2. /\ link' = [link EXCEPT ![c] = "accepted"]
        /\ UNCHANGED <<conn_map, poll, fm>>
    BY <1>2, ZenonT(40) DEF on_connect_request
  <2>3. /\ DOMAIN conn' = Client
        /\ \A d \in Client \ {c} : conn'[d] = conn[d] /\ (Live(d)' <=> Live(d))
        /\ conn'[c] = NewConn(s)
    BY <2>1, <2>2, ZenonT(40) DEF Shape, Live
  <2>4. /\ {"conn_index", "sess"} \subseteq DOMAIN conn'[c]
        /\ conn'[c].conn_index = s /\ conn'[c].sess = {}
    BY <2>3 DEF NewConn
  <2>5. Shape'
    BY <2>2, <2>3, <2>4, SMTT(40) DEF Shape, Links
  <2>6. LentOnce' /\ FoundIsFree' /\ NothingBeforeInit'
    BY <2>2, <2>3, <2>4, SMTT(40) DEF LentOnce, FoundIsFree, NothingBeforeInit
  <2> QED BY <2>5, <2>6, ZenonT(40)
<1>3. CASE on_connection(c)
  <2>1. /\ link[c] = "accepted" /\ link' = [link EXCEPT ![c] = "up"]
        /\ UNCHANGED <<conn_map, conn, poll, fm>>
    BY <1>3, ZenonT(40) DEF on_connection, daemonVars, session
  <2>2. link' \in [Client -> Links] /\ \A d \in Client : Live(d)' => Live(d)
    BY <2>1, ZenonT(40) DEF Shape, Links, Live
  <2> QED BY <2>1, <2>2, Elsewhere, ZenonT(40) DEF Shape
<1>4. CASE destroy_connection(c)
  <2>1. /\ link[c] = "closed" /\ link' = [link EXCEPT ![c] = "freed"]
        /\ UNCHANGED <<conn, poll, fm>>
    BY <1>4, Zenon DEF destroy_connection, Die
  <2>2. /\ conn_map' \in [Chunks -> Slots \cup {-1}]
        /\ \A i \in Chunks : conn_map'[i] = conn_map[i]
                             \/ (i \in conn[c].sess /\ conn_map'[i] = -1)
    BY <1>4, ZenonT(40) DEF destroy_connection, Die, session, Shape
  <2>3. /\ link' \in [Client -> Links] /\ ~Live(c)' /\ Live(c)
        /\ \A d \in Client \ {c} : Live(d)' <=> Live(d)
    BY <2>1 DEF Shape, Links, Live
  <2>4. Shape'
    BY <2>1, <2>2, <2>3, ZenonT(40) DEF Shape
  <2>5. LentOnce'
    BY <2>1, <2>2, <2>3, ZenonT(40) DEF LentOnce, Shape
  <2>6. FoundIsFree' /\ NothingBeforeInit'
    BY <2>1, <2>2, <2>3, ZenonT(40) DEF FoundIsFree, NothingBeforeInit, Shape
  <2> QED BY <2>4, <2>5, <2>6, ZenonT(40)
<1> QED BY <1>1, <1>2, <1>3, <1>4, ZenonT(40)

(* poll_cq: send_single_mr lends a chunk that nobody else has, and         *)
(* recv_done takes back only chunks of the connection that sent DONE.      *)
LEMMA PollLInv ==
    ASSUME LInv, PollStep
    PROVE  LInv'
<1> USE DEF LInv
<1>1. ASSUME NEW c \in Client, on_query(c) \/ send_error(c)
      PROVE  LInv'
  <2>1. UNCHANGED <<link, conn_map, conn, poll, fm>>
    BY <1>1, ZenonT(40) DEF on_query, send_error, Die, daemonVars, session, wireVars
  <2> QED BY <2>1, Elsewhere, ZenonT(40) DEF Shape, Live
<1>2. ASSUME NEW c \in Client, on_bind_single(c)
      PROVE  LInv'
  <2>1. /\ UNCHANGED <<link, conn_map, conn, fm>>
        /\ poll' = [pc |-> "scan", c |-> c, i |-> 0]
    BY <1>2, ZenonT(40) DEF on_bind_single, session
  <2>2. 0 \in Chunks
    BY SizeAssumption DEF Chunks
  <2>3. Shape'
    BY <2>1, <2>2, ZenonT(40) DEF Shape
  <2>4. LentOnce'
    BY <2>1, ZenonT(40) DEF LentOnce, Live
  <2>5. FoundIsFree' /\ NothingBeforeInit'
    BY <2>1, ZenonT(40) DEF FoundIsFree, NothingBeforeInit, Live
  <2> QED BY <2>3, <2>4, <2>5
<1>3. ASSUME NEW c \in Client, on_activity(c)
      PROVE  LInv'
  <2>1. /\ UNCHANGED <<link, conn_map, poll, fm>>
        /\ conn' = [conn EXCEPT ![c] = [conn[c] EXCEPT !.evict_sem = @ + 1]]
    BY <1>3, Zenon DEF on_activity, session
  <2> QED BY <2>1, Elsewhere, ZenonT(40) DEF Shape, Live
<1>4. ASSUME NEW c \in Client, recv_done(c)
      PROVE  LInv'
  <2> DEFINE named == recv_msg[c].rkey
  <2>1. /\ UNCHANGED <<link, poll, fm>> /\ poll.pc = "idle" /\ Live(c)
    BY <1>4, Zenon DEF recv_done, Arrived, Die, Live
  <2>2. CASE named \subseteq conn[c].sess
    <3>1. /\ DOMAIN conn' = Client
          /\ \A d \in Client : /\ DOMAIN conn'[d] = DOMAIN conn[d]
                               /\ conn'[d].conn_index = conn[d].conn_index
          /\ \A d \in Client \ {c} : conn'[d].sess = conn[d].sess
          /\ conn'[c].sess = conn[c].sess \ named
      BY <1>4, <2>2 DEF recv_done, Shape
    <3>2. conn_map' = [i \in Chunks |-> IF i \in named THEN -1 ELSE conn_map[i]]
      BY <1>4, <2>2, ZenonT(40) DEF recv_done
    <3>3. Shape'
      BY <2>1, <3>1, <3>2, ZenonT(40) DEF Shape
    <3>4. LentOnce'
      BY <2>1, <2>2, <3>1, <3>2 DEF LentOnce, Live, Shape
    <3>5. FoundIsFree' /\ NothingBeforeInit'
      BY <2>1, <2>2, <3>1, <3>2, ZenonT(40) DEF FoundIsFree, NothingBeforeInit, Live, Shape
    <3> QED BY <3>3, <3>4, <3>5
  <2>3. CASE ~(named \subseteq conn[c].sess)
    <3>1. UNCHANGED <<conn_map, conn>>
      BY <1>4, <2>3, ZenonT(40) DEF recv_done, Die, session
    <3> QED BY <2>1, <3>1, Elsewhere, ZenonT(40) DEF Shape, Live
  <2> QED BY <2>2, <2>3, ZenonT(40)
<1>5. CASE bind_scan
  <2>1. UNCHANGED <<link, conn_map, conn, fm>> /\ poll.pc = "scan"
    BY <1>5, ZenonT(40) DEF bind_scan, session, wireVars
  <2>2. /\ poll' \in [pc : {"idle", "scan", "map", "send"},
                      c : Client \cup {None}, i : Chunks]
        /\ poll'.c = poll.c
        /\ poll'.pc = "map" => conn_map[poll'.i] = -1
    <3>1. CASE Unmapped(poll.i)
      BY <1>5, <3>1, ZenonT(40) DEF bind_scan, Unmapped, Shape
    <3>2. CASE ~Unmapped(poll.i) /\ poll.i + 1 = NumChunks
      BY <1>5, <3>2, Zenon DEF bind_scan, Shape
    <3>3. CASE ~Unmapped(poll.i) /\ poll.i + 1 # NumChunks
      <4>1. poll' = [poll EXCEPT !.i = @ + 1]
        BY <1>5, <3>3, ZenonT(40) DEF bind_scan
      <4>2. poll.i + 1 \in Chunks
        BY <3>3, SizeAssumption DEF Shape, Chunks
      <4> QED BY <2>1, <4>1, <4>2, ZenonT(40) DEF Shape
    <3> QED BY <3>1, <3>2, <3>3, ZenonT(40)
  <2>3. Shape'
    BY <2>1, <2>2, ZenonT(40) DEF Shape
  <2>4. LentOnce' /\ FoundIsFree'
    BY <2>1, <2>2, ZenonT(40) DEF LentOnce, FoundIsFree, Live
  <2>5. NothingBeforeInit'
    BY <2>1, <2>2, ZenonT(40) DEF NothingBeforeInit, Live, Shape
  <2> QED BY <2>3, <2>4, <2>5, ZenonT(40)
<1>6. CASE bind_map
  <2> DEFINE b == poll.c
             k == poll.i
  <2>1. /\ UNCHANGED <<link, fm>> /\ poll.pc = "map" /\ poll'.pc = "send"
        /\ b \in Client /\ k \in Chunks /\ conn_map[k] = -1
        /\ poll' = [poll EXCEPT !.pc = "send"]
    BY <1>6, Zenon DEF bind_map, Shape, FoundIsFree
  <2>2. /\ DOMAIN conn' = Client
        /\ \A d \in Client : /\ DOMAIN conn'[d] = DOMAIN conn[d]
                             /\ conn'[d].conn_index = conn[d].conn_index
        /\ \A d \in Client \ {b} : conn'[d].sess = conn[d].sess
        /\ conn'[b].sess = conn[b].sess \cup {k}
    BY <1>6, <2>1, ZenonT(40) DEF bind_map, Shape
  <2>3. /\ conn_map' = [conn_map EXCEPT ![k] = conn[b].conn_index]
        /\ conn[b].conn_index \in Slots /\ conn[b].conn_index # -1
    BY <1>6, <2>1 DEF bind_map, Shape, Slots
  <2>4. Shape'
    BY <2>1, <2>2, <2>3, ZenonT(40) DEF Shape
  <2>5. \A d \in Client : Live(d) => k \notin conn[d].sess
    BY <2>1, ZenonT(40) DEF LentOnce
  <2>6. LentOnce'
    BY <2>1, <2>2, <2>3, <2>5 DEF LentOnce, Live, Shape
  <2>7. FoundIsFree' /\ NothingBeforeInit'
    BY <2>1, ZenonT(40) DEF FoundIsFree, NothingBeforeInit
  <2> QED BY <2>4, <2>6, <2>7, ZenonT(40)
<1>7. CASE bind_send
  <2>1. /\ UNCHANGED <<link, conn_map, fm>> /\ poll' = PollIdle /\ poll.c \in Client
        /\ conn' = [conn EXCEPT ![poll.c] =
                      [conn[poll.c] EXCEPT !.mapped_chunk_size = @ + 1]]
    BY <1>7, ZenonT(40) DEF bind_send, Shape
  <2>2. /\ DOMAIN conn' = Client
        /\ \A d \in Client : /\ DOMAIN conn'[d] = DOMAIN conn[d]
                             /\ conn'[d].conn_index = conn[d].conn_index
                             /\ conn'[d].sess = conn[d].sess
    BY <2>1, Zenon DEF Shape
  <2>3. 0 \in Chunks
    BY SizeAssumption DEF Chunks
  <2>4. Shape'
    BY <2>1, <2>2, <2>3, ZenonT(40) DEF Shape, PollIdle
  <2>5. LentOnce' /\ FoundIsFree' /\ NothingBeforeInit'
    BY <2>1, <2>2, SMTT(40) DEF LentOnce, FoundIsFree, NothingBeforeInit, Live, PollIdle
  <2> QED BY <2>4, <2>5, ZenonT(40)
<1> QED BY <1>1, <1>2, <1>3, <1>4, <1>5, <1>6, <1>7, ZenonT(40) DEF PollStep

(* The thread's record has its program counter. *)
LEMMA FmAtPc ==
    ASSUME NEW x
    PROVE  "pc" \in DOMAIN FmAt(x) /\ FmAt(x).pc = x
BY Zenon DEF FmAt

(* free_mem: rdma_session_init finds nothing lent, and every later step    *)
(* leaves conn_map and the connections' chunks alone.                      *)
LEMMA FreeMemLInv ==
    ASSUME LInv, freeMemStep \/ \E g \in 0 .. NumChunks : evict_mem(g) \/ expand(g)
    PROVE  LInv'
<1> USE DEF LInv
<1>1. CASE rdma_session_init
  <2>1. /\ UNCHANGED <<link, conn, poll>> /\ fm.pc = "init" /\ fm' = FmAt("idle")
        /\ conn_map' = [i \in Chunks |-> -1]
    BY <1>1, ZenonT(40) DEF rdma_session_init, wireVars
  <2>2. "pc" \in DOMAIN fm' /\ fm'.pc = "idle"
    BY <2>1, Zenon DEF FmAt
  <2>3. Shape'
    BY <2>1, <2>2, ZenonT(40) DEF Shape
  <2>4. LentOnce'
    BY <2>1, ZenonT(40) DEF LentOnce, NothingBeforeInit, Live
  <2>5. FoundIsFree' /\ NothingBeforeInit'
    BY <2>1, <2>2, ZenonT(40) DEF FoundIsFree, NothingBeforeInit
  <2> QED BY <2>3, <2>4, <2>5, ZenonT(40)
<1>2. ASSUME UNCHANGED <<link, conn_map, conn, poll>>,
             "pc" \in DOMAIN fm', fm'.pc # "init"
      PROVE  LInv'
  BY <1>2, Elsewhere, ZenonT(40) DEF Shape, Live
<1>3. CASE free_mem_exit \/ evict_scan \/ evict_free \/ evict_next \/ activity_of
             \/ grow \/ \E g \in 0 .. NumChunks : evict_mem(g) \/ expand(g)
  <2>1. UNCHANGED <<link, conn_map, conn, poll>>
    BY <1>3, ZenonT(40) DEF free_mem_exit, evict_scan, evict_free, evict_next, activity_of,
                grow, evict_mem, expand, OnlyFm, session, wireVars
  <2>2. "pc" \in DOMAIN fm' /\ fm'.pc # "init"
    <3>1. CASE free_mem_exit
      BY <3>1, FmAtPc, Zenon DEF free_mem_exit
    <3>2. CASE \E g \in 0 .. NumChunks : evict_mem(g) \/ expand(g)
      BY <3>2, FmAtPc, ZenonT(40) DEF evict_mem, expand
    <3>3. CASE evict_scan
      BY <3>3, Zenon DEF evict_scan, Goto, Shape
    <3>4. CASE evict_next
      BY <3>4, FmAtPc, Zenon DEF evict_next, Goto, Shape
    <3>5. CASE activity_of
      BY <3>5 DEF activity_of, Shape
    <3>6. CASE evict_free
      BY <3>6, FmAtPc, Zenon DEF evict_free, Shape
    <3>7. CASE grow
      BY <3>7, FmAtPc, ZenonT(40) DEF grow, Shape
    <3> QED BY <1>3, <3>1, <3>2, <3>3, <3>4, <3>5, <3>6, <3>7, ZenonT(40)
  <2> QED BY <1>2, <2>1, <2>2, ZenonT(40)
<1>4. CASE evict_select
  <2>1. UNCHANGED <<link, conn_map, conn, poll>>
    BY <1>4, Zenon DEF evict_select, wireVars
  <2>2. "pc" \in DOMAIN fm' /\ fm'.pc # "init"
    BY <1>4, FmAtPc, ZenonT(40) DEF evict_select
  <2> QED BY <1>2, <2>1, <2>2
<1>5. CASE send_evict \/ send_stop
  <2>1. UNCHANGED <<link, conn_map, conn, poll>>
    BY <1>5, Zenon DEF send_evict, send_stop, session
  <2>2. "pc" \in DOMAIN fm' /\ fm'.pc # "init"
    BY <1>5, ZenonT(40) DEF send_evict, send_stop, Shape
  <2> QED BY <1>2, <2>1, <2>2
<1>6. CASE evict_choose
  <2>1. UNCHANGED <<link, conn_map, conn, poll>>
    BY <1>6, Zenon DEF evict_choose, session
  <2>2. "pc" \in DOMAIN fm' /\ fm'.pc # "init"
    BY <1>6, ZenonT(40) DEF evict_choose, Shape
  <2> QED BY <1>2, <2>1, <2>2
<1>7. CASE recv_activity \/ stopped
  <2>1. /\ UNCHANGED <<link, conn_map, poll>> /\ DOMAIN conn' = Client
        /\ \A d \in Client : /\ DOMAIN conn'[d] = DOMAIN conn[d]
                             /\ conn'[d].conn_index = conn[d].conn_index
                             /\ conn'[d].sess = conn[d].sess
    BY <1>7 DEF recv_activity, stopped, session, wireVars, Shape
  <2>2. "pc" \in DOMAIN fm' /\ fm'.pc # "init"
    BY <1>7, ZenonT(40) DEF recv_activity, stopped, Shape
  <2> QED BY <2>1, <2>2, Elsewhere, ZenonT(40) DEF Shape, Live
<1>8. CASE evict_fault
  <2>1. UNCHANGED <<link, conn_map, conn, poll, fm>>
    BY <1>8 DEF evict_fault, Die, session, wireVars
  <2> QED BY <2>1, Elsewhere, ZenonT(40) DEF Shape, Live
<1> QED BY <1>1, <1>3, <1>4, <1>5, <1>6, <1>7, <1>8, ZenonT(40) DEF freeMemStep

(* The inductive invariant, for the modules that build on it. *)
THEOREM Lending == Spec => []LInv
<1>1. LInv /\ [Next]_vars => LInv'
  <2> SUFFICES ASSUME LInv, [Next]_vars PROVE LInv'
    OBVIOUS
  <2>1. CASE MainStep \/ PollStep
    BY <2>1, MainLInv, PollLInv, ZenonT(40)
  <2>2. CASE FreeMemStep \/ Round
    BY <2>2, FreeMemLInv, ZenonT(40) DEF FreeMemStep, Round
  <2>3. CASE Kill \/ UNCHANGED vars
    <3>1. UNCHANGED <<link, conn_map, conn, poll, fm>>
      BY <2>3, Zenon DEF Kill, Die, vars, daemonVars, session, wireVars
    <3> QED BY <3>1, Elsewhere, ZenonT(40) DEF LInv, Shape, Live
  <2>4. CASE \E c \in Client : \/ \E s \in Sess : Trigger(c, s)
                               \/ ClientStep(c) \/ Network(c) \/ Mishap(c)
    BY <2>4, ClientStepLInv
  <2> QED BY <2>1, <2>2, <2>3, <2>4, ZenonT(40) DEF Next
<1> QED BY InitLInv, <1>1, PTL DEF Spec

(* The daemon lends no chunk twice and never marks a lent chunk free,      *)
(* whatever its three threads, its clients and the network do.             *)
THEOREM NeverLentTwice == Spec => []LentOnce
<1>1. LInv => LentOnce
  BY DEF LInv
<1> QED BY <1>1, Lending, PTL

-----------------------------------------------------------------------------
(* The receive buffer of an ACTIVITY message *)

BufferShape ==
    /\ DOMAIN rmsg_state = Client /\ DOMAIN recv_msg = Client
    /\ \A c \in Client : "evict_sem" \in DOMAIN conn[c] /\ conn[c].evict_sem \in Nat

(* While poll_cq is inside send_single_mr it holds the receive buffer of   *)
(* the client that it serves, whose connection was made.                   *)
PollHolds ==
    poll.pc # "idle" =>
      /\ rmsg_state[poll.c] = "held" /\ recv_msg[poll.c].type = "BIND_SINGLE"
      /\ link[poll.c] \in {"up", "closed", "freed"}

AInv == BufferShape /\ PollHolds /\ ActivityHeld

LEMMA InitAInv == Init => AInv
<1> SUFFICES ASSUME Init PROVE AInv
  OBVIOUS
<1>1. BufferShape
  BY Zenon DEF Init, WireInit, DaemonInit, NewConn, BufferShape
<1>2. PollHolds
  BY Zenon DEF Init, DaemonInit, PollIdle, PollHolds
<1>3. ActivityHeld
  BY Zenon DEF Init, WireInit, ActivityHeld, Live
<1> QED BY <1>1, <1>2, <1>3, ZenonT(40) DEF AInv

(* A step that touches neither the receive buffers nor the semaphores. *)
LEMMA OtherAInv ==
    ASSUME LInv, AInv, UNCHANGED <<rmsg_state, recv_msg>>,
           \A d \in Client : /\ Live(d)' => Live(d)
                             /\ "evict_sem" \in DOMAIN conn'[d]
                             /\ conn'[d].evict_sem = conn[d].evict_sem
                             /\ link[d] \in {"up", "closed", "freed"} =>
                                  link'[d] \in {"up", "closed", "freed"},
           poll'.pc # "idle" => poll.pc # "idle" /\ poll'.c = poll.c
    PROVE  AInv'
<1>1. BufferShape'
  BY Zenon DEF AInv, BufferShape
<1>2. PollHolds'
  BY Zenon DEF AInv, PollHolds, LInv, Shape
<1>3. ActivityHeld'
  BY ZenonT(40) DEF AInv, ActivityHeld
<1> QED BY <1>1, <1>2, <1>3, ZenonT(40) DEF AInv

(* A step of the daemon on the receive buffer of client c. *)
LEMMA BufferAInv ==
    ASSUME LInv, AInv, NEW c \in Client, NEW r, NEW n \in Nat,
           rmsg_state' = [rmsg_state EXCEPT ![c] = r], UNCHANGED recv_msg,
           \A d \in Client : /\ "evict_sem" \in DOMAIN conn'[d]
                             /\ conn'[d].evict_sem = IF d = c THEN n ELSE conn[d].evict_sem
                             /\ d # c /\ Live(d)' => Live(d)
                             /\ d # c => link'[d] = link[d],
           \/ n = 0
           \/ n = 1 /\ r = "held" /\ recv_msg[c].type = "ACTIVITY"
           \/ ~Live(c)',
           poll'.pc # "idle" =>
             \/ poll.pc # "idle" /\ poll'.c = poll.c /\ poll.c # c
             \/ /\ poll'.c = c /\ r = "held" /\ recv_msg[c].type = "BIND_SINGLE"
                /\ link'[c] \in {"up", "closed", "freed"}
    PROVE  AInv'
<1>1. DOMAIN rmsg_state' = Client /\ \A d \in Client :
        rmsg_state'[d] = IF d = c THEN r ELSE rmsg_state[d]
  BY Zenon DEF AInv, BufferShape
<1>2. BufferShape'
  BY <1>1, Zenon DEF AInv, BufferShape
<1>3. PollHolds'
  BY <1>1, SMTT(40) DEF AInv, PollHolds, LInv, Shape
<1>4. ActivityHeld'
  <2> SUFFICES ASSUME NEW d \in Client, Live(d)', conn'[d].evict_sem > 0
               PROVE  /\ conn'[d].evict_sem = 1
                      /\ rmsg_state'[d] = "held" /\ recv_msg'[d].type = "ACTIVITY"
    BY Zenon DEF ActivityHeld
  <2> QED BY <1>1, SMTT(40) DEF AInv, ActivityHeld
<1> QED BY <1>2, <1>3, <1>4, ZenonT(40) DEF AInv

LEMMA MainAInv ==
    ASSUME LInv, AInv, MainStep
    PROVE  AInv'
<1>0. PICK c \in Client :
        on_connect_request(c) \/ on_connection(c) \/ destroy_connection(c)
  BY DEF MainStep
<1>1. CASE on_connect_request(c)
  <2>1. PICK s : conn' = [conn EXCEPT ![c] = NewConn(s)]
    BY <1>1, Zenon DEF on_connect_request
  <2>2. /\ rmsg_state' = [rmsg_state EXCEPT ![c] = "posted"] /\ UNCHANGED <<recv_msg, poll>>
        /\ link' = [link EXCEPT ![c] = "accepted"] /\ link[c] = "requested"
    BY <1>1 DEF on_connect_request, PostReceive
  <2>3. \A d \in Client : /\ "evict_sem" \in DOMAIN conn'[d]
                          /\ conn'[d].evict_sem = IF d = c THEN 0 ELSE conn[d].evict_sem
    BY <2>1, SMTT(40) DEF NewConn, LInv, Shape, AInv, BufferShape
  <2>4. \A d \in Client : d # c => link'[d] = link[d]
    BY <2>2, ZenonT(40) DEF LInv, Shape
  <2>5. poll.pc # "idle" => poll.c # c
    BY <2>2, ZenonT(40) DEF AInv, PollHolds
  <2>6. \A d \in Client : d # c => (Live(d)' => Live(d))
    BY <2>4, Zenon DEF Live
  <2> QED BY <2>2, <2>3, <2>4, <2>5, <2>6, BufferAInv, ZenonT(40)
<1>2. CASE on_connection(c)
  <2>1. /\ UNCHANGED <<rmsg_state, recv_msg, conn, poll>>
        /\ link[c] = "accepted" /\ link' = [link EXCEPT ![c] = "up"]
    BY <1>2, ZenonT(40) DEF on_connection, daemonVars, toDaemon
  <2>2. \A d \in Client : link'[d] = IF d = c THEN "up" ELSE link[d]
    BY <2>1, Zenon DEF LInv, Shape
  <2> QED BY <2>1, <2>2, OtherAInv, ZenonT(40) DEF Live, AInv, BufferShape
<1>3. CASE destroy_connection(c)
  <2>1. /\ UNCHANGED <<rmsg_state, recv_msg, conn, poll>>
        /\ link[c] = "closed" /\ link' = [link EXCEPT ![c] = "freed"]
    BY <1>3, ZenonT(40) DEF destroy_connection, Die, toDaemon
  <2>2. \A d \in Client : link'[d] = IF d = c THEN "freed" ELSE link[d]
    BY <2>1, Zenon DEF LInv, Shape
  <2> QED BY <2>1, <2>2, OtherAInv, ZenonT(40) DEF Live, AInv, BufferShape
<1> QED BY <1>0, <1>1, <1>2, <1>3, ZenonT(40)

LEMMA PollAInv ==
    ASSUME LInv, AInv, PollStep
    PROVE  AInv'
<1>a. \A c \in Client : DOMAIN conn = Client /\ "evict_sem" \in DOMAIN conn[c]
  BY Zenon DEF LInv, Shape, AInv, BufferShape
<1>b. ASSUME NEW c \in Client, link[c] \in {"up", "closed"}, rmsg_state[c] = "arrived"
      PROVE  conn[c].evict_sem = 0
  BY <1>b DEF AInv, BufferShape, ActivityHeld, Live
<1>1. ASSUME NEW c \in Client, on_query(c)
      PROVE  AInv'
  <2>1. /\ rmsg_state' = [rmsg_state EXCEPT ![c] = "posted"]
        /\ UNCHANGED <<recv_msg, conn, poll, link>>
        /\ link[c] \in {"up", "closed"} /\ rmsg_state[c] = "arrived" /\ poll.pc = "idle"
    BY <1>1, Zenon DEF on_query, PostReceive, Arrived, daemonVars
  <2> QED BY <1>a, <1>b, <2>1, BufferAInv, ZenonT(40) DEF Live
<1>2. ASSUME NEW c \in Client, on_bind_single(c)
      PROVE  AInv'
  <2>1. /\ rmsg_state' = [rmsg_state EXCEPT ![c] = "held"]
        /\ UNCHANGED <<recv_msg, conn, link>>
        /\ link[c] \in {"up", "closed"} /\ rmsg_state[c] = "arrived"
        /\ poll'.c = c /\ recv_msg[c].type = "BIND_SINGLE"
    BY <1>2 DEF on_bind_single, Arrived
  <2> QED BY <1>a, <1>b, <2>1, BufferAInv, ZenonT(40) DEF Live
<1>3. ASSUME NEW c \in Client, on_activity(c)
      PROVE  AInv'
  <2>1. /\ rmsg_state' = [rmsg_state EXCEPT ![c] = "held"]
        /\ UNCHANGED <<recv_msg, poll, link>>
        /\ conn' = [conn EXCEPT ![c] = [conn[c] EXCEPT !.evict_sem = conn[c].evict_sem + 1]]
        /\ link[c] \in {"up", "closed"} /\ rmsg_state[c] = "arrived"
        /\ poll.pc = "idle" /\ recv_msg[c].type = "ACTIVITY"
    BY <1>3 DEF on_activity, Arrived
  <2>2. conn[c].evict_sem = 0
    BY <1>b, <2>1
  <2>3. \A d \in Client : /\ "evict_sem" \in DOMAIN conn'[d]
                          /\ conn'[d].evict_sem = IF d = c THEN 1 ELSE conn[d].evict_sem
    BY <1>a, <2>1, <2>2
  <2> QED BY <2>1, <2>3, BufferAInv, Zenon DEF Live
<1>4. ASSUME NEW c \in Client, recv_done(c)
      PROVE  AInv'
  <2>1. /\ rmsg_state' = [rmsg_state EXCEPT ![c] = "posted"]
        /\ UNCHANGED <<recv_msg, poll, link>>
        /\ link[c] \in {"up", "closed"} /\ rmsg_state[c] = "arrived" /\ poll.pc = "idle"
    BY <1>4, Zenon DEF recv_done, PostReceive, Arrived, Die
  <2>2. \A d \in Client : /\ "evict_sem" \in DOMAIN conn'[d]
                          /\ conn'[d].evict_sem = conn[d].evict_sem
    <3>1. \/ UNCHANGED conn
          \/ conn' = [conn EXCEPT ![c] = [conn[c] EXCEPT
                 !.sess = conn[c].sess \ recv_msg[c].rkey,
                 !.mapped_chunk_size = conn[c].mapped_chunk_size - recv_msg[c].size,
                 !.stop_sem = conn[c].stop_sem + 1]]
      BY <1>4, <1>a, Zenon DEF recv_done, Die
    <3> QED BY <1>a, <3>1, ZenonT(40)
  <2>3. conn[c].evict_sem = 0 /\ \A d \in Client : Live(d)' => Live(d)
    BY <1>b, <2>1, SMTT(40) DEF Live
  <2>4. \A d \in Client : /\ "evict_sem" \in DOMAIN conn'[d]
                          /\ conn'[d].evict_sem = IF d = c THEN 0 ELSE conn[d].evict_sem
                          /\ d # c /\ Live(d)' => Live(d)
                          /\ d # c => link'[d] = link[d]
    BY <2>1, <2>2, <2>3, ZenonT(40)
  <2>5. 0 \in Nat /\ ~(poll'.pc # "idle")
    BY <2>1, Zenon
  <2> QED BY <2>1, <2>4, <2>5, BufferAInv, ZenonT(40)
<1>5. ASSUME NEW c \in Client, send_error(c)
      PROVE  AInv'
  <2>1. UNCHANGED <<rmsg_state, recv_msg, conn, poll, link>>
    BY <1>5, ZenonT(40) DEF send_error, Die, wireVars, toDaemon
  <2> QED BY <1>a, <2>1, OtherAInv, ZenonT(40) DEF Live
<1>6. CASE bind_scan
  <2>1. /\ UNCHANGED <<rmsg_state, recv_msg, conn, link>>
        /\ poll.pc # "idle" /\ poll'.c = poll.c
    BY <1>6, Zenon DEF bind_scan, wireVars, toDaemon, LInv, Shape
  <2> QED BY <1>a, <2>1, OtherAInv, ZenonT(40) DEF Live
<1>7. CASE bind_map
  <2>1. /\ UNCHANGED <<rmsg_state, recv_msg, link>>
        /\ poll.pc # "idle" /\ poll'.c = poll.c
        /\ conn' = [conn EXCEPT ![poll.c] = [conn[poll.c] EXCEPT
                                   !.sess = conn[poll.c].sess \cup {poll.i}]]
    BY <1>7, Zenon DEF bind_map, toDaemon, LInv, Shape
  <2>2. \A d \in Client : /\ "evict_sem" \in DOMAIN conn'[d]
                          /\ conn'[d].evict_sem = conn[d].evict_sem
    BY <1>a, <2>1, Zenon
  <2> QED BY <2>1, <2>2, OtherAInv, ZenonT(40) DEF Live
<1>8. CASE bind_send
  <2>0. poll.pc = "send" /\ poll.c \in Client
    BY <1>8, ZenonT(40) DEF bind_send, LInv, Shape
  <2> PICK c \in Client : c = poll.c
    BY <2>0, Zenon
  <2>1. /\ rmsg_state' = [rmsg_state EXCEPT ![c] = "posted"]
        /\ UNCHANGED <<recv_msg, link>> /\ poll' = PollIdle
        /\ conn' = [conn EXCEPT ![c] = [conn[c] EXCEPT
                        !.mapped_chunk_size = conn[c].mapped_chunk_size + 1]]
    BY <1>8, Zenon DEF bind_send, PostReceive
  <2>2. recv_msg[c].type = "BIND_SINGLE" /\ link[c] \in {"up", "closed", "freed"}
    BY <2>0, Zenon DEF AInv, PollHolds
  <2>3. conn[c].evict_sem = 0 \/ ~Live(c)
    BY <2>2 DEF AInv, ActivityHeld, BufferShape
  <2>4. \A d \in Client : /\ "evict_sem" \in DOMAIN conn'[d]
                          /\ conn'[d].evict_sem = conn[d].evict_sem
    BY <1>a, <2>1, <2>2, ZenonT(40)
  <2>5. conn[c].evict_sem \in Nat /\ poll'.pc = "idle"
    BY <2>1, <2>2, ZenonT(40) DEF AInv, BufferShape, PollIdle
  <2>6. \A d \in Client : Live(d)' <=> Live(d)
    BY <2>1, Zenon DEF Live
  <2> DEFINE n == conn[c].evict_sem
  <2>7. \A d \in Client : /\ "evict_sem" \in DOMAIN conn'[d]
                          /\ conn'[d].evict_sem = IF d = c THEN n ELSE conn[d].evict_sem
                          /\ d # c /\ Live(d)' => Live(d)
                          /\ d # c => link'[d] = link[d]
    BY <2>1, <2>4, <2>6, ZenonT(40)
  <2>8. n \in Nat /\ (n = 0 \/ ~Live(c)')
    BY <2>2, <2>3, <2>5, <2>6, ZenonT(40)
  <2> HIDE DEF n
  <2> QED BY <2>1, <2>2, <2>5, <2>7, <2>8, BufferAInv, ZenonT(40)
<1> QED BY <1>1, <1>2, <1>3, <1>4, <1>5, <1>6, <1>7, <1>8, ZenonT(40) DEF PollStep

LEMMA FreeMemAInv ==
    ASSUME LInv, AInv, freeMemStep \/ \E g \in 0 .. NumChunks : evict_mem(g) \/ expand(g)
    PROVE  AInv'
<1>a. \A c \in Client : DOMAIN conn = Client /\ "evict_sem" \in DOMAIN conn[c]
  BY Zenon DEF LInv, Shape, AInv, BufferShape
<1>b. ASSUME UNCHANGED <<rmsg_state, recv_msg, poll, link>>, UNCHANGED conn
      PROVE  AInv'
  BY <1>a, <1>b, OtherAInv, ZenonT(40) DEF Live
<1>1. CASE \/ rdma_session_init \/ free_mem_exit \/ evict_scan \/ evict_free
           \/ evict_next \/ activity_of \/ evict_fault \/ grow
           \/ send_evict \/ send_stop
           \/ \E g \in 0 .. NumChunks : evict_mem(g) \/ expand(g)
  <2>1. UNCHANGED <<rmsg_state, recv_msg, poll, link, conn>>
    BY <1>1, ZenonT(40) DEF rdma_session_init, free_mem_exit, evict_scan, evict_free,
                evict_next, activity_of, evict_fault, grow, evict_mem, send_evict,
                send_stop, expand, OnlyFm, Die, wireVars, toDaemon
  <2> QED BY <1>b, <2>1, Zenon
<1>2. CASE evict_select
  <2>1. UNCHANGED <<rmsg_state, recv_msg, poll, link, conn>>
    BY <1>2, ZenonT(40) DEF evict_select, wireVars, toDaemon
  <2> QED BY <1>b, <2>1
<1>3. CASE evict_choose
  <2>1. UNCHANGED <<rmsg_state, recv_msg, poll, link, conn>>
    BY <1>3, Zenon DEF evict_choose, toDaemon
  <2> QED BY <1>b, <2>1
<1>4. CASE stopped
  <2>1. /\ UNCHANGED <<rmsg_state, recv_msg, poll, link>>
        /\ conn' = [conn EXCEPT ![fm.c] = [conn[fm.c] EXCEPT
                                             !.stop_sem = conn[fm.c].stop_sem - 1]]
    BY <1>4, ZenonT(40) DEF stopped, wireVars, toDaemon
  <2>2. \A d \in Client : /\ "evict_sem" \in DOMAIN conn'[d]
                          /\ conn'[d].evict_sem = conn[d].evict_sem
    BY <1>a, <2>1, ZenonT(40)
  <2> QED BY <2>1, <2>2, OtherAInv, ZenonT(40) DEF Live
<1>5. CASE recv_activity /\ fm.c \in Client
  <2> PICK c \in Client : c = fm.c
    BY <1>5
  <2> DEFINE n == conn[c].evict_sem - 1
  <2>1. /\ rmsg_state' = [rmsg_state EXCEPT ![c] = "posted"]
        /\ UNCHANGED <<recv_msg, poll, link>>
        /\ conn' = [conn EXCEPT ![c] = [conn[c] EXCEPT !.evict_sem = n]]
        /\ conn[c].evict_sem > 0 /\ link[c] # "freed"
    BY <1>5 DEF recv_activity, PostReceive
  <2>2. n \in Nat /\ (Live(c) => n = 0)
    BY <2>1 DEF AInv, BufferShape, ActivityHeld
  <2>3. poll.pc # "idle" => poll.c # c
    BY <2>1 DEF AInv, BufferShape, ActivityHeld, PollHolds, Live
  <2>4. \A d \in Client : Live(d)' <=> Live(d)
    BY <2>1, ZenonT(40) DEF Live
  <2> HIDE DEF n
  <2>5. \A d \in Client : /\ "evict_sem" \in DOMAIN conn'[d]
                          /\ conn'[d].evict_sem = IF d = c THEN n ELSE conn[d].evict_sem
                          /\ d # c /\ Live(d)' => Live(d)
                          /\ d # c => link'[d] = link[d]
    BY <1>a, <2>1, <2>4, ZenonT(40)
  <2> QED BY <2>1, <2>2, <2>3, <2>4, <2>5, BufferAInv, ZenonT(40)
<1>6. CASE recv_activity /\ fm.c \notin Client
  <2>1. /\ rmsg_state' = [rmsg_state EXCEPT ![fm.c] = "posted"]
        /\ UNCHANGED <<recv_msg, poll, link>>
        /\ conn' = [conn EXCEPT ![fm.c] = [conn[fm.c] EXCEPT
                                             !.evict_sem = conn[fm.c].evict_sem - 1]]
    BY <1>6, ZenonT(40) DEF recv_activity, PostReceive
  <2>2. DOMAIN rmsg_state = Client
    BY DEF AInv, BufferShape
  <2>3. /\ DOMAIN rmsg_state' = Client
        /\ \A d \in Client : rmsg_state'[d] = rmsg_state[d] /\ conn'[d] = conn[d]
    BY <1>6, <1>a, <2>1, <2>2, ZenonT(40)
  <2>4. BufferShape' /\ PollHolds' /\ ActivityHeld'
    BY <2>1, <2>3, ZenonT(40) DEF AInv, BufferShape, PollHolds, ActivityHeld, LInv, Shape, Live
  <2> QED BY <2>4, ZenonT(40) DEF AInv
<1> QED BY <1>1, <1>2, <1>3, <1>4, <1>5, <1>6, ZenonT(40) DEF freeMemStep

(* A client reaches the daemon's buffers only through its NIC, and asks    *)
(* for a connection only while it has none.                                *)
LEMMA ClientAInv ==
    ASSUME LInv, AInv, ClientInv, NEW c \in Client,
           ClientStep(c) \/ Network(c) \/ Mishap(c) \/ \E s \in Sess : Trigger(c, s)
    PROVE  AInv'
<1>0. /\ UNCHANGED <<poll, conn>> /\ DOMAIN rmsg_state = Client /\ DOMAIN recv_msg = Client
      /\ link \in [Client -> Links]
      /\ \A d \in Client : "evict_sem" \in DOMAIN conn[d]
  BY Zenon DEF ClientStep, Network, Mishap, Trigger, daemonVars, AInv, BufferShape, LInv, Shape
<1>1. CASE Network(c)
  <2>1. CASE TransmitToClient(c)
    <3>1. UNCHANGED <<rmsg_state, recv_msg, link>>
      BY <2>1, Zenon DEF TransmitToClient, toDaemon
    <3> QED BY <1>0, <3>1, OtherAInv, ZenonT(40) DEF Live
  <2>2. CASE TransmitToDaemon(c)
    <3>1. /\ rmsg_state[c] = "posted" /\ UNCHANGED link
          /\ recv_msg' = [recv_msg EXCEPT ![c] = send_buf[c]]
          /\ rmsg_state' = [rmsg_state EXCEPT ![c] = "arrived"]
      BY <2>2, ZenonT(40) DEF TransmitToDaemon
    <3>2. /\ DOMAIN recv_msg' = Client /\ DOMAIN rmsg_state' = Client
          /\ \A d \in Client : d # c => /\ recv_msg'[d] = recv_msg[d]
                                        /\ rmsg_state'[d] = rmsg_state[d]
      BY <1>0, <3>1, ZenonT(40)
    <3>3. BufferShape'
      BY <1>0, <3>2, ZenonT(40) DEF AInv, BufferShape
    <3>4. PollHolds'
      BY <1>0, <3>1, <3>2, ZenonT(40) DEF AInv, PollHolds, LInv, Shape
    <3>5. ActivityHeld'
      <4> SUFFICES ASSUME NEW d \in Client, Live(d)', conn'[d].evict_sem > 0
                   PROVE  /\ conn'[d].evict_sem = 1
                          /\ rmsg_state'[d] = "held" /\ recv_msg'[d].type = "ACTIVITY"
        BY Zenon DEF ActivityHeld
      <4>1. Live(d)
        BY <3>1, ZenonT(40) DEF Live
      <4> QED BY <1>0, <3>1, <3>2, <4>1, ZenonT(40) DEF AInv, ActivityHeld
    <3> QED BY <3>3, <3>4, <3>5, ZenonT(40) DEF AInv
  <2> QED BY <1>1, <2>1, <2>2, ZenonT(40) DEF Network
<1>2. CASE ~Network(c)
  <2>1. /\ UNCHANGED <<rmsg_state, recv_msg>>
        /\ \/ UNCHANGED link \/ Close(c)
           \/ /\ link[c] \in {"none", "requested"}
              /\ \E l \in {"none", "requested"} : link' = [link EXCEPT ![c] = l]
    <3>1. ASSUME NEW t \in Threads, map_connect(c, t)
          PROVE  /\ UNCHANGED <<rmsg_state, recv_msg>> /\ link[c] = "none"
                 /\ link' = [link EXCEPT ![c] = "requested"]
      <4>1. /\ thr[c][t].pc = "map" /\ cb[c].cb_state = "IDLE"
            /\ UNCHANGED <<rmsg_state, recv_msg>>
            /\ link' = [link EXCEPT ![c] = "requested"]
        BY <3>1, ZenonT(40) DEF map_connect, PC, toDaemon
      <4> QED BY <4>1, Zenon DEF ClientInv, ClientOK, ConnectsOnce, Threads
    <3>2. ASSUME NEW t \in Threads,
                 map_none(c, t) \/ map_query(c, t) \/ map_bind(c, t) \/ map_end(c, t)
          PROVE  UNCHANGED <<link, rmsg_state, recv_msg>>
      BY <3>2, ZenonT(40) DEF map_none, map_query, map_bind, map_end, NoSend, wireVars, toDaemon
    <3>3. CASE \/ established(c) \/ evict_activity(c) \/ evict_unmap(c)
               \/ evict_done(c) \/ evict_remap(c) \/ disc_release(c) \/ disc_remap(c)
               \/ client_recv(c)
      BY <3>3, ZenonT(40) DEF established, evict_activity, evict_unmap, evict_done, evict_remap,
                  disc_release, disc_remap, client_recv, Oops, NoSend, wireVars, toDaemon
    <3>4. CASE Mishap(c) \/ \E s \in Sess : Trigger(c, s)
      BY <3>4, ZenonT(40) DEF Mishap, connect_error, depart, Oops, disconnected, Trigger,
                  rdma_trigger, NoSend, wireVars, toDaemon
    <3> QED BY <1>2, <3>1, <3>2, <3>3, <3>4, ZenonT(40) DEF ClientStep, clientStep
  <2>2. \A d \in Client : /\ Live(d)' => Live(d)
                          /\ link[d] \in {"up", "closed", "freed"} =>
                               link'[d] \in {"up", "closed", "freed"}
    BY <1>0, <2>1, Zenon DEF Close, Live
  <2> QED BY <1>0, <2>1, <2>2, OtherAInv, ZenonT(40)
<1> QED BY <1>1, <1>2, Zenon

(* The inductive invariant behind ActivityHeld: who owns the buffer of     *)
(* each connection while evict_mem asks for the activities.                *)
THEOREM BuffersKept == Spec => []AInv
<1>1. LInv /\ ClientInv /\ AInv /\ [Next]_vars => AInv'
  <2> SUFFICES ASSUME LInv, ClientInv, AInv, [Next]_vars PROVE AInv'
    BY Zenon
  <2>1. CASE Kill \/ UNCHANGED vars
    <3>1. UNCHANGED <<rmsg_state, recv_msg, poll, link, conn>>
      BY <2>1, ZenonT(40) DEF Kill, Die, vars, daemonVars, wireVars, toDaemon
    <3> QED BY <3>1, OtherAInv, ZenonT(40) DEF Live, AInv, BufferShape
  <2>2. CASE MainStep \/ PollStep
    BY <2>2, MainAInv, PollAInv, ZenonT(40)
  <2>3. CASE FreeMemStep \/ Round
    BY <2>3, FreeMemAInv, ZenonT(40) DEF FreeMemStep, Round
  <2> QED BY <2>1, <2>2, <2>3, ClientAInv, ZenonT(40) DEF Next
<1> QED BY InitAInv, Lending, ClientCorrect, <1>1, PTL DEF Spec

(* While an ACTIVITY message waits for evict_mem, its buffer stays out of  *)
(* the receive queue, whatever the three threads, the clients and the      *)
(* network do: on_completion never posts evict_sem twice and no other      *)
(* message overwrites the activities before evict_mem has read them.       *)
THEOREM ActivityKept == Spec => []ActivityHeld
<1>1. AInv => ActivityHeld
  BY DEF AInv
<1> QED BY <1>1, BuffersKept, PTL

=============================================================================
