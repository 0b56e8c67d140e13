------------------------- MODULE ConnectionProofs ---------------------------
(***************************************************************************)
(* Proofs about the daemon's two records of what is lent, for every number *)
(* of clients, chunks and slots and with everything that Env allows: the   *)
(* slots that the connections hold in session.conns, and conn_map.         *)
(***************************************************************************)
EXTENDS InfiniswapProofs

-----------------------------------------------------------------------------
(* conn_map and the connections' sess_chunk_map *)

(* What a connection lists, conn_map gives to its slot. *)
SessInMap ==
    \A c \in Client : Live(c) => \A i \in conn[c].sess : conn_map[i] = conn[c].conn_index

(* No client comes before rdma_session_init, and there is a slot for each. *)
Roomy ==
    /\ "early_connect" \notin Env
    /\ IsFiniteSet(Client) /\ Cardinality(Client) <= NumSlots

NoneFreed == \A c \in Client : link[c] # "freed"

(* The clients before rdma_session_init. *)
Untouched(c) ==
    /\ link[c] = "none" /\ ~cb[c].established
    /\ thr[c]["trig"].pc = "idle" /\ thr[c]["evict"].pc = "none"
    /\ thr[c]["disc"].pc = "none"

NoneYet == Roomy /\ fm.pc = "init" => \A c \in Client : Untouched(c)

SlotShape ==
    /\ DOMAIN conns = Slots /\ DOMAIN conns_state = Slots
    /\ \A c \in Client : "established" \in DOMAIN cb[c]

(* Slots and connections refer to each other, and a chunk that conn_map    *)
(* gives to a slot is listed by a connection.                              *)
SlotsAgree ==
    /\ \A c \in Client : Live(c) =>
         /\ conns[conn[c].conn_index] = c
         /\ conns_state[conn[c].conn_index] # "IDLE"
    /\ \A s \in Slots : conns_state[s] # "IDLE" =>
         /\ conns[s] \in Client /\ Live(conns[s])
         /\ conn[conns[s]].conn_index = s
    /\ \A i \in Chunks : conn_map[i] # -1 =>
         \E d \in Client : Live(d) /\ i \in conn[d].sess

MInv ==
    /\ SlotShape /\ SessInMap /\ NoneYet
    /\ Roomy /\ NoneFreed /\ fm.pc # "init" => SlotsAgree

LEMMA InitMInv == Init => MInv
<1> SUFFICES ASSUME Init PROVE MInv
  OBVIOUS
<1>1. SlotShape /\ fm.pc = "init"
  BY ZenonT(40) DEF Init, DaemonInit, ClientInit, NewCb, SlotShape, FmAt
<1>2. \A c \in Client : Untouched(c) /\ ~Live(c)
  BY ZenonT(40) DEF Init, WireInit, ClientInit, NewCb, ThreadAt, Untouched, Live
<1> QED BY <1>1, <1>2, ZenonT(40) DEF MInv, SessInMap, NoneYet

(* A step that leaves the slots, conn_map and the lists of chunks alone. *)
LEMMA OtherMInv ==
    ASSUME LInv, MInv, UNCHANGED <<conn_map, conns, conns_state>>,
           SlotShape', NoneYet',
           fm'.pc # "init" => fm.pc # "init",
           NoneFreed' => NoneFreed,
           \A d \in Client : /\ Live(d)' <=> Live(d)
                             /\ conn'[d].conn_index = conn[d].conn_index
                             /\ conn'[d].sess = conn[d].sess
    PROVE  MInv'
<1>1. SessInMap'
  BY ZenonT(40) DEF MInv, SessInMap
<1>2. SlotsAgree => SlotsAgree'
  BY ZenonT(40) DEF SlotsAgree
<1> QED BY <1>1, <1>2, ZenonT(40) DEF MInv

LEMMA DaemonNoneYet ==
    ASSUME MInv, UNCHANGED clientVars, fm'.pc = "init" => fm.pc = "init",
           \A d \in Client : link[d] = "none" => link'[d] = "none"
    PROVE  NoneYet' /\ (SlotShape' <=> DOMAIN conns' = Slots /\ DOMAIN conns_state' = Slots)
BY ZenonT(40) DEF MInv, NoneYet, Untouched, clientVars, SlotShape

(* When every slot is taken, there are more clients than slots. *)
LEMMA SlotLeft ==
    ASSUME LInv, MInv, Roomy, NoneFreed, fm.pc # "init", NEW c \in Client, ~Live(c)
    PROVE  IdleSlots # {}
<1> SUFFICES ASSUME IdleSlots = {} PROVE FALSE
  BY ZenonT(40)
<1>1. \A s \in Slots : /\ conns[s] \in Client \ {c} /\ conn[conns[s]].conn_index = s
  BY DEF IdleSlots, MInv, SlotsAgree
<1>2. IsFiniteSet(Client \ {c}) /\ Cardinality(Client \ {c}) = Cardinality(Client) - 1
  BY FS_RemoveElement DEF Roomy
<1>3. IsFiniteSet(Slots) /\ Cardinality(Slots) = NumSlots
  <2>1. 0 \in Int /\ NumSlots - 1 \in Int /\ NumSlots \in Nat /\ NumSlots > 0
    BY SizeAssumption
  <2>2. /\ IsFiniteSet(0 .. NumSlots - 1)
        /\ Cardinality(0 .. NumSlots - 1) =
             IF 0 > NumSlots - 1 THEN 0 ELSE (NumSlots - 1) - 0 + 1
    BY <2>1, FS_Interval, ZenonT(40)
  <2> QED BY <2>1, <2>2 DEF Slots
<1>4. Cardinality(Client) \in Nat
  BY FS_CardinalityType, ZenonT(40) DEF Roomy
<1> DEFINE f == [s \in Slots |-> conns[s]]
<1>5. f \in [Slots -> Client \ {c}]
  BY <1>1, ZenonT(40)
<1>6. Cardinality(Slots) > Cardinality(Client \ {c})
  BY <1>2, <1>3, <1>4, SizeAssumption, SMTT(40) DEF Roomy
<1> HIDE DEF f
<1>7. \E x, y \in Slots : x # y /\ f[x] = f[y]
  BY <1>2, <1>3, <1>5, <1>6, FS_PigeonHole, SMTT(40)
<1> QED BY <1>1, <1>7, ZenonT(40) DEF f

LEMMA MainMInv ==
    ASSUME LInv, MInv, MainStep
    PROVE  MInv'
<1>0. PICK c \in Client :
        on_connect_request(c) \/ on_connection(c) \/ destroy_connection(c)
  BY DEF MainStep
<1>a. /\ link \in [Client -> Links] /\ DOMAIN conn = Client
      /\ DOMAIN conns = Slots /\ DOMAIN conns_state = Slots
      /\ \A d \in Client : conn[d].conn_index \in Slots /\ conn[d].sess \subseteq Chunks
  BY DEF LInv, Shape, MInv, SlotShape
<1>b. UNCHANGED <<clientVars, fm>>
  BY Zenon DEF MainStep, on_connect_request, on_connection, destroy_connection, daemonVars, Die
<1>1. CASE on_connect_request(c)
  <2>1. PICK s \in SlotGiven :
          /\ conn' = [conn EXCEPT ![c] = NewConn(s)]
          /\ IF IdleSlots = {}
             THEN UNCHANGED <<conns, conns_state>>
             ELSE /\ conns' = [conns EXCEPT ![s] = c]
                  /\ conns_state' = [conns_state EXCEPT ![s] = "CONNECTED"]
    BY <1>1, ZenonT(40) DEF on_connect_request
  <2>2. /\ link' = [link EXCEPT ![c] = "accepted"] /\ link[c] = "requested"
        /\ UNCHANGED conn_map /\ ~Live(c)
    BY <1>1, ZenonT(40) DEF on_connect_request, Live
  <2>3. \A d \in Client : /\ link'[d] = IF d = c THEN "accepted" ELSE link[d]
                          /\ conn'[d] = IF d = c THEN NewConn(s) ELSE conn[d]
    BY <1>a, <2>1, <2>2, ZenonT(40)
  <2>4. \A d \in Client : Live(d)' <=> d = c \/ Live(d)
    BY <2>3, ZenonT(40) DEF Live
  <2>5. SlotShape' /\ NoneYet'
    <3>1. DOMAIN conns' = Slots /\ DOMAIN conns_state' = Slots
      BY <1>a, <2>1, ZenonT(40)
    <3>2. \A d \in Client : link[d] = "none" => link'[d] = "none"
      BY <2>2, <2>3, ZenonT(40)
    <3> QED BY <1>b, <3>1, <3>2, DaemonNoneYet, ZenonT(40)
  <2>6. NewConn(s).sess = {} /\ NewConn(s).conn_index = s
    BY ZenonT(40) DEF NewConn
  <2>7. SessInMap'
    BY <2>2, <2>3, <2>4, <2>6, SMTT(40) DEF MInv, SessInMap
  <2>8. ASSUME Roomy, NoneFreed', fm.pc # "init"
        PROVE  SlotsAgree'
    <3>1. NoneFreed
      BY <2>2, <2>3, <2>8, ZenonT(40) DEF NoneFreed
    <3>2. SlotsAgree /\ s \in Slots /\ conns_state[s] = "IDLE" /\ IdleSlots # {}
      BY <2>2, <2>8, <3>1, SlotLeft, ZenonT(40) DEF MInv, SlotGiven, IdleSlots
    <3>3. \A r \in Slots : /\ conns'[r] = IF r = s THEN c ELSE conns[r]
                           /\ conns_state'[r] = IF r = s THEN "CONNECTED" ELSE conns_state[r]
      BY <1>a, <2>1, <3>2, ZenonT(40)
    <3>4. \A d \in Client : Live(d)' =>
            /\ conns'[conn'[d].conn_index] = d
            /\ conns_state'[conn'[d].conn_index] # "IDLE"
      BY <1>a, <2>3, <2>4, <2>6, <3>2, <3>3, SMTT(40) DEF SlotsAgree
    <3>5. \A r \in Slots : conns_state'[r] # "IDLE" =>
            /\ conns'[r] \in Client /\ conn'[conns'[r]].conn_index = r
            /\ conns'[r] = c \/ Live(conns'[r])
      <4> SUFFICES ASSUME NEW r \in Slots, conns_state'[r] # "IDLE"
                   PROVE  /\ conns'[r] \in Client /\ conn'[conns'[r]].conn_index = r
                          /\ conns'[r] = c \/ (r # s /\ conns'[r] = conns[r] /\ Live(conns[r]))
        BY ZenonT(40) DEF Live
      <4>1. CASE r = s
        BY <2>3, <2>6, <3>3, <4>1, ZenonT(40)
      <4>2. CASE r # s
        <5>1. conns'[r] = conns[r] /\ conns_state[r] # "IDLE"
          BY <3>3, <4>2, ZenonT(40)
        <5>2. conns[r] \in Client /\ Live(conns[r]) /\ conn[conns[r]].conn_index = r
          BY <3>2, <5>1, ZenonT(40) DEF SlotsAgree
        <5>3. conns[r] # c
          BY <2>2, <5>2, ZenonT(40)
        <5> QED BY <2>3, <4>2, <5>1, <5>2, <5>3, ZenonT(40)
      <4> QED BY <4>1, <4>2, Zenon
    <3>6. \A i \in Chunks : conn_map'[i] # -1 =>
            \E d \in Client : Live(d)' /\ i \in conn'[d].sess
      BY <2>2, <2>3, <2>4, <3>2, ZenonT(40) DEF SlotsAgree
    <3> QED BY <2>4, <3>4, <3>5, <3>6, ZenonT(40) DEF SlotsAgree, Live
  <2> QED BY <1>b, <2>5, <2>7, <2>8, ZenonT(40) DEF MInv
<1>2. CASE on_connection(c)
  <2>1. /\ UNCHANGED <<conn_map, conns, conns_state, conn, fm>>
        /\ link[c] = "accepted" /\ link' = [link EXCEPT ![c] = "up"]
    BY <1>2, ZenonT(40) DEF on_connection, daemonVars, session
  <2>2. \A d \in Client : link'[d] = IF d = c THEN "up" ELSE link[d]
    BY <1>a, <2>1, ZenonT(40)
  <2>3. SlotShape' /\ NoneYet'
    <3>1. \A d \in Client : link[d] = "none" => link'[d] = "none"
      BY <2>1, <2>2, Zenon
    <3> QED BY <1>a, <1>b, <2>1, <3>1, DaemonNoneYet, ZenonT(40)
  <2> QED BY <1>b, <2>1, <2>2, <2>3, OtherMInv, ZenonT(40) DEF Live, NoneFreed
<1>3. CASE destroy_connection(c)
  <2>1. link[c] = "closed" /\ link' = [link EXCEPT ![c] = "freed"] /\ UNCHANGED conn
    BY <1>3, ZenonT(40) DEF destroy_connection, Die
  <2>2. \A d \in Client : link'[d] = IF d = c THEN "freed" ELSE link[d]
    BY <1>a, <2>1, ZenonT(40)
  <2>3. \/ UNCHANGED conn_map
        \/ conn_map' = [i \in Chunks |-> IF i \in conn[c].sess THEN -1 ELSE conn_map[i]]
    BY <1>3, Zenon DEF destroy_connection, Die, session
  <2>4. DOMAIN conns' = Slots /\ DOMAIN conns_state' = Slots
    BY <1>3, <1>a, ZenonT(40) DEF destroy_connection, Die, session
  <2>5. SlotShape' /\ NoneYet'
    <3>1. \A d \in Client : link[d] = "none" => link'[d] = "none"
      BY <2>1, <2>2, ZenonT(40)
    <3> QED BY <1>b, <2>4, <3>1, DaemonNoneYet, ZenonT(40)
  <2>6. SessInMap'
    <3> SUFFICES ASSUME NEW d \in Client, Live(d)', NEW i \in conn[d].sess
                 PROVE  conn_map'[i] = conn[d].conn_index
      BY <2>1, Zenon DEF SessInMap
    <3>1. d # c /\ Live(d) /\ Live(c) /\ i \in Chunks
      BY <1>a, <2>1, <2>2, ZenonT(40) DEF Live
    <3>2. i \notin conn[c].sess
      BY <3>1, ZenonT(40) DEF LInv, LentOnce
    <3> QED BY <2>3, <3>1, <3>2, ZenonT(40) DEF MInv, SessInMap
  <2>7. ~NoneFreed'
    BY <2>2, ZenonT(40) DEF NoneFreed
  <2> QED BY <2>5, <2>6, <2>7, ZenonT(40) DEF MInv
<1> QED BY <1>0, <1>1, <1>2, <1>3, ZenonT(40)

LEMMA PollMInv ==
    ASSUME LInv, AInv, MInv, PollStep
    PROVE  MInv'
<1>a. /\ DOMAIN conn = Client /\ conn_map \in [Chunks -> Slots \cup {-1}]
      /\ DOMAIN conns = Slots /\ DOMAIN conns_state = Slots
      /\ \A d \in Client : /\ {"conn_index", "sess"} \subseteq DOMAIN conn[d]
                           /\ conn[d].conn_index \in Slots /\ conn[d].sess \subseteq Chunks
  BY Zenon DEF LInv, Shape, MInv, SlotShape
<1>b. UNCHANGED <<clientVars, fm, link>>
  BY Zenon DEF PollStep, on_query, on_bind_single, on_activity, recv_done, send_error,
         bind_scan, bind_map, bind_send, daemonVars, Die, wireVars
<1>c. DOMAIN conns' = Slots /\ DOMAIN conns_state' = Slots => SlotShape' /\ NoneYet'
  BY <1>b, DaemonNoneYet
<1>d. /\ \A d \in Client : Live(d)' <=> Live(d)
      /\ NoneFreed' <=> NoneFreed
  BY <1>b, ZenonT(40) DEF Live, NoneFreed
<1>1. ASSUME UNCHANGED <<conn_map, conns, conns_state>>,
             \A d \in Client : /\ conn'[d].conn_index = conn[d].conn_index
                               /\ conn'[d].sess = conn[d].sess
      PROVE  MInv'
  BY <1>a, <1>b, <1>c, <1>d, <1>1, OtherMInv, ZenonT(40)
<1>2. ASSUME NEW c \in Client, on_query(c) \/ on_bind_single(c) \/ send_error(c)
      PROVE  MInv'
  <2>1. UNCHANGED <<conn_map, conns, conns_state, conn>>
    BY <1>2, ZenonT(40) DEF on_query, on_bind_single, send_error, daemonVars, session, Die
  <2> QED BY <1>1, <2>1, ZenonT(40)
<1>3. ASSUME NEW c \in Client, on_activity(c)
      PROVE  MInv'
  <2>1. /\ UNCHANGED <<conn_map, conns, conns_state>>
        /\ conn' = [conn EXCEPT ![c] = [conn[c] EXCEPT !.evict_sem = conn[c].evict_sem + 1]]
    BY <1>3, ZenonT(40) DEF on_activity, session
  <2> QED BY <1>a, <1>1, <2>1, ZenonT(40)
<1>4. CASE bind_scan
  <2>1. UNCHANGED <<conn_map, conns, conns_state, conn>>
    BY <1>4, ZenonT(40) DEF bind_scan, session
  <2> QED BY <1>1, <2>1, ZenonT(40)
<1>5. CASE bind_map
  <2>0. poll.pc = "map" /\ poll.c \in Client /\ poll.i \in Chunks
    BY <1>5, ZenonT(40) DEF bind_map, LInv, Shape
  <2> PICK c \in Client, i \in Chunks : c = poll.c /\ i = poll.i
    BY <2>0, ZenonT(40)
  <2>1. /\ conn' = [conn EXCEPT ![c] = [conn[c] EXCEPT !.sess = conn[c].sess \cup {i}]]
        /\ conn_map' = [conn_map EXCEPT ![i] = conn[c].conn_index]
        /\ UNCHANGED <<conns, conns_state>>
    BY <1>5, ZenonT(40) DEF bind_map
  <2>2. \A d \in Client : /\ conn'[d].conn_index = conn[d].conn_index
                          /\ conn'[d].sess = IF d = c THEN conn[d].sess \cup {i}
                                                      ELSE conn[d].sess
    BY <1>a, <2>1, ZenonT(40)
  <2>3. \A d \in Client : Live(d) => i \notin conn[d].sess
    BY <2>0, ZenonT(40) DEF LInv, LentOnce, FoundIsFree
  <2>4. \A j \in Chunks : conn_map'[j] = IF j = i THEN conn[c].conn_index ELSE conn_map[j]
    BY <1>a, <2>1, ZenonT(40)
  <2>5. SessInMap'
    <3> SUFFICES ASSUME NEW d \in Client, Live(d), NEW j \in conn'[d].sess
                 PROVE  conn_map'[j] = conn[d].conn_index
      BY <1>d, <2>2, Zenon DEF SessInMap
    <3>1. CASE d = c /\ j = i
      BY <2>4, <3>1, ZenonT(40)
    <3>2. CASE j \in conn[d].sess
      BY <1>a, <2>3, <2>4, <3>2, ZenonT(40) DEF MInv, SessInMap
    <3> QED BY <2>2, <3>1, <3>2, ZenonT(40)
  <2>6. ASSUME Roomy, NoneFreed, fm.pc # "init"
        PROVE  SlotsAgree'
    <3>1. SlotsAgree
      BY <2>6, ZenonT(40) DEF MInv
    <3>2. Live(c)
      BY <2>0, <2>6, ZenonT(40) DEF AInv, PollHolds, NoneFreed, Live
    <3>3. \A j \in Chunks : conn_map'[j] # -1 =>
            \E d \in Client : Live(d)' /\ j \in conn'[d].sess
      BY <1>d, <2>2, <2>4, <3>1, <3>2, ZenonT(40) DEF SlotsAgree
    <3>4. \A d \in Client : Live(d)' =>
            /\ conns'[conn'[d].conn_index] = d
            /\ conns_state'[conn'[d].conn_index] # "IDLE"
      BY <1>d, <2>1, <2>2, <3>1 DEF SlotsAgree
    <3>5. \A s \in Slots : conns_state'[s] # "IDLE" =>
            /\ conns'[s] \in Client /\ Live(conns[s])
            /\ conn'[conns'[s]].conn_index = s
      BY <2>1, <2>2, <3>1 DEF SlotsAgree
    <3> QED BY <1>b, <2>1, <3>3, <3>4, <3>5 DEF SlotsAgree, Live
  <2> QED BY <1>a, <1>b, <1>c, <1>d, <2>1, <2>5, <2>6, ZenonT(40) DEF MInv
<1>6. CASE bind_send
  <2>0. poll.pc = "send" /\ poll.c \in Client
    BY <1>6, ZenonT(40) DEF bind_send, LInv, Shape
  <2> PICK c \in Client : c = poll.c
    BY <2>0, ZenonT(40)
  <2>1. /\ conn' = [conn EXCEPT ![c] = [conn[c] EXCEPT
                        !.mapped_chunk_size = conn[c].mapped_chunk_size + 1]]
        /\ conns_state' = [conns_state EXCEPT ![conn[c].conn_index] = "MAPPED"]
        /\ UNCHANGED <<conn_map, conns>>
    BY <1>6, ZenonT(40) DEF bind_send
  <2>2. \A d \in Client : /\ conn'[d].conn_index = conn[d].conn_index
                          /\ conn'[d].sess = conn[d].sess
    BY <1>a, <2>1, ZenonT(40)
  <2>3. SessInMap'
    BY <1>d, <2>1, <2>2, ZenonT(40) DEF MInv, SessInMap
  <2>4. ASSUME Roomy, NoneFreed, fm.pc # "init"
        PROVE  SlotsAgree'
    <3>1. SlotsAgree
      BY <2>4, ZenonT(40) DEF MInv
    <3>2. Live(c)
      BY <2>0, <2>4, ZenonT(40) DEF AInv, PollHolds, NoneFreed, Live
    <3>3. \A s \in Slots : conns_state'[s] # "IDLE" <=> conns_state[s] # "IDLE"
      BY <1>a, <2>1, <3>1, <3>2, ZenonT(40) DEF SlotsAgree
    <3> QED BY <1>a, <1>b, <2>1, <2>2, <3>1, <3>3, SMTT(40) DEF SlotsAgree, Live
  <2>5. DOMAIN conns' = Slots /\ DOMAIN conns_state' = Slots
    BY <1>a, <2>1, ZenonT(40)
  <2> QED BY <1>b, <1>c, <1>d, <2>3, <2>4, <2>5, ZenonT(40) DEF MInv
<1>7. ASSUME NEW c \in Client, recv_done(c)
      PROVE  MInv'
  <2> DEFINE gone == recv_msg[c].rkey
  <2>1. CASE UNCHANGED <<conn_map, conns, conns_state, conn>>
    BY <1>1, <2>1, ZenonT(40)
  <2>2. CASE /\ conn' = [conn EXCEPT ![c] = [conn[c] EXCEPT
                 !.sess = conn[c].sess \ gone,
                 !.mapped_chunk_size = conn[c].mapped_chunk_size - recv_msg[c].size,
                 !.stop_sem = conn[c].stop_sem + 1]]
             /\ gone \subseteq conn[c].sess
             /\ conn_map' = [i \in Chunks |-> IF i \in gone THEN -1 ELSE conn_map[i]]
             /\ UNCHANGED conns
             /\ \/ UNCHANGED conns_state
                \/ conns_state' = [conns_state EXCEPT ![conn[c].conn_index] = "CONNECTED"]
    <3>0. Live(c)
      BY <1>7, ZenonT(40) DEF recv_done, Arrived, Live
    <3>1. \A d \in Client : /\ conn'[d].conn_index = conn[d].conn_index
                            /\ conn'[d].sess = IF d = c THEN conn[d].sess \ gone
                                                        ELSE conn[d].sess
      BY <1>a, <2>2, ZenonT(40)
    <3>2. \A d \in Client \ {c} : Live(d) => conn[d].sess \cap gone = {}
      BY <2>2, <3>0, ZenonT(40) DEF LInv, LentOnce
    <3> HIDE DEF gone
    <3>3. SessInMap'
      <4> SUFFICES ASSUME NEW d \in Client, Live(d), NEW j \in conn'[d].sess
                   PROVE  conn_map'[j] = conn[d].conn_index
        BY <1>d, <3>1, Zenon DEF SessInMap
      <4>1. j \in conn[d].sess /\ j \notin gone /\ j \in Chunks
        BY <1>a, <3>1, <3>2, ZenonT(40)
      <4> QED BY <2>2, <4>1, ZenonT(40) DEF MInv, SessInMap
    <3>4. ASSUME Roomy, NoneFreed, fm.pc # "init"
          PROVE  SlotsAgree'
      <4>1. SlotsAgree
        BY <3>4, Zenon DEF MInv
      <4>2. \A s \in Slots : conns_state'[s] # "IDLE" <=> conns_state[s] # "IDLE"
        BY <1>a, <2>2, <3>0, <4>1, SMTT(40) DEF SlotsAgree
      <4>3. \A j \in Chunks : conn_map'[j] # -1 =>
              \E d \in Client : Live(d)' /\ j \in conn'[d].sess
        BY <1>d, <2>2, <3>1, <4>1, SMTT(40) DEF SlotsAgree
      <4>4. \A d \in Client : Live(d)' =>
              /\ conns'[conn'[d].conn_index] = d
              /\ conns_state'[conn'[d].conn_index] # "IDLE"
        BY <1>a, <1>d, <2>2, <3>1, <4>1, <4>2, SMTT(40) DEF SlotsAgree
      <4>5. \A s \in Slots : conns_state'[s] # "IDLE" =>
              /\ conns'[s] \in Client /\ Live(conns[s])
              /\ conn'[conns'[s]].conn_index = s
        BY <2>2, <3>1, <4>1, <4>2, ZenonT(40) DEF SlotsAgree
      <4> QED BY <1>b, <2>2, <4>3, <4>4, <4>5, ZenonT(40) DEF SlotsAgree, Live
    <3>5. DOMAIN conns' = Slots /\ DOMAIN conns_state' = Slots
      BY <1>a, <2>2, Zenon
    <3> QED BY <1>b, <1>c, <1>d, <3>3, <3>4, <3>5, ZenonT(40) DEF MInv
  <2> QED BY <1>7, <2>1, <2>2, ZenonT(40) DEF recv_done, Die, session
<1> QED BY <1>2, <1>3, <1>4, <1>5, <1>6, <1>7, ZenonT(40) DEF PollStep

LEMMA FreeMemMInv ==
    ASSUME LInv, MInv, UNCHANGED clientVars,
           freeMemStep \/ \E g \in 0 .. NumChunks : evict_mem(g) \/ expand(g)
    PROVE  MInv'
<1>a. /\ DOMAIN conn = Client /\ DOMAIN conns = Slots /\ DOMAIN conns_state = Slots
      /\ \A d \in Client : {"conn_index", "sess"} \subseteq DOMAIN conn[d]
      /\ "pc" \in DOMAIN fm
  BY Zenon DEF LInv, Shape, MInv, SlotShape
<1>1. CASE rdma_session_init
  <2>1. /\ conn_map' = [i \in Chunks |-> -1] /\ conns' = [s \in Slots |-> None]
        /\ conns_state' = [s \in Slots |-> "IDLE"] /\ fm.pc = "init" /\ fm'.pc = "idle"
        /\ UNCHANGED <<conn, link>>
    BY <1>1, ZenonT(40) DEF rdma_session_init, wireVars, FmAt
  <2>2. SlotShape' /\ NoneYet'
    BY <2>1, DaemonNoneYet, ZenonT(40)
  <2>3. \A c \in Client : Live(c) => conn[c].sess = {}
    BY <2>1, ZenonT(40) DEF LInv, NothingBeforeInit
  <2>4. SessInMap'
    BY <2>1, <2>3, ZenonT(40) DEF SessInMap, Live
  <2>5. ASSUME Roomy PROVE SlotsAgree'
    <3>1. \A c \in Client : ~Live(c)
      BY <2>1, <2>5, ZenonT(40) DEF MInv, NoneYet, Untouched, Live
    <3> QED BY <2>1, <3>1, ZenonT(40) DEF SlotsAgree, Live
  <2> QED BY <2>2, <2>4, <2>5, ZenonT(40) DEF MInv
<1>2. ASSUME UNCHANGED <<conn_map, conns, conns_state, link>>,
             \A d \in Client : /\ conn'[d].conn_index = conn[d].conn_index
                               /\ conn'[d].sess = conn[d].sess,
             fm.pc # "init", fm'.pc # "init" \/ fm' = fm
      PROVE  MInv'
  <2>1. SlotShape' /\ NoneYet'
    BY <1>2, <1>a, DaemonNoneYet, ZenonT(40)
  <2> QED BY <1>2, <2>1, OtherMInv, ZenonT(40) DEF Live, NoneFreed
<1>3. CASE \/ free_mem_exit \/ evict_scan \/ evict_free
           \/ evict_next \/ activity_of \/ grow \/ send_evict \/ send_stop
           \/ \E g \in 0 .. NumChunks : evict_mem(g) \/ expand(g)
  <2>1. UNCHANGED <<conn_map, conns, conns_state, link, conn>> /\ fm.pc # "init"
    BY <1>3, ZenonT(40) DEF free_mem_exit, evict_scan, evict_free, session,
                evict_next, activity_of, grow, evict_mem, send_evict,
                send_stop, expand, OnlyFm, wireVars
  <2>2. fm'.pc # "init"
    <3>1. CASE free_mem_exit
      BY <3>1, FmAtPc, ZenonT(40) DEF free_mem_exit
    <3>2. CASE evict_scan
      BY <1>a, <3>2, ZenonT(40) DEF evict_scan, Goto
    <3>3. CASE evict_free
      BY <1>a, <3>3, FmAtPc, Zenon DEF evict_free
    <3>4. CASE evict_next
      BY <1>a, <3>4, FmAtPc, Zenon DEF evict_next, Goto
    <3>5. CASE activity_of
      BY <1>a, <3>5, ZenonT(40) DEF activity_of
    <3>6. CASE grow
      BY <1>a, <3>6, FmAtPc, Zenon DEF grow
    <3>7. CASE \E g \in 0 .. NumChunks : evict_mem(g) \/ expand(g)
      BY <3>7, FmAtPc, ZenonT(40) DEF evict_mem, expand
    <3>8. CASE send_evict \/ send_stop
      BY <1>a, <3>8, ZenonT(40) DEF send_evict, send_stop
    <3> QED BY <1>3, <3>1, <3>2, <3>3, <3>4, <3>5, <3>6, <3>7, <3>8, ZenonT(40)
  <2> QED BY <1>2, <2>1, <2>2, ZenonT(40)
<1>4. CASE evict_select
  <2>1. UNCHANGED <<conn_map, conns, conns_state, link, conn>> /\ fm.pc # "init"
    BY <1>4, Zenon DEF evict_select, wireVars
  <2>2. fm'.pc # "init"
    BY <1>4, FmAtPc, ZenonT(40) DEF evict_select
  <2> QED BY <1>2, <2>1, <2>2
<1>5. CASE evict_choose
  <2>1. UNCHANGED <<conn_map, conns, conns_state, link, conn>> /\ fm.pc # "init"
    BY <1>5, ZenonT(40) DEF evict_choose, session
  <2>2. fm'.pc # "init"
    BY <1>5, <1>a, ZenonT(40) DEF evict_choose
  <2> QED BY <1>2, <2>1, <2>2
<1>6. CASE recv_activity \/ stopped
  <2>1. /\ UNCHANGED <<conn_map, conns, conns_state, link>> /\ fm.pc # "init"
        /\ \/ conn' = [conn EXCEPT ![fm.c] = [conn[fm.c] EXCEPT
                         !.stop_sem = conn[fm.c].stop_sem - 1]]
           \/ conn' = [conn EXCEPT ![fm.c] = [conn[fm.c] EXCEPT
                         !.evict_sem = conn[fm.c].evict_sem - 1]]
    BY <1>6, ZenonT(40) DEF recv_activity, stopped, wireVars, session
  <2>2. \A d \in Client : /\ conn'[d].conn_index = conn[d].conn_index
                          /\ conn'[d].sess = conn[d].sess
    BY <1>a, <2>1
  <2>3. fm'.pc # "init"
    BY <1>6, <1>a, ZenonT(40) DEF recv_activity, stopped
  <2> QED BY <1>2, <2>1, <2>2, <2>3, ZenonT(40)
<1>7. CASE evict_fault
  <2>1. UNCHANGED <<conn_map, conns, conns_state, link, conn, fm>> /\ fm.pc # "init"
    BY <1>7, ZenonT(40) DEF evict_fault, Die, session, wireVars
  <2> QED BY <1>2, <2>1, ZenonT(40)
<1> QED BY <1>1, <1>3, <1>4, <1>5, <1>6, <1>7, ZenonT(40) DEF freeMemStep

LEMMA ClientMInv ==
    ASSUME LInv, WInv, ClientInv, MInv, NEW c \in Client,
           ClientStep(c) \/ Network(c) \/ Mishap(c) \/ \E s \in Sess : Trigger(c, s)
    PROVE  MInv'
<1>0. /\ UNCHANGED <<conn_map, conns, conns_state, conn, fm>>
      /\ link \in [Client -> Links] /\ ClientInv'
  <2>1. UNCHANGED <<conn_map, conns, conns_state, conn, fm>>
    BY ZenonT(40) DEF ClientStep, Network, Mishap, Trigger, daemonVars, session
  <2>2. ClientInv'
    BY NextClientInv, ZenonT(40) DEF Next
  <2> QED BY <2>1, <2>2, ZenonT(40) DEF ClientInv
<1>1. /\ \/ UNCHANGED link \/ Close(c)
         \/ /\ link[c] \in {"none", "requested"}
            /\ \E l \in {"none", "requested"} : link' = [link EXCEPT ![c] = l]
      /\ Untouched(c) /\ fm.pc = "init" /\ Roomy =>
           UNCHANGED thr /\ (UNCHANGED link \/ Close(c))
  <2>1. ASSUME NEW t \in Threads, map_connect(c, t)
        PROVE  /\ link[c] = "none" /\ ~Untouched(c)
               /\ link' = [link EXCEPT ![c] = "requested"]
    <3>1. /\ thr[c][t].pc = "map" /\ cb[c].cb_state = "IDLE"
          /\ link' = [link EXCEPT ![c] = "requested"]
      BY <2>1, ZenonT(40) DEF map_connect, PC
    <3> QED BY <3>1, Zenon DEF ClientInv, ClientOK, ConnectsOnce, Threads, Untouched
  <2>2. ASSUME NEW t \in Threads,
               map_none(c, t) \/ map_query(c, t) \/ map_bind(c, t) \/ map_end(c, t)
        PROVE  UNCHANGED link /\ ~Untouched(c)
    BY <2>2, ZenonT(40) DEF map_none, map_query, map_bind, map_end, NoSend, wireVars, PC,
                Untouched, Threads
  <2>3. CASE \/ evict_activity(c) \/ evict_unmap(c)
             \/ evict_done(c) \/ evict_remap(c) \/ disc_release(c) \/ disc_remap(c)
    BY <2>3, ZenonT(40) DEF evict_activity, evict_unmap, evict_done, evict_remap,
                disc_release, disc_remap, Oops, NoSend, wireVars, PC, Untouched
  <2>4. CASE established(c) \/ client_recv(c)
    BY <2>4, ZenonT(40) DEF established, client_recv, NoSend, wireVars
  <2>5. CASE Mishap(c)
    BY <2>5 DEF Mishap, connect_error, depart, Oops, disconnected, Untouched
  <2>6. CASE \E s \in Sess : Trigger(c, s)
    BY <2>6, ZenonT(40) DEF Trigger, rdma_trigger, NoSend, wireVars, Roomy
  <2>7. CASE Network(c)
    BY <2>7, ZenonT(40) DEF Network, TransmitToClient, TransmitToDaemon, clientVars
  <2> QED BY <2>1, <2>2, <2>3, <2>4, <2>5, <2>6, <2>7, ZenonT(40) DEF ClientStep, clientStep
<1>2. /\ DOMAIN cb' = Client /\ DOMAIN cb = Client
      /\ \A d \in Client : d # c => cb'[d] = cb[d] /\ thr'[d] = thr[d] /\ link'[d] = link[d]
      /\ "established" \in DOMAIN cb'[c]
  <2>1. \A d \in Client : DOMAIN cb'[d] = CbFields
    BY <1>0, ZenonT(40) DEF ClientInv, ClientOK, IsCb
  <2>2. DOMAIN cb' = Client /\ DOMAIN cb = Client /\ DOMAIN thr = Client
    BY <1>0, ZenonT(40) DEF ClientInv
  <2>3. \A d \in Client : d # c => link'[d] = link[d]
    BY <1>0, <1>1, ZenonT(40) DEF Close
  <2>4. \A d \in Client : d # c => cb'[d] = cb[d] /\ thr'[d] = thr[d]
    <3>1. \E b, th : Becomes(cb, cb', c, b) /\ Becomes(thr, thr', c, th)
      <4>1. ASSUME NEW t \in Threads, \/ map_none(c, t) \/ map_query(c, t)
                                      \/ map_connect(c, t) \/ map_bind(c, t)
                                      \/ map_end(c, t)
            PROVE  \E b, th : Becomes(cb, cb', c, b) /\ Becomes(thr, thr', c, th)
        BY <4>1, SMTT(40) DEF map_none, map_query, map_connect, map_bind, map_end, SetCb, SetThr, Becomes
      <4>2. CASE \/ established(c) \/ client_recv(c) \/ evict_activity(c)
                 \/ evict_done(c) \/ disc_release(c)
        BY <4>2, ZenonT(40) DEF established, client_recv, evict_activity, evict_done,
                    disc_release, SetCb, SetThr, Becomes
      <4>3. CASE evict_unmap(c) \/ evict_remap(c) \/ disc_remap(c)
        BY <4>3, SMTT(40) DEF evict_unmap, evict_remap, disc_remap, Oops, SetCb, SetThr, Becomes
      <4>4. CASE Mishap(c) \/ \E s \in Sess : Trigger(c, s)
        BY <4>4, ZenonT(40) DEF Mishap, connect_error, depart, Oops, disconnected, Trigger,
                    rdma_trigger, SetCb, SetThr, Becomes
      <4>5. CASE Network(c)
        BY <4>5, ZenonT(40) DEF Network, clientVars, Becomes
      <4> QED BY <4>1, <4>2, <4>3, <4>4, <4>5, ZenonT(40) DEF ClientStep, clientStep
    <3> QED BY <2>2, <3>1, ZenonT(40) DEF Becomes
  <2> QED BY <2>1, <2>2, <2>3, <2>4, ZenonT(40) DEF CbFields
<1>3. SlotShape'
  BY <1>0, <1>2, ZenonT(40) DEF MInv, SlotShape
<1>4. Untouched(c) /\ fm.pc = "init" /\ Roomy => ~cb'[c].established
  <2> SUFFICES ASSUME Untouched(c), fm.pc = "init", Roomy, cb'[c] # cb[c]
               PROVE  ~cb'[c].established
    BY Zenon DEF Untouched
  <2>1. CASE client_recv(c)
    <3>1. recv_buf[c].type \in DaemonTypes
      BY <2>1, ZenonT(40) DEF client_recv, WInv, Messages, IsDaemonMsg
    <3>2. DOMAIN cb[c] = CbFields
      BY Zenon DEF ClientInv, ClientOK, IsCb
    <3>3. Received(cb[c], recv_buf[c]).established = cb[c].established
      BY <3>1, <3>2, ZenonT(40) DEF Received, IS_single_chunk_init, client_recv_evict,
                        client_recv_stop, DaemonTypes, CbFields
    <3>4. \/ cb'[c] = [cb[c] EXCEPT !.state = "ERROR"]
          \/ cb'[c] = Received(cb[c], recv_buf[c])
      BY <1>2, <2>1, ZenonT(40) DEF client_recv, SetCb
    <3> QED BY <3>2, <3>3, <3>4, ZenonT(40) DEF Untouched, CbFields
  <2>2. CASE ~client_recv(c)
    <3>1. ASSUME NEW t \in Threads, \/ map_none(c, t) \/ map_query(c, t)
                                    \/ map_connect(c, t) \/ map_bind(c, t)
                                    \/ map_end(c, t)
          PROVE  FALSE
      BY <3>1, ZenonT(40) DEF map_none, map_query, map_connect, map_bind, map_end, PC,
                  Untouched, Threads
    <3>2. CASE \/ established(c) \/ evict_activity(c) \/ evict_unmap(c)
               \/ evict_done(c) \/ evict_remap(c) \/ disc_release(c) \/ disc_remap(c)
      BY <3>2, ZenonT(40) DEF established, evict_activity, evict_unmap, evict_done, evict_remap,
                  disc_release, disc_remap, PC, Untouched
    <3>3. CASE Mishap(c)
      BY <3>3, SMTT(40) DEF Mishap, connect_error, depart, Oops, disconnected, Untouched
    <3>4. CASE Network(c) \/ \E s \in Sess : Trigger(c, s)
      BY <3>4, ZenonT(40) DEF Network, Trigger, clientVars, Roomy
    <3> QED BY <2>2, <3>1, <3>2, <3>3, <3>4, ZenonT(40) DEF ClientStep, clientStep
  <2> QED BY <2>1, <2>2, ZenonT(40)
<1>5. NoneYet'
  <2> SUFFICES ASSUME Roomy, fm.pc = "init", NEW d \in Client PROVE Untouched(d)'
    BY <1>0, ZenonT(40) DEF NoneYet
  <2>1. Untouched(d) /\ Untouched(c)
    BY ZenonT(40) DEF MInv, NoneYet
  <2>2. CASE d # c
    BY <1>2, <2>1, <2>2, Zenon DEF Untouched
  <2>3. CASE d = c
    BY <1>0, <1>1, <1>4, <2>1, <2>3, ZenonT(40) DEF Untouched, Close
  <2> QED BY <2>2, <2>3, ZenonT(40)
<1>6. /\ \A d \in Client : Live(d)' <=> Live(d)
      /\ NoneFreed' => NoneFreed
  BY <1>0, <1>1, ZenonT(40) DEF Close, Live, NoneFreed
<1> QED BY <1>0, <1>3, <1>5, <1>6, OtherMInv, ZenonT(40)

(* The inductive invariant that relates session.conns, conn_map and the    *)
(* sess_chunk_map of every connection.                                     *)
THEOREM MapsInv == Spec => []MInv
<1>1. LInv /\ WInv /\ AInv /\ ClientInv /\ MInv /\ [Next]_vars => MInv'
  <2> SUFFICES ASSUME LInv, WInv, AInv, ClientInv, MInv, [Next]_vars PROVE MInv'
    BY SMTT(40)
  <2>1. CASE Kill \/ UNCHANGED vars
    <3>1. UNCHANGED <<conn_map, conns, conns_state, fm, link, conn, clientVars>>
      BY <2>1 DEF Kill, Die, vars, daemonVars, session, wireVars
    <3>2. SlotShape' /\ NoneYet'
      BY <3>1, DaemonNoneYet, ZenonT(40) DEF MInv, SlotShape
    <3> QED BY <3>1, <3>2, OtherMInv, ZenonT(40) DEF Live, NoneFreed
  <2>2. CASE MainStep \/ PollStep
    BY <2>2, MainMInv, PollMInv, ZenonT(40)
  <2>3. CASE FreeMemStep \/ Round
    BY <2>3, FreeMemMInv, ZenonT(40) DEF FreeMemStep, Round
  <2> QED BY <2>1, <2>2, <2>3, ClientMInv, ZenonT(40) DEF Next
<1> QED BY InitMInv, Lending, MessagesInv, BuffersKept, ClientCorrect, <1>1, PTL DEF Spec

(* What a connection lists in sess_chunk_map, conn_map gives to its slot,  *)
(* whatever happens.                                                       *)
THEOREM ListedIsMapped == Spec => []SessInMap
<1>1. MInv => SessInMap
  BY DEF MInv
<1> QED BY <1>1, MapsInv, PTL

(* And the two say the same as long as destroy_connection has not run,     *)
(* when no client comes before rdma_session_init and MAX_CLIENT slots are  *)
(* enough: send_single_mr and recv_done write them apart, and no step of   *)
(* another thread comes between to leave one without the other.            *)
THEOREM MapsAgree ==
    ASSUME Roomy
    PROVE  Spec => [](NoneFreed => ConnMapAgrees)
<1>1. LInv /\ MInv => (NoneFreed => ConnMapAgrees)
  <2> SUFFICES ASSUME LInv, MInv, NoneFreed, NEW c \in Client, Live(c)
               PROVE  conn[c].sess = {i \in Chunks : conn_map[i] = conn[c].conn_index}
    BY ZenonT(40) DEF ConnMapAgrees
  <2>1. conn[c].sess \subseteq Chunks /\ conn[c].conn_index \in Slots /\ -1 \notin Slots
    BY SizeAssumption, SMTT(40) DEF LInv, Shape, Slots
  <2>2. fm.pc # "init"
    BY DEF MInv, NoneYet, Untouched, Live
  <2>3. SlotsAgree /\ SessInMap
    BY <2>2, ZenonT(40) DEF MInv
  <2>4. ASSUME NEW i \in Chunks, conn_map[i] = conn[c].conn_index
        PROVE  i \in conn[c].sess
    <3>1. PICK d \in Client : Live(d) /\ i \in conn[d].sess
      BY <2>1, <2>3, <2>4, ZenonT(40) DEF SlotsAgree
    <3>2. conn[d].conn_index = conn[c].conn_index
      BY <2>3, <2>4, <3>1, ZenonT(40) DEF SessInMap
    <3>3. d = c
      BY <2>3, <3>1, <3>2, ZenonT(40) DEF SlotsAgree
    <3> QED BY <3>1, <3>3, ZenonT(40)
  <2> QED BY <2>1, <2>3, <2>4, ZenonT(40) DEF SessInMap
<1> QED BY <1>1, Lending, MapsInv, PTL
=============================================================================
