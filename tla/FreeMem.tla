------------------------------ MODULE FreeMem -------------------------------
(***************************************************************************)
(* The daemon's free_mem thread: rdma_session_init, evict_mem and the      *)
(* expansion loop.  How much to evict or to expand comes from the filtered *)
(* free memory of the host, which is left open here: any amount that the   *)
(* clamps of free_mem let through.                                         *)
(***************************************************************************)
EXTENDS Daemon

CONSTANTS
    InitialGb,  \* the chunks rdma_session_init may find memory for
    ExtraChunks \* EXTRA_CHUNK_NUM

ASSUME FreeMemAssumption ==
    /\ InitialGb \subseteq 0 .. NumChunks
    /\ ExtraChunks \in Nat

Goto(pc) == [fm EXCEPT !.pc = pc]

(* Leaves every variable of the daemon but fm, the wire too. *)
OnlyFm == UNCHANGED <<session, conn, poll, alive, wireVars>>

(* rdma_session_init.  It runs in the new thread while main already takes  *)
(* connections, and forgets those that came before it.                     *)
rdma_session_init ==
    /\ alive /\ fm.pc = "init"
    /\ \E g \in InitialGb :
         /\ malloc_map' = 0 .. g - 1
         /\ size_gb' = g
    /\ conn_map' = [i \in Chunks |-> -1]
    /\ mapped_size' = 0
    /\ conns' = [s \in Slots |-> None]
    /\ conns_state' = [s \in Slots |-> "IDLE"]
    /\ conn_num' = 0
    /\ fm' = FmAt("idle")
    /\ UNCHANGED <<running, conn, poll, alive, wireVars>>

(* while (running) is tested between two rounds. *)
free_mem_exit ==
    /\ alive /\ fm.pc = "idle" /\ ~running
    /\ fm' = FmAt("exit")
    /\ OnlyFm

(* A round below FREE_MEM_EVICT_THRESHOLD: evict_mem(g) is called. *)
evict_mem(g) ==
    /\ alive /\ fm.pc = "idle" /\ running
    /\ g \in 1 .. size_gb
    /\ fm' = [FmAt("scan") EXCEPT !.evict_g = g]
    /\ OnlyFm

(* lines 273-274: is chunk i malloced and unmapped? *)
evict_scan ==
    /\ alive /\ fm.pc = "scan"
    /\ IF fm.i = NumChunks
       THEN fm' = Goto("select")
       ELSE fm' = IF Unmapped(fm.i) THEN Goto("free") ELSE [fm EXCEPT !.i = @ + 1]
    /\ OnlyFm

(* Mutant: evict_mem returns before it has taken evict_g from size_gb. *)
evict_free_uncounted ==
    /\ alive /\ fm.pc = "free"
    /\ malloc_map' = malloc_map \ {fm.i}
    /\ IF fm.freed + 1 = fm.evict_g
       THEN fm' = FmAt("idle")
       ELSE fm' = [fm EXCEPT !.freed = @ + 1, !.i = @ + 1, !.pc = "scan"]
    /\ UNCHANGED <<size_gb, conn_map, mapped_size, conns, conns_state, conn_num,
                   running, conn, poll, alive, wireVars>>

(* lines 275-282 *)
evict_free ==
    /\ alive /\ fm.pc = "free"
    /\ malloc_map' = malloc_map \ {fm.i}
    /\ IF fm.freed + 1 = fm.evict_g
       THEN size_gb' = size_gb - fm.evict_g /\ fm' = FmAt("idle")
       ELSE /\ fm' = [fm EXCEPT !.freed = @ + 1, !.i = @ + 1, !.pc = "scan"]
            /\ UNCHANGED size_gb
    /\ UNCHANGED <<conn_map, mapped_size, conns, conns_state, conn_num,
                   running, conn, poll, alive, wireVars>>

(* Mutant: idle slots are asked too. *)
MappedSlots_idle == {s \in Slots : conns_state[s] # "CONNECTED"}

MappedSlots  == {s \in Slots : conns_state[s] = "MAPPED"}
MappedChunks == {i \in Chunks : conn_map[i] # -1}

ChunksOfSlots(ss) ==
    MapThenSumSet(LAMBDA s : conn[conns[s]].mapped_chunk_size, ss)

(* lines 286-351: which clients are asked.  Fewer than evict_g +           *)
(* EXTRA_CHUNK_NUM mapped chunks: all clients with a mapped chunk.  Else   *)
(* the clients of that many chunks, taken at random; when conn_map holds   *)
(* fewer of them than mapped_size says, the search never ends.             *)
evict_select ==
    LET left == fm.evict_g - fm.freed
        few  == mapped_size < left + ExtraChunks
        g    == IF few /\ mapped_size < left THEN mapped_size ELSE left
        Ask(list) == fm' = [FmAt("evict") EXCEPT !.evict_g = g, !.list = list,
                              !.todo = list, !.k = ChunksOfSlots(list)]
    IN
    /\ alive /\ fm.pc = "select"
    /\ size_gb' = size_gb - fm.freed
    /\ \/ /\ few /\ \A s \in MappedSlots : conns[s] # None
          /\ Ask(MappedSlots)
       \/ /\ ~few /\ Cardinality(MappedChunks) < left + ExtraChunks
          /\ fm' = FmAt("spin")
       \/ /\ ~few
          /\ \E R \in kSubset(left + ExtraChunks, MappedChunks) :
               LET list == {conn_map[i] : i \in R} IN
               /\ \A s \in list : conns[s] # None
               /\ Ask(list)
    /\ UNCHANGED <<malloc_map, conn_map, mapped_size, conns, conns_state,
                   conn_num, running, conn, poll, alive, wireVars>>

(* The loops over send_list visit its slots in order. *)
Slot == Min(fm.todo)

(* send_evict *)
send_evict ==
    LET c == conns[Slot] IN
    /\ alive /\ fm.pc = "evict" /\ fm.todo # {} /\ c # None
    /\ PostMsg(c, [type |-> "EVICT", size |-> fm.evict_g, rkey |-> {}])
    /\ fm' = [fm EXCEPT !.todo = @ \ {Slot}]
    /\ UNCHANGED <<session, conn, poll, alive, link, recv_buf, recv_state,
                   toDaemon>>

(* the end of a loop over send_list, and the start of the next one *)
evict_next ==
    /\ alive /\ fm.todo = {}
    /\ \/ fm.pc = "evict" /\ fm' = [fm EXCEPT !.pc = "act", !.todo = fm.list]
       \/ fm.pc = "act"   /\ fm' = Goto("choose")
       \/ fm.pc = "stop"  /\ fm' = FmAt("idle")
    /\ OnlyFm

(* line 362 *)
activity_of ==
    /\ alive /\ fm.pc = "act" /\ fm.todo # {} /\ conns[Slot] # None
    /\ fm' = [fm EXCEPT !.pc = "actwait", !.c = conns[Slot]]
    /\ OnlyFm

(* lines 363-373 *)
recv_activity ==
    LET c == fm.c IN
    /\ alive /\ fm.pc = "actwait" /\ link[c] # "freed" /\ conn[c].evict_sem > 0
    /\ conn' = [conn EXCEPT ![c].evict_sem = @ - 1]
    /\ send_msg' = [send_msg EXCEPT ![c].size = 0, ![c].rkey = {}]
    /\ fm' = [fm EXCEPT !.pc = "act", !.todo = @ \ {Slot}, !.c = None,
                        !.got = @ \cup ({Slot} \X recv_msg[c].buf)]
    /\ PostReceive(c)
    /\ UNCHANGED <<session, poll, alive, link, msg_posted, recv_buf,
                   recv_state, send_buf, buf_posted, recv_msg>>

(* The evict_g entries with the least activity: the activities are         *)
(* arbitrary, so any of the entries received.  Where evict_list was filled *)
(* with fewer entries than k or than evict_g, the rest are uninitialised.  *)
Picks ==
    LET Listed(i) == Cardinality({e \in fm.got : e[2] = i})
        Total(f)  == MapThenSumSet(LAMBDA i : f[i], Chunks)
        Stray(f)  == Total([i \in Chunks |-> Max({0, f[i] - Listed(i)})])
    IN  {f \in [Chunks -> 0 .. Max({0, fm.evict_g})] :
           /\ Total(f) = Max({0, fm.evict_g})
           /\ Stray(f) <= Max({0, fm.k - Cardinality(fm.got),
                                  fm.evict_g - Cardinality(fm.got)})}

(* lines 376-401 *)
evict_choose ==
    /\ alive /\ fm.pc = "choose"
    /\ \E f \in Picks :
         LET P    == {i \in Chunks : f[i] > 0}
             Of(c) == {i \in P : conns[conn_map[i]] = c}
         IN
         /\ \A i \in P : conn_map[i] # -1 /\ conns[conn_map[i]] # None
         /\ send_msg' = [c \in Client |->
              [send_msg[c] EXCEPT
                 !.rkey = @ \cup Of(c),
                 !.size = @ + MapThenSumSet(LAMBDA i : f[i], Of(c))]]
         /\ \E last \in IF P = {} THEN {0} ELSE {conn_map[i] : i \in P} :
              fm' = [fm EXCEPT !.pc = "stop", !.todo = fm.list,
                       !.stop = fm.list \cap {conn_map[i] : i \in P},
                       !.got = {}, !.last = last]
    /\ UNCHANGED <<session, conn, poll, alive, link, msg_posted, recv_buf,
                   recv_state, toDaemon>>

(* line 405 takes the size of the last chosen connection for every client. *)
StopSize(s) == IF s \in fm.stop THEN send_msg[conns[fm.last]].size ELSE 0

(* send_stop *)
send_stop ==
    LET c == conns[Slot] IN
    /\ alive /\ fm.pc = "stop" /\ fm.todo # {} /\ c # None
    /\ Slot \in fm.stop => conns[fm.last] # None
    /\ PostMsg(c, [send_msg[c] EXCEPT !.type = "STOP", !.size = StopSize(Slot)])
    /\ fm' = IF StopSize(Slot) = 0 THEN [fm EXCEPT !.todo = @ \ {Slot}]
                                   ELSE [fm EXCEPT !.pc = "stopwait", !.c = c]
    /\ UNCHANGED <<session, conn, poll, alive, link, recv_buf, recv_state,
                   toDaemon>>

(* line 740 *)
stopped ==
    LET c == fm.c IN
    /\ alive /\ fm.pc = "stopwait" /\ link[c] # "freed" /\ conn[c].stop_sem > 0
    /\ conn' = [conn EXCEPT ![c].stop_sem = @ - 1]
    /\ fm' = [fm EXCEPT !.pc = "stop", !.todo = @ \ {Slot}, !.c = None]
    /\ UNCHANGED <<session, poll, alive, wireVars>>

(* evict_mem follows a connection that is NULL, or the index -1. *)
evict_fault ==
    LET wanted == fm.evict_g - fm.freed + ExtraChunks IN
    /\ alive
    /\ \/ /\ fm.pc = "select" /\ mapped_size < wanted
          /\ \E s \in MappedSlots : conns[s] = None
       \/ /\ fm.pc = "select" /\ mapped_size >= wanted
          /\ Cardinality(MappedChunks) >= wanted /\ wanted > 0
          /\ \E i \in MappedChunks : conns[conn_map[i]] = None
       \/ fm.pc \in {"evict", "act", "stop"} /\ fm.todo # {} /\ conns[Slot] = None
       \/ /\ fm.pc = "stop" /\ fm.todo # {} /\ Slot \in fm.stop
          /\ conns[fm.last] = None
       \/ /\ fm.pc = "choose"
          /\ \E f \in Picks : \E i \in Chunks :
               f[i] > 0 /\ ~(conn_map[i] # -1 /\ conns[conn_map[i]] # None)
    /\ Die
    /\ UNCHANGED wireVars

(* A round above FREE_MEM_EXPAND_THRESHOLD, lines 460-463. *)
expand(e) ==
    /\ alive /\ fm.pc = "idle" /\ running
    /\ e \in {IF x + size_gb > NumChunks THEN NumChunks - size_gb ELSE x :
                x \in 1 .. NumChunks}
    /\ fm' = [FmAt("grow") EXCEPT !.evict_g = e]
    /\ OnlyFm

(* lines 465-477: one chunk of the loop; freed counts like j *)
grow ==
    LET empty == fm.i < NumChunks /\ fm.i \notin malloc_map IN
    /\ alive /\ fm.pc = "grow"
    /\ malloc_map' = IF empty THEN malloc_map \cup {fm.i} ELSE malloc_map
    /\ IF fm.i = NumChunks \/ (empty /\ fm.freed + 1 = fm.evict_g)
       THEN size_gb' = size_gb + fm.evict_g /\ fm' = FmAt("idle")
       ELSE /\ fm' = [fm EXCEPT !.i = @ + 1,
                                !.freed = IF empty THEN @ + 1 ELSE @]
            /\ UNCHANGED size_gb
    /\ UNCHANGED <<conn_map, mapped_size, conns, conns_state, conn_num,
                   running, conn, poll, alive, wireVars>>

(* Every step of the thread but the start of a round. *)
freeMemStep ==
    \/ rdma_session_init \/ free_mem_exit
    \/ evict_scan \/ evict_free \/ evict_select
    \/ send_evict \/ evict_next \/ activity_of \/ recv_activity
    \/ evict_choose \/ send_stop \/ stopped \/ evict_fault
    \/ grow
=============================================================================
