------------------------- MODULE ServerSelectProofs -------------------------
(***************************************************************************)
(* What free_mem counts and who holds which chunk, for every number of     *)
(* servers and chunks, every setting of the thresholds, and every mishap   *)
(* of Env.                                                                 *)
(*                                                                         *)
(* Neither SizeIsChunks nor MapIsLent is inductive.  A daemon relies on    *)
(* Counted: it has not lent more than it has allocated, and the amount it  *)
(* is about to allocate fits.  The client relies on HandlerInv and         *)
(* CallInv: the chunks a daemon waits for are still lent, and the chunk of *)
(* a call has no server and does not wait in remap.                        *)
(***************************************************************************)
EXTENDS ServerSelect, FiniteSetTheorems, WellFoundedInduction, TLAPS

RemoteMem == [chunks : Nat, size_gb : Nat, mapped_size : Int, lent : SUBSET Sess]
Monitor == [pc : {"sleep", "evict", "ask", "stop", "expand", "dead"},
            amount : Nat, last : Int, evict_hit : Int, expand_hit : Int]

Shape ==
    /\ app \in [Daemon -> Int] /\ rr \in [Daemon -> RemoteMem] /\ fm \in [Daemon -> Monitor]
    /\ cb_state \in [Daemon -> {"IDLE", "CONNECTED", "MAPPED", "EVICTING", "FAIL"}]
    /\ cb_index_map = [s \in Sess |-> cb_index_map[s]]
    /\ handler \in Daemon \cup {-1} /\ remap \subseteq Sess
    /\ next \in Sess /\ {"pc", "chunk"} \subseteq DOMAIN sel

(* What free_mem of daemon d relies on. *)
Counted(d) ==
    /\ rr[d].size_gb = rr[d].chunks /\ rr[d].chunks <= MAX_FREE_MEM_GB
    /\ Cardinality(rr[d].lent) <= rr[d].chunks
    /\ fm[d].pc = "expand" =>
          /\ fm[d].amount <= MAX_FREE_MEM_GB - rr[d].chunks
          /\ fm[d].amount = 0 => rr[d].chunks = MAX_FREE_MEM_GB

(* Chunks are only lent by servers that the client knows as mapped.        *)
LenderKnown ==
    \A d \in Daemon : rr[d].lent # {} => cb_state[d] \in {"MAPPED", "EVICTING"}

(* While evict_mem waits for DONE it waits for its own chunks; after that, *)
(* or when the server was lost, they are nobody's until they are mapped    *)
(* again.                                                                  *)
HandlerInv ==
    /\ handler = -1 => remap = {}
    /\ \A d \in Daemon : fm[d].pc = "stop" => handler = d /\ remap \subseteq rr[d].lent
    /\ (handler # -1 /\ fm[handler].pc # "stop") => \A s \in remap : cb_index_map[s] = -1

(* The chunk of a call is nobody's. *)
CallInv ==
    sel.pc # "idle" =>
        sel.chunk \in Sess /\ sel.chunk \notin remap /\ cb_index_map[sel.chunk] = -1

IInv ==
    /\ Shape /\ (\A d \in Daemon : Counted(d))
    /\ MapIsLent /\ LenderKnown /\ HandlerInv /\ CallInv

-----------------------------------------------------------------------------
LEMMA Indexes ==
    /\ Cardinality(Sess) \in Nat \ {0} /\ 0 \in Sess /\ Sess \subseteq Nat
    /\ -1 \notin Daemon
    /\ \A S \in SUBSET Sess : IsFiniteSet(S) /\ Cardinality(S) \in Nat
<1>1. Cardinality(Sess) \in Nat /\ Cardinality(Daemon) \in Nat
  BY FS_CardinalityType, ServerSelectAssumption
<1>2. Sess = 0 .. Cardinality(Sess) - 1 /\ Sess # {}
  BY ServerSelectAssumption
<1>3. Daemon = 0 .. Cardinality(Daemon) - 1
  BY ServerSelectAssumption
<1>4. \A S \in SUBSET Sess : IsFiniteSet(S)
  BY FS_Subset, ServerSelectAssumption
<1>5. \A S \in SUBSET Sess : Cardinality(S) \in Nat
  BY <1>4, FS_CardinalityType
<1>6. 0 \in Sess /\ Sess \subseteq Nat /\ Cardinality(Sess) # 0
  BY <1>1, <1>2
<1>7. -1 \notin Daemon
  BY <1>1, <1>3
<1> QED BY <1>1, <1>4, <1>5, <1>6, <1>7

LEMMA MinIsMember ==
    ASSUME NEW S \in SUBSET Sess, S # {}
    PROVE  Min(S) \in S
<1> DEFINE R == OpToRel(<, Nat)
<1>1. S \subseteq Nat
  BY Indexes
<1>2. IsWellFoundedOn(R, Nat)
  BY NatLessThanWellFounded
<1> HIDE DEF R
<1>3. PICK x \in S : \A y \in S : ~(<<y, x>> \in R)
  BY <1>1, <1>2, WFMin
<1>4. \A y \in S : ~(y < x)
  BY <1>1, <1>3 DEF R, OpToRel
<1>5. \A y \in S : x =< y
  BY <1>1, <1>4
<1> QED BY <1>5 DEF Min

(* The filter and the sizes free_mem computes. *)
LEMMA FilteredInt ==
    ASSUME NEW a \in Int, NEW b \in Int
    PROVE  Filtered(a, b) \in Int
BY DEF Filtered

LEMMA InitialSizeFits ==
    ASSUME NEW f \in Int
    PROVE  InitialSize(f) \in Nat /\ InitialSize(f) <= MAX_FREE_MEM_GB
<1> USE MemMonitorAssumption DEF Least
<1>1. CASE f > FREE_MEM_EXPAND_THRESHOLD
  <2>1. f - (FREE_MEM_EVICT_THRESHOLD + FREE_MEM_EXPAND_THRESHOLD) \div 2 \in Nat
    BY <1>1
  <2>2. InitialSize(f) = Least(MAX_FREE_MEM_GB,
              f - (FREE_MEM_EVICT_THRESHOLD + FREE_MEM_EXPAND_THRESHOLD) \div 2)
    BY <1>1 DEF InitialSize
  <2> QED BY <2>1, <2>2
<1>2. CASE f > FREE_MEM_EVICT_THRESHOLD /\ f <= FREE_MEM_EXPAND_THRESHOLD
  BY <1>2 DEF InitialSize
<1>3. CASE f <= FREE_MEM_EVICT_THRESHOLD
  BY <1>3 DEF InitialSize
<1> QED BY <1>1, <1>2, <1>3

-----------------------------------------------------------------------------
LEMMA InitIInv == Init => IInv
<1> SUFFICES ASSUME Init PROVE IInv
  OBVIOUS
<1> USE MemMonitorAssumption, Indexes
<1>1. \A d \in Daemon : app[d] \in Int /\ HostGb - app[d] \in Int
  <2>1. app \in [Daemon -> InitialApp] /\ InitialApp \subseteq Int /\ HostGb \in Int
    BY DEF Init, MonInit
  <2>2. \A d \in Daemon : app[d] \in Int
    BY <2>1
  <2> QED BY <2>1, <2>2
<1>2. \A d \in Daemon : /\ rr[d].chunks \in Nat /\ rr[d].chunks <= MAX_FREE_MEM_GB
                         /\ rr[d].size_gb = rr[d].chunks
                         /\ rr[d].mapped_size = 0 /\ rr[d].lent = {}
  BY <1>1, InitialSizeFits DEF Init, MonInit
<1>3. \A d \in Daemon : FreeGb(d) \in Int
  BY <1>1, <1>2 DEF FreeGb
<1>4. rr \in [Daemon -> RemoteMem]
  BY <1>1, InitialSizeFits DEF Init, MonInit, RemoteMem
<1>5. fm \in [Daemon -> [pc : {"sleep"}, amount : {0}, last : Int, evict_hit : {0}, expand_hit : {0}]]
  BY <1>3 DEF Init, MonInit
<1>6. Shape
  BY <1>1, <1>4, <1>5 DEF Init, MonInit, Shape, Monitor, NoCall
<1>7. \A d \in Daemon : Counted(d)
  BY <1>2, <1>5, FS_EmptySet DEF Counted
<1>8. MapIsLent /\ LenderKnown
  BY <1>2 DEF Init, MapIsLent, LenderKnown
<1>9. HandlerInv /\ CallInv
  BY <1>5 DEF Init, HandlerInv, CallInv, NoCall
<1> QED BY <1>6, <1>7, <1>8, <1>9 DEF IInv

-----------------------------------------------------------------------------
(* The steps of free_mem that lend nothing and take nothing back.          *)
LEMMA Alone ==
    ASSUME IInv, UNCHANGED selVars, Shape', \A d \in Daemon : Counted(d)',
           \A d \in Daemon : /\ rr'[d].lent = rr[d].lent
                             /\ fm'[d].pc = "stop" <=> fm[d].pc = "stop"
    PROVE  IInv'
<1> USE DEF IInv, selVars
<1>1. MapIsLent' /\ LenderKnown'
  BY DEF MapIsLent, LenderKnown
<1>2. HandlerInv'
  BY DEF HandlerInv, Shape
<1>3. CallInv'
  BY DEF CallInv
<1> QED BY <1>1, <1>2, <1>3

LEMMA AppStep ==
    ASSUME IInv, NEW d \in Daemon, Application(d)
    PROVE  IInv'
<1>1. PICK n \in {-1, 1} : AppChange(d, n) /\ UNCHANGED selVars
  BY DEF Application
<1>2. Shape'
  BY <1>1 DEF AppChange, selVars, IInv, Shape
<1>3. \A e \in Daemon : Counted(e)'
  BY <1>1 DEF AppChange, IInv, Counted
<1>4. rr' = rr /\ fm' = fm
  BY <1>1 DEF AppChange
<1> QED BY <1>1, <1>2, <1>3, <1>4, Alone

LEMMA SampleStep ==
    ASSUME IInv, NEW d \in Daemon, Sample(d), UNCHANGED selVars
    PROVE  IInv'
<1> DEFINE f == Filtered(FreeGb(d), fm[d].last)
           stop == Least(FREE_MEM_EVICT_THRESHOLD - f, rr[d].size_gb)
           grow == Least(f - FREE_MEM_EXPAND_THRESHOLD, MAX_FREE_MEM_GB - rr[d].size_gb)
<1> USE MemMonitorAssumption
<1>0. Shape /\ Counted(d)
  BY DEF IInv
<1>1. f \in Int
  <2>1. FreeGb(d) \in Int /\ fm[d].last \in Int
    BY <1>0 DEF Shape, FreeGb, RemoteMem, Monitor
  <2> QED BY <2>1, FilteredInt
<1> HIDE DEF f
<1>2. stop \in Int /\ (f < FREE_MEM_EVICT_THRESHOLD => stop \in Nat)
  BY <1>0, <1>1 DEF Least, Shape, RemoteMem
<1>3. /\ grow \in Int /\ grow <= MAX_FREE_MEM_GB - rr[d].chunks
      /\ f > FREE_MEM_EXPAND_THRESHOLD =>
           grow \in Nat /\ (grow = 0 => rr[d].chunks = MAX_FREE_MEM_GB)
  BY <1>0, <1>1 DEF Least, Shape, Counted, RemoteMem
<1> HIDE DEF stop, grow
<1> DEFINE new == fm'[d]
<1>4. /\ rr' = rr /\ app' = app
      /\ fm' = [fm EXCEPT ![d] = new]
      /\ new \in [pc : {"sleep", "evict", "expand"}, amount : Nat, last : Int,
                   evict_hit : Int, expand_hit : Int]
      /\ new.pc = "expand" => f > FREE_MEM_EXPAND_THRESHOLD /\ new.amount = grow
      /\ fm[d].pc = "sleep"
  BY <1>0, <1>1, <1>2, <1>3 DEF Sample, Round, Shape, Monitor, f, stop, grow
<1> HIDE DEF new
<1>5. Shape'
  BY <1>0, <1>4 DEF Shape, Monitor, selVars
<1>6. \A e \in Daemon : Counted(e)'
  <2> TAKE e \in Daemon
  <2>1. CASE e = d
    BY <1>0, <1>3, <1>4, <2>1 DEF Counted, Shape
  <2>2. CASE e # d
    BY <1>0, <1>4, <2>2 DEF Counted, Shape, IInv
  <2> QED BY <2>1, <2>2
<1>7. \A e \in Daemon : /\ rr'[e].lent = rr[e].lent
                        /\ fm'[e].pc = "stop" <=> fm[e].pc = "stop"
  BY <1>0, <1>4 DEF Shape
<1> QED BY <1>5, <1>6, <1>7, Alone

LEMMA ExpandStep ==
    ASSUME IInv, NEW d \in Daemon, Expand(d), UNCHANGED selVars
    PROVE  IInv'
<1> DEFINE g == fm[d].amount
           r == [rr[d] EXCEPT !.chunks = rr[d].chunks + g, !.size_gb = rr[d].size_gb + g]
           m == [fm[d] EXCEPT !.pc = "sleep", !.amount = 0]
<1> USE MemMonitorAssumption
<1>0. Shape /\ Counted(d) /\ rr[d] \in RemoteMem /\ fm[d] \in Monitor
  BY DEF IInv, Shape
<1>1. /\ fm[d].pc = "expand" /\ g \in Nat /\ rr[d].chunks \in Nat
      /\ rr[d].size_gb = rr[d].chunks /\ rr[d].chunks + g <= MAX_FREE_MEM_GB
      /\ g = 0 => rr[d].chunks = MAX_FREE_MEM_GB
  BY <1>0 DEF Expand, Counted, RemoteMem, Monitor
<1>2. rr' = [rr EXCEPT ![d] = r] /\ fm' = [fm EXCEPT ![d] = m] /\ app' = app
  <2> DEFINE empty == MAX_FREE_MEM_GB - rr[d].chunks
             added == IF g \in 1 .. empty THEN g ELSE empty
  <2>1. added = g
    BY <1>1
  <2>2. /\ rr' = [rr EXCEPT ![d] = [rr[d] EXCEPT !.chunks = rr[d].chunks + added,
                                                 !.size_gb = rr[d].size_gb + g]]
        /\ fm' = [fm EXCEPT ![d] = m] /\ app' = app
    BY <1>0 DEF Expand, Shape
  <2> QED BY <2>1, <2>2
<1>3. /\ r \in RemoteMem /\ m \in Monitor
      /\ r.chunks = rr[d].chunks + g /\ r.size_gb = rr[d].chunks + g
      /\ r.lent = rr[d].lent /\ m.pc = "sleep"
  <2> HIDE DEF g
  <2>1. rr[d].chunks + g \in Nat /\ rr[d].size_gb + g = rr[d].chunks + g
    BY <1>1
  <2>2. m \in Monitor /\ m.pc = "sleep"
    BY <1>0 DEF Monitor
  <2> QED BY <1>0, <2>1, <2>2 DEF RemoteMem
<1> HIDE DEF r, m
<1>4. Shape'
  BY <1>0, <1>2, <1>3 DEF Shape, selVars
<1>5. rr'[d] = r /\ fm'[d] = m
  BY <1>0, <1>2 DEF Shape
<1>6. \A e \in Daemon : Counted(e)'
  <2> TAKE e \in Daemon
  <2>1. CASE e = d
    <3>1. Cardinality(rr[d].lent) \in Nat /\ Cardinality(rr[d].lent) <= rr[d].chunks
      BY <1>0, Indexes DEF RemoteMem, Counted
    <3> QED BY <1>1, <1>3, <1>5, <2>1, <3>1 DEF Counted
  <2>2. CASE e # d
    BY <1>0, <1>2, <2>2 DEF Counted, Shape, IInv
  <2> QED BY <2>1, <2>2
<1>7. \A e \in Daemon : /\ rr'[e].lent = rr[e].lent
                        /\ fm'[e].pc = "stop" <=> fm[e].pc = "stop"
  BY <1>0, <1>1, <1>2, <1>3 DEF Shape
<1> QED BY <1>4, <1>6, <1>7, Alone

LEMMA GiveUpStep ==
    ASSUME IInv, NEW d \in Daemon, GiveUp(d)
    PROVE  IInv'
<1> DEFINE n == Cardinality(rr[d].lent)
           freed == Least(rr[d].chunks - n, fm[d].amount)
           r == [rr[d] EXCEPT !.chunks = rr[d].chunks - freed, !.size_gb = rr[d].size_gb - freed]
           m == [fm[d] EXCEPT !.pc = IF freed = fm[d].amount THEN "sleep" ELSE "ask",
                              !.amount = fm[d].amount - freed]
<1>0. Shape /\ Counted(d) /\ rr[d] \in RemoteMem /\ fm[d] \in Monitor
  BY DEF IInv, Shape
<1>1. n \in Nat /\ n <= rr[d].chunks /\ rr[d].chunks \in Nat /\ fm[d].amount \in Nat
  BY <1>0, Indexes DEF RemoteMem, Monitor, Counted
<1>2. /\ rr' = [rr EXCEPT ![d] = r] /\ fm' = [fm EXCEPT ![d] = m]
      /\ app' = app /\ fm[d].pc = "evict" /\ UNCHANGED selVars
  BY <1>0 DEF GiveUp, EvictUnmapped, Shape
<1> HIDE DEF n
<1>3. /\ freed \in Nat /\ fm[d].amount - freed \in Nat
      /\ rr[d].chunks - freed \in Nat /\ n <= rr[d].chunks - freed
      /\ rr[d].size_gb - freed = rr[d].chunks - freed
  BY <1>0, <1>1 DEF Least, Counted
<1> HIDE DEF freed
<1>4. /\ r \in RemoteMem /\ m \in Monitor
      /\ r.chunks = rr[d].chunks - freed /\ r.size_gb = rr[d].chunks - freed
      /\ r.lent = rr[d].lent /\ m.pc \in {"sleep", "ask"}
  BY <1>0, <1>3 DEF RemoteMem, Monitor
<1> HIDE DEF r, m
<1>5. Shape'
  BY <1>0, <1>2, <1>4 DEF Shape, selVars
<1>6. rr'[d] = r /\ fm'[d] = m
  BY <1>0, <1>2 DEF Shape
<1>7. \A e \in Daemon : Counted(e)'
  <2> TAKE e \in Daemon
  <2>1. CASE e = d
    <3>1. rr[d].chunks <= MAX_FREE_MEM_GB
      BY <1>0 DEF Counted
    <3> QED BY <1>1, <1>3, <1>4, <1>6, <2>1, <3>1, MemMonitorAssumption DEF Counted, n
  <2>2. CASE e # d
    BY <1>0, <1>2, <2>2 DEF Counted, Shape, IInv
  <2> QED BY <2>1, <2>2
<1>8. \A e \in Daemon : /\ rr'[e].lent = rr[e].lent
                        /\ fm'[e].pc = "stop" <=> fm[e].pc = "stop"
  BY <1>0, <1>2, <1>4 DEF Shape
<1> QED BY <1>2, <1>5, <1>7, <1>8, Alone

-----------------------------------------------------------------------------
(* evict_mem asks for chunks that it has lent. *)
LEMMA StopStep ==
    ASSUME IInv, NEW d \in Daemon, Stop(d)
    PROVE  IInv'
<1>1. PICK S \in SUBSET Sess :
        EvictMapped(d, S, last_ops) /\ remap' = S /\ handler' = IF S = {} THEN -1 ELSE d
  BY DEF Stop
<1> DEFINE m == [fm[d] EXCEPT !.pc = IF S = {} THEN "sleep" ELSE "stop", !.amount = 0]
<1>2. /\ handler = -1 /\ UNCHANGED <<cb_state, cb_index_map, next, last_ops, sel>>
      /\ app' = app /\ rr' = rr /\ fm' = [fm EXCEPT ![d] = m] /\ S \subseteq rr[d].lent
  BY <1>1 DEF Stop, EvictMapped, LeastActive, kSubset
<1>3. Shape /\ fm[d] \in Monitor
  BY DEF IInv, Shape
<1>4. m \in Monitor /\ m.pc = IF S = {} THEN "sleep" ELSE "stop"
  BY <1>3 DEF Monitor
<1> HIDE DEF m
<1>5. Shape'
  BY <1>1, <1>2, <1>3, <1>4 DEF Shape
<1>6. fm'[d] = m /\ \A e \in Daemon \ {d} : fm'[e] = fm[e]
  BY <1>2, <1>3 DEF Shape
<1>7. \A e \in Daemon : Counted(e)'
  BY <1>2, <1>4, <1>6 DEF IInv, Counted
<1>8. MapIsLent' /\ LenderKnown'
  BY <1>2 DEF IInv, MapIsLent, LenderKnown
<1>9. HandlerInv'
  <2>1. \A e \in Daemon : fm[e].pc # "stop"
    BY <1>2, Indexes DEF IInv, HandlerInv
  <2> QED BY <1>1, <1>2, <1>4, <1>6, <2>1, Indexes DEF HandlerInv
<1>10. CallInv'
  <2>1. \A s \in S : cb_index_map[s] = d
    BY <1>2 DEF IInv, MapIsLent
  <2> QED BY <1>1, <1>2, <2>1, Indexes DEF IInv, CallInv
<1> QED BY <1>5, <1>7, <1>8, <1>9, <1>10 DEF IInv

(* The client unmaps what the daemon then frees. *)
LEMMA DoneStep ==
    ASSUME IInv, Done
    PROVE  IInv'
<1> DEFINE h == handler
           n == Cardinality(remap)
           r == [rr[h] EXCEPT !.lent = rr[h].lent \ remap, !.chunks = rr[h].chunks - n,
                              !.size_gb = rr[h].size_gb - n,
                              !.mapped_size = rr[h].mapped_size - n]
           m == [fm[h] EXCEPT !.pc = "sleep"]
<1>1. /\ Shape /\ h \in Daemon /\ fm[h].pc = "stop" /\ remap \subseteq rr[h].lent
      /\ rr[h] \in RemoteMem /\ fm[h] \in Monitor /\ Counted(h)
  BY DEF IInv, Shape, Done, HandlerInv
<1>2. /\ cb_index_map' = [s \in Sess |-> IF s \in remap THEN -1 ELSE cb_index_map[s]]
      /\ cb_state' = [cb_state EXCEPT ![h] = "EVICTING"]
      /\ rr' = [rr EXCEPT ![h] = r] /\ fm' = [fm EXCEPT ![h] = m]
      /\ UNCHANGED <<app, next, last_ops, remap, handler, sel>>
  BY DEF Done, recv_done
<1>3. /\ n \in Nat /\ n <= Cardinality(rr[h].lent)
      /\ Cardinality(rr[h].lent \ remap) = Cardinality(rr[h].lent) - n
      /\ Cardinality(rr[h].lent) \in Nat
  <2>1. IsFiniteSet(rr[h].lent) /\ IsFiniteSet(remap) /\ rr[h].lent \cap remap = remap
    BY <1>1, Indexes DEF RemoteMem, Shape
  <2>2. n \in Nat /\ n <= Cardinality(rr[h].lent) /\ Cardinality(rr[h].lent) \in Nat
    BY <1>1, <2>1, FS_Subset, FS_CardinalityType
  <2>3. Cardinality(rr[h].lent \ remap) = Cardinality(rr[h].lent) - n
    BY <2>1, FS_Difference
  <2> QED BY <2>2, <2>3
<1> HIDE DEF n
<1>4. /\ rr[h].chunks - n \in Nat /\ rr[h].size_gb - n = rr[h].chunks - n
      /\ rr[h].chunks - n <= MAX_FREE_MEM_GB
      /\ Cardinality(rr[h].lent \ remap) <= rr[h].chunks - n
  BY <1>1, <1>3, MemMonitorAssumption DEF Counted, RemoteMem
<1>5. /\ r \in RemoteMem /\ m \in Monitor /\ r.lent = rr[h].lent \ remap
      /\ r.chunks = rr[h].chunks - n /\ r.size_gb = rr[h].chunks - n /\ m.pc = "sleep"
  <2>1. m \in Monitor /\ m.pc = "sleep"
    BY <1>1 DEF Monitor
  <2>2. rr[h].mapped_size - n \in Int /\ rr[h].lent \ remap \in SUBSET Sess
    BY <1>1, <1>3 DEF RemoteMem
  <2> QED BY <1>1, <1>4, <2>1, <2>2 DEF RemoteMem
<1> HIDE DEF r, m
<1>6. Shape'
  BY <1>1, <1>2, <1>5 DEF Shape
<1>7. /\ rr'[h] = r /\ fm'[h] = m /\ cb_state'[h] = "EVICTING"
      /\ \A e \in Daemon \ {h} : rr'[e] = rr[e] /\ fm'[e] = fm[e] /\ cb_state'[e] = cb_state[e]
  BY <1>1, <1>2 DEF Shape
<1>8. \A e \in Daemon : Counted(e)'
  <2> TAKE e \in Daemon
  <2>1. CASE e = h
    BY <1>4, <1>5, <1>7, <2>1 DEF Counted
  <2>2. CASE e # h
    BY <1>7, <2>2 DEF IInv, Counted
  <2> QED BY <2>1, <2>2
<1>9. MapIsLent' /\ LenderKnown'
  <2>1. MapIsLent'
    <3> SUFFICES ASSUME NEW e \in Daemon
                 PROVE  {s \in Sess : cb_index_map'[s] = e} = rr'[e].lent
      BY DEF MapIsLent
    <3>1. {s \in Sess : cb_index_map'[s] = e} = {s \in Sess : cb_index_map[s] = e} \ remap
      BY <1>2, Indexes
    <3>2. {s \in Sess : cb_index_map[s] = e} = rr[e].lent
      BY DEF IInv, MapIsLent
    <3>3. CASE e = h
      BY <1>5, <1>7, <3>1, <3>2, <3>3
    <3>4. CASE e # h
      <4>1. \A s \in remap : cb_index_map[s] = h
        BY <1>1 DEF IInv, MapIsLent
      <4> QED BY <1>7, <3>1, <3>2, <3>4, <4>1
    <3> QED BY <3>3, <3>4
  <2>2. LenderKnown'
    BY <1>7 DEF IInv, LenderKnown
  <2> QED BY <2>1, <2>2
<1>10. HandlerInv'
  <2>1. \A e \in Daemon : fm'[e].pc # "stop"
    BY <1>5, <1>7 DEF IInv, HandlerInv
  <2>2. \A s \in remap : cb_index_map'[s] = -1
    BY <1>1, <1>2 DEF Shape
  <2> QED BY <1>1, <1>2, <2>1, <2>2, Indexes DEF HandlerInv
<1>11. CallInv'
  BY <1>2 DEF IInv, CallInv
<1> QED BY <1>6, <1>8, <1>9, <1>10, <1>11 DEF IInv

-----------------------------------------------------------------------------
(* The client learns of a loss: everything the server held is nobody's.    *)
LEMMA LoseStep ==
    ASSUME IInv, NEW d \in Daemon, Lose(d)
    PROVE  IInv'
<1> DEFINE S == {s \in Sess : cb_index_map[s] = d}
           r == [chunks |-> 0, size_gb |-> 0, mapped_size |-> 0, lent |-> {}]
           m == [fm[d] EXCEPT !.pc = "dead"]
<1>1. Shape /\ handler = -1 /\ remap = {} /\ fm[d] \in Monitor
  BY DEF IInv, Shape, Lose, HandlerInv
<1>2. /\ cb_state[d] \in {"CONNECTED", "MAPPED"}
      /\ cb_state' = [cb_state EXCEPT ![d] = "FAIL"]
      /\ fm' = [fm EXCEPT ![d] = m] /\ rr' = [rr EXCEPT ![d] = r]
      /\ UNCHANGED <<app, next, last_ops, sel>>
  BY DEF Lose
<1>3. /\ cb_index_map' = [s \in Sess |-> IF s \in S THEN -1 ELSE cb_index_map[s]]
      /\ \/ remap' = {} /\ handler' = -1
         \/ remap' = S /\ handler' = d
  <2>1. CASE cb_state[d] = "CONNECTED"
    <3>1. S = {}
      BY <2>1 DEF IInv, MapIsLent, LenderKnown
    <3>2. cb_index_map' = cb_index_map /\ remap' = remap /\ handler' = handler
      BY <2>1 DEF Lose
    <3> QED BY <1>1, <3>1, <3>2 DEF Shape
  <2>2. CASE cb_state[d] = "MAPPED"
    BY <2>2 DEF Lose
  <2> QED BY <1>2, <2>1, <2>2
<1> HIDE DEF S
<1>4. r \in RemoteMem /\ m \in Monitor /\ m.pc = "dead" /\ S \subseteq Sess
  BY <1>1 DEF RemoteMem, Monitor, S
<1>5. r.chunks = 0 /\ r.size_gb = 0 /\ r.lent = {}
  OBVIOUS
<1> HIDE DEF r, m
<1>6. Shape'
  BY <1>1, <1>2, <1>3, <1>4 DEF Shape
<1>7. /\ rr'[d] = r /\ fm'[d] = m /\ cb_state'[d] = "FAIL"
      /\ \A e \in Daemon \ {d} : rr'[e] = rr[e] /\ fm'[e] = fm[e] /\ cb_state'[e] = cb_state[e]
  BY <1>1, <1>2 DEF Shape
<1>8. \A e \in Daemon : Counted(e)'
  <2> TAKE e \in Daemon
  <2>1. CASE e = d
    <3>1. MAX_FREE_MEM_GB \in Nat /\ Cardinality(r.lent) = 0
      BY <1>5, FS_EmptySet, MemMonitorAssumption
    <3> QED BY <1>4, <1>5, <1>7, <2>1, <3>1 DEF Counted
  <2>2. CASE e # d
    BY <1>7, <2>2 DEF IInv, Counted
  <2> QED BY <2>1, <2>2
<1>9. MapIsLent'
  <2> SUFFICES ASSUME NEW e \in Daemon
               PROVE  {s \in Sess : cb_index_map'[s] = e} = rr'[e].lent
    BY DEF MapIsLent
  <2>1. {s \in Sess : cb_index_map'[s] = e} = {s \in Sess : cb_index_map[s] = e} \ S
    BY <1>3, Indexes
  <2>2. CASE e = d
    BY <1>5, <1>7, <2>1, <2>2 DEF S
  <2>3. CASE e # d
    BY <1>7, <2>1, <2>3 DEF S, IInv, MapIsLent
  <2> QED BY <2>2, <2>3
<1>10. LenderKnown'
  BY <1>5, <1>7 DEF IInv, LenderKnown
<1>11. HandlerInv'
  <2>1. \A e \in Daemon : fm'[e].pc # "stop"
    BY <1>1, <1>4, <1>7, Indexes DEF IInv, HandlerInv
  <2>2. \A s \in S : cb_index_map'[s] = -1
    BY <1>3, <1>4
  <2> QED BY <1>3, <2>1, <2>2, Indexes DEF HandlerInv
<1>12. CallInv'
  BY <1>2, <1>3, Indexes DEF IInv, CallInv, S
<1> QED BY <1>6, <1>8, <1>9, <1>10, <1>11, <1>12 DEF IInv

(* A chunk is bound: to a server that is none, nothing is lent.            *)
LEMMA BindStep ==
    ASSUME IInv, Bind
    PROVE  IInv'
<1> DEFINE d == sel.cb_index
           c == sel.chunk
           r == [rr[d] EXCEPT !.mapped_size = rr[d].mapped_size + 1,
                              !.lent = IF CanLend(d) THEN rr[d].lent \cup {c} ELSE rr[d].lent]
<1>1. /\ rr' = [rr EXCEPT ![d] = r] /\ UNCHANGED <<app, fm, next, last_ops, remap, handler>>
      /\ cb_state' = [cb_state EXCEPT ![d] = "MAPPED"] /\ sel' = NoCall
      /\ cb_index_map' = IF CanLend(d) THEN [cb_index_map EXCEPT ![c] = d] ELSE cb_index_map
  BY DEF Bind, send_single_mr
<1>2. Shape /\ c \in Sess /\ c \notin remap /\ cb_index_map[c] = -1
  BY DEF IInv, CallInv, Bind
<1> HIDE DEF d, c
<1>3. \A e \in Daemon : c \notin rr[e].lent
  BY <1>2, Indexes DEF IInv, MapIsLent
<1>4. CallInv' /\ {"pc", "chunk"} \subseteq DOMAIN sel'
  BY <1>1 DEF CallInv, NoCall
<1>5. cb_index_map' = [s \in Sess |-> cb_index_map'[s]]
  BY <1>1, <1>2 DEF Shape
<1>6. \A s \in Sess : cb_index_map'[s] = IF s = c /\ CanLend(d) THEN d ELSE cb_index_map[s]
  BY <1>1, <1>2 DEF Shape
<1>7. CASE d \notin Daemon
  <2>1. rr' = rr /\ cb_state' = cb_state
    BY <1>1, <1>2, <1>7 DEF Shape
  <2>2. Shape'
    BY <1>1, <1>2, <1>4, <1>5, <2>1 DEF Shape
  <2>3. (\A e \in Daemon : Counted(e)') /\ LenderKnown'
    BY <1>1, <2>1 DEF IInv, Counted, LenderKnown
  <2>4. MapIsLent'
    <3>1. \A e \in Daemon, s \in Sess : cb_index_map'[s] = e <=> cb_index_map[s] = e
      BY <1>2, <1>6, <1>7, Indexes
    <3> QED BY <2>1, <3>1 DEF IInv, MapIsLent
  <2>5. HandlerInv'
    BY <1>1, <1>2, <1>6, <2>1 DEF IInv, HandlerInv, Shape
  <2> QED BY <1>4, <2>2, <2>3, <2>4, <2>5 DEF IInv
<1>8. CASE d \in Daemon
  <2>1. rr[d] \in RemoteMem /\ Counted(d)
    BY <1>2, <1>8 DEF Shape, IInv
  <2>2. /\ r \in RemoteMem /\ r.chunks = rr[d].chunks /\ r.size_gb = rr[d].size_gb
        /\ r.lent = IF CanLend(d) THEN rr[d].lent \cup {c} ELSE rr[d].lent
    <3>1. /\ rr[d].mapped_size + 1 \in Int
          /\ (IF CanLend(d) THEN rr[d].lent \cup {c} ELSE rr[d].lent) \in SUBSET Sess
      BY <1>2, <2>1 DEF RemoteMem
    <3> QED BY <2>1, <3>1 DEF RemoteMem
  <2>3. Cardinality(r.lent) <= r.chunks
    <3>1. CASE CanLend(d)
      <4>1. Cardinality(rr[d].lent \cup {c}) = Cardinality(rr[d].lent) + 1
        BY <1>3, <1>8, <2>1, Indexes, FS_AddElement DEF RemoteMem
      <4>2. Cardinality(rr[d].lent) \in Nat /\ rr[d].chunks \in Nat
        BY <2>1, Indexes DEF RemoteMem
      <4> QED BY <2>2, <3>1, <4>1, <4>2 DEF CanLend
    <3>2. CASE ~CanLend(d)
      BY <2>1, <2>2, <3>2 DEF Counted
    <3> QED BY <3>1, <3>2
  <2> HIDE DEF r
  <2>4. /\ rr'[d] = r /\ cb_state'[d] = "MAPPED"
        /\ \A e \in Daemon \ {d} : rr'[e] = rr[e] /\ cb_state'[e] = cb_state[e]
    BY <1>1, <1>2, <1>8 DEF Shape
  <2>5. Shape'
    BY <1>1, <1>2, <1>4, <1>5, <1>8, <2>2 DEF Shape
  <2>6. \A e \in Daemon : Counted(e)'
    <3> TAKE e \in Daemon
    <3>1. CASE e = d
      BY <1>1, <2>1, <2>2, <2>3, <2>4, <3>1 DEF Counted
    <3>2. CASE e # d
      BY <1>1, <2>4, <3>2 DEF IInv, Counted
    <3> QED BY <3>1, <3>2
  <2>7. MapIsLent'
    <3> SUFFICES ASSUME NEW e \in Daemon
                 PROVE  {s \in Sess : cb_index_map'[s] = e} = rr'[e].lent
      BY DEF MapIsLent
    <3>1. {s \in Sess : cb_index_map[s] = e} = rr[e].lent
      BY DEF IInv, MapIsLent
    <3>2. CASE e = d
      BY <1>2, <1>6, <2>2, <2>4, <3>1, <3>2
    <3>3. CASE e # d
      <4>1. \A s \in Sess : cb_index_map'[s] = e <=> cb_index_map[s] = e
        BY <1>2, <1>6, <3>3, Indexes
      <4> QED BY <2>4, <3>1, <3>3, <4>1
    <3> QED BY <3>2, <3>3
  <2>8. LenderKnown'
    BY <2>4 DEF IInv, LenderKnown
  <2>9. HandlerInv'
    <3>1. \A e \in Daemon : rr[e].lent \subseteq rr'[e].lent
      BY <2>2, <2>4
    <3> QED BY <1>1, <1>2, <1>6, <3>1 DEF IInv, HandlerInv, Shape
  <2> QED BY <1>4, <2>5, <2>6, <2>7, <2>8, <2>9 DEF IInv
<1> QED BY <1>7, <1>8

-----------------------------------------------------------------------------
(* Steps of a call and of its callers that lend nothing and unmap nothing. *)
Kept == UNCHANGED <<app, rr, fm, cb_index_map>>

LEMMA KeptCounted ==
    ASSUME IInv, Kept
    PROVE  (\A d \in Daemon : Counted(d)') /\ MapIsLent'
BY DEF IInv, Kept, Counted, MapIsLent

LEMMA CallStep ==
    ASSUME NEW by, NEW s \in Sess, Call(by, s), {"pc", "chunk"} \subseteq DOMAIN sel
    PROVE  /\ {"pc", "chunk"} \subseteq DOMAIN sel'
           /\ sel' = sel \/ sel'.chunk = s
BY DEF Call, NoCall

LEMMA TriggerStep ==
    ASSUME IInv, NEW ops \in Nat, Trigger(ops)
    PROVE  IInv'
<1>1. /\ Kept /\ UNCHANGED <<cb_state, remap, handler>>
      /\ next' = (next + 1) % Cardinality(Sess)
  BY DEF Trigger, Kept
<1>2. \/ sel' = sel
      \/ handler = -1 /\ cb_index_map[next] = -1 /\ Call("trigger", next)
  BY DEF Trigger
<1>3. Shape /\ next \in Sess /\ {"pc", "chunk"} \subseteq DOMAIN sel
  BY DEF IInv, Shape
<1>4. next' \in Sess
  <2>1. next \in Nat /\ Cardinality(Sess) \in Nat \ {0} /\ Sess = 0 .. Cardinality(Sess) - 1
    BY <1>3, Indexes, ServerSelectAssumption
  <2> QED BY <1>1, <2>1
<1>5. /\ {"pc", "chunk"} \subseteq DOMAIN sel'
      /\ sel' = sel \/ (sel'.chunk = next /\ handler = -1 /\ cb_index_map[next] = -1)
  BY <1>2, <1>3, CallStep
<1>6. Shape'
  BY <1>1, <1>3, <1>4, <1>5 DEF Shape, Kept
<1>7. LenderKnown' /\ HandlerInv'
  BY <1>1 DEF IInv, Kept, LenderKnown, HandlerInv
<1>8. CallInv'
  BY <1>1, <1>3, <1>5 DEF IInv, Kept, HandlerInv, CallInv
<1> QED BY <1>1, <1>6, <1>7, <1>8, KeptCounted DEF IInv

LEMMA RemapStep ==
    ASSUME IInv, Remap
    PROVE  IInv'
<1> DEFINE c == Min(remap)
<1>1. /\ Kept /\ UNCHANGED <<cb_state, next, handler>> /\ Call("handler", c)
      /\ remap' = remap \ {c} /\ handler # -1 /\ fm[handler].pc # "stop" /\ sel.pc = "idle"
  BY DEF Remap, Kept
<1>2. Shape /\ c \in remap /\ c \in Sess /\ cb_index_map[c] = -1
  BY MinIsMember DEF IInv, Shape, HandlerInv, Remap
<1> HIDE DEF c
<1>3. {"pc", "chunk"} \subseteq DOMAIN sel' /\ (sel' = sel \/ sel'.chunk = c)
  BY <1>1, <1>2, CallStep DEF Shape
<1>4. Shape'
  BY <1>1, <1>2, <1>3 DEF Shape, Kept
<1>5. LenderKnown'
  BY <1>1 DEF IInv, Kept, LenderKnown
<1>6. HandlerInv'
  BY <1>1, <1>2 DEF IInv, Kept, HandlerInv, Shape
<1>7. CallInv'
  BY <1>1, <1>2, <1>3 DEF CallInv, Kept
<1> QED BY <1>1, <1>4, <1>5, <1>6, <1>7, KeptCounted DEF IInv

LEMMA AskStep ==
    ASSUME IInv, Ask
    PROVE  IInv'
<1> DEFINE d == sel.selection[Len(sel.free_mem) + 1]
<1>1. /\ Kept /\ UNCHANGED <<next, remap, handler>> /\ sel.pc = "ask"
      /\ cb_state' = [cb_state EXCEPT ![d] = IF cb_state[d] = "IDLE" THEN "CONNECTED" ELSE cb_state[d]]
  BY DEF Ask, Kept
<1>2. Shape /\ {"pc", "chunk"} \subseteq DOMAIN sel
  BY DEF IInv, Shape
<1>3. /\ {"pc", "chunk"} \subseteq DOMAIN sel'
      /\ sel'.pc = sel.pc /\ sel'.chunk = sel.chunk
  BY <1>2 DEF Ask
<1> HIDE DEF d
<1>4. \A e \in Daemon : /\ cb_state'[e] \in {"IDLE", "CONNECTED", "MAPPED", "EVICTING", "FAIL"}
                         /\ cb_state[e] # "IDLE" => cb_state'[e] = cb_state[e]
  BY <1>1, <1>2 DEF Shape
<1>5. Shape'
  BY <1>1, <1>2, <1>3, <1>4 DEF Shape, Kept
<1>6. LenderKnown'
  BY <1>1, <1>4 DEF IInv, Kept, LenderKnown
<1>7. HandlerInv' /\ CallInv'
  BY <1>1, <1>3 DEF IInv, Kept, HandlerInv, CallInv
<1> QED BY <1>1, <1>5, <1>6, <1>7, KeptCounted DEF IInv

LEMMA ChooseStep ==
    ASSUME IInv, Choose
    PROVE  IInv'
<1>1. Kept /\ UNCHANGED <<cb_state, next, remap, handler>> /\ sel.pc = "ask"
  BY DEF Choose, Kept
<1>2. Shape /\ {"pc", "chunk"} \subseteq DOMAIN sel
  BY DEF IInv, Shape
<1>3. /\ {"pc", "chunk"} \subseteq DOMAIN sel'
      /\ sel'.pc # "idle" => sel'.chunk = sel.chunk
  BY <1>2 DEF Choose, NoCall
<1>4. Shape'
  BY <1>1, <1>2, <1>3 DEF Shape, Kept
<1>5. LenderKnown' /\ HandlerInv'
  BY <1>1 DEF IInv, Kept, LenderKnown, HandlerInv
<1>6. CallInv'
  BY <1>1, <1>3 DEF IInv, Kept, CallInv
<1> QED BY <1>1, <1>4, <1>5, <1>6, KeptCounted DEF IInv

LEMMA HandlerEndStep ==
    ASSUME IInv, HandlerEnd
    PROVE  IInv'
<1>1. /\ Kept /\ UNCHANGED <<next, remap, sel>> /\ remap = {} /\ handler' = -1
      /\ handler # -1 /\ fm[handler].pc # "stop"
      /\ cb_state' = [cb_state EXCEPT ![handler] =
                         IF cb_state[handler] = "FAIL" THEN cb_state[handler] ELSE "MAPPED"]
  BY DEF HandlerEnd, Kept
<1>2. Shape /\ handler \in Daemon
  BY <1>1 DEF IInv, Shape
<1>3. Shape'
  BY <1>1, <1>2 DEF Shape, Kept
<1>4. LenderKnown'
  BY <1>1, <1>2 DEF IInv, Kept, LenderKnown, Shape
<1>5. HandlerInv'
  BY <1>1, Indexes DEF IInv, Kept, HandlerInv
<1>6. CallInv'
  BY <1>1 DEF IInv, Kept, CallInv
<1> QED BY <1>1, <1>3, <1>4, <1>5, <1>6, KeptCounted DEF IInv

-----------------------------------------------------------------------------
LEMMA NextIInv == IInv /\ [Next]_vars => IInv'
<1> SUFFICES ASSUME IInv, [Next]_vars PROVE IInv'
  OBVIOUS
<1>1. CASE UNCHANGED vars
  <2>1. UNCHANGED selVars /\ Kept
    BY <1>1 DEF vars, selVars, Kept
  <2>2. Shape'
    BY <2>1 DEF IInv, Shape, Kept, selVars
  <2>3. \A d \in Daemon : rr'[d].lent = rr[d].lent /\ (fm'[d].pc = "stop" <=> fm[d].pc = "stop")
    BY <2>1 DEF Kept
  <2> QED BY <2>1, <2>2, <2>3, KeptCounted, Alone
<1>2. ASSUME NEW d \in Daemon, Application(d)
      PROVE  IInv'
  BY <1>2, AppStep DEF Application
<1>3. ASSUME NEW d \in Daemon, Rounds(d)
      PROVE  IInv'
  BY <1>3, SampleStep, ExpandStep DEF Rounds
<1>4. ASSUME NEW d \in Daemon, GiveUp(d) \/ Stop(d) \/ Lose(d)
      PROVE  IInv'
  BY <1>4, GiveUpStep, StopStep, LoseStep
<1>5. ASSUME NEW ops \in 0 .. MaxOps, Trigger(ops)
      PROVE  IInv'
  BY <1>5, TriggerStep, ServerSelectAssumption
<1>6. CASE Ask \/ Choose \/ Bind \/ Done \/ Remap \/ HandlerEnd
  BY <1>6, AskStep, ChooseStep, BindStep, DoneStep, RemapStep, HandlerEndStep
<1> QED BY <1>1, <1>2, <1>3, <1>4, <1>5, <1>6 DEF Next

LEMMA InvHolds == Spec => []IInv
BY InitIInv, NextIInv, PTL DEF Spec

(* What a daemon reports as its size is what it has allocated, and never   *)
(* more than MAX_FREE_MEM_GB, through every round of free_mem, every       *)
(* eviction and every DONE, whatever the thresholds are.                   *)
THEOREM SizeCounted == Spec => []SizeIsChunks
<1>1. IInv => SizeIsChunks
  BY DEF IInv, Counted, SizeIsChunks
<1> QED BY <1>1, InvHolds, PTL

(* Client and daemons agree on who holds a chunk, also when a server is    *)
(* lost in the middle of a call, when its answer is stale, and when the    *)
(* handler of an eviction overlaps with a call of rdma_trigger.            *)
THEOREM AgreeOnHolder == Spec => []MapIsLent
<1>1. IInv => MapIsLent
  BY DEF IInv
<1> QED BY <1>1, InvHolds, PTL
=============================================================================
