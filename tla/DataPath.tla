------------------------------ MODULE DataPath ------------------------------
(***************************************************************************)
(* The data path of a block device: IS_request sends a page to the backup  *)
(* disk, or by RDMA to a chunk of a daemon's memory; a write by RDMA goes  *)
(* to the disk as well, from the buffer of its context.  A bitmap per      *)
(* chunk records the pages that the remote memory holds.  Meanwhile chunks *)
(* are mapped, evicted (evict_handler) and lost (IS_disconnect_handler).   *)
(* The messages behind those three are the subject of BlockDevice; here    *)
(* they are steps on the maps.                                             *)
(***************************************************************************)
EXTENDS Integers, Sequences, FiniteSets, SequencesExt, FiniteSetsExt, Functions

CONSTANTS
    Cb,             \* the control blocks, one per daemon
    NoCb,           \* NO_CB_MAPPED
    NumSess,        \* STACKBD_SIZE_G
    PagesPerChunk,  \* ONE_GB / IS_PAGE_SIZE
    NumChunks,      \* MAX_MR_SIZE_GB
    NumCtx,         \* the contexts of a control block, over all queues
    Req, NoReq,     \* the request tags; NULL
    Val, Zero,      \* page contents; that of a new disk
    Junk,           \* what new remote memory holds
    Env,            \* "evict", "disconnect": chunks are evicted, daemons lost
                    \* "disk_first": the disk may be done with a write before
                    \* the completion of its RDMA write is handled
                    \* "late_completion": some completions wait in the
                    \* queue when the daemon is lost
                    \* "word_race": setting and clearing a bit may collide
    MaxReqs, MaxMaps, MaxEvicts

ASSUME DataAssumption ==
    /\ {NumSess, PagesPerChunk, NumChunks, NumCtx} \subseteq Nat \ {0}
    /\ NoCb \notin Cb /\ NoReq \notin Req /\ Zero \in Val /\ Junk \notin Val
    /\ Env \subseteq {"evict", "disconnect", "disk_first", "late_completion", "word_race"}
    /\ {MaxReqs, MaxMaps, MaxEvicts} \subseteq Nat

Sess    == 0 .. NumSess - 1
Offsets == 0 .. PagesPerChunk - 1
Pages   == 0 .. NumSess * PagesPerChunk - 1
Chunks  == 0 .. NumChunks - 1
Ctxs    == 1 .. NumCtx

ChunkOf(p)  == p \div PagesPerChunk
OffsetOf(p) == p % PagesPerChunk

VARIABLES
    req,           \* req[q]: the request and the locals of IS_request
    disk, bios,    \* the backup disk, and its queue (stackbd.bio_list on)
    remote, lent,  \* remote[b][i][o]: memory of daemon b; the chunks it lends
    cb_index_map,  \* cb_index_map[s]: control block of session chunk s, or NoCb
    cb_chunk,      \* chunk_map_cb_chunk[s]: its chunk there, or -1
    chunk_map,     \* chunk_map[b][i]: the session chunk in chunk i, or -1
    bitmap,        \* bitmap[b][i]: the offsets whose bit is set
    rdma_on, ending,  \* ending: IS_single_chunk_map is about to set rdma_on
    ctx, pool, wr, \* contexts, free_ctxs, posted RDMA operations, by b
    gone,          \* the control blocks whose ctx_pools were freed
    hnd, disc,     \* evict_handler and IS_disconnect_handler of b
    mem, up,       \* what finished writes wrote (history); the machine runs
    count          \* the counters of the bounds

maps    == <<cb_index_map, cb_chunk, chunk_map>>
daemon  == <<remote, lent>>
handler == <<hnd, disc, ending>>
rdma    == <<ctx, pool, wr, gone>>
vars    == <<req, disk, bios, daemon, maps, bitmap, rdma_on, rdma, handler,
             mem, up, count>>

NoOp == [st |-> "idle", write |-> FALSE, pages |-> {}, val |-> Zero,
         b |-> NoCb, i |-> -1, x |-> 0]

(* IS_ctx_init.  ptr: the chunk of chunk_ptr, or -1 (NULL). *)
NewCtx == [req |-> NoReq, chunk |-> -1, ptr |-> -1, offs |-> {},
           in_flight |-> "IDLE", buf |-> Zero]

NoEvict == [pc |-> "idle", stop |-> {}, list |-> {}]

Init ==
    /\ req = [q \in Req |-> NoOp]
    /\ disk = [p \in Pages |-> Zero] /\ bios = <<>>
    /\ remote = [b \in Cb |-> [i \in Chunks |-> [o \in Offsets |-> Junk]]]
    /\ lent = {}
    /\ cb_index_map = [s \in Sess |-> NoCb] /\ cb_chunk = [s \in Sess |-> -1]
    /\ chunk_map = [b \in Cb |-> [i \in Chunks |-> -1]]
    /\ bitmap = [b \in Cb |-> [i \in Chunks |-> {}]]
    /\ rdma_on = FALSE /\ ending = FALSE
    /\ ctx = [b \in Cb |-> [k \in Ctxs |-> NewCtx]]
    /\ pool = [b \in Cb |-> [k \in Ctxs |-> k]]
    /\ wr = [b \in Cb |-> <<>>] /\ gone = {}
    /\ hnd = [b \in Cb |-> NoEvict]
    /\ disc = [b \in Cb |-> "none"]
    /\ mem = [p \in Pages |-> Zero] /\ up = TRUE
    /\ count = [req |-> 0, map |-> 0, evict |-> 0]

-----------------------------------------------------------------------------
(* IS_request *)

Busy(q) == req[q].st \notin {"idle", "done"}

(* A read is of one page ("read is always single page", is_mq.c:522). *)
Requests == {[NoOp EXCEPT !.st = "new", !.pages = {p}] : p \in Pages}
            \cup {[NoOp EXCEPT !.st = "new", !.write = TRUE, !.pages = p .. p + n,
                               !.val = v] : p \in Pages, n \in {0, 1}, v \in Val}

(* The block layer calls IS_queue_rq. *)
IS_queue_rq(q) ==
    /\ up /\ ~Busy(q) /\ count.req < MaxReqs
    /\ \E op \in Requests :
         /\ op.pages \subseteq Pages
         /\ \A r \in Req \ {q} : Busy(r) => req[r].pages \cap op.pages = {}
         /\ req' = [req EXCEPT ![q] = op]
    /\ count' = [count EXCEPT !.req = @ + 1]
    /\ UNCHANGED <<disk, bios, daemon, maps, bitmap, rdma_on, rdma, handler, mem, up>>

(* IS_mq_request_stackbd and ..._stackbd2: the disk will finish request q. *)
ReqBio(q) == [q |-> q, b |-> NoCb, k |-> 0, pages |-> req[q].pages]
ToDisk(q) ==
    /\ bios' = Append(bios, ReqBio(q))
    /\ req' = [req EXCEPT ![q].st = "sent"]

(* The offsets of a request's pages in their chunk *)
OffsetsOf(r) == {OffsetOf(p) : p \in r.pages}

(* The bits after a write across two chunks: its pages are cleared. *)
GroupClear_none(P) == bitmap
GroupClear(P) ==
    [b \in Cb |-> [i \in Chunks |->
       bitmap[b][i] \ {OffsetOf(p) : p \in {r \in P :
          cb_index_map[ChunkOf(r)] = b /\ cb_chunk[ChunkOf(r)] = i}}]]

(* The bits may also be as they were in the word of a chunk where a        *)
(* completion, on another processor, has read the word before the clearing *)
(* and writes it after.  A word covers all pages of a small chunk.         *)
Racing == {<<b, i>> \in Cb \X Chunks :
             /\ "word_race" \in Env
             /\ \E n \in DOMAIN wr[b] : wr[b][n].write /\ wr[b][n].i = i}
IS_bitmap_clear(P) ==
    {GroupClear(P)}
    \cup {[GroupClear(P) EXCEPT ![w[1]][w[2]] = bitmap[w[1]][w[2]]] : w \in Racing}

(* lines 462-503: where the pages are; across two chunks only the disk *)
lookup(q) ==
    LET r == req[q]
        S == {ChunkOf(p) : p \in r.pages}
    IN
    /\ up /\ r.st = "new"
    /\ \/ /\ Cardinality(S) = 1
          /\ \E s \in S :
               IF cb_index_map[s] = NoCb \/ cb_chunk[s] = -1
               THEN ToDisk(q)
               ELSE /\ req' = [req EXCEPT ![q].st = "found", ![q].i = cb_chunk[s],
                                          ![q].b = cb_index_map[s]]
                    /\ UNCHANGED bios
          /\ UNCHANGED bitmap
       \/ /\ Cardinality(S) = 2
          /\ ToDisk(q)
          /\ bitmap' \in IF r.write THEN IS_bitmap_clear(r.pages) ELSE {bitmap}
    /\ UNCHANGED <<disk, daemon, maps, rdma_on, rdma, handler, mem, up, count>>

(* IS_bitmap_test; a write does not look *)
Recorded_always(r) == TRUE
Recorded(r) == r.write \/ OffsetsOf(r) \subseteq bitmap[r.b][r.i]

(* lines 510-531: rdma_on, and for a read the bit of the page *)
route(q) ==
    LET r == req[q] IN
    /\ up /\ r.st = "found"
    /\ IF rdma_on /\ Recorded(r)
       THEN req' = [req EXCEPT ![q].st = "ready"] /\ UNCHANGED bios
       ELSE ToDisk(q)
    /\ UNCHANGED <<disk, daemon, maps, bitmap, rdma_on, rdma, handler, mem, up, count>>

(* The stack of free contexts after its top was taken *)
Popped_still(b) == pool
Popped(b) == [pool EXCEPT ![b] = Front(@)]

(* A context as IS_rdma_read and IS_rdma_write fill it *)
Filled_anonymous(q, c) ==
    [c EXCEPT !.chunk = req[q].i,
              !.ptr = IF req[q].write THEN req[q].i ELSE @,
              !.offs = IF req[q].write THEN OffsetsOf(req[q]) ELSE @,
              !.in_flight = IF req[q].write THEN "W" ELSE "R"]
Filled(q, c) ==
    [c EXCEPT !.req = q, !.chunk = req[q].i,
              !.ptr = IF req[q].write THEN req[q].i ELSE @,
              !.offs = IF req[q].write THEN OffsetsOf(req[q]) ELSE @,
              !.in_flight = IF req[q].write THEN "W" ELSE "R"]

(* IS_rdma_read and IS_rdma_write up to in_flight; without a free context  *)
(* they try again.                                                         *)
IS_get_ctx(q) ==
    LET r == req[q]
        k == Last(pool[r.b])
    IN
    /\ up /\ r.st = "ready" /\ pool[r.b] # <<>>
    /\ pool' = Popped(r.b)
    /\ ctx' = [ctx EXCEPT ![r.b][k] = Filled(q, @)]
    /\ req' = [req EXCEPT ![q].st = "filled", ![q].x = k]
    /\ UNCHANGED <<disk, bios, daemon, maps, bitmap, rdma_on, wr, gone, handler,
                   mem, up, count>>

(* stackbd_bio_generate: a write by RDMA goes to the disk too, from the     *)
(* context's buffer.                                                       *)
Backup_none(q) == bios
Backup(q) ==
    IF req[q].write
    THEN Append(bios, [q |-> NoReq, b |-> req[q].b, k |-> req[q].x,
                       pages |-> req[q].pages])
    ELSE bios

(* The rest of them: rdma_on again, mem_gather, the bio, ib_post_send.  A   *)
(* queue pair that was disconnected drops what is posted.                  *)
post(q) ==
    LET r == req[q]
        k == r.x
        op == [k |-> k, write |-> r.write, i |-> r.i,
               offs |-> OffsetsOf(r)]
    IN
    /\ up /\ r.st = "filled"
    /\ IF ~rdma_on
       THEN /\ ctx' = [ctx EXCEPT ![r.b][k].in_flight = "IDLE"]
            /\ pool' = [pool EXCEPT ![r.b] = Append(@, k)]
            /\ ToDisk(q)
            /\ UNCHANGED wr
       ELSE /\ ctx' = IF r.write THEN [ctx EXCEPT ![r.b][k].buf = r.val] ELSE ctx
            /\ bios' = Backup(q)
            /\ wr' = IF disc[r.b] = "none" THEN [wr EXCEPT ![r.b] = Append(@, op)]
                     ELSE wr
            /\ req' = [req EXCEPT ![q].st = "sent"]
            /\ UNCHANGED pool
    /\ UNCHANGED <<disk, daemon, maps, bitmap, rdma_on, gone, handler, mem, up, count>>

-----------------------------------------------------------------------------
(* Completions *)

(* blk_mq_end_request; v: what is in the request's buffer *)
Ended(q, v) == [NoOp EXCEPT !.st = "done", !.write = req[q].write,
                            !.pages = req[q].pages, !.val = v]
Written(q) == [p \in Pages |-> IF req[q].write /\ p \in req[q].pages
                               THEN req[q].val ELSE mem[p]]

(* The daemon's adapter serves the oldest operation; client_read_done *)
client_read_done(b) ==
    LET op == Head(wr[b])
        c  == ctx[b][op.k]
        v  == remote[b][op.i][CHOOSE o \in op.offs : TRUE]
    IN
    /\ up /\ wr[b] # <<>> /\ ~op.write
    /\ wr' = [wr EXCEPT ![b] = Tail(@)]
    /\ ctx' = [ctx EXCEPT ![b][op.k] =
                 [@ EXCEPT !.in_flight = "IDLE", !.chunk = -1, !.req = NoReq]]
    /\ pool' = [pool EXCEPT ![b] = Append(@, op.k)]
    /\ req' = [req EXCEPT ![c.req] = Ended(c.req, v)]
    /\ UNCHANGED <<disk, bios, daemon, maps, bitmap, rdma_on, gone, handler, mem,
                   up, count>>

(* The same for a write; client_write_done finds a NULL chunk_ptr or req   *)
(* when another completion of the same context came first.                 *)
client_write_done(b) ==
    LET op == Head(wr[b])
        c  == ctx[b][op.k]
    IN
    /\ up /\ wr[b] # <<>> /\ op.write
    /\ wr' = [wr EXCEPT ![b] = Tail(@)]
    /\ remote' = [remote EXCEPT ![b][op.i] =
                    [o \in Offsets |-> IF o \in op.offs THEN c.buf ELSE @[o]]]
    /\ IF c.ptr = -1
       THEN UNCHANGED <<ctx, bitmap, req, mem>>
       ELSE /\ bitmap' = [bitmap EXCEPT ![b][c.ptr] = @ \cup c.offs]
            /\ ctx' = [ctx EXCEPT ![b][op.k] =
                         [@ EXCEPT !.in_flight = "IDLE", !.chunk = -1, !.ptr = -1,
                                   !.req = NoReq]]
            /\ IF c.req = NoReq
               THEN UNCHANGED <<req, mem>>
               ELSE /\ req' = [req EXCEPT ![c.req] = Ended(c.req, req[c.req].val)]
                    /\ mem' = Written(c.req)
    /\ UNCHANGED <<disk, bios, lent, maps, rdma_on, pool, gone, handler, up, count>>

(* The disk serves its requests in order.  stackbd_threadfn,               *)
(* IS_stackbd_end_io and ..._end_io2: the request is ended.                *)
IS_stackbd_end_io ==
    LET bio == Head(bios)
        r   == req[bio.q]
    IN
    /\ up /\ bios # <<>> /\ bio.q # NoReq
    /\ bios' = Tail(bios)
    /\ disk' = [p \in Pages |-> IF r.write /\ p \in bio.pages THEN r.val ELSE disk[p]]
    /\ req' = [req EXCEPT ![bio.q] =
                 Ended(bio.q, IF r.write THEN r.val
                              ELSE disk[CHOOSE p \in bio.pages : TRUE])]
    /\ mem' = Written(bio.q)
    /\ UNCHANGED <<daemon, maps, bitmap, rdma_on, rdma, handler, up, count>>

(* IS_stackbd_end_io3: the context goes back to its pool, which may have   *)
(* been freed.                                                             *)
IS_stackbd_end_io3 ==
    LET bio == Head(bios)
        b   == bio.b
    IN
    /\ up /\ bios # <<>> /\ bio.q = NoReq
    /\ "disk_first" \in Env \/ \A n \in DOMAIN wr[b] : wr[b][n].k # bio.k
    /\ bios' = Tail(bios)
    /\ disk' = [p \in Pages |-> IF p \in bio.pages THEN ctx[b][bio.k].buf ELSE disk[p]]
    /\ \/ b \in gone /\ up' = FALSE /\ UNCHANGED pool
       \/ b \notin gone /\ pool' = [pool EXCEPT ![b] = Append(@, bio.k)] /\ UNCHANGED up
    /\ UNCHANGED <<req, daemon, maps, bitmap, rdma_on, ctx, wr, gone, handler, mem,
                   count>>

-----------------------------------------------------------------------------
(* Mapping, eviction and loss of chunks *)

(* IS_single_chunk_init: daemon b lends its chunk i for session chunk s. *)
IS_single_chunk_init(b, s, i) ==
    /\ up /\ count.map < MaxMaps /\ ~ending
    /\ disc[b] = "none" /\ <<b, i>> \notin lent
    /\ cb_index_map[s] = NoCb /\ cb_chunk[s] = -1
    /\ lent' = lent \cup {<<b, i>>}
    /\ remote' = [remote EXCEPT ![b][i] = [o \in Offsets |-> Junk]]
    /\ bitmap' = [bitmap EXCEPT ![b][i] = {}]
    /\ cb_chunk' = [cb_chunk EXCEPT ![s] = i]
    /\ chunk_map' = [chunk_map EXCEPT ![b][i] = s]
    /\ cb_index_map' = [cb_index_map EXCEPT ![s] = b]
    /\ ending' = TRUE
    /\ count' = [count EXCEPT !.map = @ + 1]
    /\ UNCHANGED <<req, disk, bios, rdma_on, rdma, hnd, disc, mem, up>>

(* The end of IS_single_chunk_map *)
IS_single_chunk_map ==
    /\ up /\ ending
    /\ ending' = FALSE /\ rdma_on' = TRUE
    /\ UNCHANGED <<req, disk, bios, daemon, maps, bitmap, rdma, hnd, disc, mem, up,
                   count>>

(* What the sleeps of the handlers are for: no request is on its way       *)
(* through IS_request to control block b, which runs on one processor,     *)
(* except one that waits for a context.                                    *)
Settled(b) ==
    \A q \in Req : req[q].b = b =>
        /\ req[q].st \notin {"found", "filled"}
        /\ req[q].st = "ready" => pool[b] = <<>>

InFlight_reads(b) == {k \in Ctxs : ctx[b][k].in_flight = "R"}
InFlight(b) == {k \in Ctxs : ctx[b][k].in_flight # "IDLE"}

(* evict_handler after STOP, with 's' in evict_chunk_map for the chunks I *)
evict_unmap(b) ==
    /\ up /\ "evict" \in Env /\ count.evict < MaxEvicts
    /\ hnd[b].pc = "idle" /\ disc[b] = "none"
    /\ \E I \in SUBSET {i \in Chunks : chunk_map[b][i] # -1} \ {{}} :
         LET S == {chunk_map[b][i] : i \in I} IN
         /\ cb_index_map' = [s \in Sess |-> IF s \in S THEN NoCb ELSE cb_index_map[s]]
         /\ chunk_map' = [chunk_map EXCEPT ![b] =
                            [i \in Chunks |-> IF i \in I THEN -1 ELSE @[i]]]
         /\ hnd' = [hnd EXCEPT ![b] = [pc |-> "wait", stop |-> I, list |-> S]]
    /\ count' = [count EXCEPT !.evict = @ + 1]
    /\ UNCHANGED <<req, disk, bios, daemon, cb_chunk, bitmap, rdma_on, rdma, disc,
                   ending, mem, up>>

(* IS_chunk_wait_in_flight_requests, the bitmaps, DONE.  The contexts it   *)
(* looks at may be gone.                                                   *)
evict_done(b) ==
    /\ up /\ hnd[b].pc = "wait"
    /\ \/ b \in gone /\ up' = FALSE /\ UNCHANGED <<hnd, bitmap, lent>>
       \/ /\ b \notin gone /\ Settled(b)
          /\ \A k \in InFlight(b) : chunk_map[b][ctx[b][k].chunk] # -1
          /\ bitmap' = [bitmap EXCEPT ![b] =
                          [i \in Chunks |-> IF i \in hnd[b].stop THEN {} ELSE @[i]]]
          /\ lent' = lent \ ({b} \X hnd[b].stop)
          /\ hnd' = [hnd EXCEPT ![b].pc = "release"]
          /\ UNCHANGED up
    /\ UNCHANGED <<req, disk, bios, remote, maps, rdma_on, rdma, disc, ending, mem,
                   count>>

(* The session chunks are free again; IS_single_chunk_map may follow. *)
evict_release(b) ==
    /\ up /\ hnd[b].pc = "release"
    /\ cb_chunk' = [s \in Sess |-> IF s \in hnd[b].list THEN -1 ELSE cb_chunk[s]]
    /\ hnd' = [hnd EXCEPT ![b] = NoEvict]
    /\ UNCHANGED <<req, disk, bios, daemon, cb_index_map, chunk_map, bitmap, rdma_on,
                   rdma, disc, ending, mem, up, count>>

(* What is left of the posted operations ("cq flushed"): the completions   *)
(* that are in the queue already, behind the sleep of                      *)
(* rdma_cq_event_handler.                                                  *)
Flushed(b) ==
    {SubSeq(wr[b], 1, n) : n \in 0 .. IF "late_completion" \in Env THEN Len(wr[b]) ELSE 0}

(* The daemon of a mapped control block is lost: its queue pair is         *)
(* flushed, then IS_disconnect_handler up to its msleep.                   *)
disconnect(b) ==
    LET I == {i \in Chunks : chunk_map[b][i] # -1} IN
    /\ up /\ "disconnect" \in Env /\ disc[b] = "none"
    /\ \E i \in Chunks : <<b, i>> \in lent
    /\ lent' = lent \ ({b} \X Chunks)
    /\ \E left \in Flushed(b) : wr' = [wr EXCEPT ![b] = left]
    /\ rdma_on' = FALSE
    /\ bitmap' = [bitmap EXCEPT ![b] = [i \in Chunks |-> IF i \in I THEN {} ELSE @[i]]]
    /\ cb_index_map' = [s \in Sess |-> IF \E i \in I : chunk_map[b][i] = s THEN NoCb
                                       ELSE cb_index_map[s]]
    /\ disc' = [disc EXCEPT ![b] = "sweep"]
    /\ UNCHANGED <<req, disk, bios, remote, cb_chunk, chunk_map, ctx, pool, gone, hnd,
                   ending, mem, up, count>>

(* One context in flight: a read goes to the disk, a write is ended, for   *)
(* its bio carries the data.                                               *)
disc_ctx(b) ==
    /\ up /\ disc[b] = "sweep" /\ Settled(b) /\ InFlight(b) # {}
    /\ LET k == Min(InFlight(b))
           c == ctx[b][k]
       IN
       /\ ctx' = [ctx EXCEPT ![b][k].in_flight = "IDLE"]
       /\ \/ /\ c.in_flight = "R"
             /\ ToDisk(c.req)
             /\ pool' = [pool EXCEPT ![b] = Append(@, k)]
             /\ UNCHANGED mem
          \/ /\ c.in_flight = "W"
             /\ req' = [req EXCEPT ![c.req] = Ended(c.req, req[c.req].val)]
             /\ mem' = Written(c.req)
             /\ UNCHANGED <<bios, pool>>
    /\ UNCHANGED <<disk, daemon, maps, bitmap, rdma_on, wr, gone, handler, up, count>>

(* The rest of IS_disconnect_handler, up to IS_single_chunk_map *)
disc_release(b) ==
    /\ up /\ disc[b] = "sweep" /\ Settled(b) /\ InFlight(b) = {}
    /\ cb_chunk' = [s \in Sess |-> IF \E i \in Chunks : chunk_map[b][i] = s THEN -1
                                   ELSE cb_chunk[s]]
    /\ chunk_map' = [chunk_map EXCEPT ![b] = [i \in Chunks |-> -1]]
    /\ gone' = gone \cup {b}
    /\ rdma_on' = TRUE
    /\ disc' = [disc EXCEPT ![b] = "done"]
    /\ UNCHANGED <<req, disk, bios, daemon, cb_index_map, bitmap, ctx, pool, wr, hnd,
                   ending, mem, up, count>>

-----------------------------------------------------------------------------
Request(q) == lookup(q) \/ route(q) \/ IS_get_ctx(q) \/ post(q)
Completion == IS_stackbd_end_io \/ IS_stackbd_end_io3
RdmaDone(b) == client_read_done(b) \/ client_write_done(b)
Disconnected(b) == disc_ctx(b) \/ disc_release(b)

Next ==
    \/ \E q \in Req : IS_queue_rq(q) \/ Request(q)
    \/ Completion \/ IS_single_chunk_map
    \/ \E b \in Cb :
         \/ RdmaDone(b) \/ evict_unmap(b) \/ evict_done(b) \/ evict_release(b)
         \/ disconnect(b) \/ Disconnected(b)
         \/ \E s \in Sess, i \in Chunks : IS_single_chunk_init(b, s, i)

Safe == Init /\ [][Next]_vars

(* The block layer's processors, the disk, the adapters and the connection *)
(* manager's thread run; nothing makes a daemon evict or a chunk be mapped. *)
Fairness ==
    /\ \A q \in Req : WF_vars(Request(q))
    /\ WF_vars(Completion)
    /\ \A b \in Cb : WF_vars(RdmaDone(b)) /\ WF_vars(Disconnected(b))

Spec == Safe /\ Fairness

-----------------------------------------------------------------------------
PageIn(b, i, o) == chunk_map[b][i] * PagesPerChunk + o

(* A page whose bit is set in the bitmap of a mapped chunk is in the remote *)
(* memory as the last finished write left it (is_mq.c:525 "remote           *)
(* recorded"): a read that finds the bit may go to the daemon.              *)
RecordedIsCurrent ==
    \A b \in Cb, i \in Chunks : \A o \in bitmap[b][i] :
        LET p == PageIn(b, i, o) IN
        \/ chunk_map[b][i] = -1
        \/ \E q \in Req : Busy(q) /\ req[q].write /\ p \in req[q].pages
        \/ remote[b][i][o] = mem[p]

(* When its queue is empty the disk holds what finished writes wrote: with  *)
(* every daemon lost, no page is (stackbd_bio_generate, IS_disconnect_handler). *)
DiskAfter ==
    LET Serve(d, bio) ==
          [p \in Pages |->
             IF p \notin bio.pages THEN d[p]
             ELSE IF bio.q = NoReq THEN ctx[bio.b][bio.k].buf
             ELSE IF req[bio.q].write THEN req[bio.q].val ELSE d[p]]
    IN FoldLeft(Serve, disk, bios)
BackupComplete ==
    \A p \in Pages :
        \/ \E q \in Req : Busy(q) /\ req[q].write /\ p \in req[q].pages
        \/ DiskAfter[p] = mem[p]

(* No RDMA operation is outstanding on memory that the daemon was told it   *)
(* may free (IS_chunk_wait_in_flight_requests before IS_send_done).         *)
OpsOnLent == \A b \in Cb : \A n \in DOMAIN wr[b] : <<b, wr[b][n].i>> \in lent

(* A completion that is still to come ends a request that nobody else has   *)
(* ended: neither the disk nor IS_disconnect_handler, which ends what is in *)
(* flight when the daemon is lost.                                          *)
EndedOnce ==
    \A b \in Cb : \A n \in DOMAIN wr[b] :
        LET q == ctx[b][wr[b][n].k].req IN q # NoReq /\ req[q].st = "sent"

(* A context is in its pool once, and not while the adapter or the disk may *)
(* still use its buffer, so the tail stays below the depth that             *)
(* IS_insert_ctx complains about (is_main.c:120).                           *)
ContextsOwnedOnce ==
    \A b \in Cb :
        /\ IsInjective(pool[b])
        /\ \A n \in DOMAIN wr[b] : wr[b][n].k \notin Range(pool[b])
        /\ \A n \in DOMAIN bios : bios[n].b = b => bios[n].k \notin Range(pool[b])

(* To the block layer this is a disk (Disk): a read returns what the last   *)
(* finished write of its page wrote, whatever was mapped, evicted or lost   *)
(* meanwhile, and every request that IS_queue_rq accepts is ended.          *)
Io == [q \in Req |-> [st |-> IF Busy(q) THEN "busy" ELSE req[q].st,
                      write |-> req[q].write, pages |-> req[q].pages,
                      val |-> req[q].val]]
AbstractDisk == INSTANCE Disk WITH Page <- Pages, io <- Io
Implements == AbstractDisk!Spec
=============================================================================
