--------------------------- MODULE SimPageProofs ----------------------------
(***************************************************************************)
(* Proofs about SimPage for every number of pages and frames: its type     *)
(* invariant, the ownership of the frames, that a clean page is what its   *)
(* swap file says, that the clock ring is one cycle, and that the          *)
(* simulator implements the flat memory of VirtMem as far as safety goes.  *)
(*                                                                         *)
(* None of these is inductive alone: which page loses its frame depends on *)
(* the ring that the clock hand walks.  Ring says what is needed of it.    *)
(***************************************************************************)
EXTENDS SimPage, SetLemmas

(* What page_fault relies on: the hand is on a resident page, cnext maps    *)
(* resident pages to resident pages one to one, and last_c is the entry    *)
(* before the hand.  With one frame last_c may be the page just evicted,   *)
(* but then the hand's clear bit is set and the sweep moves on first.      *)
Ring ==
    /\ curr_c \in Resident
    /\ \A p \in Resident : cnext[p] \in Resident
    /\ \A p, q \in Resident : cnext[p] = cnext[q] => p = q
    /\ cnext[last_c] = curr_c
    /\ last_c \in Resident \/ clear[curr_c] = 1

(* A call waits in page_fault for an absent page, and goes on with a       *)
(* resident one.                                                           *)
Calling ==
    /\ pc = "fault" => call.page \notin Resident
    /\ pc = "access" => call.page \in Resident

(* The half of FrameOwnership that the other invariants rest on. *)
FramesApart == \A p, q \in Resident : pframe[p] = pframe[q] => p = q

FramesUsed == \A f \in Frames : \E p \in Resident : pframe[p] = f

IInv == TypeOK /\ Ring /\ Calling /\ FramesApart /\ FramesUsed /\ CleanMatchesSwap

(* The page, offset and byte of a call of get or put are in range. *)
LEMMA CallFields ==
    ASSUME NEW c \in Calls
    PROVE  /\ c.page \in Pages /\ c.off \in Offsets
           /\ c.op \in {"get", "put"}
           /\ c.op = "put" => c.val \in Bytes
           /\ c # NoCall
BY DEF Calls, Gets, Puts, NoCall

(* init_page_table establishes the invariant: page p < init_np is in     *)
(* frame p, and the ring runs through those pages in order.                *)
LEMMA InitIInv == Init => IInv
<1> SUFFICES ASSUME Init PROVE IInv
  OBVIOUS
<1> USE SizesAssumption, BytesAssumption
<1>0. init_np \in FrameCounts /\ init_np \in 1 .. NumPages
  BY DEF Init
<1> USE <1>0
<1>1. Frames \subseteq Pages
  BY DEF Frames, Pages
<1>2. Resident = Frames
  BY DEF Init, Resident, Frames, Pages
<1>3. \A p \in Frames : cnext[p] = IF p = init_np - 1 THEN 0 ELSE p + 1
  <2> SUFFICES ASSUME NEW p \in Frames
               PROVE  cnext[p] = IF p = init_np - 1 THEN 0 ELSE p + 1
    OBVIOUS
  <2>1. cnext[p] = (p + 1) % init_np
    BY <1>1 DEF Init, Frames
  <2>2. (p + 1) % init_np = IF p = init_np - 1 THEN 0 ELSE p + 1
    BY SMT DEF Frames
  <2> QED BY <2>1, <2>2
<1>4. TypeOK
  <2>1. cnext \in [Pages -> Pages]
    BY <1>1, <1>3 DEF Init, Frames, Pages
  <2>2. /\ pframe \in [Pages -> Frames]
        /\ clear \in [Pages -> {-1, 0, 1}]
        /\ dirty \in [Pages -> {0, 1}]
        /\ last_c \in Pages /\ curr_c \in Pages
    BY DEF Init, Pages, Frames
  <2>3. /\ phys_mem \in [Frames -> PageData]
        /\ swap \in [Pages -> PageData]
        /\ files \in SUBSET Pages /\ ret \in Bytes
    BY DEF Init, ZeroPage, PageData
  <2>4. /\ call \in Calls \cup {NoCall}
        /\ pc \in {"idle", "fault", "access"}
        /\ (pc = "idle") = (call = NoCall)
    BY DEF Init
  <2> QED BY <2>1, <2>2, <2>3, <2>4 DEF TypeOK
<1>5. Ring
  <2>1. curr_c = 0 /\ last_c = init_np - 1 /\ 0 \in Frames /\ last_c \in Frames
    BY DEF Init, Frames
  <2>2. \A p \in Frames : cnext[p] \in Frames
    BY <1>3 DEF Frames
  <2>3. \A p, q \in Frames : cnext[p] = cnext[q] => p = q
    BY <1>3 DEF Frames
  <2>4. cnext[last_c] = curr_c
    BY <1>3, <2>1
  <2> QED BY <1>2, <2>1, <2>2, <2>3, <2>4 DEF Ring
<1>6. Calling
  BY DEF Calling, Init
<1>7. \A p \in Frames : pframe[p] = p
  BY <1>1 DEF Init, Frames
<1>8. FramesApart /\ FramesUsed
  BY <1>2, <1>7 DEF FramesApart, FramesUsed
<1>9. CleanMatchesSwap
  BY <1>2, <1>7 DEF CleanMatchesSwap, SwapImage, Init
<1> QED BY <1>4, <1>5, <1>6, <1>8, <1>9 DEF IInv

(* Entering get or put: only call and pc change. *)
LEMMA InvokeIInv ==
    ASSUME IInv, NEW c \in Calls, Invoke(c)
    PROVE  IInv'
<1> USE DEF IInv, Invoke, tableVars, storeVars
<1>0. Frames' = Frames
  BY DEF Frames
<1>1. TypeOK'
  BY <1>0, CallFields DEF TypeOK
<1>2. Resident' = Resident
  BY DEF Resident
<1>3. Ring' /\ FramesApart' /\ FramesUsed' /\ CleanMatchesSwap'
  BY <1>0, <1>2 DEF Ring, FramesApart, FramesUsed, CleanMatchesSwap, SwapImage
<1>4. Calling'
  BY <1>2, CallFields DEF Calling, Resident
<1> QED BY <1>1, <1>3, <1>4

(* A round of the sweep: a resident page keeps its frame, and the hand     *)
(* moves along the ring.                                                   *)
LEMMA SweepIInv ==
    ASSUME IInv, Sweep
    PROVE  IInv' /\ Resident' = Resident
<1> USE DEF IInv, Sweep, storeVars
<1>0. Frames' = Frames
  BY DEF Frames
<1>1. TypeOK'
  BY <1>0 DEF TypeOK
<1>2. curr_c \in Pages /\ curr_c \in Resident /\ clear \in [Pages -> {-1, 0, 1}]
  BY DEF Ring, Resident, TypeOK
<1>3. Resident' = Resident
  BY <1>2 DEF Resident
<1>4. Ring'
  BY <1>2, <1>3 DEF Ring
<1>5. Calling' /\ FramesApart' /\ FramesUsed' /\ CleanMatchesSwap'
  BY <1>0, <1>3 DEF Calling, FramesApart, FramesUsed, CleanMatchesSwap, SwapImage
<1> QED BY <1>1, <1>3, <1>4, <1>5

(* What page_fault does after the sweep, page by page. *)
LEMMA ReplaceEffect ==
    ASSUME IInv, Replace
    PROVE  /\ call.page \in Pages \ Resident /\ curr_c \in Resident
           /\ last_c \in Resident
           /\ Resident' = (Resident \ {curr_c}) \cup {call.page}
           /\ \A p \in Pages : pframe'[p] = IF p = call.page THEN pframe[curr_c]
                                                            ELSE pframe[p]
           /\ \A p \in Resident \ {curr_c} : phys_mem'[pframe[p]] = phys_mem[pframe[p]]
           /\ phys_mem'[pframe[curr_c]] = SwapImage(call.page)
           /\ \A p \in Pages \ {curr_c} : SwapImage(p)' = SwapImage(p)
           /\ \A p \in {curr_c} : SwapImage(p)' = phys_mem[pframe[p]]
           /\ TypeOK' /\ Frames' = Frames
<1> DEFINE v == call.page
<1> USE DEF IInv
<1>0. Frames' = Frames /\ init_np' = init_np
  BY DEF Frames, Replace
<1>1. pc = "fault" /\ call \in Calls /\ v \in Pages \ Resident
  BY CallFields DEF Replace, TypeOK, Calling
<1>2. /\ curr_c \in Resident /\ last_c \in Resident
      /\ curr_c \in Pages /\ last_c \in Pages /\ curr_c # v
  BY <1>1 DEF Ring, Replace, Resident
<1>3. Resident' = (Resident \ {curr_c}) \cup {v}
  BY <1>1, <1>2 DEF Resident, Replace, Install, TypeOK
<1>4. \A p \in Pages : pframe'[p] = IF p = v THEN pframe[curr_c] ELSE pframe[p]
  BY <1>1 DEF Replace, Install, TypeOK
<1>5. phys_mem' = [phys_mem EXCEPT ![pframe[curr_c]] = SwapImage(v)]
  BY DEF Replace, page_load, SwapImage
<1>6. /\ pframe[curr_c] \in Frames
      /\ \A p \in Resident \ {curr_c} : pframe[p] \in Frames /\ pframe[p] # pframe[curr_c]
  BY <1>2 DEF FramesApart, TypeOK, Resident
<1>7. /\ \A p \in Resident \ {curr_c} : phys_mem'[pframe[p]] = phys_mem[pframe[p]]
      /\ phys_mem'[pframe[curr_c]] = SwapImage(v)
  BY <1>5, <1>6 DEF TypeOK
<1>8. /\ \A p \in Pages \ {curr_c} : SwapImage(p)' = SwapImage(p)
      /\ \A p \in {curr_c} : SwapImage(p)' = phys_mem[pframe[p]]
  <2>1. CASE dirty[curr_c] = 1
    <3>1. /\ swap' = [swap EXCEPT ![curr_c] = phys_mem[pframe[curr_c]]]
          /\ files' = files \cup {curr_c}
      BY <2>1 DEF Replace, page_flush
    <3> QED BY <3>1, <1>2 DEF SwapImage, TypeOK
  <2>2. CASE dirty[curr_c] # 1
    <3>1. files' = files /\ swap' = swap
      BY <2>2 DEF Replace
    <3>2. dirty[curr_c] = 0
      BY <2>2, <1>2 DEF TypeOK
    <3>3. phys_mem[pframe[curr_c]] = SwapImage(curr_c)
      BY <3>2, <1>2 DEF CleanMatchesSwap
    <3> QED BY <3>1, <3>3 DEF SwapImage
  <2> QED BY <2>1, <2>2
<1>9. TypeOK'
  <2>1. /\ files' \in SUBSET Pages /\ swap' \in [Pages -> PageData]
    BY <1>2, <1>6 DEF Replace, page_flush, TypeOK
  <2>2. SwapImage(v) \in PageData
    BY <1>1, BytesAssumption DEF SwapImage, TypeOK, PageData, ZeroPage
  <2>3. phys_mem' \in [Frames -> PageData]
    BY <1>5, <1>6, <2>2 DEF TypeOK
  <2>4. /\ pframe' \in [Pages -> Frames] /\ clear' \in [Pages -> {-1, 0, 1}]
        /\ dirty' \in [Pages -> {0, 1}]
    BY <1>1, <1>2, <1>6 DEF Replace, Install, TypeOK
  <2>5. cnext' \in [Pages -> Pages]
    BY <1>1, <1>2 DEF Replace, Splice, TypeOK
  <2>6. /\ last_c' \in Pages /\ curr_c' \in Pages /\ ret' \in Bytes
        /\ call' \in Calls \cup {NoCall}
        /\ pc' \in {"idle", "fault", "access"} /\ (pc' = "idle") = (call' = NoCall)
    BY <1>1, CallFields DEF Replace, TypeOK
  <2> QED BY <1>0, <2>1, <2>3, <2>4, <2>5, <2>6 DEF TypeOK
<1> QED BY <1>0, <1>1, <1>2, <1>3, <1>4, <1>7, <1>8, <1>9

(* The victim leaves the ring and the page that faulted takes its place,   *)
(* also when the victim is the only page of the ring.                      *)
LEMMA ReplaceRing ==
    ASSUME IInv, Replace
    PROVE  Ring'
<1> DEFINE v == call.page
           R == Resident
<1>1. /\ v \in Pages \ R /\ curr_c \in R /\ last_c \in R /\ R \subseteq Pages
      /\ Resident' = (R \ {curr_c}) \cup {v}
  BY ReplaceEffect DEF Resident
<1>2. /\ \A p \in R : cnext[p] \in R
      /\ \A p, q \in R : cnext[p] = cnext[q] => p = q
      /\ cnext[last_c] = curr_c /\ cnext \in [Pages -> Pages]
  BY DEF IInv, Ring, TypeOK
<1>3. last_c' = last_c /\ curr_c' = v /\ clear'[v] = 1
  BY <1>1 DEF Replace, Install, IInv, TypeOK
<1>4. /\ cnext'[last_c] = v
      /\ cnext'[v] = IF last_c = curr_c THEN v ELSE cnext[curr_c]
      /\ \A p \in R \ {last_c} : cnext'[p] = cnext[p]
  BY <1>1, <1>2 DEF Replace, Splice
<1>5. \A p \in Resident' : cnext'[p] \in Resident'
  BY <1>1, <1>2, <1>4
<1>6. \A p, q \in Resident' : cnext'[p] = cnext'[q] => p = q
  BY <1>1, <1>2, <1>4
<1> QED BY <1>1, <1>3, <1>4, <1>5, <1>6 DEF Ring

(* page_fault hands the victim's frame to the page that faulted. *)
LEMMA ReplaceIInv ==
    ASSUME IInv, Replace
    PROVE  IInv'
<1> DEFINE v == call.page
<1>1. /\ v \in Pages \ Resident /\ curr_c \in Resident /\ Resident \subseteq Pages
      /\ Resident' = (Resident \ {curr_c}) \cup {v}
      /\ \A p \in Pages : pframe'[p] = IF p = v THEN pframe[curr_c] ELSE pframe[p]
      /\ \A p \in Resident \ {curr_c} : phys_mem'[pframe[p]] = phys_mem[pframe[p]]
      /\ phys_mem'[pframe[curr_c]] = SwapImage(v)
      /\ \A p \in Pages \ {curr_c} : SwapImage(p)' = SwapImage(p)
      /\ TypeOK' /\ Frames' = Frames
  BY ReplaceEffect DEF Resident
<1>2. Ring'
  BY ReplaceRing
<1>3. Calling'
  BY <1>1 DEF Calling, Replace
<1>4. FramesApart' /\ FramesUsed'
  BY <1>1 DEF IInv, FramesApart, FramesUsed
<1>5. CleanMatchesSwap'
  <2> SUFFICES ASSUME NEW p \in Resident', dirty'[p] = 0
               PROVE  phys_mem'[pframe'[p]] = SwapImage(p)'
    BY DEF CleanMatchesSwap
  <2>1. CASE p = v
    BY <1>1, <2>1
  <2>2. CASE p # v
    <3>1. p \in Resident \ {curr_c} /\ p \in Pages
      BY <1>1, <2>2
    <3>2. dirty[p] = 0
      BY <1>1, <2>2, <3>1 DEF Replace, Install, IInv, TypeOK
    <3> QED BY <1>1, <2>2, <3>1, <3>2 DEF IInv, CleanMatchesSwap
  <2> QED BY <2>1, <2>2
<1> QED BY <1>1, <1>2, <1>3, <1>4, <1>5 DEF IInv

(* The end of get and put: the byte is in the frame of its page alone, and *)
(* a put makes the page dirty.                                             *)
LEMMA AccessIInv ==
    ASSUME IInv, Access
    PROVE  IInv' /\ Resident' = Resident
<1> DEFINE v == call.page
<1> USE DEF IInv
<1>0. Frames' = Frames /\ init_np' = init_np
  BY DEF Frames, Access
<1>1. call \in Calls /\ v \in Resident /\ v \in Pages /\ pframe[v] \in Frames
  BY CallFields DEF Access, TypeOK, Calling, Resident
<1>2. Resident' = Resident
  BY <1>1 DEF Access, Resident, TypeOK
<1>3. /\ dirty' \in [Pages -> {0, 1}] /\ phys_mem' \in [Frames -> PageData]
      /\ ret' \in Bytes
  <2>1. phys_mem[pframe[v]] \in [Offsets -> Bytes]
    BY <1>1 DEF TypeOK, PageData
  <2>2. CASE call.op = "put"
    <3>1. [phys_mem[pframe[v]] EXCEPT ![call.off] = call.val] \in PageData
      BY <1>1, <2>1, <2>2, CallFields DEF PageData
    <3>2. phys_mem' = [phys_mem EXCEPT ![pframe[v]] =
                         [phys_mem[pframe[v]] EXCEPT ![call.off] = call.val]]
      BY <2>2 DEF Access, Store
    <3>3. phys_mem' \in [Frames -> PageData]
      BY <1>1, <3>1, <3>2 DEF TypeOK
    <3> QED BY <1>1, <2>2, <3>3 DEF Access, Store, TypeOK
  <2>3. CASE call.op # "put"
    BY <1>1, <2>1, <2>3, CallFields DEF Access, TypeOK
  <2> QED BY <2>2, <2>3
<1>4. TypeOK'
  BY <1>0, <1>1, <1>3 DEF Access, TypeOK
<1>5. Ring'
  BY <1>1, <1>2 DEF Access, Ring, TypeOK
<1>6. Calling' /\ FramesApart' /\ FramesUsed'
  BY <1>0, <1>2 DEF Access, Calling, FramesApart, FramesUsed
<1>7. CleanMatchesSwap'
  <2> SUFFICES ASSUME NEW p \in Resident, dirty'[p] = 0
               PROVE  phys_mem'[pframe[p]] = SwapImage(p)
    BY <1>2 DEF CleanMatchesSwap, Access, SwapImage
  <2>1. p \in Pages /\ pframe[p] \in Frames
    BY DEF Resident, TypeOK
  <2>2. dirty[p] = 0 /\ phys_mem'[pframe[p]] = phys_mem[pframe[p]]
    <3>1. CASE call.op = "put"
      <4>1. p # v
        BY <1>1, <3>1 DEF Access, Store, TypeOK
      <4>2. pframe[p] # pframe[v]
        BY <1>1, <4>1 DEF FramesApart
      <4> QED BY <1>1, <2>1, <3>1, <4>1, <4>2 DEF Access, Store, TypeOK
    <3>2. CASE call.op # "put"
      BY <3>2 DEF Access
    <3> QED BY <3>1, <3>2
  <2> QED BY <2>2 DEF CleanMatchesSwap
<1> QED BY <1>2, <1>4, <1>5, <1>6, <1>7

LEMMA StutterIInv ==
    ASSUME IInv, UNCHANGED vars
    PROVE  IInv'
BY DEF IInv, vars, tableVars, storeVars, Frames, TypeOK, Ring, Calling, FramesApart,
       FramesUsed, CleanMatchesSwap, Resident, SwapImage

(* The invariant holds in every state of the simulator. *)
THEOREM Invariance == Safe => []IInv
<1>1. IInv /\ [Next]_vars => IInv'
  BY InvokeIInv, SweepIInv, ReplaceIInv, AccessIInv, StutterIInv DEF Next, Step
<1> QED BY InitIInv, <1>1, PTL DEF Safe

(* Every variable keeps its type, for all numbers of pages and frames. *)
THEOREM TypeCorrect == Safe => []TypeOK
BY Invariance, PTL DEF IInv

(* No frame is ever shared by two resident pages or lost, whatever the     *)
(* sequence of get and put.                                                *)
THEOREM FramesOwned == Safe => []FrameOwnership
<1>1. IInv => FrameOwnership
  BY DEF IInv, FramesApart, FramesUsed, FrameOwnership
<1> QED BY Invariance, <1>1, PTL

(* page_fault may drop a page with dirty = 0 without page_flush. *)
THEOREM CleanPages == Safe => []CleanMatchesSwap
BY Invariance, PTL DEF IInv

-----------------------------------------------------------------------------
(* The clock ring *)

(* Ring lets cnext fall apart into several cycles.  That it is one cycle   *)
(* is the existence of an order of the resident pages, starting at the     *)
(* hand, in which cnext goes from each page to the next and from the last  *)
(* back to the first.                                                      *)
Follows(k) == IF k = init_np - 1 THEN 0 ELSE k + 1

InOrder(ord) ==
    /\ ord \in [Frames -> Resident]
    /\ \A p \in Resident : \E k \in Frames : ord[k] = p
    /\ \A j, k \in Frames : ord[j] = ord[k] => j = k
    /\ ord[0] = curr_c
    /\ \A k \in Frames : cnext[ord[k]] = ord[Follows(k)]

Ordered == \E ord : InOrder(ord)

(* The walk along the ring that RingIsOneCycle describes follows the order. *)
LEMMA OrderIsCycle ==
    ASSUME TypeOK, Ordered
    PROVE  RingIsOneCycle
<1> DEFINE N == init_np
           walk(h) == [n \in 0 .. N |-> IF n = 0 THEN curr_c ELSE cnext[h[n - 1]]]
           hand == CHOOSE h : h = walk(h)
<1>0. N \in Nat \ {0} /\ Frames = 0 .. N - 1 /\ init_np \in 1 .. NumPages
  BY SizesAssumption DEF TypeOK, Frames
<1>1. PICK ord : InOrder(ord)
  BY DEF Ordered
<1> DEFINE f == [n \in 0 .. N |-> IF n = N THEN curr_c ELSE ord[n]]
<1>2. ord[0] = curr_c /\ \A k \in 0 .. N - 1 : cnext[ord[k]] = ord[Follows(k)]
  BY <1>0, <1>1 DEF InOrder
<1>3. f = walk(f)
  <2>1. \A n \in 0 .. N : f[n] = IF n = 0 THEN curr_c ELSE cnext[f[n - 1]]
    BY <1>0, <1>2 DEF Follows
  <2> QED BY <2>1
<1>4. hand = walk(hand)
  BY <1>3
<1> HIDE DEF hand
<1>5. \A n \in 0 .. N : hand[n] = IF n = 0 THEN curr_c ELSE cnext[hand[n - 1]]
  BY <1>4
<1>6. \A n \in 0 .. N : hand[n] = f[n]
  <2> DEFINE T == {n \in 0 .. N : hand[n] # f[n]}
  <2> SUFFICES ASSUME T # {} PROVE FALSE
    OBVIOUS
  <2>1. PICK n \in T : \A m \in T : n <= m
    <3>1. T \in SUBSET Nat
      BY <1>0
    <3> QED BY <3>1, LeastNumber
  <2>2. n # 0
    BY <1>0, <1>2, <1>5, <2>1
  <2>3. n - 1 \in 0 .. N /\ n - 1 \notin T
    BY <1>0, <2>1, <2>2
  <2>4. \A m \in 0 .. N : f[m] = IF m = 0 THEN curr_c ELSE cnext[f[m - 1]]
    BY <1>3
  <2>5. n \in 0 .. N /\ hand[n] # f[n] /\ hand[n - 1] = f[n - 1]
    BY <2>1, <2>3
  <2> HIDE DEF f
  <2> QED BY <1>5, <2>2, <2>4, <2>5
<1>7. hand[init_np] = curr_c
  BY <1>0, <1>6
<1>8. {hand[n] : n \in 0 .. init_np - 1} = Resident
  <2>1. \A n \in 0 .. N - 1 : hand[n] = ord[n]
    BY <1>0, <1>6
  <2> QED BY <1>0, <1>1, <2>1 DEF InOrder
<1> QED BY <1>7, <1>8 DEF RingIsOneCycle, hand

(* init_page_table threads the ring through the first init_np pages. *)
LEMMA InitOrdered == Init => Ordered
<1> SUFFICES ASSUME Init PROVE Ordered
  OBVIOUS
<1>0. init_np \in 1 .. NumPages
  BY SizesAssumption DEF Init
<1>1. Resident = Frames /\ Frames \subseteq Pages
  BY <1>0, SizesAssumption DEF Init, Resident, Frames, Pages
<1>2. \A p \in Frames : cnext[p] = Follows(p)
  <2> SUFFICES ASSUME NEW p \in Frames PROVE cnext[p] = Follows(p)
    OBVIOUS
  <2>1. cnext[p] = (p + 1) % init_np
    BY <1>0, <1>1 DEF Init, Frames
  <2>2. (p + 1) % init_np = Follows(p)
    BY <1>0, SMT DEF Frames, Follows
  <2> QED BY <2>1, <2>2
<1>3. \A p \in Frames : Follows(p) \in Frames
  BY <1>0 DEF Frames, Follows
<1>4. InOrder([k \in Frames |-> k])
  <2>1. 0 \in Frames /\ curr_c = 0
    BY <1>0 DEF Init, Frames
  <2> QED BY <1>1, <1>2, <1>3, <2>1 DEF InOrder
<1> QED BY <1>4 DEF Ordered

(* The sweep turns the ring by one page. *)
LEMMA SweepOrdered ==
    ASSUME IInv, Ordered, Sweep
    PROVE  Ordered'
<1>0. init_np \in 1 .. NumPages /\ NumPages \in Nat
  BY SizesAssumption DEF IInv, TypeOK
<1>1. PICK ord : InOrder(ord)
  BY DEF Ordered
<1>2. Frames' = Frames /\ Resident' = Resident /\ cnext' = cnext /\ init_np' = init_np
  BY SweepIInv DEF Sweep, Frames
<1>3. curr_c' = cnext[curr_c]
  BY DEF Sweep
<1> DEFINE turned == [k \in Frames |-> ord[Follows(k)]]
<1>4. /\ \A k \in Frames : Follows(k) \in Frames
      /\ \A j, k \in Frames : Follows(j) = Follows(k) => j = k
      /\ \A j \in Frames : \E k \in Frames : Follows(k) = j
      /\ 0 \in Frames
  <2>1. /\ \A k \in Frames : Follows(k) \in Frames
        /\ \A j, k \in Frames : Follows(j) = Follows(k) => j = k
        /\ 0 \in Frames
    BY <1>0 DEF Frames, Follows
  <2>2. ASSUME NEW j \in Frames PROVE \E k \in Frames : Follows(k) = j
    <3>1. CASE j = 0
      <4>1. init_np - 1 \in Frames /\ Follows(init_np - 1) = j
        BY <1>0, <3>1 DEF Frames, Follows
      <4> QED BY <4>1
    <3>2. CASE j # 0
      <4>1. j - 1 \in Frames /\ Follows(j - 1) = j
        BY <1>0, <3>2 DEF Frames, Follows
      <4> QED BY <4>1
    <3> QED BY <3>1, <3>2
  <2> QED BY <2>1, <2>2
<1>5. \A k \in Frames : Follows(k)' = Follows(k)
  BY <1>2 DEF Follows
<1>6. /\ turned \in [Frames -> Resident]
      /\ \A p \in Resident : \E k \in Frames : turned[k] = p
      /\ \A j, k \in Frames : turned[j] = turned[k] => j = k
  <2>1. turned \in [Frames -> Resident]
    BY <1>1, <1>4 DEF InOrder
  <2>2. ASSUME NEW p \in Resident PROVE \E k \in Frames : turned[k] = p
    <3>1. PICK j \in Frames : ord[j] = p
      BY <1>1 DEF InOrder
    <3>2. PICK k \in Frames : Follows(k) = j
      BY <1>4
    <3> QED BY <3>1, <3>2
  <2>3. \A j, k \in Frames : turned[j] = turned[k] => j = k
    BY <1>1, <1>4 DEF InOrder
  <2> QED BY <2>1, <2>2, <2>3
<1>7. /\ turned[0] = curr_c'
      /\ \A k \in Frames : cnext[turned[k]] = turned[Follows(k)]
  BY <1>1, <1>3, <1>4 DEF InOrder
<1>8. InOrder(turned)'
  BY <1>2, <1>5, <1>6, <1>7 DEF InOrder
<1> QED BY <1>8 DEF Ordered

(* The page that faulted takes the victim's place in the ring. *)
LEMMA ReplaceOrdered ==
    ASSUME IInv, Ordered, Replace
    PROVE  Ordered'
<1> DEFINE v == call.page
<1>0. init_np \in 1 .. NumPages /\ NumPages \in Nat
  BY SizesAssumption DEF IInv, TypeOK
<1>1. PICK ord : InOrder(ord)
  BY DEF Ordered
<1>2. /\ v \in Pages \ Resident /\ curr_c \in Resident /\ last_c \in Resident
      /\ Resident \subseteq Pages /\ Resident' = (Resident \ {curr_c}) \cup {v}
      /\ Frames' = Frames /\ init_np' = init_np /\ curr_c' = v /\ call' = call
  BY ReplaceEffect DEF Resident, Replace
<1>3. /\ cnext'[last_c] = v
      /\ cnext'[v] = IF last_c = curr_c THEN v ELSE cnext[curr_c]
      /\ \A p \in Resident \ {last_c} : cnext'[p] = cnext[p]
  BY <1>2 DEF Replace, Splice, IInv, TypeOK
<1>4. /\ init_np - 1 \in Frames /\ 0 \in Frames
      /\ \A k \in Frames : Follows(k) \in Frames /\ Follows(k)' = Follows(k)
      /\ \A k \in Frames : Follows(k) = 0 <=> k = init_np - 1
  BY <1>0, <1>2 DEF Frames, Follows
<1>5. last_c = ord[init_np - 1]
  <2>1. cnext[ord[init_np - 1]] = curr_c /\ ord[init_np - 1] \in Resident
    BY <1>1, <1>4 DEF InOrder
  <2> QED BY <1>2, <2>1 DEF IInv, Ring
<1> DEFINE placed == [k \in Frames |-> IF k = 0 THEN v ELSE ord[k]]
<1>6. /\ placed \in [Frames -> Resident']
      /\ \A p \in Resident' : \E k \in Frames : placed[k] = p
      /\ \A j, k \in Frames : placed[j] = placed[k] => j = k
  BY <1>1, <1>2, <1>4 DEF InOrder
<1>7. \A k \in Frames : cnext'[placed[k]] = placed[Follows(k)]
  <2> SUFFICES ASSUME NEW k \in Frames PROVE cnext'[placed[k]] = placed[Follows(k)]
    OBVIOUS
  <2>1. CASE k = 0
    <3>1. last_c = curr_c <=> init_np - 1 = 0
      BY <1>1, <1>4, <1>5 DEF InOrder
    <3> QED BY <1>1, <1>3, <1>4, <2>1, <3>1 DEF InOrder
  <2>2. CASE k # 0
    BY <1>1, <1>3, <1>4, <1>5, <2>2 DEF InOrder
  <2> QED BY <2>1, <2>2
<1>8. placed[0] = curr_c' /\ placed' = placed
  BY <1>2, <1>4
<1> HIDE DEF placed, v
<1>9. InOrder(placed)'
  BY <1>2, <1>4, <1>6, <1>7, <1>8 DEF InOrder
<1> QED BY <1>9 DEF Ordered

(* The resident pages always form one ring through the clock hand: the     *)
(* sweep of page_fault can reach every candidate and never meets an        *)
(* evicted entry, for all numbers of pages and frames.                     *)
THEOREM RingKept == Safe => []RingIsOneCycle
<1>1. ASSUME IInv, Ordered, UNCHANGED <<init_np, cnext, curr_c>>, Resident' = Resident
      PROVE  Ordered'
  BY <1>1 DEF Ordered, InOrder, Frames, Follows
<1>2. IInv /\ Ordered /\ [Next]_vars => Ordered'
  <2> SUFFICES ASSUME IInv, Ordered, [Next]_vars PROVE Ordered'
    OBVIOUS
  <2>1. ASSUME NEW c \in Calls, Invoke(c) PROVE Ordered'
    BY <1>1, <2>1 DEF Invoke, tableVars, Resident
  <2>2. CASE Sweep
    BY <2>2, SweepOrdered
  <2>3. CASE Replace
    BY <2>3, ReplaceOrdered
  <2>4. CASE Access
    BY <1>1, <2>4, AccessIInv DEF Access
  <2>5. CASE UNCHANGED vars
    BY <1>1, <2>5 DEF vars, tableVars, Resident
  <2> QED BY <2>1, <2>2, <2>3, <2>4, <2>5 DEF Next, Step
<1>3. IInv /\ Ordered => RingIsOneCycle
  BY OrderIsCycle DEF IInv
<1> QED BY InitOrdered, Invariance, <1>2, <1>3, PTL DEF Safe

-----------------------------------------------------------------------------
(* Refinement *)

(* Evicting a page and loading another does not change the flat memory:    *)
(* the victim's bytes are in its swap file, written now or still there.    *)
LEMMA ReplaceKeepsMem ==
    ASSUME IInv, Replace
    PROVE  FlatMem' = FlatMem
<1> DEFINE v == call.page
<1>1. /\ v \in Pages \ Resident /\ curr_c \in Resident
      /\ Resident' = (Resident \ {curr_c}) \cup {v}
      /\ \A p \in Pages : pframe'[p] = IF p = v THEN pframe[curr_c] ELSE pframe[p]
      /\ \A p \in Resident \ {curr_c} : phys_mem'[pframe[p]] = phys_mem[pframe[p]]
      /\ phys_mem'[pframe[curr_c]] = SwapImage(v)
      /\ \A p \in Pages \ {curr_c} : SwapImage(p)' = SwapImage(p)
      /\ \A p \in {curr_c} : SwapImage(p)' = phys_mem[pframe[p]]
  BY ReplaceEffect
<1>2. \A p \in Pages : (clear[p] # -1 <=> p \in Resident)
                    /\ (clear'[p] # -1 <=> p \in Resident')
  BY DEF Resident
<1>3. \A p \in Pages :
        (IF clear'[p] # -1 THEN phys_mem'[pframe'[p]] ELSE SwapImage(p)')
        = (IF clear[p] # -1 THEN phys_mem[pframe[p]] ELSE SwapImage(p))
  BY <1>1, <1>2
<1> QED BY <1>3 DEF FlatMem

(* The steps inside a call that the caller cannot see. *)
LEMMA SweepKeepsMem ==
    ASSUME IInv, Sweep
    PROVE  FlatMem' = FlatMem
<1>1. \A p \in Pages : clear'[p] # -1 <=> clear[p] # -1
  BY SweepIInv DEF Resident
<1>2. UNCHANGED <<pframe, phys_mem, files, swap>>
  BY DEF Sweep, storeVars
<1> QED BY <1>1, <1>2 DEF FlatMem, SwapImage

(* get returns the byte of the flat memory, put changes that byte alone. *)
LEMMA AccessServes ==
    ASSUME IInv, Access
    PROVE  VM!Serve
<1> DEFINE v == call.page
<1>1. /\ call \in Calls /\ v \in Pages /\ clear[v] # -1 /\ pframe[v] \in Frames
      /\ v \in Resident
  BY CallFields DEF IInv, Access, TypeOK, Calling, Resident
<1>2. FlatMem[v] = phys_mem[pframe[v]]
  BY <1>1 DEF FlatMem
<1>3. call # NoCall /\ call' = NoCall
  BY <1>1, CallFields DEF Access
<1>4. \A p \in Pages : clear'[p] # -1 <=> clear[p] # -1
  BY AccessIInv DEF Resident
<1>5. UNCHANGED <<pframe, files, swap>>
  BY DEF Access
<1>6. CASE call.op = "put"
  <2>1. phys_mem' = [phys_mem EXCEPT ![pframe[v]] =
                       [phys_mem[pframe[v]] EXCEPT ![call.off] = call.val]]
    BY <1>6 DEF Access, Store
  <2>2. \A p \in Pages : clear[p] # -1 =>
          phys_mem'[pframe[p]] =
            IF p = v THEN [phys_mem[pframe[v]] EXCEPT ![call.off] = call.val]
                     ELSE phys_mem[pframe[p]]
    BY <1>1, <2>1 DEF IInv, FramesApart, Resident, TypeOK
  <2>3. \A p \in Pages :
          (IF clear'[p] # -1 THEN phys_mem'[pframe'[p]] ELSE SwapImage(p)')
          = IF p = v THEN [FlatMem[v] EXCEPT ![call.off] = call.val]
            ELSE IF clear[p] # -1 THEN phys_mem[pframe[p]] ELSE SwapImage(p)
    BY <1>1, <1>2, <1>4, <1>5, <2>2 DEF SwapImage
  <2>4. FlatMem' = [FlatMem EXCEPT ![v] = [FlatMem[v] EXCEPT ![call.off] = call.val]]
    BY <2>3 DEF FlatMem
  <2>5. ret' = ret
    BY <1>6 DEF Access
  <2> QED BY <1>3, <1>6, <2>4, <2>5 DEF VM!Serve, VM!NoCall, NoCall
<1>7. CASE call.op = "get"
  <2>1. ret' = FlatMem[v][call.off] /\ phys_mem' = phys_mem
    BY <1>2, <1>7 DEF Access
  <2>2. FlatMem' = FlatMem
    BY <1>4, <1>5, <2>1 DEF FlatMem, SwapImage
  <2> QED BY <1>3, <1>7, <2>1, <2>2 DEF VM!Serve, VM!NoCall, NoCall
<1> QED BY <1>1, <1>6, <1>7, CallFields

(* get and put over page table, clock and swap files implement the flat    *)
(* memory: every step of the simulator is one of VirtMem's, or invisible.  *)
THEOREM Refinement == Safe => VM!Safe
<1>1. Init => VM!Init
  <2> SUFFICES ASSUME Init PROVE VM!Init
    OBVIOUS
  <2>1. \A p \in Pages : clear[p] # -1 => phys_mem[pframe[p]] = ZeroPage
    BY SizesAssumption DEF Init, Frames, Pages
  <2>2. \A p \in Pages : SwapImage(p) = ZeroPage
    BY DEF Init, SwapImage
  <2>3. FlatMem = [p \in Pages |-> ZeroPage]
    BY <2>1, <2>2 DEF FlatMem
  <2> QED BY <2>3 DEF Init, VM!Init, ZeroPage, NoCall, VM!NoCall
<1>2. IInv /\ [Next]_vars => [VM!Next]_(VM!vars)
  <2> SUFFICES ASSUME IInv, [Next]_vars PROVE [VM!Next]_(VM!vars)
    OBVIOUS
  <2>1. ASSUME NEW c \in Calls, Invoke(c) PROVE VM!Next
    <3>1. call = NoCall /\ call' = c /\ ret' = ret
      BY <2>1 DEF Invoke, IInv, TypeOK
    <3>2. FlatMem' = FlatMem
      BY <2>1 DEF Invoke, tableVars, storeVars, FlatMem, SwapImage
    <3>3. c \in VM!Calls
      BY DEF Calls, Gets, Puts, VM!Calls
    <3> QED BY <3>1, <3>2, <3>3 DEF VM!Next, VM!Invoke, VM!NoCall, NoCall
  <2>2. CASE Sweep
    BY <2>2, SweepKeepsMem DEF Sweep, VM!vars
  <2>3. CASE Replace
    BY <2>3, ReplaceKeepsMem DEF Replace, VM!vars
  <2>4. CASE Access
    BY <2>4, AccessServes DEF VM!Next
  <2>5. CASE UNCHANGED vars
    BY <2>5 DEF vars, tableVars, storeVars, VM!vars, FlatMem, SwapImage
  <2> QED BY <2>1, <2>2, <2>3, <2>4, <2>5 DEF Next, Step
<1> QED BY Invariance, <1>1, <1>2, PTL DEF Safe, VM!Safe
=============================================================================
