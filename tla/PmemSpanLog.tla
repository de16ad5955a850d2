------------------------------ MODULE PmemSpanLog ------------------------------
(***************************************************************************)
(* The span allocation log (src/unnamed/part_001, logSpanAlloc,            *)
(* logSpanFree, spanLogValue, spanLogAddr): one 32-bit word per page of an *)
(* arena, non-zero at the first page of every allocated persistent span.  *)
(*                                                                         *)
(* Goroutines allocate and free spans of one arena.  The allocator itself *)
(* is not in the repository; it is modelled from spec 5: it hands out     *)
(* spans over free pages, may hand a live small span out again for the    *)
(* same span class (reuse), lets one goroutine at a time work on a span,  *)
(* and ends mallocgc with a fence.  Memory is the cache (slot) and the     *)
(* media (slotPm): atomic.Store goes to the cache, FlushRange marks the   *)
(* word for the goroutine's next fence, a fence makes marked words         *)
(* durable, and the cache may write any word back on its own.  After a     *)
(* crash the allocator's state is rebuilt from the non-zero durable words  *)
(* (the recovery contract of spec 4.6; the code's recovery is a TODO).     *)
(***************************************************************************)
EXTENDS Naturals, FiniteSets

CONSTANTS
  Threads,     \* goroutines that allocate and free spans
  NPages,      \* pages in the arena
  Descs,       \* spans the allocator may create (see SpanDesc)
  MaxCrashes   \* bound on the number of crashes

\* A span as logSpanAlloc sees it: large (elemsize > maxSmallSize),
\* spanclass, npages, optTypeLog (typIndex # 0) and needzero.
SpanDesc == [large : BOOLEAN, spc : 0 .. 133, npages : 1 .. NPages,
             opt : {0, 1}, nz : {0, 1}]

ASSUME SpanConstAssumption ==
  /\ Threads # {} /\ IsFiniteSet(Threads)
  /\ NPages \in 1 .. 8192
  /\ Descs \subseteq SpanDesc
  \* large spans have size class 0 and at least 5 pages; small spans do not
  /\ \A d \in Descs : d.large <=> d.spc \in {0, 1}
  /\ \A d \in Descs : d.large => d.npages >= 5 /\ d.opt = 0
  /\ MaxCrashes \in Nat

Pages == 0 .. (NPages - 1)

(***************************************************************************)
(* spanLogValue (part_001 lines 191-201).  The bit fields do not overlap,  *)
(* so each | is a sum: small spc<<2 | opt<<1 | nz, large                   *)
(* (66+npages-4)<<3 | spc<<2 | nz.  The uint32 conversion keeps the value *)
(* because a span has at most the 8192 pages of a 64 MiB arena.           *)
(***************************************************************************)
spanLogValue(d) ==
  IF d.large THEN (66 + d.npages - 4) * 8 + d.spc * 4 + d.nz
             ELSE d.spc * 4 + d.opt * 2 + d.nz

\* spanLogAddr (part_001 lines 205-225): the word of the span's first page.
spanLogAddr(b) == b

\* Pages covered by a span whose first page is b.
Cover(b, d) == b .. (b + d.npages - 1)

\* No span starts at the page (a record, so that it compares with spans).
Free == [large |-> FALSE, spc |-> 0, npages |-> 0, opt |-> 0, nz |-> 0]

VARIABLES
  slot,       \* span bitmap words as the CPU sees them
  slotPm,     \* span bitmap words on the media
  live,       \* allocator: the span starting at each page, or Free
  tpc,        \* goroutine step: "Idle", "Malloc" (fence pending), "Freeing"
  tb,         \* first page of the span the goroutine works on (0 when idle)
  flushed,    \* words flushed by each goroutine and not yet fenced
  thrown,     \* whether logSpanAlloc threw "Logged span information mismatch"
  crashes     \* crashes so far (bounded)

vars == <<slot, slotPm, live, tpc, tb, flushed, thrown, crashes>>

\* Values a span bitmap word (a uint32) can hold.
Words == 0 .. (2^32 - 1)

TypeOK ==
  /\ slot \in [Pages -> Words]
  /\ slotPm \in [Pages -> Words]
  /\ live \in [Pages -> Descs \cup {Free}]
  /\ tpc \in [Threads -> {"Idle", "Malloc", "Freeing"}]
  /\ tb \in [Threads -> Pages]
  /\ flushed \in [Threads -> SUBSET Pages]
  /\ thrown \in BOOLEAN
  /\ crashes \in 0 .. MaxCrashes

\* First pages of spans a goroutine is working on.
Busy == {tb[t] : t \in {u \in Threads : tpc[u] # "Idle"}}

\* Pages covered by a live span.
Used == UNION {Cover(b, live[b]) : b \in {p \in Pages : live[p] # Free}}

(***************************************************************************)
(* The allocator state the recovery contract rebuilds from the media: a   *)
(* non-zero word is the span it encodes.                                   *)
(***************************************************************************)
Decode(v) == CHOOSE d \in Descs : spanLogValue(d) = v

Rebuilt == [p \in Pages |-> IF slotPm[p] = 0 THEN Free ELSE Decode(slotPm[p])]

Init ==
  /\ slot = [p \in Pages |-> 0]
  /\ slotPm = slot
  /\ live = [p \in Pages |-> Free]
  /\ tpc = [t \in Threads |-> "Idle"]
  /\ tb = [t \in Threads |-> 0]
  /\ flushed = [t \in Threads |-> {}]
  /\ thrown = FALSE
  /\ crashes = 0

(***************************************************************************)
(* Plausible bugs of the handlers below, each the body of a handler with   *)
(* one thing changed; the properties are checked to detect them.           *)
(***************************************************************************)
\* logSpanAlloc with the reuse check of the older encoding (compare >> 1).
AllocCompareOneBit(t, b, d) ==
  LET a == spanLogAddr(b)
      v == slot[a]
      lv == spanLogValue(d)
  IN
  /\ ~thrown
  /\ tpc[t] = "Idle"
  /\ b \notin Busy
  /\ \/ live[b] = Free /\ Cover(b, d) \subseteq Pages /\ Cover(b, d) \cap Used = {}
     \/ live[b] # Free /\ ~live[b].large /\ ~d.large
        /\ d.spc = live[b].spc /\ d.npages = live[b].npages
  /\ \/ /\ v # 0 /\ v \div 2 # lv \div 2
        /\ thrown' = TRUE
        /\ UNCHANGED <<slot, live, tpc, tb, flushed>>
     \/ /\ v # 0 /\ v \div 2 = lv \div 2 /\ v % 2 = lv % 2
        /\ live' = [live EXCEPT ![b] = d]
        /\ tpc' = [tpc EXCEPT ![t] = "Malloc"]
        /\ tb' = [tb EXCEPT ![t] = b]
        /\ UNCHANGED <<slot, flushed, thrown>>
     \/ /\ v = 0 \/ (v \div 2 = lv \div 2 /\ v % 2 # lv % 2)
        /\ slot' = [slot EXCEPT ![a] = lv]
        /\ flushed' = [flushed EXCEPT ![t] = @ \cup {a}]
        /\ live' = [live EXCEPT ![b] = d]
        /\ tpc' = [tpc EXCEPT ![t] = "Malloc"]
        /\ tb' = [tb EXCEPT ![t] = b]
        /\ UNCHANGED thrown
  /\ UNCHANGED <<slotPm, crashes>>

\* logSpanFree storing 0 without persisting it (the older version's "todo persist").
FreeEndNoPersist(t) ==
  /\ tpc[t] = "Freeing"
  /\ live' = [live EXCEPT ![tb[t]] = Free]
  /\ tpc' = [tpc EXCEPT ![t] = "Idle"]
  /\ tb' = [tb EXCEPT ![t] = 0]
  /\ UNCHANGED <<slot, slotPm, flushed, thrown, crashes>>

-----------------------------------------------------------------------------
(***************************************************************************)
(* mallocgc obtains span d at first page b (new pages, or a live small    *)
(* span reused for the same class) and calls logSpanAlloc: a non-zero word *)
(* whose upper 30 bits differ throws (the process dies with it); one      *)
(* equal in all bits is left alone;                                        *)
(* otherwise the value is stored atomically and flushed, the fence being  *)
(* left to the end of mallocgc.                                            *)
(***************************************************************************)
Alloc(t, b, d) ==
  LET a == spanLogAddr(b)
      v == slot[a]
      lv == spanLogValue(d)
  IN
  /\ ~thrown
  /\ tpc[t] = "Idle"
  /\ b \notin Busy
  /\ \/ live[b] = Free /\ Cover(b, d) \subseteq Pages /\ Cover(b, d) \cap Used = {}
     \/ live[b] # Free /\ ~live[b].large /\ ~d.large
        /\ d.spc = live[b].spc /\ d.npages = live[b].npages
  /\ \/ /\ v # 0 /\ v \div 4 # lv \div 4
        /\ thrown' = TRUE
        /\ UNCHANGED <<slot, live, tpc, tb, flushed>>
     \/ /\ v # 0 /\ v \div 4 = lv \div 4 /\ v % 4 = lv % 4
        /\ live' = [live EXCEPT ![b] = d]
        /\ tpc' = [tpc EXCEPT ![t] = "Malloc"]
        /\ tb' = [tb EXCEPT ![t] = b]
        /\ UNCHANGED <<slot, flushed, thrown>>
     \/ /\ v = 0 \/ (v \div 4 = lv \div 4 /\ v % 4 # lv % 4)
        /\ slot' = [slot EXCEPT ![a] = lv]
        /\ flushed' = [flushed EXCEPT ![t] = @ \cup {a}]
        /\ live' = [live EXCEPT ![b] = d]
        /\ tpc' = [tpc EXCEPT ![t] = "Malloc"]
        /\ tb' = [tb EXCEPT ![t] = b]
        /\ UNCHANGED thrown
  /\ UNCHANGED <<slotPm, crashes>>

\* The fence at the end of mallocgc: the goroutine's flushed words become durable.
MallocEnd(t) ==
  /\ tpc[t] = "Malloc"
  /\ slotPm' = [p \in Pages |-> IF p \in flushed[t] THEN slot[p] ELSE slotPm[p]]
  /\ flushed' = [flushed EXCEPT ![t] = {}]
  /\ tpc' = [tpc EXCEPT ![t] = "Idle"]
  /\ tb' = [tb EXCEPT ![t] = 0]
  /\ UNCHANGED <<slot, live, thrown, crashes>>

\* A span is completely freed; logSpanFree stores 0 in its word.
FreeBegin(t, b) ==
  /\ ~thrown
  /\ tpc[t] = "Idle"
  /\ b \notin Busy
  /\ live[b] # Free
  /\ slot' = [slot EXCEPT ![spanLogAddr(b)] = 0]
  /\ tb' = [tb EXCEPT ![t] = b]
  /\ tpc' = [tpc EXCEPT ![t] = "Freeing"]
  /\ UNCHANGED <<slotPm, live, flushed, thrown, crashes>>

\* logSpanFree's PersistRange; then the allocator owns the pages again.
FreeEnd(t) ==
  /\ tpc[t] = "Freeing"
  /\ slotPm' = [slotPm EXCEPT ![spanLogAddr(tb[t])] = slot[spanLogAddr(tb[t])]]
  /\ live' = [live EXCEPT ![tb[t]] = Free]
  /\ tpc' = [tpc EXCEPT ![t] = "Idle"]
  /\ tb' = [tb EXCEPT ![t] = 0]
  /\ UNCHANGED <<slot, flushed, thrown, crashes>>

\* The cache writes a span bitmap word back to the media on its own.
WriteBack(p) ==
  /\ slot[p] # slotPm[p]
  /\ slotPm' = [slotPm EXCEPT ![p] = slot[p]]
  /\ UNCHANGED <<slot, live, tpc, tb, flushed, thrown, crashes>>

\* A crash, or the end of a process that threw; the next process rebuilds
\* its allocator state from the durable words (spec 4.6).
Crash ==
  /\ crashes < MaxCrashes
  /\ crashes' = crashes + 1
  /\ slot' = slotPm
  /\ live' = Rebuilt
  /\ tpc' = [t \in Threads |-> "Idle"]
  /\ flushed' = [t \in Threads |-> {}]
  /\ tb' = [t \in Threads |-> 0]
  /\ thrown' = FALSE
  /\ UNCHANGED slotPm

Next ==
  \/ \E t \in Threads :
       \/ \E b \in Pages, d \in Descs : Alloc(t, b, d)
       \/ \E b \in Pages : FreeBegin(t, b)
       \/ MallocEnd(t) \/ FreeEnd(t)
  \/ \E p \in Pages : WriteBack(p)
  \/ Crash

Spec == Init /\ [][Next]_vars

-----------------------------------------------------------------------------
(***************************************************************************)
(* The durable span log describes the allocator exactly: at every page no *)
(* goroutine is working on, the media word is the spanLogValue of the live *)
(* span starting there, or 0 where none starts, across reuse, the deferred *)
(* fence, cache write-backs and crashes.  It is what recovery needs to     *)
(* rebuild the allocated pages.                                            *)
(***************************************************************************)
DurableLogMatches ==
  \A p \in Pages \ Busy :
    slotPm[p] = IF live[p] = Free THEN 0 ELSE spanLogValue(live[p])

(***************************************************************************)
(* The reuse check of logSpanAlloc never throws "Logged span information  *)
(* mismatch" for an allocator that follows its contract: a word left     *)
(* non-zero always belongs to the same span class, whatever its needzero  *)
(* and optTypeLog bits.                                                    *)
(***************************************************************************)
NoMismatchThrow == ~thrown
=============================================================================
