----------------------------- MODULE PmemSpanLogGo -----------------------------
(***************************************************************************)
(* The span allocation log as src/src/runtime/pmemLog.go has it            *)
(* (logSpanAlloc, logSpanFree, spanLogValue, spanLogAddr, lines 74-153).  *)
(* It differs from the part_001 copy (PmemSpanLog): a word packs the span *)
(* class above one needzero bit (no optTypeLog bit), the reuse check      *)
(* compares the upper 31 bits, and logSpanAlloc persists its store itself  *)
(* with PersistRange instead of leaving the fence to mallocgc.  The words *)
(* are addressed as the code does, through spanLogAddr over the arena of  *)
(* PmemArenaAddr.                                                          *)
(*                                                                         *)
(* The allocator is not in the repository; as in PmemSpanLog it hands out *)
(* spans over free pages or a live small span again for its class (spec   *)
(* 5), one goroutine at a time per span.  atomic.Store goes to the cache  *)
(* (slot), PersistRange makes the word durable (slotPm), the cache may    *)
(* write any word back on its own, and after a crash the allocator state  *)
(* is rebuilt from the non-zero durable words (spec 4.6).                  *)
(***************************************************************************)
EXTENDS PmemArenaAddr, FiniteSets

CONSTANTS
  Threads,     \* goroutines that allocate and free spans
  Descs,       \* spans the allocator may create (see SpanDesc)
  MaxCrashes   \* bound on the number of crashes

NPages == AllocSize \div pageSize

\* A span as logSpanAlloc sees it: large (elemsize > maxSmallSize),
\* spanclass, npages and needzero.
SpanDesc == [large : BOOLEAN, spc : 0 .. 133, npages : 1 .. NPages, nz : {0, 1}]

ASSUME SpanGoAssumption ==
  /\ Threads # {} /\ IsFiniteSet(Threads)
  /\ NPages <= 8192
  /\ Descs \subseteq SpanDesc
  \* large spans have size class 0 and at least 5 pages; small spans do not
  /\ \A d \in Descs : d.large <=> d.spc \in {0, 1}
  /\ \A d \in Descs : d.large => d.npages >= 5
  /\ MaxCrashes \in Nat

(***************************************************************************)
(* spanLogValue (pmemLog.go lines 127-136).  The bit fields do not        *)
(* overlap, so each | is a sum: small spc<<1 | nz, large                   *)
(* (66+npages-4)<<2 | spc<<1 | nz; uint32 keeps the value for the 8192    *)
(* pages a 64 MiB arena has at most.                                       *)
(***************************************************************************)
spanLogValue(d) ==
  IF d.large THEN (66 + d.npages - 4) * 4 + d.spc * 2 + d.nz
             ELSE d.spc * 2 + d.nz

\* The span-bitmap word of the span whose first page is b.
LogAddr(b) == spanLogAddr(PageBase(b))
SlotAddrs == {LogAddr(p) : p \in Pages}

Cover(b, d) == b .. (b + d.npages - 1)

\* No span starts at the page (a record, so that it compares with spans).
Free == [large |-> FALSE, spc |-> 0, npages |-> 0, nz |-> 0]

VARIABLES
  slot,       \* span bitmap words as the CPU sees them, by address
  slotPm,     \* span bitmap words on the media, by address
  live,       \* allocator: the span starting at each page, or Free
  tpc,        \* goroutine step: "Idle", "AllocPersist", "FreePersist"
  tb,         \* first page of the span the goroutine works on (0 when idle)
  thrown,     \* whether logSpanAlloc threw "Logged span information mismatch"
  crashes     \* crashes so far (bounded)

vars == <<slot, slotPm, live, tpc, tb, thrown, crashes>>

\* The values of a uint32 span bitmap word.
Words == 0 .. (2^32 - 1)

TypeOK ==
  /\ slot \in [SlotAddrs -> Words]
  /\ slotPm \in [SlotAddrs -> Words]
  /\ live \in [Pages -> Descs \cup {Free}]
  /\ tpc \in [Threads -> {"Idle", "AllocPersist", "FreePersist"}]
  /\ tb \in [Threads -> Pages]
  /\ thrown \in BOOLEAN
  /\ crashes \in 0 .. MaxCrashes

Busy == {tb[t] : t \in {u \in Threads : tpc[u] # "Idle"}}
Used == UNION {Cover(b, live[b]) : b \in {p \in Pages : live[p] # Free}}

\* The allocator state recovery rebuilds: a non-zero word is its span.
Decode(v) == CHOOSE d \in Descs : spanLogValue(d) = v
Rebuilt == [p \in Pages |-> IF slotPm[LogAddr(p)] = 0 THEN Free
                            ELSE Decode(slotPm[LogAddr(p)])]

Init ==
  /\ slot = [a \in SlotAddrs |-> 0]
  /\ slotPm = slot
  /\ live = [p \in Pages |-> Free]
  /\ tpc = [t \in Threads |-> "Idle"]
  /\ tb = [t \in Threads |-> 0]
  /\ thrown = FALSE
  /\ crashes = 0

\* What the allocator may hand to logSpanAlloc: new pages, or a live
\* small span again for the same class.
AllocatorGives(t, b, d) ==
  /\ ~thrown
  /\ tpc[t] = "Idle"
  /\ b \notin Busy
  /\ \/ live[b] = Free /\ Cover(b, d) \subseteq Pages /\ Cover(b, d) \cap Used = {}
     \/ live[b] # Free /\ ~live[b].large /\ ~d.large
        /\ d.spc = live[b].spc /\ d.npages = live[b].npages

(***************************************************************************)
(* Plausible bugs of the handlers below, each the body of a handler with   *)
(* one thing changed; the properties are checked to detect them.           *)
(***************************************************************************)
\* The reuse check comparing the whole word, needzero bit included.
AllocCompareWhole(t, b, d) ==
  LET v == slot[LogAddr(b)]
      lv == spanLogValue(d)
  IN /\ AllocatorGives(t, b, d)
     /\ \/ v # 0 /\ v # lv /\ thrown' = TRUE /\ UNCHANGED <<slot, live, tpc, tb>>
        \/ v = lv /\ live' = [live EXCEPT ![b] = d] /\ UNCHANGED <<slot, tpc, tb, thrown>>
        \/ /\ v = 0
           /\ slot' = [slot EXCEPT ![LogAddr(b)] = lv]
           /\ live' = [live EXCEPT ![b] = d]
           /\ tpc' = [tpc EXCEPT ![t] = "AllocPersist"]
           /\ tb' = [tb EXCEPT ![t] = b]
           /\ UNCHANGED thrown
     /\ UNCHANGED <<slotPm, crashes>>

\* The store skipped whenever the upper 31 bits match (needzero not compared).
AllocSkipSameClass(t, b, d) ==
  LET v == slot[LogAddr(b)]
      lv == spanLogValue(d)
  IN /\ AllocatorGives(t, b, d)
     /\ \/ v # 0 /\ v \div 2 # lv \div 2 /\ thrown' = TRUE /\ UNCHANGED <<slot, live, tpc, tb>>
        \/ v # 0 /\ v \div 2 = lv \div 2
           /\ live' = [live EXCEPT ![b] = d] /\ UNCHANGED <<slot, tpc, tb, thrown>>
        \/ /\ v = 0
           /\ slot' = [slot EXCEPT ![LogAddr(b)] = lv]
           /\ live' = [live EXCEPT ![b] = d]
           /\ tpc' = [tpc EXCEPT ![t] = "AllocPersist"]
           /\ tb' = [tb EXCEPT ![t] = b]
           /\ UNCHANGED thrown
     /\ UNCHANGED <<slotPm, crashes>>

-----------------------------------------------------------------------------
(***************************************************************************)
(* mallocgc obtains span d at page b and calls logSpanAlloc (lines        *)
(* 75-105): a non-zero word whose upper 31 bits differ throws; one equal   *)
(* in the needzero bit too is left alone and the call returns; otherwise  *)
(* the value is stored atomically and PersistRange is the next step.      *)
(***************************************************************************)
Alloc(t, b, d) ==
  LET v == slot[LogAddr(b)]
      lv == spanLogValue(d)
  IN /\ AllocatorGives(t, b, d)
     /\ \/ v # 0 /\ v \div 2 # lv \div 2 /\ thrown' = TRUE /\ UNCHANGED <<slot, live, tpc, tb>>
        \/ v # 0 /\ v \div 2 = lv \div 2 /\ v % 2 = lv % 2
           /\ live' = [live EXCEPT ![b] = d] /\ UNCHANGED <<slot, tpc, tb, thrown>>
        \/ /\ v = 0 \/ (v \div 2 = lv \div 2 /\ v % 2 # lv % 2)
           /\ slot' = [slot EXCEPT ![LogAddr(b)] = lv]
           /\ live' = [live EXCEPT ![b] = d]
           /\ tpc' = [tpc EXCEPT ![t] = "AllocPersist"]
           /\ tb' = [tb EXCEPT ![t] = b]
           /\ UNCHANGED thrown
     /\ UNCHANGED <<slotPm, crashes>>

\* The PersistRange of the span word that ends logSpanAlloc (line 106).
AllocPersist(t) ==
  /\ tpc[t] = "AllocPersist"
  /\ slotPm' = [slotPm EXCEPT ![LogAddr(tb[t])] = slot[LogAddr(tb[t])]]
  /\ tpc' = [tpc EXCEPT ![t] = "Idle"]
  /\ tb' = [tb EXCEPT ![t] = 0]
  /\ UNCHANGED <<slot, live, thrown, crashes>>

\* A span is completely freed; logSpanFree stores 0 in its word (lines 111-117).
FreeBegin(t, b) ==
  /\ ~thrown
  /\ tpc[t] = "Idle"
  /\ b \notin Busy
  /\ live[b] # Free
  /\ slot' = [slot EXCEPT ![LogAddr(b)] = 0]
  /\ tb' = [tb EXCEPT ![t] = b]
  /\ tpc' = [tpc EXCEPT ![t] = "FreePersist"]
  /\ UNCHANGED <<slotPm, live, thrown, crashes>>

\* logSpanFree's PersistRange (line 118); then the allocator owns the pages.
FreeEnd(t) ==
  /\ tpc[t] = "FreePersist"
  /\ slotPm' = [slotPm EXCEPT ![LogAddr(tb[t])] = slot[LogAddr(tb[t])]]
  /\ live' = [live EXCEPT ![tb[t]] = Free]
  /\ tpc' = [tpc EXCEPT ![t] = "Idle"]
  /\ tb' = [tb EXCEPT ![t] = 0]
  /\ UNCHANGED <<slot, thrown, crashes>>

\* The cache writes a span bitmap word back to the media on its own.
WriteBack(a) ==
  /\ slot[a] # slotPm[a]
  /\ slotPm' = [slotPm EXCEPT ![a] = slot[a]]
  /\ UNCHANGED <<slot, live, tpc, tb, thrown, crashes>>

\* A crash, or the end of a process that threw; the next process rebuilds
\* its allocator state from the durable words (spec 4.6).
Crash ==
  /\ crashes < MaxCrashes
  /\ crashes' = crashes + 1
  /\ slot' = slotPm
  /\ live' = Rebuilt
  /\ tpc' = [t \in Threads |-> "Idle"]
  /\ tb' = [t \in Threads |-> 0]
  /\ thrown' = FALSE
  /\ UNCHANGED slotPm

Next ==
  \/ \E t \in Threads :
       \/ \E b \in Pages, d \in Descs : Alloc(t, b, d)
       \/ \E b \in Pages : FreeBegin(t, b)
       \/ AllocPersist(t) \/ FreeEnd(t)
  \/ \E a \in SlotAddrs : WriteBack(a)
  \/ Crash

Spec == Init /\ [][Next]_vars

-----------------------------------------------------------------------------
(***************************************************************************)
(* The durable span log describes the allocator exactly: at every page no *)
(* goroutine is logging, the media word at spanLogAddr is the             *)
(* spanLogValue of the live span starting there, or 0 where none starts,  *)
(* across reuse with a changed needzero bit, write-backs and crashes.     *)
(***************************************************************************)
DurableLogMatches ==
  \A p \in Pages \ Busy :
    slotPm[LogAddr(p)] = IF live[p] = Free THEN 0 ELSE spanLogValue(live[p])

(***************************************************************************)
(* The 31-bit reuse check of logSpanAlloc never throws "Logged span       *)
(* information mismatch" on a legal history: a word left non-zero always  *)
(* belongs to the same span class, whatever its needzero bit.              *)
(***************************************************************************)
NoMismatchThrow == ~thrown
=============================================================================
