-------------------------- MODULE PmemSpanLogProofs --------------------------
(***************************************************************************)
(* Proofs about PmemSpanLog (part_001): the encoding spanLogValue (lines   *)
(* 191-201) for every set of spans that satisfies SpanConstAssumption, and *)
(* the two safety properties of logSpanAlloc and logSpanFree for every     *)
(* arena size, set of goroutines and crash bound, through the inductive    *)
(* invariant SpanInv.                                                      *)
(***************************************************************************)
EXTENDS PmemSpanLog, TLAPS

\* The fields of a span that its log word determines.
SameLogged(d1, d2) ==
  /\ d1.large = d2.large /\ d1.spc = d2.spc /\ d1.nz = d2.nz /\ d1.opt = d2.opt
  /\ d1.large => d1.npages = d2.npages

\* The fields logSpanAlloc's reuse check compares (the upper 30 bits).
SameClass(d1, d2) ==
  /\ d1.large = d2.large /\ d1.spc = d2.spc
  /\ d1.large => d1.npages = d2.npages

(***************************************************************************)
(* A lemma on the two kinds of words: a small span's word is spc * 4 plus  *)
(* its two low bits and lies in 8 .. 535; a large span's word is at least *)
(* 536 = (66 + 5 - 4) * 8.                                                 *)
(***************************************************************************)
LEMMA WordRanges ==
  ASSUME NEW d \in Descs
  PROVE /\ spanLogValue(d) \in Nat
        /\ ~d.large => spanLogValue(d) \in 8 .. 535
        /\ d.large => spanLogValue(d) >= 536
<1>1. d \in SpanDesc /\ (d.large <=> d.spc \in {0, 1})
      /\ (d.large => d.npages >= 5 /\ d.opt = 0)
  BY SpanConstAssumption
<1>2. d.spc \in 0 .. 133 /\ d.npages \in 1 .. NPages /\ d.opt \in {0, 1}
      /\ d.nz \in {0, 1} /\ d.large \in BOOLEAN
  BY <1>1 DEF SpanDesc
<1>3. ~d.large => spanLogValue(d) \in 8 .. 535
  BY <1>1, <1>2 DEF spanLogValue
<1>4. d.large => spanLogValue(d) >= 536
  BY <1>1, <1>2 DEF spanLogValue
<1>5. spanLogValue(d) \in Nat
  BY <1>1, <1>2 DEF spanLogValue
<1>6. QED
  BY <1>3, <1>4, <1>5

(***************************************************************************)
(* A lemma on the reuse check: a word splits into its upper part (what    *)
(* \div 4 keeps) and its two low bits (what % 4 keeps).                    *)
(***************************************************************************)
LEMMA WordSplit ==
  ASSUME NEW d \in Descs
  PROVE /\ ~d.large => /\ spanLogValue(d) \div 4 = d.spc
                       /\ spanLogValue(d) % 4 = d.opt * 2 + d.nz
        /\ d.large => /\ spanLogValue(d) \div 4 = (66 + d.npages - 4) * 2 + d.spc
                      /\ spanLogValue(d) % 4 = d.nz
<1>1. d \in SpanDesc /\ (d.large <=> d.spc \in {0, 1})
      /\ (d.large => d.npages >= 5 /\ d.opt = 0)
  BY SpanConstAssumption
<1>2. d.spc \in 0 .. 133 /\ d.npages \in 1 .. NPages /\ d.opt \in {0, 1}
      /\ d.nz \in {0, 1} /\ d.large \in BOOLEAN
  BY <1>1 DEF SpanDesc
<1>3. \A q \in Nat, r \in 0 .. 3 : (q * 4 + r) \div 4 = q /\ (q * 4 + r) % 4 = r
  OBVIOUS
<1>4. ~d.large => spanLogValue(d) = d.spc * 4 + (d.opt * 2 + d.nz)
  BY <1>2 DEF spanLogValue
<1>5. d.large => spanLogValue(d) = ((66 + d.npages - 4) * 2 + d.spc) * 4 + d.nz
  BY <1>1, <1>2 DEF spanLogValue
<1>6. d.opt * 2 + d.nz \in 0 .. 3 /\ d.nz \in 0 .. 3 /\ d.spc \in Nat
      /\ (66 + d.npages - 4) * 2 + d.spc \in Nat
  BY <1>2
<1>7. QED
  BY <1>3, <1>4, <1>5, <1>6

(***************************************************************************)
(* The span log word of every span logSpanAlloc can be given is non-zero  *)
(* (zero means "free" to recovery), determines the span (small and large   *)
(* encodings never collide, even between spanclass 133 and a 5-page large *)
(* span), and its upper 30 bits, the part logSpanAlloc's reuse check       *)
(* compares, are equal exactly when the span class (and for a large span  *)
(* the page count) is; so the check can throw only on a class change.     *)
(***************************************************************************)
THEOREM SpanLogValueSound ==
  \A d1, d2 \in Descs :
    /\ spanLogValue(d1) # 0
    /\ spanLogValue(d1) = spanLogValue(d2) => SameLogged(d1, d2)
    /\ (spanLogValue(d1) \div 4 = spanLogValue(d2) \div 4) <=> SameClass(d1, d2)
<1> SUFFICES ASSUME NEW d1 \in Descs, NEW d2 \in Descs
             PROVE  /\ spanLogValue(d1) # 0
                    /\ spanLogValue(d1) = spanLogValue(d2) => SameLogged(d1, d2)
                    /\ (spanLogValue(d1) \div 4 = spanLogValue(d2) \div 4)
                         <=> SameClass(d1, d2)
  OBVIOUS
<1>1. /\ d1 \in SpanDesc /\ (d1.large <=> d1.spc \in {0, 1})
      /\ (d1.large => d1.npages >= 5 /\ d1.opt = 0)
      /\ d2 \in SpanDesc /\ (d2.large <=> d2.spc \in {0, 1})
      /\ (d2.large => d2.npages >= 5 /\ d2.opt = 0)
  BY SpanConstAssumption
<1>2. /\ d1.spc \in 0 .. 133 /\ d1.npages \in 1 .. NPages /\ d1.opt \in {0, 1}
      /\ d1.nz \in {0, 1} /\ d1.large \in BOOLEAN
      /\ d2.spc \in 0 .. 133 /\ d2.npages \in 1 .. NPages /\ d2.opt \in {0, 1}
      /\ d2.nz \in {0, 1} /\ d2.large \in BOOLEAN
  BY <1>1 DEF SpanDesc
<1>3. spanLogValue(d1) # 0
  BY WordRanges
<1>4. CASE d1.large = d2.large
  <2>1. CASE d1.large
    <3>1. /\ spanLogValue(d1) = ((66 + d1.npages - 4) * 2 + d1.spc) * 4 + d1.nz
          /\ spanLogValue(d2) = ((66 + d2.npages - 4) * 2 + d2.spc) * 4 + d2.nz
      BY <1>1, <1>2, <1>4, <2>1 DEF spanLogValue
    <3>2. spanLogValue(d1) \div 4 = (66 + d1.npages - 4) * 2 + d1.spc
          /\ spanLogValue(d2) \div 4 = (66 + d2.npages - 4) * 2 + d2.spc
      BY <1>4, <2>1, WordSplit
    <3>3. d1.spc \in {0, 1} /\ d2.spc \in {0, 1} /\ d1.opt = 0 /\ d2.opt = 0
      BY <1>1, <1>4, <2>1
    <3>4. QED
      BY <1>2, <1>4, <2>1, <3>1, <3>2, <3>3 DEF SameLogged, SameClass
  <2>2. CASE ~d1.large
    <3>1. /\ spanLogValue(d1) \div 4 = d1.spc /\ spanLogValue(d1) % 4 = d1.opt * 2 + d1.nz
          /\ spanLogValue(d2) \div 4 = d2.spc /\ spanLogValue(d2) % 4 = d2.opt * 2 + d2.nz
      BY <1>4, <2>2, WordSplit
    <3>2. spanLogValue(d1) = spanLogValue(d2) => SameLogged(d1, d2)
      <4> SUFFICES ASSUME spanLogValue(d1) = spanLogValue(d2)
                   PROVE  SameLogged(d1, d2)
        OBVIOUS
      <4>1. d1.spc = d2.spc /\ d1.opt * 2 + d1.nz = d2.opt * 2 + d2.nz
        BY <3>1
      <4>2. d1.opt = d2.opt /\ d1.nz = d2.nz
        BY <1>2, <4>1
      <4>3. QED
        BY <1>4, <2>2, <4>1, <4>2 DEF SameLogged
    <3>3. (spanLogValue(d1) \div 4 = spanLogValue(d2) \div 4) <=> SameClass(d1, d2)
      BY <1>4, <2>2, <3>1 DEF SameClass
    <3>4. QED
      BY <1>3, <3>2, <3>3
  <2>3. QED
    BY <2>1, <2>2, <1>3
<1>5. CASE d1.large # d2.large
  <2>1. spanLogValue(d1) \div 4 # spanLogValue(d2) \div 4
    <3>1. CASE d1.large
      <4>1. /\ spanLogValue(d1) \div 4 = (66 + d1.npages - 4) * 2 + d1.spc
            /\ spanLogValue(d2) \div 4 = d2.spc
        BY <1>2, <1>5, <3>1, WordSplit
      <4>2. QED
        BY <1>1, <1>2, <1>5, <3>1, <4>1
    <3>2. CASE ~d1.large
      <4>1. /\ spanLogValue(d2) \div 4 = (66 + d2.npages - 4) * 2 + d2.spc
            /\ spanLogValue(d1) \div 4 = d1.spc
        BY <1>2, <1>5, <3>2, WordSplit
      <4>2. QED
        BY <1>1, <1>2, <1>5, <3>2, <4>1
    <3>3. QED
      BY <3>1, <3>2
  <2>2. spanLogValue(d1) # spanLogValue(d2)
    BY <2>1
  <2>3. QED
    BY <1>3, <1>5, <2>1, <2>2 DEF SameClass
<1>6. QED
  BY <1>4, <1>5

-----------------------------------------------------------------------------
\* The parts of SpanConstAssumption the invariant proofs cite, one fact each.
LEMMA DescsTyped == Descs \subseteq SpanDesc
  BY SpanConstAssumption

LEMMA MaxCrashesNat == MaxCrashes \in Nat
  BY SpanConstAssumption

LEMMA ZeroPage == 0 \in Pages
  BY SpanConstAssumption DEF Pages

\* A uint32 word is a natural number, and every natural below 2^32 is one.
LEMMA WordsNat == \A v \in Words : v \in Nat
  BY DEF Words

LEMMA NatWords == \A v \in Nat : v < 2^32 => v \in Words
  BY DEF Words

\* The word a page holds for the allocator state x, and the words there are.
Enc(x) == IF x = Free THEN 0 ELSE spanLogValue(x)

Encoded == {0} \cup {spanLogValue(d) : d \in Descs}

\* The arithmetic behind the bound on a large span's word.
LEMMA LargeWordBound ==
  ASSUME NEW np \in Nat, NPages \in Nat, np <= NPages, NPages <= 8192,
         NEW c \in Nat, c <= 1, NEW z \in Nat, z <= 1
  PROVE  (66 + np - 4) * 8 + c * 4 + z <= 70000
  OBVIOUS

\* 0, the word of a page where no span starts, is a uint32.
LEMMA ZeroEncoded == 0 \in Words /\ 0 \in Encoded
<1>1. 0 < 2^32
  BY SMT
<1>2. QED
  BY <1>1, NatWords DEF Encoded

\* Every span's word is a non-zero uint32.
LEMMA ValueInWords == \A d \in Descs : spanLogValue(d) \in Words \ {0}
<1> SUFFICES ASSUME NEW d \in Descs PROVE spanLogValue(d) \in Words \ {0}
  OBVIOUS
<1>1. d \in SpanDesc /\ (d.large <=> d.spc \in {0, 1}) /\ NPages \in 1 .. 8192
  BY SpanConstAssumption
<1>2. d.spc \in 0 .. 133 /\ d.npages \in 1 .. NPages /\ d.opt \in {0, 1}
      /\ d.nz \in {0, 1} /\ d.large \in BOOLEAN
  BY <1>1 DEF SpanDesc
<1>3. spanLogValue(d) \in Nat /\ spanLogValue(d) # 0 /\ spanLogValue(d) <= 70000
  <2>1. spanLogValue(d) \in Nat /\ spanLogValue(d) # 0
    BY WordRanges
  <2>2. CASE d.large
    <3>1. d.spc \in {0, 1}
      BY <1>1, <2>2
    <3>2. spanLogValue(d) = (66 + d.npages - 4) * 8 + d.spc * 4 + d.nz
      BY <2>2 DEF spanLogValue
    <3>3. /\ d.npages \in Nat /\ d.npages <= NPages /\ NPages \in Nat /\ NPages <= 8192
          /\ d.nz \in Nat /\ d.nz <= 1 /\ d.spc \in Nat /\ d.spc <= 1
      BY <1>1, <1>2, <3>1
    <3>4. (66 + d.npages - 4) * 8 + d.spc * 4 + d.nz <= 70000
      BY <3>3, LargeWordBound
    <3>5. QED
      BY <2>1, <3>2, <3>4
  <2>3. CASE ~d.large
    BY <2>1, <2>3, WordRanges
  <2>4. QED
    BY <1>2, <2>1, <2>2, <2>3
<1>4. 70000 < 2^32
  BY SMT
<1>5. QED
  BY <1>3, <1>4, NatWords

\* The allocator's "no span here" is not a span.
LEMMA FreeNotDesc == Free \notin Descs
  BY DescsTyped DEF Free, SpanDesc

\* Recovery's decoding of a non-zero word gives back a span with that word.
LEMMA DecodeOK ==
  \A v \in Encoded \ {0} : Decode(v) \in Descs /\ spanLogValue(Decode(v)) = v
  BY DEF Encoded, Decode

(***************************************************************************)
(* The inductive invariant behind DurableLogMatches and NoMismatchThrow.   *)
(* Besides the property (for cache and media alike at settled pages) it   *)
(* says that every word is 0 or a span's encoding (what makes recovery's  *)
(* Decode well defined), that one goroutine at a time works on a page,    *)
(* that a goroutine's flushed words are the word of its own span, and     *)
(* that until mallocgc's fence the cache holds the new span's word, on    *)
(* the media already or flushed for the fence.                            *)
(***************************************************************************)
WordsEncoded == \A p \in Pages : slot[p] \in Encoded /\ slotPm[p] \in Encoded

Owned ==
  \A t, u \in Threads : tpc[t] # "Idle" /\ tpc[u] # "Idle" /\ tb[t] = tb[u] => t = u

FlushedOwn ==
  \A t \in Threads : flushed[t] \subseteq IF tpc[t] = "Malloc" THEN {tb[t]} ELSE {}

MallocPending ==
  \A t \in Threads :
    tpc[t] = "Malloc" =>
      /\ slot[tb[t]] = Enc(live[tb[t]])
      /\ slotPm[tb[t]] = slot[tb[t]] \/ tb[t] \in flushed[t]

FreePending == \A t \in Threads : tpc[t] = "Freeing" => slot[tb[t]] = 0

Settled == \A p \in Pages \ Busy : slot[p] = Enc(live[p]) /\ slotPm[p] = Enc(live[p])

SpanInv ==
  /\ TypeOK
  /\ ~thrown
  /\ WordsEncoded
  /\ Owned
  /\ FlushedOwn
  /\ MallocPending
  /\ FreePending
  /\ Settled

\* SpanInv holds initially: every word is 0 and no span is live.
LEMMA SpanInit == Init => SpanInv
<1> SUFFICES ASSUME Init PROVE SpanInv
  OBVIOUS
<1>1. 0 \in Words /\ 0 \in Encoded
  <2>1. 0 < 2^32
    BY SMT
  <2>2. QED
    BY <2>1, NatWords DEF Encoded
<1>2. slot \in [Pages -> Words] /\ slotPm \in [Pages -> Words]
  BY <1>1 DEF Init
<1>3. /\ live \in [Pages -> Descs \cup {Free}]
      /\ tpc \in [Threads -> {"Idle", "Malloc", "Freeing"}]
      /\ tb \in [Threads -> Pages] /\ flushed \in [Threads -> SUBSET Pages]
  BY ZeroPage DEF Init
<1>4. thrown \in BOOLEAN /\ ~thrown
  BY Zenon DEF Init
<1>5. crashes \in 0 .. MaxCrashes
  BY MaxCrashesNat DEF Init
<1>6. TypeOK
  BY <1>2, <1>3, <1>4, <1>5 DEF TypeOK
<1>7. WordsEncoded /\ Owned /\ FlushedOwn /\ MallocPending /\ FreePending /\ Settled
  BY <1>1 DEF Init, WordsEncoded, Owned, FlushedOwn, MallocPending, FreePending,
              Settled, Enc
<1>8. QED
  BY <1>4, <1>6, <1>7 DEF SpanInv


\* A word is its upper 30 bits and its two low bits.
LEMMA QuarterAndBits ==
  \A v, w \in Nat : v \div 4 = w \div 4 /\ v % 4 = w % 4 => v = w
  OBVIOUS

\* The word of a small span divided by 4 is its size class.
LEMMA SmallClass == \A d \in Descs : ~d.large => spanLogValue(d) \div 4 = d.spc
  BY WordSplit

(***************************************************************************)
(* logSpanAlloc preserves SpanInv.  The page is not busy, so the word the  *)
(* reuse check reads is the live span's encoding: 0 for new pages, and for *)
(* a reused small span one with the same class, so the throw is never      *)
(* taken; the skip happens only when the two words are equal; the store    *)
(* puts the new span's word in the cache and flushes it for the fence.     *)
(***************************************************************************)
LEMMA AllocStep ==
  ASSUME SpanInv, NEW t \in Threads, NEW b \in Pages, NEW d \in Descs, Alloc(t, b, d)
  PROVE  SpanInv'
<1> DEFINE w0 == slot[b]
           lw == spanLogValue(d)
<1>0. spanLogAddr(b) = b
  BY DEF spanLogAddr
<1>1. b \notin Busy /\ tpc[t] = "Idle" /\ UNCHANGED <<slotPm, crashes>>
  BY DEF Alloc
<1>2. w0 = Enc(live[b]) /\ slotPm[b] = w0 /\ w0 \in Nat /\ live[b] \in Descs \cup {Free}
  BY <1>1, ValueInWords, WordsNat DEF SpanInv, TypeOK, Settled
<1>3. lw \in Words \ {0} /\ lw \in Encoded /\ Enc(d) = lw /\ lw \in Nat
  BY ValueInWords, FreeNotDesc, WordsNat DEF Encoded, Enc
<1>4. \/ live[b] = Free
      \/ live[b] # Free /\ ~live[b].large /\ ~d.large /\ d.spc = live[b].spc
  BY DEF Alloc
<1>5. w0 # 0 => w0 \div 4 = lw \div 4
  <2> SUFFICES ASSUME w0 # 0 PROVE w0 \div 4 = lw \div 4
    OBVIOUS
  <2>1. live[b] # Free /\ live[b] \in Descs
    BY <1>2 DEF Enc
  <2>2. ~live[b].large /\ ~d.large /\ d.spc = live[b].spc
    BY <1>4, <2>1
  <2>3. w0 = spanLogValue(live[b])
    BY <1>2, <2>1 DEF Enc
  <2>4. QED
    BY <2>1, <2>2, <2>3, SmallClass
<1>6. \A u \in Threads : tpc[u] # "Idle" => tb[u] # b /\ u # t
  BY <1>1 DEF Busy
<1>7. \/ w0 # 0 /\ w0 \div 4 # lw \div 4
      \/ /\ w0 # 0 /\ w0 \div 4 = lw \div 4 /\ w0 % 4 = lw % 4
         /\ live' = [live EXCEPT ![b] = d]
         /\ tpc' = [tpc EXCEPT ![t] = "Malloc"]
         /\ tb' = [tb EXCEPT ![t] = b]
         /\ UNCHANGED <<slot, flushed, thrown>>
      \/ /\ w0 = 0 \/ (w0 \div 4 = lw \div 4 /\ w0 % 4 # lw % 4)
         /\ slot' = [slot EXCEPT ![b] = lw]
         /\ flushed' = [flushed EXCEPT ![t] = @ \cup {b}]
         /\ live' = [live EXCEPT ![b] = d]
         /\ tpc' = [tpc EXCEPT ![t] = "Malloc"]
         /\ tb' = [tb EXCEPT ![t] = b]
         /\ UNCHANGED thrown
  <2>1. LET a == spanLogAddr(b)
            v == slot[a]
            lv == spanLogValue(d)
        IN \/ /\ v # 0 /\ v \div 4 # lv \div 4
              /\ thrown' = TRUE
              /\ UNCHANGED <<slot, live, tpc, tb, flushed>>
           \/ /\ v # 0 /\ v \div 4 = lv \div 4 /\ v % 4 = lv % 4
              /\ live' = [live EXCEPT ![b] = d]
              /\ tpc' = [tpc EXCEPT ![t] = "Malloc"]
              /\ tb' = [tb EXCEPT ![t] = b]
              /\ UNCHANGED <<slot, flushed, thrown>>
           \/ /\ v = 0 \/ (v \div 4 = lv \div 4 /\ v % 4 # lv % 4)
              /\ slot' = [slot EXCEPT ![a] = lv]
              /\ flushed' = [flushed EXCEPT ![t] = @ \cup {a}]
              /\ live' = [live EXCEPT ![b] = d]
              /\ tpc' = [tpc EXCEPT ![t] = "Malloc"]
              /\ tb' = [tb EXCEPT ![t] = b]
              /\ UNCHANGED thrown
    BY DEF Alloc
  <2>2. QED
    BY <2>1, <1>0
<1>8. CASE w0 # 0 /\ w0 \div 4 # lw \div 4
  BY <1>5, <1>8
<1>9. CASE /\ w0 # 0 /\ w0 \div 4 = lw \div 4 /\ w0 % 4 = lw % 4
           /\ live' = [live EXCEPT ![b] = d]
           /\ tpc' = [tpc EXCEPT ![t] = "Malloc"]
           /\ tb' = [tb EXCEPT ![t] = b]
           /\ UNCHANGED <<slot, flushed, thrown>>
  \* the word already is the new span's, on the media too: nothing to store
  <2>1. w0 = lw
    BY <1>2, <1>3, <1>9, QuarterAndBits
  <2>2. Busy' = Busy \cup {b}
    BY <1>1, <1>9 DEF SpanInv, TypeOK, Busy
  <2>3. TypeOK' /\ ~thrown'
    BY <1>1, <1>9 DEF SpanInv, TypeOK
  <2>4. WordsEncoded' /\ Owned' /\ FlushedOwn'
    BY <1>1, <1>6, <1>9 DEF SpanInv, TypeOK, WordsEncoded, Owned, FlushedOwn
  <2>5. MallocPending'
    <3> SUFFICES ASSUME NEW u \in Threads, tpc'[u] = "Malloc"
                 PROVE  /\ slot'[tb'[u]] = Enc(live'[tb'[u]])
                        /\ slotPm'[tb'[u]] = slot'[tb'[u]] \/ tb'[u] \in flushed'[u]
      BY DEF MallocPending
    <3>1. CASE u = t
      BY <1>1, <1>2, <1>3, <1>9, <2>1, <3>1 DEF SpanInv, TypeOK
    <3>2. CASE u # t
      <4>1. tpc[u] = "Malloc" /\ tb'[u] = tb[u] /\ tb[u] \in Pages /\ tb[u] # b
        BY <1>6, <1>9, <3>2 DEF SpanInv, TypeOK
      <4>2. live'[tb[u]] = live[tb[u]]
        BY <4>1, <1>9 DEF SpanInv, TypeOK
      <4>3. QED
        BY <1>1, <1>9, <4>1, <4>2 DEF SpanInv, MallocPending
    <3>3. QED
      BY <3>1, <3>2
  <2>6. FreePending'
    BY <1>6, <1>9 DEF SpanInv, TypeOK, FreePending
  <2>7. Settled'
    BY <1>1, <1>9, <2>2 DEF SpanInv, TypeOK, Settled
  <2>8. QED
    BY <2>3, <2>4, <2>5, <2>6, <2>7 DEF SpanInv
<1>10. CASE /\ w0 = 0 \/ (w0 \div 4 = lw \div 4 /\ w0 % 4 # lw % 4)
            /\ slot' = [slot EXCEPT ![b] = lw]
            /\ flushed' = [flushed EXCEPT ![t] = @ \cup {b}]
            /\ live' = [live EXCEPT ![b] = d]
            /\ tpc' = [tpc EXCEPT ![t] = "Malloc"]
            /\ tb' = [tb EXCEPT ![t] = b]
            /\ UNCHANGED thrown
  \* the store: the page becomes busy with the new word cached and flushed
  <2>1. Busy' = Busy \cup {b}
    BY <1>1, <1>10 DEF SpanInv, TypeOK, Busy
  <2>2. TypeOK' /\ ~thrown'
    BY <1>1, <1>3, <1>10 DEF SpanInv, TypeOK
  <2>3. WordsEncoded'
    BY <1>1, <1>3, <1>10 DEF SpanInv, TypeOK, WordsEncoded
  <2>4. Owned'
    BY <1>6, <1>10 DEF SpanInv, TypeOK, Owned
  <2>5. FlushedOwn'
    BY <1>1, <1>10 DEF SpanInv, TypeOK, FlushedOwn
  <2>6. MallocPending'
    <3> SUFFICES ASSUME NEW u \in Threads, tpc'[u] = "Malloc"
                 PROVE  /\ slot'[tb'[u]] = Enc(live'[tb'[u]])
                        /\ slotPm'[tb'[u]] = slot'[tb'[u]] \/ tb'[u] \in flushed'[u]
      BY DEF MallocPending
    <3>1. CASE u = t
      BY <1>3, <1>10, <3>1 DEF SpanInv, TypeOK
    <3>2. CASE u # t
      <4>1. tpc[u] = "Malloc" /\ tb'[u] = tb[u] /\ tb[u] \in Pages /\ tb[u] # b
            /\ flushed'[u] = flushed[u]
        BY <1>6, <1>10, <3>2 DEF SpanInv, TypeOK
      <4>2. QED
        BY <1>1, <1>10, <4>1 DEF SpanInv, TypeOK, MallocPending
    <3>3. QED
      BY <3>1, <3>2
  <2>7. FreePending'
    BY <1>6, <1>10 DEF SpanInv, TypeOK, FreePending
  <2>8. Settled'
    BY <1>1, <1>10, <2>1 DEF SpanInv, TypeOK, Settled
  <2>9. QED
    BY <2>2, <2>3, <2>4, <2>5, <2>6, <2>7, <2>8 DEF SpanInv
<1>11. QED
  BY <1>7, <1>8, <1>9, <1>10


(***************************************************************************)
(* The fence at the end of mallocgc makes the goroutine's flushed word,   *)
(* the only one it has, durable; its page stops being busy and the media  *)
(* now holds the span's word, flushed or already there.                    *)
(***************************************************************************)
LEMMA MallocEndStep ==
  ASSUME SpanInv, NEW t \in Threads, MallocEnd(t)
  PROVE  SpanInv'
<1> DEFINE b == tb[t]
<1>1. b \in Pages /\ flushed[t] \subseteq {b}
      /\ slot[b] = Enc(live[b]) /\ (slotPm[b] = slot[b] \/ b \in flushed[t])
  BY DEF MallocEnd, SpanInv, TypeOK, FlushedOwn, MallocPending
<1>2. \A u \in Threads : u # t /\ tpc[u] # "Idle" => tb[u] # b
  BY DEF MallocEnd, SpanInv, Owned
<1>3. slotPm'[b] = slot[b] /\ \A p \in Pages \ {b} : slotPm'[p] = slotPm[p]
  BY <1>1 DEF MallocEnd
<1>4. \A p \in Pages \ Busy' : p \in Pages \ Busy \/ p = b
  BY DEF MallocEnd, Busy, SpanInv, TypeOK
<1>5. TypeOK' /\ ~thrown'
  BY <1>1, ZeroPage DEF MallocEnd, SpanInv, TypeOK
<1>6. WordsEncoded' /\ Owned' /\ FlushedOwn'
  BY <1>1, <1>3 DEF MallocEnd, SpanInv, TypeOK, WordsEncoded, Owned, FlushedOwn
<1>7. MallocPending' /\ FreePending'
  BY <1>2, <1>3 DEF MallocEnd, SpanInv, TypeOK, MallocPending, FreePending
<1>8. Settled'
  BY <1>1, <1>3, <1>4 DEF MallocEnd, SpanInv, TypeOK, Settled
<1>9. QED
  BY <1>5, <1>6, <1>7, <1>8 DEF SpanInv

\* logSpanFree's store of 0 to the word of a live span no one works on.
LEMMA FreeBeginStep ==
  ASSUME SpanInv, NEW t \in Threads, NEW b \in Pages, FreeBegin(t, b)
  PROVE  SpanInv'
<1>1. b \notin Busy /\ tpc[t] = "Idle" /\ slot' = [slot EXCEPT ![b] = 0]
  BY DEF FreeBegin, spanLogAddr
<1>2. \A u \in Threads : tpc[u] # "Idle" => tb[u] # b /\ u # t
  BY <1>1 DEF Busy
<1>3. 0 \in Words /\ 0 \in Encoded
  BY ZeroEncoded
<1>4. Busy' = Busy \cup {b}
  BY <1>1 DEF FreeBegin, Busy, SpanInv, TypeOK
<1>5. TypeOK' /\ ~thrown'
  BY <1>1, <1>3 DEF FreeBegin, SpanInv, TypeOK
<1>6. WordsEncoded' /\ Owned' /\ FlushedOwn'
  BY <1>1, <1>2, <1>3 DEF FreeBegin, SpanInv, TypeOK, WordsEncoded, Owned, FlushedOwn
<1>7. MallocPending' /\ FreePending'
  BY <1>1, <1>2 DEF FreeBegin, SpanInv, TypeOK, MallocPending, FreePending
<1>8. Settled'
  BY <1>1, <1>4 DEF FreeBegin, SpanInv, TypeOK, Settled
<1>9. QED
  BY <1>5, <1>6, <1>7, <1>8 DEF SpanInv

\* logSpanFree's PersistRange makes the 0 durable; the page is free again.
LEMMA FreeEndStep ==
  ASSUME SpanInv, NEW t \in Threads, FreeEnd(t)
  PROVE  SpanInv'
<1> DEFINE b == tb[t]
<1>1. b \in Pages /\ slot[b] = 0 /\ flushed[t] = {}
  BY DEF FreeEnd, SpanInv, TypeOK, FreePending, FlushedOwn
<1>2. \A u \in Threads : u # t /\ tpc[u] # "Idle" => tb[u] # b
  BY DEF FreeEnd, SpanInv, Owned
<1>3. slotPm' = [slotPm EXCEPT ![b] = 0] /\ live' = [live EXCEPT ![b] = Free]
  BY <1>1 DEF FreeEnd, spanLogAddr
<1>4. \A p \in Pages \ Busy' : p \in Pages \ Busy \/ p = b
  BY DEF FreeEnd, Busy, SpanInv, TypeOK
<1>5. TypeOK' /\ ~thrown'
  <2>1. slotPm' \in [Pages -> Words] /\ live' \in [Pages -> Descs \cup {Free}]
    BY <1>1, <1>3, ZeroEncoded DEF SpanInv, TypeOK
  <2>2. tpc' \in [Threads -> {"Idle", "Malloc", "Freeing"}] /\ tb' \in [Threads -> Pages]
    BY ZeroPage DEF FreeEnd, SpanInv, TypeOK
  <2>3. UNCHANGED <<slot, flushed, thrown, crashes>>
    BY DEF FreeEnd
  <2>4. QED
    BY <2>1, <2>2, <2>3 DEF SpanInv, TypeOK
<1>6. WordsEncoded' /\ Owned' /\ FlushedOwn'
  BY <1>1, <1>3 DEF FreeEnd, SpanInv, TypeOK, WordsEncoded, Owned, FlushedOwn
<1>7. MallocPending' /\ FreePending'
  BY <1>2, <1>3 DEF FreeEnd, SpanInv, TypeOK, MallocPending, FreePending
<1>8. Settled'
  BY <1>1, <1>3, <1>4 DEF FreeEnd, SpanInv, TypeOK, Settled, Enc
<1>9. QED
  BY <1>5, <1>6, <1>7, <1>8 DEF SpanInv

\* A cache write-back can only touch a word some goroutine is working on.
LEMMA WriteBackStep ==
  ASSUME SpanInv, NEW p \in Pages, WriteBack(p)
  PROVE  SpanInv'
<1>1. p \in Busy
  BY DEF WriteBack, SpanInv, Settled
<1>2. TypeOK'
  <2>1. slotPm' \in [Pages -> Words]
    BY DEF WriteBack, SpanInv, TypeOK
  <2>2. UNCHANGED <<slot, live, tpc, tb, flushed, thrown, crashes>>
    BY DEF WriteBack
  <2>3. QED
    BY <2>1, <2>2 DEF SpanInv, TypeOK
<1>6. ~thrown' /\ WordsEncoded' /\ Owned' /\ FlushedOwn' /\ FreePending'
  BY DEF WriteBack, SpanInv, TypeOK, WordsEncoded, Owned, FlushedOwn, FreePending
<1>3. MallocPending'
  BY DEF WriteBack, SpanInv, TypeOK, MallocPending
<1>4. Settled'
  BY <1>1 DEF WriteBack, SpanInv, TypeOK, Settled, Busy
<1>5. QED
  BY <1>2, <1>3, <1>4, <1>6 DEF SpanInv


(***************************************************************************)
(* After a crash the cache is the media and the allocator is rebuilt from *)
(* it: a zero word gives "no span" and a non-zero word, being some span's *)
(* encoding, decodes to a span with that very word.  No page is busy.      *)
(***************************************************************************)
LEMMA CrashStep ==
  ASSUME SpanInv, Crash
  PROVE  SpanInv'
<1>1. Busy' = {}
  BY DEF Crash, Busy
<1>2. \A p \in Pages : Rebuilt[p] \in Descs \cup {Free} /\ Enc(Rebuilt[p]) = slotPm[p]
  <2> SUFFICES ASSUME NEW p \in Pages
               PROVE  Rebuilt[p] \in Descs \cup {Free} /\ Enc(Rebuilt[p]) = slotPm[p]
    OBVIOUS
  <2>1. slotPm[p] \in Encoded
    BY DEF SpanInv, WordsEncoded
  <2>2. CASE slotPm[p] = 0
    BY <2>2 DEF Rebuilt, Enc
  <2>3. CASE slotPm[p] # 0
    <3>1. Rebuilt[p] = Decode(slotPm[p])
      BY <2>3 DEF Rebuilt
    <3>2. Decode(slotPm[p]) \in Descs /\ spanLogValue(Decode(slotPm[p])) = slotPm[p]
      BY <2>1, <2>3, DecodeOK
    <3>3. Rebuilt[p] # Free
      BY <3>1, <3>2, FreeNotDesc
    <3>4. QED
      BY <3>1, <3>2, <3>3 DEF Enc
  <2>4. QED
    BY <2>2, <2>3
<1>3. TypeOK'
  <2>1. live' \in [Pages -> Descs \cup {Free}]
    BY <1>2 DEF Crash, Rebuilt
  <2>2. crashes' \in 0 .. MaxCrashes
    BY MaxCrashesNat DEF Crash, SpanInv, TypeOK
  <2>3. /\ tpc' \in [Threads -> {"Idle", "Malloc", "Freeing"}]
        /\ tb' \in [Threads -> Pages] /\ flushed' \in [Threads -> SUBSET Pages]
    BY ZeroPage DEF Crash
  <2>4. thrown' \in BOOLEAN
    BY Zenon DEF Crash
  <2>5. slot' \in [Pages -> Words] /\ slotPm' \in [Pages -> Words]
    BY DEF Crash, SpanInv, TypeOK
  <2>6. QED
    BY <2>1, <2>2, <2>3, <2>4, <2>5 DEF TypeOK
<1>4. ~thrown'
  BY Zenon DEF Crash
<1>5. WordsEncoded' /\ Owned' /\ FlushedOwn' /\ MallocPending' /\ FreePending'
  BY DEF Crash, SpanInv, WordsEncoded, Owned, FlushedOwn, MallocPending, FreePending
<1>6. Settled'
  BY <1>2 DEF Crash, Settled
<1>7. QED
  BY <1>3, <1>4, <1>5, <1>6 DEF SpanInv

\* Every step of the span log, or a stutter, preserves SpanInv.
LEMMA SpanInvNext == SpanInv /\ [Next]_vars => SpanInv'
<1> SUFFICES ASSUME SpanInv, [Next]_vars PROVE SpanInv'
  OBVIOUS
<1>1. CASE \E t \in Threads, b \in Pages, d \in Descs : Alloc(t, b, d)
  BY <1>1, AllocStep
<1>2. CASE \E t \in Threads, b \in Pages : FreeBegin(t, b)
  BY <1>2, FreeBeginStep
<1>3. CASE \E t \in Threads : MallocEnd(t)
  BY <1>3, MallocEndStep
<1>4. CASE \E t \in Threads : FreeEnd(t)
  BY <1>4, FreeEndStep
<1>5. CASE \E p \in Pages : WriteBack(p)
  BY <1>5, WriteBackStep
<1>6. CASE Crash
  BY <1>6, CrashStep
<1>7. CASE UNCHANGED vars
  BY <1>7 DEF SpanInv, TypeOK, WordsEncoded, Owned, FlushedOwn, MallocPending,
              FreePending, Settled, Busy, vars
<1>8. QED
  BY <1>1, <1>2, <1>3, <1>4, <1>5, <1>6, <1>7 DEF Next

(***************************************************************************)
(* For every arena size, set of goroutines, set of spans and crash bound:  *)
(* at every page no goroutine is working on, the durable word is the       *)
(* spanLogValue of the live span starting there, or 0, across reuse with   *)
(* a changed needzero bit, the fence deferred to the end of mallocgc,      *)
(* cache write-backs and crashes; so recovery rebuilds the allocator.      *)
(***************************************************************************)
THEOREM DurableLogMatchesProof == Spec => []DurableLogMatches
<1>1. Init => SpanInv
  BY SpanInit
<1>2. SpanInv /\ [Next]_vars => SpanInv'
  BY SpanInvNext
<1>3. SpanInv => DurableLogMatches
  BY DEF SpanInv, Settled, DurableLogMatches, Enc
<1>4. QED
  BY <1>1, <1>2, <1>3, PTL DEF Spec

(***************************************************************************)
(* For every arena size, set of goroutines, set of spans and crash bound:  *)
(* logSpanAlloc never throws "Logged span information mismatch" on a       *)
(* history the allocator contract allows, because the word its reuse      *)
(* check reads is always 0 or the encoding of a live span of the same     *)
(* class.                                                                  *)
(***************************************************************************)
THEOREM NoMismatchThrowProof == Spec => []NoMismatchThrow
<1>1. Init => SpanInv
  BY SpanInit
<1>2. SpanInv /\ [Next]_vars => SpanInv'
  BY SpanInvNext
<1>3. SpanInv => NoMismatchThrow
  BY DEF SpanInv, NoMismatchThrow
<1>4. QED
  BY <1>1, <1>2, <1>3, PTL DEF Spec

=============================================================================
