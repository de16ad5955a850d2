------------------------- MODULE PmemSpanLogGoProofs -------------------------
(***************************************************************************)
(* Proofs about the span log of pmemLog.go (PmemSpanLogGo): the durable   *)
(* span bitmap matches the allocator for every arena that meets the       *)
(* layout contract, every number of goroutines, every set of spans and    *)
(* every crash bound.                                                      *)
(***************************************************************************)
EXTENDS PmemSpanLogGo, PmemArenaAddrProofs

\* The parts of SpanGoAssumption the proofs cite, one fact each.
LEMMA DescsTyped == Descs \subseteq SpanDesc
  BY SpanGoAssumption

LEMMA MaxCrashesNat == MaxCrashes \in Nat
  BY SpanGoAssumption

\* The word a page's entry holds for the allocator state x.
Enc(x) == IF x = Free THEN 0 ELSE spanLogValue(x)

\* The words a span bitmap entry can hold: 0 or the encoding of a span.
Encoded == {0} \cup {spanLogValue(d) : d \in Descs}

-----------------------------------------------------------------------------
\* Distinct pages have distinct span-bitmap words (from LogWindowsSeparate).
LEMMA LogAddrInjective ==
  \A p, q \in Pages : LogAddr(p) = LogAddr(q) => p = q
<1> SUFFICES ASSUME NEW p \in Pages, NEW q \in Pages, p # q
             PROVE  LogAddr(p) # LogAddr(q)
  OBVIOUS
<1>1. p \in Nat /\ q \in Nat
  BY LayoutContract DEF Pages, pageSize
<1>2. LogAddr(p) = spanBitmap + p * 4 /\ LogAddr(q) = spanBitmap + q * 4
  BY LogWindowsSeparate DEF LogAddr, spanBytesPerPage
<1>3. spanBitmap \in Nat
  BY LayoutContract DEF spanBitmap, bytesPerBitmapByte
<1>4. QED
  BY <1>1, <1>2, <1>3

\* A uint32 word is a natural number, and every natural below 2^32 is one.
LEMMA WordsNat == \A v \in Words : v \in Nat
  BY DEF Words

LEMMA NatWords == \A v \in Nat : v < 2^32 => v \in Words
  BY DEF Words

\* The first page exists (the heap has at least one page).
LEMMA ZeroPage == 0 \in Pages
  BY HeapPages DEF Pages

\* Every span's word is a non-zero uint32.
LEMMA ValueInWords ==
  \A d \in Descs : spanLogValue(d) \in Words \ {0}
<1> SUFFICES ASSUME NEW d \in Descs PROVE spanLogValue(d) \in Words \ {0}
  OBVIOUS
<1>1. d \in SpanDesc /\ (d.large <=> d.spc \in {0, 1}) /\ NPages <= 8192
  BY SpanGoAssumption
<1>2. d.spc \in 0 .. 133 /\ d.npages \in 1 .. NPages /\ d.nz \in {0, 1}
      /\ d.large \in BOOLEAN
  BY <1>1 DEF SpanDesc
<1>3. NPages \in Nat
  BY LayoutContract DEF NPages, pageSize
<1>4. spanLogValue(d) \in Nat /\ spanLogValue(d) # 0 /\ spanLogValue(d) <= 40000
  <2>1. CASE d.large
    <3>1. spanLogValue(d) = (66 + d.npages - 4) * 4 + d.spc * 2 + d.nz
      BY <2>1 DEF spanLogValue
    <3>2. d.spc \in {0, 1}
      BY <1>1, <2>1
    <3>3. QED
      BY <1>1, <1>2, <1>3, <3>1, <3>2
  <2>2. CASE ~d.large
    <3>1. spanLogValue(d) = d.spc * 2 + d.nz /\ d.spc \notin {0, 1}
      BY <1>1, <2>2 DEF spanLogValue
    <3>2. QED
      BY <1>2, <3>1
  <2>3. QED
    BY <1>2, <2>1, <2>2
<1>5. 40000 < 2^32
  BY SMT
<1>6. spanLogValue(d) < 2^32
  BY <1>4, <1>5
<1>7. QED
  BY <1>4, <1>6, NatWords

\* The allocator's "no span here" is not a span.
LEMMA FreeNotDesc == Free \notin Descs
  BY DescsTyped DEF Free, SpanDesc

\* Recovery's decoding of a non-zero entry gives back a span with that word.
LEMMA DecodeOK ==
  \A v \in Encoded \ {0} : Decode(v) \in Descs /\ spanLogValue(Decode(v)) = v
  BY DEF Encoded, Decode

\* A word is its upper 31 bits and its low bit.
LEMMA HalfAndBit ==
  \A v, w \in Nat : v \div 2 = w \div 2 /\ v % 2 = w % 2 => v = w
  OBVIOUS

-----------------------------------------------------------------------------
(***************************************************************************)
(* The inductive invariant behind DurableLogMatches.  Besides the         *)
(* property (for cache and media), it says that at most one goroutine     *)
(* works on a page, that the cache holds the word a goroutine is about to *)
(* persist, and that every word is 0 or some span's encoding, which is    *)
(* what makes recovery's Decode well defined after a crash.               *)
(***************************************************************************)
GoInv ==
  /\ TypeOK
  /\ \A p \in Pages : slotPm[LogAddr(p)] \in Encoded /\ slot[LogAddr(p)] \in Encoded
  /\ \A t, u \in Threads :
       tpc[t] # "Idle" /\ tpc[u] # "Idle" /\ tb[t] = tb[u] => t = u
  /\ \A t \in Threads :
       tpc[t] = "AllocPersist" => slot[LogAddr(tb[t])] = Enc(live[tb[t]])
  /\ \A t \in Threads : tpc[t] = "FreePersist" => slot[LogAddr(tb[t])] = 0
  /\ \A p \in Pages \ Busy :
       slot[LogAddr(p)] = Enc(live[p]) /\ slotPm[LogAddr(p)] = Enc(live[p])

\* GoInv holds initially: every word is 0 and no span is live.
LEMMA GoInvInit == Init => GoInv
<1> SUFFICES ASSUME Init PROVE GoInv
  OBVIOUS
<1>1. \A p \in Pages : LogAddr(p) \in SlotAddrs
  BY DEF SlotAddrs
<1>2. 0 \in Words
  <2>1. 0 < 2^32
    BY SMT
  <2>2. QED
    BY <2>1, NatWords
<1>3. TypeOK
  <2>1. [a \in SlotAddrs |-> 0] \in [SlotAddrs -> Words]
    BY <1>2
  <2>7. slot = [a \in SlotAddrs |-> 0] /\ slotPm = slot
    BY DEF Init
  <2>6. slot \in [SlotAddrs -> Words] /\ slotPm \in [SlotAddrs -> Words]
    BY <2>1, <2>7
  <2>2. live \in [Pages -> Descs \cup {Free}]
        /\ tpc \in [Threads -> {"Idle", "AllocPersist", "FreePersist"}]
    BY DEF Init
  <2>3. tb \in [Threads -> Pages]
    BY ZeroPage DEF Init
  <2>8. thrown = FALSE /\ crashes = 0
    BY DEF Init
  <2>9. crashes \in 0 .. MaxCrashes
    BY <2>8, MaxCrashesNat
  <2>4. thrown \in BOOLEAN /\ crashes \in 0 .. MaxCrashes
    BY <2>8, <2>9, Zenon
  <2>5. QED
    BY <2>6, <2>2, <2>3, <2>4 DEF TypeOK
<1>4. QED
  BY <1>1, <1>3 DEF Init, GoInv, Encoded, Enc, Busy

\* The words of the pages, and the page of a word, under TypeOK.
LEMMA AddrFacts ==
  /\ \A p \in Pages : LogAddr(p) \in SlotAddrs
  /\ \A a \in SlotAddrs : \E p \in Pages : a = LogAddr(p)
  BY DEF SlotAddrs

(***************************************************************************)
(* logSpanAlloc preserves GoInv.  The page is not busy, so the word read  *)
(* by the reuse check is the live span's encoding: the throw changes      *)
(* nothing but thrown; the skip happens only when the two words are equal *)
(* (upper 31 bits and low bit); the store puts the new span's word in the *)
(* cache of a page that becomes busy.                                      *)
(***************************************************************************)
LEMMA AllocStep ==
  ASSUME GoInv, NEW t \in Threads, NEW b \in Pages, NEW d \in Descs, Alloc(t, b, d)
  PROVE  GoInv'
<1> DEFINE v == slot[LogAddr(b)]
           lv == spanLogValue(d)
<1>1. b \notin Busy /\ tpc[t] = "Idle"
  BY DEF Alloc, AllocatorGives
<1>2. v = Enc(live[b]) /\ v \in Encoded /\ v \in Nat
  BY <1>1, ValueInWords, WordsNat DEF GoInv, TypeOK, Encoded
<1>3. lv \in Words \ {0} /\ lv \in Encoded /\ Enc(d) = lv /\ lv \in Nat
  BY ValueInWords, FreeNotDesc, WordsNat DEF Encoded, Enc
<1>4. LogAddr(b) \in SlotAddrs
  BY AddrFacts
<1>5. CASE v # 0 /\ v \div 2 # lv \div 2 /\ thrown' = TRUE
           /\ UNCHANGED <<slot, live, tpc, tb>>
  <2>1. UNCHANGED <<slotPm, crashes>>
    BY DEF Alloc
  <2>2. QED
    BY <1>5, <2>1 DEF GoInv, TypeOK, Busy
<1>6. CASE v # 0 /\ v \div 2 = lv \div 2 /\ v % 2 = lv % 2
           /\ live' = [live EXCEPT ![b] = d] /\ UNCHANGED <<slot, tpc, tb, thrown>>
  <2>1. UNCHANGED <<slotPm, crashes>>
    BY DEF Alloc
  <2>2. v = lv
    BY <1>2, <1>3, <1>6, HalfAndBit
  <2>3. Busy' = Busy
    BY <1>6 DEF Busy
  <2>4. TypeOK'
    BY <1>6, <2>1 DEF GoInv, TypeOK
  <2>5. \A u \in Threads : tpc[u] # "Idle" => tb[u] # b
    BY <1>1 DEF Busy
  <2>6. \A p \in Pages \ Busy' :
          slot'[LogAddr(p)] = Enc(live'[p]) /\ slotPm'[LogAddr(p)] = Enc(live'[p])
    BY <1>1, <1>2, <1>3, <1>6, <2>1, <2>2, <2>3 DEF GoInv, TypeOK
  <2>7. QED
    BY <1>6, <2>1, <2>4, <2>5, <2>6 DEF GoInv, TypeOK
<1>7. CASE /\ v = 0 \/ (v \div 2 = lv \div 2 /\ v % 2 # lv % 2)
           /\ slot' = [slot EXCEPT ![LogAddr(b)] = lv]
           /\ live' = [live EXCEPT ![b] = d]
           /\ tpc' = [tpc EXCEPT ![t] = "AllocPersist"]
           /\ tb' = [tb EXCEPT ![t] = b]
           /\ UNCHANGED thrown
  <2>1. UNCHANGED <<slotPm, crashes>>
    BY DEF Alloc
  <2>2. Busy' = Busy \cup {b}
    BY <1>1, <1>7 DEF GoInv, TypeOK, Busy
  <2>3. \A p \in Pages : p # b => LogAddr(p) # LogAddr(b)
    BY LogAddrInjective
  <2>4. \A u \in Threads : tpc[u] # "Idle" => tb[u] # b /\ u # t
    BY <1>1 DEF Busy
  <2>5. TypeOK'
    BY <1>3, <1>4, <1>7, <2>1 DEF GoInv, TypeOK
  <2>6. (\A p \in Pages : slotPm[LogAddr(p)] \in Encoded /\ slot[LogAddr(p)] \in Encoded)'
    BY <1>3, <1>7, <2>1, <2>3 DEF GoInv
  <2>7. (\A u, w \in Threads :
           tpc[u] # "Idle" /\ tpc[w] # "Idle" /\ tb[u] = tb[w] => u = w)'
    BY <1>7, <2>4 DEF GoInv, TypeOK
  <2>8. (\A u \in Threads :
           tpc[u] = "AllocPersist" => slot[LogAddr(tb[u])] = Enc(live[tb[u]]))'
    <3> SUFFICES ASSUME NEW u \in Threads, tpc'[u] = "AllocPersist"
                 PROVE  slot'[LogAddr(tb'[u])] = Enc(live'[tb'[u]])
      OBVIOUS
    <3>1. CASE u = t
      BY <1>3, <1>4, <1>7, <3>1 DEF GoInv, TypeOK
    <3>2. CASE u # t
      <4>1. tpc[u] = "AllocPersist" /\ tb'[u] = tb[u] /\ tb[u] \in Pages /\ tb[u] # b
        BY <1>7, <2>4, <3>2 DEF GoInv, TypeOK
      <4>2. LogAddr(tb[u]) # LogAddr(b)
        BY <4>1, <2>3
      <4>3. slot'[LogAddr(tb[u])] = slot[LogAddr(tb[u])] /\ live'[tb[u]] = live[tb[u]]
        BY <1>7, <4>1, <4>2 DEF GoInv, TypeOK
      <4>4. QED
        BY <4>1, <4>3 DEF GoInv
    <3>3. QED
      BY <3>1, <3>2
  <2>9. (\A u \in Threads : tpc[u] = "FreePersist" => slot[LogAddr(tb[u])] = 0)'
    BY <1>7, <2>3, <2>4 DEF GoInv, TypeOK
  <2>10. \A p \in Pages \ Busy' :
           slot'[LogAddr(p)] = Enc(live'[p]) /\ slotPm'[LogAddr(p)] = Enc(live'[p])
    BY <1>7, <2>1, <2>2, <2>3 DEF GoInv, TypeOK
  <2>11. QED
    BY <2>5, <2>6, <2>7, <2>8, <2>9, <2>10 DEF GoInv
<1>8. \/ v # 0 /\ v \div 2 # lv \div 2 /\ thrown' = TRUE /\ UNCHANGED <<slot, live, tpc, tb>>
      \/ v # 0 /\ v \div 2 = lv \div 2 /\ v % 2 = lv % 2
         /\ live' = [live EXCEPT ![b] = d] /\ UNCHANGED <<slot, tpc, tb, thrown>>
      \/ /\ v = 0 \/ (v \div 2 = lv \div 2 /\ v % 2 # lv % 2)
         /\ slot' = [slot EXCEPT ![LogAddr(b)] = lv]
         /\ live' = [live EXCEPT ![b] = d]
         /\ tpc' = [tpc EXCEPT ![t] = "AllocPersist"]
         /\ tb' = [tb EXCEPT ![t] = b]
         /\ UNCHANGED thrown
  BY Zenon DEF Alloc
<1>9. QED
  BY <1>5, <1>6, <1>7, <1>8

(***************************************************************************)
(* The PersistRange that ends logSpanAlloc makes the cached word durable; *)
(* its page stops being busy, and the cache already held the span's word. *)
(***************************************************************************)
LEMMA AllocPersistStep ==
  ASSUME GoInv, NEW t \in Threads, AllocPersist(t)
  PROVE  GoInv'
<1> DEFINE b == tb[t]
<1>1. tpc[t] = "AllocPersist" /\ b \in Pages /\ slot[LogAddr(b)] = Enc(live[b])
  BY DEF AllocPersist, GoInv, TypeOK
<1>2. LogAddr(b) \in SlotAddrs /\ slot[LogAddr(b)] \in Encoded /\ slot[LogAddr(b)] \in Words
  <2>1. LogAddr(b) \in SlotAddrs
    BY <1>1, AddrFacts
  <2>2. slot[LogAddr(b)] \in Encoded
    BY <1>1 DEF GoInv
  <2>3. slot[LogAddr(b)] \in Words
    BY <2>1 DEF GoInv, TypeOK
  <2>4. QED
    BY <2>1, <2>2, <2>3
<1>3. \A p \in Pages : p # b => LogAddr(p) # LogAddr(b)
  BY <1>1, LogAddrInjective
<1>4. \A u \in Threads : u # t /\ tpc[u] # "Idle" => tb[u] # b
  BY <1>1 DEF GoInv
<1>5. Busy' = Busy \ {b}
  BY <1>1, <1>4 DEF AllocPersist, Busy, GoInv, TypeOK
<1>6. TypeOK'
  BY <1>2, ZeroPage DEF AllocPersist, GoInv, TypeOK
<1>7. (\A p \in Pages : slotPm[LogAddr(p)] \in Encoded /\ slot[LogAddr(p)] \in Encoded)'
  BY <1>2, <1>3 DEF AllocPersist, GoInv
<1>8. (\A u, w \in Threads :
         tpc[u] # "Idle" /\ tpc[w] # "Idle" /\ tb[u] = tb[w] => u = w)'
  BY DEF AllocPersist, GoInv, TypeOK
<1>9. (\A u \in Threads :
         tpc[u] = "AllocPersist" => slot[LogAddr(tb[u])] = Enc(live[tb[u]]))'
  BY DEF AllocPersist, GoInv, TypeOK
<1>10. (\A u \in Threads : tpc[u] = "FreePersist" => slot[LogAddr(tb[u])] = 0)'
  BY DEF AllocPersist, GoInv, TypeOK
<1>11. \A p \in Pages \ Busy' :
         slot'[LogAddr(p)] = Enc(live'[p]) /\ slotPm'[LogAddr(p)] = Enc(live'[p])
  BY <1>1, <1>2, <1>3, <1>5 DEF AllocPersist, GoInv, TypeOK
<1>12. QED
  BY <1>6, <1>7, <1>8, <1>9, <1>10, <1>11 DEF GoInv

(***************************************************************************)
(* logSpanFree stores 0 in the cached word of a live, idle span; the page *)
(* becomes busy, so its durable word may still name the span.              *)
(***************************************************************************)
LEMMA FreeBeginStep ==
  ASSUME GoInv, NEW t \in Threads, NEW b \in Pages, FreeBegin(t, b)
  PROVE  GoInv'
<1>1. b \notin Busy /\ tpc[t] = "Idle"
  BY DEF FreeBegin
<1>2. LogAddr(b) \in SlotAddrs
  BY AddrFacts
<1>3. \A p \in Pages : p # b => LogAddr(p) # LogAddr(b)
  BY LogAddrInjective
<1>4. \A u \in Threads : tpc[u] # "Idle" => tb[u] # b /\ u # t
  BY <1>1 DEF Busy
<1>5. 0 \in Words /\ 0 \in Encoded
  <2>1. 0 < 2^32
    BY SMT
  <2>2. QED
    BY <2>1, NatWords DEF Encoded
<1>6. Busy' = Busy \cup {b}
  BY <1>1 DEF FreeBegin, Busy, GoInv, TypeOK
<1>7. TypeOK'
  BY <1>2, <1>5 DEF FreeBegin, GoInv, TypeOK
<1>8. (\A p \in Pages : slotPm[LogAddr(p)] \in Encoded /\ slot[LogAddr(p)] \in Encoded)'
  BY <1>3, <1>5 DEF FreeBegin, GoInv
<1>9. (\A u, w \in Threads :
         tpc[u] # "Idle" /\ tpc[w] # "Idle" /\ tb[u] = tb[w] => u = w)'
  BY <1>4 DEF FreeBegin, GoInv, TypeOK
<1>10. (\A u \in Threads :
          tpc[u] = "AllocPersist" => slot[LogAddr(tb[u])] = Enc(live[tb[u]]))'
  <2> SUFFICES ASSUME NEW u \in Threads, tpc'[u] = "AllocPersist"
               PROVE  slot'[LogAddr(tb'[u])] = Enc(live'[tb'[u]])
    OBVIOUS
  <2>1. u # t /\ tpc[u] = "AllocPersist" /\ tb'[u] = tb[u]
    BY DEF FreeBegin, GoInv, TypeOK
  <2>2. tb[u] \in Pages /\ tb[u] # b
    BY <1>4, <2>1 DEF GoInv, TypeOK
  <2>3. slot'[LogAddr(tb[u])] = slot[LogAddr(tb[u])] /\ live' = live
    BY <1>3, <2>2 DEF FreeBegin, GoInv, TypeOK
  <2>4. QED
    BY <2>1, <2>3 DEF GoInv
<1>11. (\A u \in Threads : tpc[u] = "FreePersist" => slot[LogAddr(tb[u])] = 0)'
  <2> SUFFICES ASSUME NEW u \in Threads, tpc'[u] = "FreePersist"
               PROVE  slot'[LogAddr(tb'[u])] = 0
    OBVIOUS
  <2>1. CASE u = t
    BY <1>2, <2>1 DEF FreeBegin, GoInv, TypeOK
  <2>2. CASE u # t
    <3>1. tpc[u] = "FreePersist" /\ tb'[u] = tb[u] /\ tb[u] \in Pages /\ tb[u] # b
      BY <1>4, <2>2 DEF FreeBegin, GoInv, TypeOK
    <3>2. slot'[LogAddr(tb[u])] = slot[LogAddr(tb[u])]
      BY <1>3, <3>1 DEF FreeBegin, GoInv, TypeOK
    <3>3. QED
      BY <3>1, <3>2 DEF GoInv
  <2>3. QED
    BY <2>1, <2>2
<1>12. \A p \in Pages \ Busy' :
         slot'[LogAddr(p)] = Enc(live'[p]) /\ slotPm'[LogAddr(p)] = Enc(live'[p])
  BY <1>3, <1>6 DEF FreeBegin, GoInv, TypeOK
<1>13. QED
  BY <1>7, <1>8, <1>9, <1>10, <1>11, <1>12 DEF GoInv

(***************************************************************************)
(* logSpanFree's PersistRange makes the 0 durable and the allocator takes *)
(* the pages back: the page stops being busy with word and span both      *)
(* "none".                                                                 *)
(***************************************************************************)
LEMMA FreeEndStep ==
  ASSUME GoInv, NEW t \in Threads, FreeEnd(t)
  PROVE  GoInv'
<1> DEFINE b == tb[t]
<1>1. tpc[t] = "FreePersist" /\ b \in Pages /\ slot[LogAddr(b)] = 0
  BY DEF FreeEnd, GoInv, TypeOK
<1>2. LogAddr(b) \in SlotAddrs /\ 0 \in Encoded /\ Enc(Free) = 0
  <2>1. LogAddr(b) \in SlotAddrs
    BY <1>1, AddrFacts
  <2>2. 0 \in Encoded
    BY DEF Encoded
  <2>3. Enc(Free) = 0
    BY DEF Enc
  <2>4. QED
    BY <2>1, <2>2, <2>3
<1>3. \A p \in Pages : p # b => LogAddr(p) # LogAddr(b)
  BY <1>1, LogAddrInjective
<1>4. \A u \in Threads : u # t /\ tpc[u] # "Idle" => tb[u] # b
  BY <1>1 DEF GoInv
<1>5. Busy' = Busy \ {b}
  BY <1>1, <1>4 DEF FreeEnd, Busy, GoInv, TypeOK
<1>6. TypeOK'
  BY <1>1, <1>2, ZeroPage DEF FreeEnd, GoInv, TypeOK
<1>7. (\A p \in Pages : slotPm[LogAddr(p)] \in Encoded /\ slot[LogAddr(p)] \in Encoded)'
  BY <1>1, <1>2, <1>3 DEF FreeEnd, GoInv
<1>8. (\A u, w \in Threads :
         tpc[u] # "Idle" /\ tpc[w] # "Idle" /\ tb[u] = tb[w] => u = w)'
  BY DEF FreeEnd, GoInv, TypeOK
<1>9. (\A u \in Threads :
         tpc[u] = "AllocPersist" => slot[LogAddr(tb[u])] = Enc(live[tb[u]]))'
  BY <1>4 DEF FreeEnd, GoInv, TypeOK
<1>10. (\A u \in Threads : tpc[u] = "FreePersist" => slot[LogAddr(tb[u])] = 0)'
  BY DEF FreeEnd, GoInv, TypeOK
<1>11. \A p \in Pages \ Busy' :
         slot'[LogAddr(p)] = Enc(live'[p]) /\ slotPm'[LogAddr(p)] = Enc(live'[p])
  BY <1>1, <1>2, <1>3, <1>5 DEF FreeEnd, GoInv, TypeOK
<1>12. QED
  BY <1>6, <1>7, <1>8, <1>9, <1>10, <1>11 DEF GoInv

\* A write-back copies a cached word to the media: on a page that is not
\* busy the two were equal already.
LEMMA WriteBackStep ==
  ASSUME GoInv, NEW a \in SlotAddrs, WriteBack(a)
  PROVE  GoInv'
<1>1. PICK q \in Pages : a = LogAddr(q)
  BY AddrFacts
<1>2. \A p \in Pages : p # q => LogAddr(p) # a
  BY <1>1, LogAddrInjective
<1>3. Busy' = Busy
  BY DEF WriteBack, Busy
<1>4. TypeOK'
  BY DEF WriteBack, GoInv, TypeOK
<1>5. (\A p \in Pages : slotPm[LogAddr(p)] \in Encoded /\ slot[LogAddr(p)] \in Encoded)'
  BY <1>1, <1>2 DEF WriteBack, GoInv, TypeOK
<1>6. \A p \in Pages \ Busy' :
        slot'[LogAddr(p)] = Enc(live'[p]) /\ slotPm'[LogAddr(p)] = Enc(live'[p])
  BY <1>1, <1>2, <1>3 DEF WriteBack, GoInv, TypeOK
<1>7. QED
  BY <1>4, <1>5, <1>6 DEF WriteBack, GoInv

(***************************************************************************)
(* After a crash the cache is the media and the allocator is rebuilt from *)
(* it: a zero word gives "none" and a non-zero word, being some span's     *)
(* encoding, decodes to a span with that very word.  No page is busy.      *)
(***************************************************************************)
LEMMA CrashStep ==
  ASSUME GoInv, Crash
  PROVE  GoInv'
<1>1. Busy' = {}
  BY DEF Crash, Busy
<1>2. \A p \in Pages : slotPm[LogAddr(p)] \in Encoded
  BY DEF GoInv
<1>3. \A p \in Pages : Rebuilt[p] \in Descs \cup {Free}
                       /\ Enc(Rebuilt[p]) = slotPm[LogAddr(p)]
  <2> SUFFICES ASSUME NEW p \in Pages
               PROVE  Rebuilt[p] \in Descs \cup {Free}
                      /\ Enc(Rebuilt[p]) = slotPm[LogAddr(p)]
    OBVIOUS
  <2>1. CASE slotPm[LogAddr(p)] = 0
    BY <2>1 DEF Rebuilt, Enc
  <2>2. CASE slotPm[LogAddr(p)] # 0
    <3>1. Rebuilt[p] = Decode(slotPm[LogAddr(p)])
      BY <2>2 DEF Rebuilt
    <3>2. Decode(slotPm[LogAddr(p)]) \in Descs
          /\ spanLogValue(Decode(slotPm[LogAddr(p)])) = slotPm[LogAddr(p)]
      BY <1>2, <2>2, DecodeOK
    <3>3. Rebuilt[p] # Free
      BY <3>1, <3>2, FreeNotDesc
    <3>4. QED
      BY <3>1, <3>2, <3>3 DEF Enc
  <2>3. QED
    BY <2>1, <2>2
<1>4. live' \in [Pages -> Descs \cup {Free}]
  BY <1>3 DEF Crash, Rebuilt
<1>5. crashes' \in 0 .. MaxCrashes
  BY MaxCrashesNat DEF Crash, GoInv, TypeOK
<1>6. TypeOK'
  <2>1. tpc' \in [Threads -> {"Idle", "AllocPersist", "FreePersist"}]
        /\ tb' \in [Threads -> Pages]
    BY ZeroPage DEF Crash
  <2>2. thrown' \in BOOLEAN
    BY Zenon DEF Crash
  <2>3. slot' \in [SlotAddrs -> Words] /\ slotPm' \in [SlotAddrs -> Words]
    BY DEF Crash, GoInv, TypeOK
  <2>4. QED
    BY <1>4, <1>5, <2>1, <2>2, <2>3 DEF TypeOK
<1>7. (\A p \in Pages : slotPm[LogAddr(p)] \in Encoded /\ slot[LogAddr(p)] \in Encoded)'
  BY <1>2 DEF Crash
<1>8. \A p \in Pages \ Busy' :
        slot'[LogAddr(p)] = Enc(live'[p]) /\ slotPm'[LogAddr(p)] = Enc(live'[p])
  BY <1>3 DEF Crash
<1>9. QED
  BY <1>6, <1>7, <1>8 DEF Crash, GoInv

\* Every step of the span log, or a stutter, preserves GoInv.
LEMMA GoInvNext == GoInv /\ [Next]_vars => GoInv'
<1> SUFFICES ASSUME GoInv, [Next]_vars PROVE GoInv'
  OBVIOUS
<1>1. CASE \E t \in Threads, b \in Pages, d \in Descs : Alloc(t, b, d)
  BY <1>1, AllocStep
<1>2. CASE \E t \in Threads, b \in Pages : FreeBegin(t, b)
  BY <1>2, FreeBeginStep
<1>3. CASE \E t \in Threads : AllocPersist(t)
  BY <1>3, AllocPersistStep
<1>4. CASE \E t \in Threads : FreeEnd(t)
  BY <1>4, FreeEndStep
<1>5. CASE \E a \in SlotAddrs : WriteBack(a)
  BY <1>5, WriteBackStep
<1>6. CASE Crash
  BY <1>6, CrashStep
<1>7. CASE UNCHANGED vars
  BY <1>7 DEF GoInv, TypeOK, Busy, vars
<1>8. QED
  BY <1>1, <1>2, <1>3, <1>4, <1>5, <1>6, <1>7 DEF Next

(***************************************************************************)
(* For every arena that meets the layout contract, every set of           *)
(* goroutines, every set of spans and every crash bound: wherever no      *)
(* goroutine is between logSpanAlloc's store and its PersistRange, or     *)
(* between logSpanFree's store and its PersistRange, the durable word at  *)
(* spanLogAddr is the spanLogValue of the live span starting there, or 0, *)
(* so recovery after any crash rebuilds exactly the allocator's spans.    *)
(***************************************************************************)
THEOREM DurableLogMatchesGo == Spec => []DurableLogMatches
<1>1. Init => GoInv
  BY GoInvInit
<1>2. GoInv /\ [Next]_vars => GoInv'
  BY GoInvNext
<1>3. GoInv => DurableLogMatches
  BY DEF GoInv, DurableLogMatches, Enc
<1>4. QED
  BY <1>1, <1>2, <1>3, PTL DEF Spec

\* The word of a small span divided by 2 is its size class.
LEMMA SmallClass ==
  \A d \in Descs : ~d.large => spanLogValue(d) \div 2 = d.spc
<1> SUFFICES ASSUME NEW d \in Descs, ~d.large PROVE spanLogValue(d) \div 2 = d.spc
  OBVIOUS
<1>1. d.spc \in 0 .. 133 /\ d.nz \in {0, 1}
  BY DescsTyped DEF SpanDesc
<1>2. spanLogValue(d) = d.spc * 2 + d.nz
  BY DEF spanLogValue
<1>3. QED
  BY <1>1, <1>2

\* Where logSpanAlloc would throw, the allocator cannot have handed the page out.
LEMMA AllocNoThrow ==
  ASSUME GoInv, NEW t \in Threads, NEW b \in Pages, NEW d \in Descs,
         AllocatorGives(t, b, d), slot[LogAddr(b)] # 0
  PROVE  slot[LogAddr(b)] \div 2 = spanLogValue(d) \div 2
<1>1. slot[LogAddr(b)] = Enc(live[b]) /\ live[b] \in Descs \cup {Free}
  BY DEF AllocatorGives, GoInv, TypeOK
<1>2. live[b] # Free
  BY <1>1 DEF Enc
<1>3. live[b] \in Descs /\ ~live[b].large /\ ~d.large
      /\ d.spc = live[b].spc
  BY <1>1, <1>2 DEF AllocatorGives
<1>4. slot[LogAddr(b)] = spanLogValue(live[b])
  BY <1>1, <1>2 DEF Enc
<1>5. QED
  BY <1>3, <1>4, SmallClass

\* No step sets thrown while GoInv holds.
LEMMA NoThrowNext ==
  ASSUME GoInv, ~thrown, [Next]_vars
  PROVE  ~thrown'
<1>1. CASE \E t \in Threads, b \in Pages, d \in Descs : Alloc(t, b, d)
  <2>1. PICK t \in Threads, b \in Pages, d \in Descs : Alloc(t, b, d)
    BY <1>1
  <2>2. AllocatorGives(t, b, d)
    BY <2>1 DEF Alloc
  <2>3. slot[LogAddr(b)] # 0 => slot[LogAddr(b)] \div 2 = spanLogValue(d) \div 2
    BY <2>2, AllocNoThrow
  <2>4. QED
    BY <2>1, <2>3 DEF Alloc
<1>2. CASE ~(\E t \in Threads, b \in Pages, d \in Descs : Alloc(t, b, d))
  BY <1>2 DEF Next, vars, FreeBegin, AllocPersist, FreeEnd, WriteBack, Crash
<1>3. QED
  BY <1>1, <1>2

(***************************************************************************)
(* logSpanAlloc never throws "Logged span information mismatch" on any    *)
(* history: a non-zero word it reads at a page the allocator hands out is *)
(* the encoding of the span live there, which has the class of the span   *)
(* being allocated.                                                        *)
(***************************************************************************)
THEOREM NoMismatchThrowGo == Spec => []NoMismatchThrow
<1>1. Init => GoInv /\ ~thrown
  BY GoInvInit DEF Init
<1>2. GoInv /\ ~thrown /\ [Next]_vars => GoInv' /\ ~thrown'
  BY GoInvNext, NoThrowNext
<1>3. QED
  BY <1>1, <1>2, PTL DEF Spec, NoMismatchThrow
=============================================================================
