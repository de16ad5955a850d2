------------------------- MODULE PmemArenaAddrProofs -------------------------
(***************************************************************************)
(* Proofs about the address arithmetic of pmemHeapBitsAddr and            *)
(* spanLogAddr (pmemLog.go lines 63-72 and 140-153) for every arena that  *)
(* satisfies the layout contract of spec 4.2 and 6.                        *)
(***************************************************************************)
EXTENDS PmemArenaAddr, TLAPS

USE LayoutContract DEF pageSize, bytesPerBitmapByte, spanBytesPerPage

\* The heap is a whole number of pages, so its type bitmap is 256 bytes a page.
LEMMA HeapPages ==
  /\ AllocSize = (AllocSize \div pageSize) * pageSize
  /\ AllocSize \div bytesPerBitmapByte = (AllocSize \div pageSize) * 256
  /\ AllocSize \div pageSize \in Nat \ {0}
<1>1. PICK n \in Nat : AllocSize = n * 8192
  <2>1. AllocSize \div 8192 \in Nat /\ AllocSize = (AllocSize \div 8192) * 8192
    OBVIOUS
  <2>2. QED
    BY <2>1
<1>2. AllocSize \div 8192 = n /\ n # 0
  BY <1>1
<1>3. AllocSize \div 32 = n * 256
  BY <1>1
<1>4. QED
  BY <1>1, <1>2, <1>3

(***************************************************************************)
(* The logs of an arena never overlap each other or the heap: the type-   *)
(* bitmap byte pmemHeapBitsAddr gives for any heap address lies in the    *)
(* type bitmap, before the span bitmap; the word spanLogAddr gives for    *)
(* any page lies in the span bitmap, before the heap; and distinct pages  *)
(* have distinct, non-overlapping 4-byte words.  So the memmove of        *)
(* logHeapBits, the memclr of clearHeapBits and the atomic.Store of the   *)
(* span log never write over one another, over the arena header or over  *)
(* heap data.                                                              *)
(***************************************************************************)
THEOREM LogWindowsSeparate ==
  /\ \A x \in HeapAddrs :
       typeBitsAddr <= pmemHeapBitsAddr(x) /\ pmemHeapBitsAddr(x) < spanBitmap
  /\ \A p \in Pages :
       /\ spanLogAddr(PageBase(p)) = spanBitmap + p * spanBytesPerPage
       /\ spanBitmap <= spanLogAddr(PageBase(p))
       /\ spanLogAddr(PageBase(p)) + spanBytesPerPage <= arenaStart
  /\ \A p, q \in Pages :
       p < q => spanLogAddr(PageBase(p)) + spanBytesPerPage <= spanLogAddr(PageBase(q))
<1>1. PICK n \in Nat \ {0} :
        AllocSize = n * 8192 /\ AllocSize \div 32 = n * 256 /\ AllocSize \div 8192 = n
  BY HeapPages
<1>2. ASSUME NEW x \in HeapAddrs
      PROVE  typeBitsAddr <= pmemHeapBitsAddr(x) /\ pmemHeapBitsAddr(x) < spanBitmap
  <2>1. x - arenaStart \in 0 .. (n * 8192 - 1)
    BY <1>1 DEF HeapAddrs, arenaStart
  <2>2. (x - arenaStart) \div 32 \in 0 .. (n * 256 - 1)
    BY <2>1, <1>1
  <2>3. QED
    BY <1>1, <2>2 DEF pmemHeapBitsAddr, typeBitsAddr, spanBitmap
<1>3. ASSUME NEW p \in Pages
      PROVE  /\ spanLogAddr(PageBase(p)) = spanBitmap + p * 4
             /\ spanBitmap <= spanLogAddr(PageBase(p))
             /\ spanLogAddr(PageBase(p)) + 4 <= arenaStart
  <2>1. p \in 0 .. (n - 1)
    BY <1>1 DEF Pages
  <2>2. (PageBase(p) - arenaStart) \div 8192 = p
    BY <2>1 DEF PageBase, arenaStart
  <2>3. spanLogAddr(PageBase(p)) = spanBitmap + p * 4
    BY <2>2 DEF spanLogAddr
  <2>4. spanBitmap + n * 4 <= arenaStart
    BY <1>1 DEF spanBitmap, arenaStart
  <2>5. p * 4 + 4 <= n * 4
    BY <2>1, <1>1
  <2>6. spanBitmap \in Nat /\ arenaStart \in Nat
    BY DEF spanBitmap, arenaStart
  <2>7. p * 4 \in Nat /\ n * 4 \in Nat
    BY <2>1, <1>1
  <2>8. QED
    BY <2>3, <2>4, <2>5, <2>6, <2>7
<1>4. ASSUME NEW p \in Pages, NEW q \in Pages, p < q
      PROVE  spanLogAddr(PageBase(p)) + 4 <= spanLogAddr(PageBase(q))
  <2>1. p \in Nat /\ q \in Nat /\ p * 4 + 4 <= q * 4
    BY <1>4 DEF Pages
  <2>2. spanLogAddr(PageBase(p)) = spanBitmap + p * 4
        /\ spanLogAddr(PageBase(q)) = spanBitmap + q * 4
    BY <1>3
  <2>3. spanBitmap \in Nat
    BY DEF spanBitmap
  <2>4. QED
    BY <2>1, <2>2, <2>3
<1>5. QED
  BY <1>2, <1>3, <1>4
=============================================================================
