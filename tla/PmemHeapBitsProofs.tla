--------------------------- MODULE PmemHeapBitsProofs ---------------------------
(***************************************************************************)
(* Proofs about the heap pointer-bitmap model PmemHeapBits: for every      *)
(* size class whose objects cover whole type-bitmap bytes, every span      *)
(* size and every set of pointer patterns, the media bitmap of a logged    *)
(* object gives exactly its pointer words (ObjectBitsDurable).  The        *)
(* hypothesis is needed: the run heap_bits_unaligned shows the property    *)
(* failing for the 48-byte class.                                          *)
(***************************************************************************)
EXTENDS PmemHeapBits, TLAPS

\* The size class covers whole type-bitmap bytes (32 bytes of heap each).
SizeAligned == ObjSize % bytesPerBitmapByte = 0

\* The heap word that holds word i of object o.
WordOf(o, i) == Addr(o) \div wordSize + i

(***************************************************************************)
(* The inductive invariant behind ObjectBitsDurable: an object is logged   *)
(* only while allocated; the object of a call in progress is allocated,    *)
(* not yet logged, and the CPU's bitmap already holds its pattern; and a   *)
(* logged object's pattern is both in the CPU's bitmap and on the media,   *)
(* so a write-back of one of its words writes the pattern again.          *)
(***************************************************************************)
HBInv ==
  /\ TypeOK
  /\ \A o \in Objs : logged[o] => alloc[o]
  /\ pc # "Idle" => alloc[cur] /\ ~logged[cur]
  /\ \A o \in Objs, i \in 0 .. (ObjWords - 1) :
       /\ alloc[o] /\ logged[o] =>
            bits[WordOf(o, i)] = pat[o][i] /\ bitsPm[WordOf(o, i)] = pat[o][i]
       /\ pc # "Idle" /\ o = cur => bits[WordOf(o, i)] = pat[o][i]
-----------------------------------------------------------------------------
\* The constants of the model are the numbers their definitions give.
LEMMA Consts ==
  /\ bytesPerBitmapByte = 32 /\ wordSize = 8
  /\ ObjSize \in Nat \ {0} /\ NObjs \in Nat \ {0}
  BY HeapBitsAssumption DEF bytesPerBitmapByte, wordSize

(***************************************************************************)
(* With k bitmap bytes per object, object o starts at byte o * k of the   *)
(* type bitmap, its last byte is o * k + k - 1, its first word is         *)
(* 4 * (o * k), it has 4 * k words, and the span has NObjs * k bytes.     *)
(***************************************************************************)
LEMMA Geometry ==
  ASSUME SizeAligned, NEW o \in Objs
  PROVE  LET k == ObjSize \div bytesPerBitmapByte IN
           /\ k \in Nat \ {0}
           /\ ObjSize = 32 * k
           /\ ObjWords = 4 * k
           /\ o * k \in Nat
           /\ startByte(o) = o * k
           /\ endByte(o) = o * k + k - 1
           /\ Addr(o) \div wordSize = 4 * (o * k)
           /\ NBytes = NObjs * k
           /\ o * k + k <= NObjs * k
<1> DEFINE k == ObjSize \div bytesPerBitmapByte
<1>1. k \in Nat \ {0} /\ ObjSize = 32 * k
  BY Consts DEF SizeAligned
<1>2. o \in Nat /\ o + 1 <= NObjs
  BY Consts DEF Objs
<1>3. o * k \in Nat /\ Addr(o) = 32 * (o * k)
  BY <1>1, <1>2 DEF Addr
<1>4. ObjWords = 4 * k
  BY <1>1, Consts DEF ObjWords
<1>5. startByte(o) = o * k /\ endByte(o) = o * k + k - 1
  BY <1>1, <1>3, Consts DEF startByte, endByte
<1>6. Addr(o) \div wordSize = 4 * (o * k)
  BY <1>3, Consts
<1>7. NObjs * ObjSize = 32 * (NObjs * k) /\ NObjs * k \in Nat
  BY <1>1, Consts
<1>8. NBytes = NObjs * k
  BY <1>7, Consts DEF NBytes
<1>9. o * k + k <= NObjs * k
  <2>1. (o + 1) * k <= NObjs * k
    BY <1>1, <1>2, Consts
  <2>2. QED
    BY <2>1, <1>1, <1>2
<1>10. QED
  BY <1>1, <1>4, <1>5, <1>6, <1>8, <1>9, <1>3

\* Object o's words are heap words, and they are exactly the words that the
\* bitmap bytes startByte(o) .. endByte(o) describe.
LEMMA ObjRange ==
  ASSUME SizeAligned, NEW o \in Objs
  PROVE  /\ \A i \in 0 .. (ObjWords - 1) : WordOf(o, i) \in Words
         /\ \A w \in Words :
              w \in ByteWords(startByte(o), endByte(o))
                <=> \E i \in 0 .. (ObjWords - 1) : w = WordOf(o, i)
<1> DEFINE k == ObjSize \div bytesPerBitmapByte
           m == o * k
<1>1. /\ k \in Nat \ {0} /\ ObjWords = 4 * k /\ m \in Nat
      /\ startByte(o) = m /\ endByte(o) = m + k - 1
      /\ Addr(o) \div wordSize = 4 * m
      /\ NBytes = NObjs * k /\ m + k <= NObjs * k
  BY Geometry
<1>2. \A i \in 0 .. (ObjWords - 1) : WordOf(o, i) = 4 * m + i
  BY <1>1 DEF WordOf
<1>3. \A i \in 0 .. (ObjWords - 1) : WordOf(o, i) \in Words
  BY <1>1, <1>2 DEF Words
<1>4. \A w \in Words :
        w \in ByteWords(startByte(o), endByte(o)) <=> (4 * m <= w /\ w < 4 * m + 4 * k)
  BY <1>1 DEF ByteWords
<1>5. \A w \in Words :
        (4 * m <= w /\ w < 4 * m + 4 * k)
          <=> \E i \in 0 .. (ObjWords - 1) : w = WordOf(o, i)
  <2> SUFFICES ASSUME NEW w \in Words
               PROVE  (4 * m <= w /\ w < 4 * m + 4 * k)
                        <=> \E i \in 0 .. (ObjWords - 1) : w = WordOf(o, i)
    OBVIOUS
  <2>1. w \in Int
    BY DEF Words
  <2>2. ASSUME 4 * m <= w, w < 4 * m + 4 * k
        PROVE  \E i \in 0 .. (ObjWords - 1) : w = WordOf(o, i)
    <3>1. w - 4 * m \in 0 .. (ObjWords - 1)
      BY <2>1, <2>2, <1>1
    <3>2. QED
      BY <3>1, <1>2, <2>1, <1>1
  <2>3. ASSUME NEW i \in 0 .. (ObjWords - 1), w = WordOf(o, i)
        PROVE  4 * m <= w /\ w < 4 * m + 4 * k
    BY <2>3, <1>1, <1>2
  <2>4. QED
    BY <2>2, <2>3
<1>6. QED
  BY <1>3, <1>4, <1>5

\* A product with a positive factor is at least the other factor.
LEMMA PositiveProduct ==
  ASSUME NEW x \in Nat \ {0}, NEW y \in Nat \ {0}
  PROVE  x * y >= y
  OBVIOUS

\* Distinct words of distinct objects are distinct heap words.
LEMMA WordOfInjective ==
  ASSUME SizeAligned, NEW o1 \in Objs, NEW o2 \in Objs,
         NEW i \in 0 .. (ObjWords - 1), NEW j \in 0 .. (ObjWords - 1),
         WordOf(o1, i) = WordOf(o2, j)
  PROVE  o1 = o2 /\ i = j
<1>1. PICK k \in Nat \ {0} :
        /\ k = ObjSize \div bytesPerBitmapByte
        /\ ObjWords = 4 * k /\ o1 * k \in Nat /\ o2 * k \in Nat
        /\ WordOf(o1, i) = 4 * (o1 * k) + i /\ WordOf(o2, j) = 4 * (o2 * k) + j
  BY Geometry DEF WordOf
<1>2. o1 \in Nat /\ o2 \in Nat /\ i \in Nat /\ j \in Nat
  BY <1>1 DEF Objs
<1>3. \A a, b \in Nat : a < b => a * k + k <= b * k
  <2> SUFFICES ASSUME NEW a \in Nat, NEW b \in Nat, a < b
               PROVE  a * k + k <= b * k
    OBVIOUS
  <2>1. (b - a) * k >= k
    BY PositiveProduct
  <2>2. b * k - a * k = (b - a) * k
    OBVIOUS
  <2>3. QED
    BY <2>1, <2>2
<1>4. 4 * (o1 * k) + i = 4 * (o2 * k) + j
  BY <1>1
<1>5. o1 = o2
  <2>1. ~(o1 < o2)
    BY <1>1, <1>2, <1>3, <1>4
  <2>2. ~(o2 < o1)
    BY <1>1, <1>2, <1>3, <1>4
  <2>3. QED
    BY <2>1, <2>2, <1>2
<1>6. QED
  BY <1>4, <1>5, <1>1, <1>2
(***************************************************************************)
(* The byte ranges of both calls end at endByte(o): the range of          *)
(* logHeapBits and its PersistRange (numHeapBytes bytes at the type-bitmap *)
(* byte of the object), and that of clearHeapBits and its PersistRange     *)
(* (size / 32 bytes there).                                                *)
(***************************************************************************)
LEMMA RangeEnds ==
  ASSUME SizeAligned, NEW o \in Objs
  PROVE  /\ pmemHeapBitsAddr(Addr(o)) = startByte(o)
         /\ pmemHeapBitsAddr(Addr(o)) + (endByte(o) - startByte(o) + 1) - 1 = endByte(o)
         /\ pmemHeapBitsAddr(Addr(o)) + ObjSize \div bytesPerBitmapByte - 1 = endByte(o)
<1>1. PICK k \in Nat \ {0} :
        /\ k = ObjSize \div bytesPerBitmapByte
        /\ o * k \in Nat /\ startByte(o) = o * k /\ endByte(o) = o * k + k - 1
  BY Geometry
<1>2. pmemHeapBitsAddr(Addr(o)) = startByte(o)
  BY DEF pmemHeapBitsAddr, startByte
<1>3. QED
  BY <1>1, <1>2

(***************************************************************************)
(* Copying the bitmap bytes of object o from src into dst gives o's words  *)
(* their value in src and leaves every word of every other object as it   *)
(* was in dst: the calls on one object never disturb a neighbour's bits.  *)
(***************************************************************************)
LEMMA CopyObj ==
  ASSUME SizeAligned, NEW o \in Objs,
         NEW dst \in [Words -> BOOLEAN], NEW src \in [Words -> BOOLEAN]
  PROVE  LET r == CopyBytes(dst, src, startByte(o), endByte(o)) IN
           /\ r \in [Words -> BOOLEAN]
           /\ \A i \in 0 .. (ObjWords - 1) : r[WordOf(o, i)] = src[WordOf(o, i)]
           /\ \A o2 \in Objs \ {o}, i \in 0 .. (ObjWords - 1) :
                r[WordOf(o2, i)] = dst[WordOf(o2, i)]
<1> DEFINE r == CopyBytes(dst, src, startByte(o), endByte(o))
<1>1. r \in [Words -> BOOLEAN]
  BY DEF CopyBytes
<1>2. ASSUME NEW i \in 0 .. (ObjWords - 1) PROVE r[WordOf(o, i)] = src[WordOf(o, i)]
  <2>1. WordOf(o, i) \in Words /\ WordOf(o, i) \in ByteWords(startByte(o), endByte(o))
    BY ObjRange
  <2>2. QED
    BY <2>1 DEF CopyBytes
<1>3. ASSUME NEW o2 \in Objs \ {o}, NEW i \in 0 .. (ObjWords - 1)
      PROVE  r[WordOf(o2, i)] = dst[WordOf(o2, i)]
  <2>1. WordOf(o2, i) \in Words
    BY ObjRange
  <2>2. WordOf(o2, i) \notin ByteWords(startByte(o), endByte(o))
    <3> SUFFICES ASSUME WordOf(o2, i) \in ByteWords(startByte(o), endByte(o))
                 PROVE  FALSE
      OBVIOUS
    <3>1. PICK j \in 0 .. (ObjWords - 1) : WordOf(o2, i) = WordOf(o, j)
      BY <2>1, ObjRange
    <3>2. o2 = o
      BY <3>1, WordOfInjective
    <3>3. QED
      BY <3>2
  <2>3. QED
    BY <2>1, <2>2 DEF CopyBytes
<1>4. QED
  BY <1>1, <1>2, <1>3
-----------------------------------------------------------------------------
\* HBInv holds in the initial state: nothing is allocated, no call is running.
LEMMA HBInit == Init => HBInv
  <1> SUFFICES ASSUME Init PROVE HBInv
    OBVIOUS
  <1>1. 0 \in Objs /\ NoPtrs \in Patterns \cup {NoPtrs}
    BY Consts DEF Objs
  <1>2. bitsPm \in [Words -> BOOLEAN]
    BY DEF Init
  <1>3. TypeOK
    BY <1>1, <1>2 DEF Init, TypeOK
  <1>4. QED
    BY <1>3 DEF Init, HBInv

\* The pointer patterns are Boolean functions on an object's word indices.
LEMMA PatternsTyped ==
  \A q \in Patterns \cup {NoPtrs} : q \in [0 .. (ObjWords - 1) -> BOOLEAN]
  BY HeapBitsAssumption DEF NoPtrs

(***************************************************************************)
(* logHeapBits with its memmove: the volatile bitmap of object o gets the  *)
(* pattern, the CPU's type bitmap gets o's bytes of it, and HBInv holds   *)
(* with o the object of the call in progress.                              *)
(***************************************************************************)
LEMMA LogStep ==
  ASSUME SizeAligned, HBInv, NEW o \in Objs, NEW p \in Patterns, logHeapBits(o, p)
  PROVE  HBInv'
<1> DEFINE hp == [w \in Words |->
                    IF w \in ObjWordsOf(o) THEN p[w - Addr(o) \div wordSize] ELSE heap[w]]
<1>0. p \in [0 .. (ObjWords - 1) -> BOOLEAN]
  BY PatternsTyped
<1>1. /\ pc = "Idle" /\ ~alloc[o]
      /\ heap' = hp
      /\ bits' = CopyBytes(bits, hp, pmemHeapBitsAddr(Addr(o)),
                           pmemHeapBitsAddr(Addr(o)) + (endByte(o) - startByte(o) + 1) - 1)
      /\ alloc' = [alloc EXCEPT ![o] = TRUE]
      /\ pat' = [pat EXCEPT ![o] = p]
      /\ pc' = "LogPersist" /\ cur' = o
      /\ UNCHANGED <<bitsPm, scan, logged>>
  BY DEF logHeapBits
<1>2. bits' = CopyBytes(bits, hp, startByte(o), endByte(o))
  BY <1>1, RangeEnds
<1>3. \A i \in 0 .. (ObjWords - 1) : hp[WordOf(o, i)] = p[i]
  <2> SUFFICES ASSUME NEW i \in 0 .. (ObjWords - 1) PROVE hp[WordOf(o, i)] = p[i]
    OBVIOUS
  <2>1. WordOf(o, i) \in Words
    BY ObjRange
  <2>2. WordOf(o, i) \in ObjWordsOf(o) /\ WordOf(o, i) - Addr(o) \div wordSize = i
    <3>1. Addr(o) \div wordSize \in Int
      BY Consts DEF Addr, Objs
    <3>2. WordOf(o, i) - Addr(o) \div wordSize = i
      BY <3>1 DEF WordOf
    <3>3. WordOf(o, i) \in ObjWordsOf(o)
      BY DEF WordOf, ObjWordsOf
    <3>4. QED
      BY <3>2, <3>3
  <2>3. QED
    BY <2>1, <2>2
<1>4. hp \in [Words -> BOOLEAN]
  <2> SUFFICES ASSUME NEW w \in Words PROVE hp[w] \in BOOLEAN
    OBVIOUS
  <2>1. CASE w \in ObjWordsOf(o)
    <3>1. PICK i \in 0 .. (ObjWords - 1) : w = WordOf(o, i)
      BY <2>1 DEF ObjWordsOf, WordOf
    <3>2. QED
      BY <3>1, <1>3, <1>0
  <2>2. CASE w \notin ObjWordsOf(o)
    BY <2>2 DEF HBInv, TypeOK
  <2>3. QED
    BY <2>1, <2>2
<1>5. /\ bits' \in [Words -> BOOLEAN]
      /\ \A i \in 0 .. (ObjWords - 1) : bits'[WordOf(o, i)] = p[i]
      /\ \A o2 \in Objs \ {o}, i \in 0 .. (ObjWords - 1) :
           bits'[WordOf(o2, i)] = bits[WordOf(o2, i)]
  <2>1. bits \in [Words -> BOOLEAN]
    BY DEF HBInv, TypeOK
  <2>2. LET r == CopyBytes(bits, hp, startByte(o), endByte(o)) IN
           /\ r \in [Words -> BOOLEAN]
           /\ \A i \in 0 .. (ObjWords - 1) : r[WordOf(o, i)] = hp[WordOf(o, i)]
           /\ \A o2 \in Objs \ {o}, i \in 0 .. (ObjWords - 1) :
                r[WordOf(o2, i)] = bits[WordOf(o2, i)]
    BY <1>4, <2>1, CopyObj
  <2>3. QED
    BY <1>2, <1>3, <2>2
<1>6. TypeOK'
  BY <1>1, <1>4, <1>5 DEF HBInv, TypeOK
<1>7. \A o2 \in Objs : logged'[o2] => alloc'[o2]
  BY <1>1 DEF HBInv, TypeOK
<1>8. alloc'[cur'] /\ ~logged'[cur']
  <2>1. ~logged[o]
    BY <1>1 DEF HBInv
  <2>2. QED
    BY <1>1, <2>1 DEF HBInv, TypeOK
<1>9. ASSUME NEW o2 \in Objs, NEW i \in 0 .. (ObjWords - 1)
      PROVE  /\ alloc'[o2] /\ logged'[o2] =>
                  bits'[WordOf(o2, i)] = pat'[o2][i] /\ bitsPm'[WordOf(o2, i)] = pat'[o2][i]
             /\ pc' # "Idle" /\ o2 = cur' => bits'[WordOf(o2, i)] = pat'[o2][i]
  <2>1. CASE o2 = o
    <3>1. ~logged'[o2] /\ pat'[o2] = p
      BY <2>1, <1>1, <1>8 DEF HBInv, TypeOK
    <3>2. QED
      BY <3>1, <1>5, <2>1
  <2>2. CASE o2 # o
    <3>1. pat'[o2] = pat[o2] /\ alloc'[o2] = alloc[o2] /\ cur' = o
      BY <2>2, <1>1 DEF HBInv, TypeOK
    <3>2. bits'[WordOf(o2, i)] = bits[WordOf(o2, i)]
      BY <2>2, <1>5
    <3>3. QED
      BY <2>2, <3>1, <3>2, <1>1 DEF HBInv
  <2>3. QED
    BY <2>1, <2>2
<1>10. QED
  BY <1>6, <1>7, <1>8, <1>9, <1>1 DEF HBInv
(***************************************************************************)
(* The PersistRange that ends either call writes the bytes of the object  *)
(* of the call to the media and marks the object logged: the object's      *)
(* pattern, already in the CPU's bitmap, is now on the media as well.      *)
(***************************************************************************)
LEMMA PersistStep ==
  ASSUME SizeAligned, HBInv, pc # "Idle",
         bitsPm' = CopyBytes(bitsPm, bits, startByte(cur), endByte(cur)),
         pc' = "Idle", logged' = [logged EXCEPT ![cur] = TRUE],
         UNCHANGED <<heap, bits, scan, alloc, pat, cur>>
  PROVE  HBInv'
<1>1. cur \in Objs /\ bits \in [Words -> BOOLEAN] /\ bitsPm \in [Words -> BOOLEAN]
      /\ alloc[cur]
  BY DEF HBInv, TypeOK
<1>2. LET r == CopyBytes(bitsPm, bits, startByte(cur), endByte(cur)) IN
        /\ r \in [Words -> BOOLEAN]
        /\ \A i \in 0 .. (ObjWords - 1) : r[WordOf(cur, i)] = bits[WordOf(cur, i)]
        /\ \A o2 \in Objs \ {cur}, i \in 0 .. (ObjWords - 1) :
             r[WordOf(o2, i)] = bitsPm[WordOf(o2, i)]
  BY <1>1, CopyObj
<1>3. TypeOK'
  BY <1>1, <1>2 DEF HBInv, TypeOK
<1>4. \A o2 \in Objs : logged'[o2] => alloc'[o2]
  BY <1>1 DEF HBInv, TypeOK
<1>5. ASSUME NEW o2 \in Objs, NEW i \in 0 .. (ObjWords - 1),
             alloc'[o2], logged'[o2]
      PROVE  bits'[WordOf(o2, i)] = pat'[o2][i] /\ bitsPm'[WordOf(o2, i)] = pat'[o2][i]
  <2>1. CASE o2 = cur
    BY <2>1, <1>2 DEF HBInv
  <2>2. CASE o2 # cur
    <3>1. logged[o2] /\ alloc[o2]
      BY <2>2, <1>5 DEF HBInv, TypeOK
    <3>2. QED
      BY <2>2, <3>1, <1>2 DEF HBInv
  <2>3. QED
    BY <2>1, <2>2
<1>6. QED
  BY <1>3, <1>4, <1>5 DEF HBInv

\* LogPersist is PersistStep: numHeapBytes bytes from startByte(cur) end at endByte(cur).
LEMMA LogPersistStep ==
  ASSUME SizeAligned, HBInv, LogPersist PROVE HBInv'
<1>1. cur \in Objs
  BY DEF HBInv, TypeOK
<1>2. bitsPm' = CopyBytes(bitsPm, bits, pmemHeapBitsAddr(Addr(cur)),
                          pmemHeapBitsAddr(Addr(cur)) + (endByte(cur) - startByte(cur) + 1) - 1)
  BY DEF LogPersist
<1>3. bitsPm' = CopyBytes(bitsPm, bits, startByte(cur), endByte(cur))
  BY <1>1, <1>2, RangeEnds
<1>4. QED
  BY <1>3, PersistStep DEF LogPersist

\* ClearPersist is PersistStep: size / 32 bytes from startByte(cur) end at endByte(cur).
LEMMA ClearPersistStep ==
  ASSUME SizeAligned, HBInv, ClearPersist PROVE HBInv'
<1>1. cur \in Objs
  BY DEF HBInv, TypeOK
<1>2. bitsPm' = CopyBytes(bitsPm, bits, pmemHeapBitsAddr(Addr(cur)),
                          pmemHeapBitsAddr(Addr(cur)) + ObjSize \div bytesPerBitmapByte - 1)
  BY DEF ClearPersist
<1>3. bitsPm' = CopyBytes(bitsPm, bits, startByte(cur), endByte(cur))
  BY <1>1, <1>2, RangeEnds
<1>4. QED
  BY <1>3, PersistStep DEF ClearPersist

(***************************************************************************)
(* clearHeapBits zeroes the bytes of object o in the CPU's bitmap, which   *)
(* for an aligned size class are exactly o's words: its pattern NoPtrs.   *)
(***************************************************************************)
LEMMA ClearStep ==
  ASSUME SizeAligned, HBInv, NEW o \in Objs, clearHeapBits(o) PROVE HBInv'
<1> DEFINE zero == [w \in Words |-> FALSE]
<1>1. /\ pc = "Idle" /\ ~alloc[o]
      /\ bits' = CopyBytes(bits, zero, pmemHeapBitsAddr(Addr(o)),
                           pmemHeapBitsAddr(Addr(o)) + ObjSize \div bytesPerBitmapByte - 1)
      /\ alloc' = [alloc EXCEPT ![o] = TRUE]
      /\ pat' = [pat EXCEPT ![o] = NoPtrs]
      /\ pc' = "ClearPersist" /\ cur' = o
      /\ UNCHANGED <<heap, bitsPm, scan, logged>>
  BY DEF clearHeapBits
<1>2. bits' = CopyBytes(bits, zero, startByte(o), endByte(o))
  BY <1>1, RangeEnds
<1>3. /\ bits' \in [Words -> BOOLEAN]
      /\ \A i \in 0 .. (ObjWords - 1) : bits'[WordOf(o, i)] = NoPtrs[i]
      /\ \A o2 \in Objs \ {o}, i \in 0 .. (ObjWords - 1) :
           bits'[WordOf(o2, i)] = bits[WordOf(o2, i)]
  <2>1. bits \in [Words -> BOOLEAN] /\ zero \in [Words -> BOOLEAN]
    BY DEF HBInv, TypeOK
  <2>2. LET r == CopyBytes(bits, zero, startByte(o), endByte(o)) IN
           /\ r \in [Words -> BOOLEAN]
           /\ \A i \in 0 .. (ObjWords - 1) : r[WordOf(o, i)] = zero[WordOf(o, i)]
           /\ \A o2 \in Objs \ {o}, i \in 0 .. (ObjWords - 1) :
                r[WordOf(o2, i)] = bits[WordOf(o2, i)]
    BY <2>1, CopyObj
  <2>3. \A i \in 0 .. (ObjWords - 1) : WordOf(o, i) \in Words
    BY ObjRange
  <2>4. QED
    BY <1>2, <2>2, <2>3 DEF NoPtrs
<1>4. TypeOK'
  BY <1>1, <1>3 DEF HBInv, TypeOK
<1>5. \A o2 \in Objs : logged'[o2] => alloc'[o2]
  BY <1>1 DEF HBInv, TypeOK
<1>6. alloc'[cur'] /\ ~logged'[cur']
  BY <1>1 DEF HBInv, TypeOK
<1>7. ASSUME NEW o2 \in Objs, NEW i \in 0 .. (ObjWords - 1)
      PROVE  /\ alloc'[o2] /\ logged'[o2] =>
                  bits'[WordOf(o2, i)] = pat'[o2][i] /\ bitsPm'[WordOf(o2, i)] = pat'[o2][i]
             /\ pc' # "Idle" /\ o2 = cur' => bits'[WordOf(o2, i)] = pat'[o2][i]
  <2>1. CASE o2 = o
    <3>1. ~logged'[o2] /\ pat'[o2] = NoPtrs
      BY <2>1, <1>1, <1>6 DEF HBInv, TypeOK
    <3>2. QED
      BY <3>1, <1>3, <2>1
  <2>2. CASE o2 # o
    <3>1. pat'[o2] = pat[o2] /\ alloc'[o2] = alloc[o2] /\ cur' = o
      BY <2>2, <1>1 DEF HBInv, TypeOK
    <3>2. bits'[WordOf(o2, i)] = bits[WordOf(o2, i)]
      BY <2>2, <1>3
    <3>3. QED
      BY <2>2, <3>1, <3>2, <1>1 DEF HBInv
  <2>3. QED
    BY <2>1, <2>2
<1>8. QED
  BY <1>4, <1>5, <1>6, <1>7, <1>1 DEF HBInv
\* A write-back of a word of a logged object writes its pattern again.
LEMMA WriteBackStep ==
  ASSUME HBInv, NEW w \in Words, WriteBack(w) PROVE HBInv'
<1>1. bitsPm' = [bitsPm EXCEPT ![w] = bits[w]]
      /\ UNCHANGED <<heap, bits, scan, alloc, pat, pc, cur, logged>>
  BY DEF WriteBack
<1>2. TypeOK'
  BY <1>1 DEF HBInv, TypeOK
<1>3. ASSUME NEW o \in Objs, NEW i \in 0 .. (ObjWords - 1), alloc[o], logged[o]
      PROVE  bitsPm'[WordOf(o, i)] = pat[o][i]
  <2>1. bits[WordOf(o, i)] = pat[o][i] /\ bitsPm[WordOf(o, i)] = pat[o][i]
    BY <1>3 DEF HBInv
  <2>2. QED
    BY <1>1, <2>1 DEF HBInv, TypeOK
<1>4. QED
  BY <1>1, <1>2, <1>3 DEF HBInv

\* Every step of the calls, frees, span reuse and write-back preserves HBInv.
LEMMA HBNext ==
  ASSUME SizeAligned, HBInv, [Next]_vars PROVE HBInv'
<1>1. ASSUME NEW o \in Objs, NEW p \in Patterns, logHeapBits(o, p) PROVE HBInv'
  BY <1>1, LogStep
<1>2. CASE LogPersist
  BY <1>2, LogPersistStep
<1>3. ASSUME NEW o \in Objs, clearHeapBits(o) PROVE HBInv'
  BY <1>3, ClearStep
<1>4. ASSUME NEW o \in Objs, Free(o) PROVE HBInv'
  BY <1>4 DEF Free, HBInv, TypeOK
<1>5. CASE ClearPersist
  BY <1>5, ClearPersistStep
<1>6. CASE SpanReuse
  BY <1>6 DEF SpanReuse, HBInv, TypeOK
<1>7. ASSUME NEW w \in Words, WriteBack(w) PROVE HBInv'
  BY <1>7, WriteBackStep
<1>8. CASE UNCHANGED vars
  BY <1>8 DEF vars, HBInv, TypeOK, WordOf
<1>9. QED
  BY <1>1, <1>2, <1>3, <1>4, <1>5, <1>6, <1>7, <1>8 DEF Next

(***************************************************************************)
(* For every size class that covers whole type-bitmap bytes, every span   *)
(* size and every set of pointer patterns: once logHeapBits or            *)
(* clearHeapBits (pmemLog.go 21-57) has returned for an allocated object, *)
(* the media type bitmap gives exactly that object's pointer words,       *)
(* whatever the neighbouring objects' calls, frees, span reuse and cache  *)
(* write-back did since.                                                   *)
(***************************************************************************)
THEOREM ObjectBitsDurableProof ==
  ASSUME SizeAligned PROVE Spec => []ObjectBitsDurable
<1>1. Init => HBInv
  BY HBInit
<1>2. HBInv /\ [Next]_vars => HBInv'
  BY HBNext
<1>3. HBInv => ObjectBitsDurable
  BY DEF HBInv, ObjectBitsDurable, WordOf
<1>4. QED
  BY <1>1, <1>2, <1>3, PTL DEF Spec
=============================================================================
