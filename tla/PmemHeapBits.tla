----------------------------- MODULE PmemHeapBits -----------------------------
(***************************************************************************)
(* The heap pointer-bitmap log in direct mode (src/src/runtime/pmemLog.go: *)
(* logHeapBits, clearHeapBits, pmemHeapBitsAddr) for the objects of one    *)
(* persistent span.  The persistent type bitmap has one byte per 32 bytes *)
(* of heap, one bit per 8-byte word; it is kept per word, once as the CPU *)
(* sees it (bits) and once on the media (bitsPm), and the cache writes any *)
(* dirty word back on its own.  The allocator (outside the repository)    *)
(* sets the volatile heap bitmap of a scan object and calls logHeapBits   *)
(* with the bitmap bytes that cover it; for an object of a span without   *)
(* pointers that reuses memory it calls clearHeapBits(addr, size).  Only  *)
(* one allocation from a span is active at a time, so the calls on one    *)
(* span are sequential.  A span changes between scan and noscan only when *)
(* all its objects are free.                                              *)
(***************************************************************************)
EXTENDS Integers, FiniteSets

CONSTANTS
  ObjSize,     \* the span's object size in bytes (its size class)
  NObjs,       \* objects in the span
  Patterns     \* pointer patterns of scan objects: word index -> pointer?

bytesPerBitmapByte == 32
wordSize == 8

ObjWords == ObjSize \div wordSize
Objs == 0 .. (NObjs - 1)

\* Type-bitmap bytes of the span (the last one may be partly used).
NBytes == (NObjs * ObjSize + bytesPerBitmapByte - 1) \div bytesPerBitmapByte
Words == 0 .. (4 * NBytes - 1)

ASSUME HeapBitsAssumption ==
  /\ ObjSize \in Nat \ {0} /\ ObjSize % wordSize = 0
  /\ NObjs \in Nat \ {0}
  /\ Patterns \subseteq [0 .. (ObjWords - 1) -> BOOLEAN]

\* The object's first byte, relative to the arena start (the span's base is 0).
Addr(o) == o * ObjSize
\* The heap words object o occupies.
ObjWordsOf(o) == {Addr(o) \div wordSize + i : i \in 0 .. (ObjWords - 1)}
\* The words a range of type-bitmap bytes describes.
ByteWords(lo, hi) == {w \in Words : lo * 4 <= w /\ w < (hi + 1) * 4}

\* pmemHeapBitsAddr: the type-bitmap byte of address x.
pmemHeapBitsAddr(x) == x \div bytesPerBitmapByte

\* The pattern of a noscan object: no pointer anywhere.
NoPtrs == [i \in 0 .. (ObjWords - 1) |-> FALSE]

VARIABLES
  heap,      \* the runtime's volatile heap bitmap (pointer bit per word)
  bits,      \* persistent type bitmap as the CPU sees it
  bitsPm,    \* persistent type bitmap on the media
  scan,      \* whether the span is a scan span (objects may hold pointers)
  alloc,     \* whether each object is allocated
  pat,       \* each allocated object's pointer pattern
  pc,        \* "Idle", or the call in progress: "LogPersist", "ClearPersist"
  cur,       \* the object the call in progress is about
  logged     \* ghost: the object's log call has returned since allocation

vars == <<heap, bits, bitsPm, scan, alloc, pat, pc, cur, logged>>

TypeOK ==
  /\ heap \in [Words -> BOOLEAN]
  /\ bits \in [Words -> BOOLEAN]
  /\ bitsPm \in [Words -> BOOLEAN]
  /\ scan \in BOOLEAN
  /\ alloc \in [Objs -> BOOLEAN]
  /\ pat \in [Objs -> Patterns \cup {NoPtrs}]
  /\ pc \in {"Idle", "LogPersist", "ClearPersist"}
  /\ cur \in Objs
  /\ logged \in [Objs -> BOOLEAN]

(***************************************************************************)
(* A persistent store reused from an earlier run: the span's bitmap words *)
(* hold what an earlier use left (all clear, or all set by an earlier     *)
(* scan span), no object is allocated yet.                                 *)
(***************************************************************************)
Init ==
  /\ bitsPm \in {[w \in Words |-> v] : v \in BOOLEAN}
  /\ bits = bitsPm
  /\ heap = [w \in Words |-> FALSE]
  /\ scan \in BOOLEAN
  /\ alloc = [o \in Objs |-> FALSE]
  /\ pat = [o \in Objs |-> NoPtrs]
  /\ pc = "Idle"
  /\ cur = 0
  /\ logged = [o \in Objs |-> FALSE]

\* The bitmap with the words of bytes lo .. hi taken from src.
CopyBytes(dst, src, lo, hi) ==
  [w \in Words |-> IF w \in ByteWords(lo, hi) THEN src[w] ELSE dst[w]]

\* The first and last byte of the heap bitmap that cover object o: the
\* startByte and endByte the allocator passes to logHeapBits.
startByte(o) == Addr(o) \div bytesPerBitmapByte
endByte(o) == (Addr(o) + ObjSize - 1) \div bytesPerBitmapByte

(***************************************************************************)
(* Plausible bugs of the handlers below, each the body of a handler with   *)
(* one thing changed; the properties are checked to detect them.           *)
(***************************************************************************)
\* numHeapBytes computed as endByte - startByte, without the + 1.
LogPersistShort ==
  LET dst == pmemHeapBitsAddr(Addr(cur))
      numHeapBytes == endByte(cur) - startByte(cur)
  IN /\ pc = "LogPersist"
     /\ bitsPm' = CopyBytes(bitsPm, bits, dst, dst + numHeapBytes - 1)
     /\ pc' = "Idle"
     /\ logged' = [logged EXCEPT ![cur] = TRUE]
     /\ UNCHANGED <<heap, bits, scan, alloc, pat, cur>>

-----------------------------------------------------------------------------
(***************************************************************************)
(* mallocgc of a scan object (outside the repository): heapBitsSetType    *)
(* sets the object's words in the volatile heap bitmap, then logHeapBits  *)
(* (pmemLog.go 21-36) copies the bitmap bytes startByte .. endByte to     *)
(* pmemHeapBitsAddr(addr) with memmove; PersistRange is the next step.    *)
(***************************************************************************)
logHeapBits(o, p) ==
  LET heap2 == [w \in Words |->
                  IF w \in ObjWordsOf(o) THEN p[w - Addr(o) \div wordSize] ELSE heap[w]]
      dst == pmemHeapBitsAddr(Addr(o))
      numHeapBytes == endByte(o) - startByte(o) + 1
  IN /\ pc = "Idle"
     /\ scan
     /\ ~alloc[o]
     /\ heap' = heap2
     /\ bits' = CopyBytes(bits, heap2, dst, dst + numHeapBytes - 1)
     /\ alloc' = [alloc EXCEPT ![o] = TRUE]
     /\ pat' = [pat EXCEPT ![o] = p]
     /\ pc' = "LogPersist"
     /\ cur' = o
     /\ UNCHANGED <<bitsPm, scan, logged>>

\* The PersistRange(dstAddr, numHeapBytes) that ends logHeapBits.
LogPersist ==
  LET dst == pmemHeapBitsAddr(Addr(cur))
      numHeapBytes == endByte(cur) - startByte(cur) + 1
  IN /\ pc = "LogPersist"
     /\ bitsPm' = CopyBytes(bitsPm, bits, dst, dst + numHeapBytes - 1)
     /\ pc' = "Idle"
     /\ logged' = [logged EXCEPT ![cur] = TRUE]
     /\ UNCHANGED <<heap, bits, scan, alloc, pat, cur>>

(***************************************************************************)
(* mallocgc of an object of a noscan span reusing memory: clearHeapBits   *)
(* (pmemLog.go 47-57) zeroes size / bytesPerBitmapByte bytes at           *)
(* pmemHeapBitsAddr(addr); PersistRange is the next step.  The volatile   *)
(* heap bitmap of a noscan span is not written.                            *)
(***************************************************************************)
clearHeapBits(o) ==
  LET heapBitsAddr == pmemHeapBitsAddr(Addr(o))
      numTypeBytes == ObjSize \div bytesPerBitmapByte
  IN /\ pc = "Idle"
     /\ ~scan
     /\ ~alloc[o]
     /\ bits' = CopyBytes(bits, [w \in Words |-> FALSE],
                          heapBitsAddr, heapBitsAddr + numTypeBytes - 1)
     /\ alloc' = [alloc EXCEPT ![o] = TRUE]
     /\ pat' = [pat EXCEPT ![o] = NoPtrs]
     /\ pc' = "ClearPersist"
     /\ cur' = o
     /\ UNCHANGED <<heap, bitsPm, scan, logged>>

\* The PersistRange(heapBitsAddr, numTypeBytes) that ends clearHeapBits.
ClearPersist ==
  LET heapBitsAddr == pmemHeapBitsAddr(Addr(cur))
      numTypeBytes == ObjSize \div bytesPerBitmapByte
  IN /\ pc = "ClearPersist"
     /\ bitsPm' = CopyBytes(bitsPm, bits, heapBitsAddr, heapBitsAddr + numTypeBytes - 1)
     /\ pc' = "Idle"
     /\ logged' = [logged EXCEPT ![cur] = TRUE]
     /\ UNCHANGED <<heap, bits, scan, alloc, pat, cur>>

\* The garbage collector frees an object (outside the repository).
Free(o) ==
  /\ pc = "Idle"
  /\ alloc[o]
  /\ alloc' = [alloc EXCEPT ![o] = FALSE]
  /\ logged' = [logged EXCEPT ![o] = FALSE]
  /\ UNCHANGED <<heap, bits, bitsPm, scan, pat, pc, cur>>

\* A free span is reused for the other kind; a scan span starts with a
\* clear heap bitmap (outside the repository).
SpanReuse ==
  /\ pc = "Idle"
  /\ \A o \in Objs : ~alloc[o]
  /\ scan' = ~scan
  /\ heap' = [w \in Words |-> FALSE]
  /\ UNCHANGED <<bits, bitsPm, alloc, pat, pc, cur, logged>>

\* The cache writes one dirty bitmap word back to the media on its own.
WriteBack(w) ==
  /\ bits[w] # bitsPm[w]
  /\ bitsPm' = [bitsPm EXCEPT ![w] = bits[w]]
  /\ UNCHANGED <<heap, bits, scan, alloc, pat, pc, cur, logged>>

Next ==
  \/ \E o \in Objs, p \in Patterns : logHeapBits(o, p)
  \/ LogPersist
  \/ \E o \in Objs : clearHeapBits(o) \/ Free(o)
  \/ ClearPersist
  \/ SpanReuse
  \/ \E w \in Words : WriteBack(w)

Spec == Init /\ [][Next]_vars

-----------------------------------------------------------------------------
(***************************************************************************)
(* What recovery reads is right (spec 4.4 and 4.6): once logHeapBits or   *)
(* clearHeapBits has returned for an allocated object, the media bitmap   *)
(* gives exactly that object's pointer words, whatever the neighbouring   *)
(* objects' calls, frees, span reuse and cache write-back did since; a    *)
(* recovery at this point would find every pointer of the object and     *)
(* treat nothing else in it as a pointer.                                  *)
(***************************************************************************)
ObjectBitsDurable ==
  \A o \in Objs : alloc[o] /\ logged[o] =>
    \A i \in 0 .. (ObjWords - 1) : bitsPm[Addr(o) \div wordSize + i] = pat[o][i]
=============================================================================
