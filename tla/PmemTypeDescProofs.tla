--------------------------- MODULE PmemTypeDescProofs ---------------------------
(***************************************************************************)
(* Proofs about the optimized heap-bits log model PmemTypeDesc: the       *)
(* descriptor of every span whose logHeapBits has returned is durable and *)
(* whole, for any number of spans, types and crashes.                      *)
(***************************************************************************)
EXTENDS PmemTypeDesc, TLAPS

USE TypeDescAssumption

(***************************************************************************)
(* The inductive invariant behind DescriptorDurable: a call that reached  *)
(* its PersistRange has the span's whole descriptor in the cache, and a   *)
(* span whose call returned is allocated, with its descriptor in the      *)
(* cache and on the media.  The cache half is needed because WriteBack    *)
(* copies cache fields to the media and a crash copies the media back.    *)
(***************************************************************************)
DescInv ==
  /\ TypeOK
  /\ \A s \in Spans :
       /\ pc[s] = "Persist" => spanTyp[s] # 0 /\ desc[s] = Desc(spanTyp[s])
       /\ done[s] => /\ spanTyp[s] # 0
                     /\ desc[s] = Desc(spanTyp[s])
                     /\ descPm[s] = Desc(spanTyp[s])

\* DescInv holds initially: no span is allocated or logged.
LEMMA DescInvInit == Init => DescInv
  BY DEF Init, DescInv, TypeOK, Desc

\* Every step of the model preserves DescInv.
LEMMA DescInvNext == DescInv /\ [Next]_vars => DescInv'
  <1> SUFFICES ASSUME DescInv, [Next]_vars PROVE DescInv'
    OBVIOUS
  <1> USE DEF DescInv, TypeOK, Desc, TypIdx
  <1>1. ASSUME NEW s \in Spans, NEW t \in TypIdx, SpanAlloc(s, t) PROVE DescInv'
    BY <1>1 DEF SpanAlloc
  <1>2. ASSUME NEW s \in Spans, logHeapBits(s) PROVE DescInv'
    <2> DEFINE t == spanTyp[s]
    <2>1. desc'[s] = [f \in Fields |-> IF f = "typIndex" /\ desc[s][f] = t
                                       THEN desc[s][f] ELSE t]
      BY <1>2 DEF logHeapBits
    <2>2. \A f \in Fields : (IF f = "typIndex" /\ desc[s][f] = t THEN desc[s][f] ELSE t) = t
      OBVIOUS
    <2>3. desc'[s] = Desc(spanTyp[s])
      BY <2>1, <2>2
    <2>4. spanTyp[s] # 0 /\ pc'[s] = "Persist"
      BY <1>2 DEF logHeapBits
    <2>5. TypeOK'
      BY <1>2, <2>3 DEF logHeapBits
    <2>6. \A u \in Spans \ {s} : desc'[u] = desc[u] /\ pc'[u] = pc[u]
      BY <1>2 DEF logHeapBits
    <2>7. UNCHANGED <<spanTyp, descPm, done>>
      BY <1>2 DEF logHeapBits
    <2>8. QED
      BY <2>3, <2>4, <2>5, <2>6, <2>7
  <1>3. ASSUME NEW s \in Spans, DescPersist(s) PROVE DescInv'
    BY <1>3 DEF DescPersist
  <1>4. ASSUME NEW s \in Spans, SpanFree(s) PROVE DescInv'
    BY <1>4 DEF SpanFree
  <1>5. ASSUME NEW s \in Spans, NEW f \in Fields, WriteBack(s, f) PROVE DescInv'
    <2>1. ~done[s]
      BY <1>5 DEF WriteBack
    <2>2. descPm'[s] \in [Fields -> 0 .. NTypes]
      BY <1>5 DEF WriteBack
    <2>3. \A u \in Spans \ {s} : descPm'[u] = descPm[u]
      BY <1>5 DEF WriteBack
    <2>4. TypeOK'
      BY <1>5 DEF WriteBack
    <2>5. UNCHANGED <<spanTyp, desc, pc, done>>
      BY <1>5 DEF WriteBack
    <2>6. QED
      BY <2>1, <2>3, <2>4, <2>5
  <1>6. ASSUME Crash PROVE DescInv'
    BY <1>6 DEF Crash
  <1>7. CASE UNCHANGED vars
    BY <1>7 DEF vars
  <1>8. QED
    BY <1>1, <1>2, <1>3, <1>4, <1>5, <1>6, <1>7 DEF Next

(***************************************************************************)
(* For every number of spans, types and crashes, once logHeapBits has     *)
(* returned for an object of a span (part_001 lines 60-102: the stores of *)
(* the descriptor fields, then one PersistRange over numHeapTypeBytes+32  *)
(* bytes), the media holds the span's whole descriptor until the span is  *)
(* freed, whatever type the span had before and whatever the cache wrote  *)
(* back or a crash discarded.                                              *)
(***************************************************************************)
THEOREM DescriptorDurableInvariant == Spec => []DescriptorDurable
  <1>1. Init => DescInv
    BY DescInvInit
  <1>2. DescInv /\ [Next]_vars => DescInv'
    BY DescInvNext
  <1>3. DescInv => DescriptorDurable
    BY DEF DescInv, DescriptorDurable
  <1>4. QED
    BY <1>1, <1>2, <1>3, PTL DEF Spec
=============================================================================
