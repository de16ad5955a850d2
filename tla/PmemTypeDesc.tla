----------------------------- MODULE PmemTypeDesc -----------------------------
(***************************************************************************)
(* The optimized branch of logHeapBits (src/unnamed/part_001 lines 60-102):*)
(* for a span whose objects all have one type (span.typIndex # 0), the     *)
(* heap type bits of every object are logged once per span as a type      *)
(* descriptor at pmemHeapBitsAddr(span.base()): the type index (8 bytes), *)
(* kind, size, ptrdata and the gcdata mask.  The fields are plain stores  *)
(* followed by one PersistRange; the cache may write any field back on    *)
(* its own; a crash loses the cache.  A field's value is abstracted to the *)
(* type it was written for (0: never written).  Spans are reused: a freed *)
(* span keeps its descriptor until a new type overwrites it.  The span    *)
(* log restores the allocated spans after a crash (PmemSpanLog), so the   *)
(* spans' types survive one.                                               *)
(***************************************************************************)
EXTENDS Integers

CONSTANTS
  Spans,       \* spans of the arena
  NTypes,      \* type indices 1 .. NTypes
  MaxCrashes   \* bound on the number of crashes

ASSUME TypeDescAssumption ==
  /\ Spans # {}
  /\ NTypes \in Nat \ {0}
  /\ MaxCrashes \in Nat

TypIdx == 1 .. NTypes

\* The descriptor's fields, in the order logHeapBits stores them.
Fields == {"typIndex", "kind", "size", "ptrdata", "gcdata"}

\* The descriptor of type t.
Desc(t) == [f \in Fields |-> t]

VARIABLES
  spanTyp,   \* each span's typIndex (0: span free)
  desc,      \* each span's descriptor as the CPU sees it
  descPm,    \* each span's descriptor on the media
  pc,        \* per span: "Idle" or "Persist" (the stores are done)
  done,      \* ghost: a logHeapBits on the span returned since it was allocated
  crashes    \* crashes so far (bounded)

vars == <<spanTyp, desc, descPm, pc, done, crashes>>

TypeOK ==
  /\ spanTyp \in [Spans -> 0 .. NTypes]
  /\ desc \in [Spans -> [Fields -> 0 .. NTypes]]
  /\ descPm \in [Spans -> [Fields -> 0 .. NTypes]]
  /\ pc \in [Spans -> {"Idle", "Persist"}]
  /\ done \in [Spans -> BOOLEAN]
  /\ crashes \in 0 .. MaxCrashes

\* A fresh arena: every descriptor area is zero, no span allocated.
Init ==
  /\ spanTyp = [s \in Spans |-> 0]
  /\ desc = [s \in Spans |-> Desc(0)]
  /\ descPm = desc
  /\ pc = [s \in Spans |-> "Idle"]
  /\ done = [s \in Spans |-> FALSE]
  /\ crashes = 0

(***************************************************************************)
(* Plausible bugs of the handlers below, each the body of a handler with   *)
(* one thing changed; the properties are checked to detect them.           *)
(***************************************************************************)
\* PersistRange(typAddr, 32), without the numHeapTypeBytes of the gcdata mask.
DescPersistNoMask(s) ==
  /\ pc[s] = "Persist"
  /\ descPm' = [descPm EXCEPT ![s] =
                  [f \in Fields |-> IF f = "gcdata" THEN descPm[s][f] ELSE desc[s][f]]]
  /\ pc' = [pc EXCEPT ![s] = "Idle"]
  /\ done' = [done EXCEPT ![s] = TRUE]
  /\ UNCHANGED <<spanTyp, desc, crashes>>

-----------------------------------------------------------------------------
\* The allocator gives a free span to objects of type t (outside the repository).
SpanAlloc(s, t) ==
  /\ spanTyp[s] = 0
  /\ pc[s] = "Idle"
  /\ spanTyp' = [spanTyp EXCEPT ![s] = t]
  /\ UNCHANGED <<desc, descPm, pc, done, crashes>>

(***************************************************************************)
(* logHeapBits for an object of span s, optimized branch: the type index  *)
(* is stored only if the stored one differs, then kind, size, ptrdata and *)
(* the gcdata mask are stored (memmove); PersistRange is the next step.   *)
(* Several stores with no fence between them go to the cache as one step: *)
(* what reaches the media before the PersistRange is up to WriteBack.      *)
(***************************************************************************)
logHeapBits(s) ==
  LET t == spanTyp[s] IN
  /\ t # 0
  /\ pc[s] = "Idle"
  /\ desc' = [desc EXCEPT ![s] =
                [f \in Fields |-> IF f = "typIndex" /\ desc[s][f] = t
                                  THEN desc[s][f] ELSE t]]
  /\ pc' = [pc EXCEPT ![s] = "Persist"]
  /\ UNCHANGED <<spanTyp, descPm, done, crashes>>

\* PersistRange(typAddr, numHeapTypeBytes + 32): the whole descriptor.
DescPersist(s) ==
  /\ pc[s] = "Persist"
  /\ descPm' = [descPm EXCEPT ![s] = desc[s]]
  /\ pc' = [pc EXCEPT ![s] = "Idle"]
  /\ done' = [done EXCEPT ![s] = TRUE]
  /\ UNCHANGED <<spanTyp, desc, crashes>>

\* The span is freed (logSpanFree); its descriptor stays where it is.
SpanFree(s) ==
  /\ spanTyp[s] # 0
  /\ pc[s] = "Idle"
  /\ spanTyp' = [spanTyp EXCEPT ![s] = 0]
  /\ done' = [done EXCEPT ![s] = FALSE]
  /\ UNCHANGED <<desc, descPm, pc, crashes>>

\* The cache writes one dirty descriptor field back to the media on its own.
WriteBack(s, f) ==
  /\ desc[s][f] # descPm[s][f]
  /\ descPm' = [descPm EXCEPT ![s][f] = desc[s][f]]
  /\ UNCHANGED <<spanTyp, desc, pc, done, crashes>>

\* Power failure: the cache and the calls in flight are lost.
Crash ==
  /\ crashes < MaxCrashes
  /\ crashes' = crashes + 1
  /\ desc' = descPm
  /\ pc' = [s \in Spans |-> "Idle"]
  /\ UNCHANGED <<spanTyp, descPm, done>>

Next ==
  \/ \E s \in Spans :
       \/ \E t \in TypIdx : SpanAlloc(s, t)
       \/ logHeapBits(s) \/ DescPersist(s) \/ SpanFree(s)
       \/ \E f \in Fields : WriteBack(s, f)
  \/ Crash

Spec == Init /\ [][Next]_vars

-----------------------------------------------------------------------------
(***************************************************************************)
(* Once logHeapBits has returned for an object of a span, the media holds *)
(* the span's whole descriptor, type index and mask included, whatever    *)
(* the earlier types of the span left there, other spans' calls, cache    *)
(* write-back and crashes did: recovery can rebuild the pointer bits of   *)
(* every object logged so far.                                             *)
(***************************************************************************)
DescriptorDurable ==
  \A s \in Spans : done[s] => descPm[s] = Desc(spanTyp[s])

(***************************************************************************)
(* The media never holds a descriptor that recovery cannot explain: when  *)
(* no logHeapBits is in flight, a non-zero durable type index comes with  *)
(* the kind, size, ptrdata and mask of that same type (spec 4.4: one      *)
(* descriptor record per span; spec 7: a log entry that disagrees with    *)
(* itself is taken for corruption).                                        *)
(***************************************************************************)
DescriptorWhole ==
  \A s \in Spans :
    pc[s] = "Idle" /\ descPm[s]["typIndex"] # 0 =>
      descPm[s] = Desc(descPm[s]["typIndex"])
=============================================================================
