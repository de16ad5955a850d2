------------------------- MODULE PmemInitOwnerProofs -------------------------
(***************************************************************************)
(* Proofs about the compare-and-swap of PmallocInit in the model PmemInit: *)
(* for any number of goroutines, arguments and crashes, one call at a time *)
(* owns the initialisation, at most one call returns the mapped address,   *)
(* and initState and the mapping tell the truth after every return path.  *)
(***************************************************************************)
EXTENDS PmemInit, FiniteSetTheorems, TLAPS

(***************************************************************************)
(* The inductive invariant behind AtMostOneInit and InitStateConsistent:  *)
(* at most one goroutine is past the compare-and-swap, initState records  *)
(* whether one is and whether a call has returned the address, and the     *)
(* file is mapped exactly after a successful growPmemRegion that no       *)
(* failure path has undone.                                                *)
(***************************************************************************)
OwnerInv ==
  /\ tpc \in [Threads -> TPCs]
  /\ initState \in InitStates
  /\ successes \in {0, 1}
  /\ \A t1, t2 \in Threads :
       tpc[t1] \in OwnerPCs /\ tpc[t2] \in OwnerPCs => t1 = t2
  /\ mapped \in BOOLEAN
  /\ (initState = "initOngoing") <=> (\E t \in Threads : tpc[t] \in OwnerPCs)
  /\ (initState = "initDone") <=> (successes = 1)
  /\ mapped <=> (initState = "initDone" \/ \E t \in Threads : tpc[t] \in OwnerPCs /\ tpc[t] # "Map")

\* OwnerInv holds in the initial state: no call is past the compare-and-swap.
LEMMA OwnerInvInit == Init => OwnerInv
  <1> SUFFICES ASSUME Init PROVE OwnerInv
    OBVIOUS
  <1>1. tpc \in [Threads -> TPCs] /\ initState \in InitStates /\ successes \in {0, 1}
    BY DEF Init, TPCs, InitStates
  <1>2. \A t \in Threads : tpc[t] \notin OwnerPCs
    BY DEF Init, OwnerPCs
  <1>3. initState = "initNotDone" /\ successes = 0 /\ mapped = FALSE
    BY DEF Init
  <1>4. ~(\E t \in Threads : tpc[t] \in OwnerPCs)
    BY <1>2
  <1>5. (initState = "initOngoing") <=> (\E t \in Threads : tpc[t] \in OwnerPCs)
    BY <1>3, <1>4
  <1>6. (initState = "initDone") <=> (successes = 1)
    BY <1>3
  <1>7. mapped \in BOOLEAN /\ ~mapped
    BY <1>3, Zenon
  <1>8. ~(initState = "initDone" \/ \E t \in Threads : tpc[t] \in OwnerPCs /\ tpc[t] # "Map")
    BY <1>3, <1>4
  <1>9. QED
    BY <1>1, <1>2, <1>5, <1>6, <1>7, <1>8 DEF OwnerInv

\* Every step of PmallocInit, write-back and crash preserves OwnerInv.
LEMMA OwnerInvNext == OwnerInv /\ [Next]_vars => OwnerInv'
  <1> SUFFICES ASSUME OwnerInv, [Next]_vars PROVE OwnerInv'
    OBVIOUS
  <1>1. ASSUME NEW t \in Threads, NEW a \in Args, Call(t, a) PROVE OwnerInv'
    BY <1>1 DEF Call, OwnerInv, OwnerPCs, TPCs, InitStates, Owners
  <1>2. ASSUME NEW t \in Threads, Map(t) PROVE OwnerInv'
    <2>1. tpc[t] = "Map" /\ tpc[t] \in OwnerPCs /\ initState = "initOngoing"
      BY <1>2, Zenon DEF Map, OwnerPCs, OwnerInv
    <2>2. \A u \in Threads \ {t} : tpc[u] \notin OwnerPCs
      BY <2>1 DEF OwnerInv
    <2>3. ~mapped /\ successes = 0
      BY <2>1, <2>2, Zenon DEF OwnerInv, OwnerPCs
    <2>4. CASE mapped' = TRUE /\ tpc' = [tpc EXCEPT ![t] = "Check"]
                /\ UNCHANGED <<initState, tret>>
      BY <1>2, <2>1, <2>2, <2>3, <2>4 DEF Map, OwnerInv, OwnerPCs, TPCs
    <2>5. CASE initState' = "initNotDone" /\ tpc' = [tpc EXCEPT ![t] = "Out"]
                /\ UNCHANGED mapped
      BY <1>2, <2>1, <2>2, <2>3, <2>5 DEF Map, OwnerInv, OwnerPCs, TPCs, InitStates
    <2>6. QED
      BY <1>2, <2>4, <2>5 DEF Map
  <1>3. ASSUME NEW t \in Threads, Check(t) PROVE OwnerInv'
    BY <1>3 DEF Check, OwnerInv, OwnerPCs, TPCs, InitStates, Owners
  <1>4. ASSUME NEW t \in Threads, WriteMagic(t) PROVE OwnerInv'
    BY <1>4 DEF WriteMagic, OwnerInv, OwnerPCs, TPCs, InitStates, Owners
  <1>5. ASSUME NEW t \in Threads, Finish(t) PROVE OwnerInv'
    <2>1. tpc[t] = "Finish" /\ tpc[t] \in OwnerPCs
      BY <1>5 DEF Finish, OwnerPCs
    <2>2. mapped /\ initState = "initOngoing" /\ successes = 0
      BY <2>1, Zenon DEF OwnerInv, InitStates
    <2>3. \A u \in Threads : tpc'[u] \notin OwnerPCs
      BY <1>5, <2>1 DEF Finish, OwnerInv, OwnerPCs
    <2>4. tpc' \in [Threads -> TPCs] /\ initState' = "initDone" /\ successes' = 1
      BY <1>5, <2>2 DEF Finish, OwnerInv, TPCs
    <2>5. mapped' /\ mapped' \in BOOLEAN
      BY <1>5, <2>2, Zenon DEF Finish
    <2>6. QED
      BY <2>3, <2>4, <2>5 DEF OwnerInv, InitStates
  <1>6. ASSUME NEW o \in HdrOffsets, NEW w \in {"magic", "size"}, WriteBack(o, w)
        PROVE OwnerInv'
    BY <1>6 DEF WriteBack, OwnerInv, Owners
  <1>7. ASSUME Crash PROVE OwnerInv'
    <2>1. \A u \in Threads : tpc'[u] = "Out"
      BY <1>7 DEF Crash
    <2>2. tpc' \in [Threads -> TPCs] /\ initState' = "initNotDone" /\ successes' = 0
      BY <1>7 DEF Crash, TPCs
    <2>3. ~mapped' /\ mapped' \in BOOLEAN
      BY <1>7, Zenon DEF Crash
    <2>4. QED
      BY <2>1, <2>2, <2>3 DEF OwnerInv, OwnerPCs, InitStates
  <1>8. CASE UNCHANGED vars
    BY <1>8 DEF vars, OwnerInv, Owners
  <1>9. QED
    BY <1>1, <1>2, <1>3, <1>4, <1>5, <1>6, <1>7, <1>8 DEF Next

\* OwnerInv implies AtMostOneInit: the owners are at most one goroutine.
LEMMA OwnerInvAtMostOne == OwnerInv => AtMostOneInit
  <1> SUFFICES ASSUME OwnerInv PROVE AtMostOneInit
    OBVIOUS
  <1>1. CASE \E t \in Threads : tpc[t] \in OwnerPCs
    <2>1. PICK t \in Threads : tpc[t] \in OwnerPCs
      BY <1>1
    <2>2. Owners = {t}
      BY <2>1 DEF OwnerInv, Owners
    <2>3. successes = 0
      BY <1>1, Zenon DEF OwnerInv, InitStates
    <2>4. Cardinality(Owners) = 1
      BY <2>2, FS_Singleton
    <2>5. QED
      BY <2>3, <2>4 DEF AtMostOneInit
  <1>2. CASE ~\E t \in Threads : tpc[t] \in OwnerPCs
    <2>1. Owners = {}
      BY <1>2 DEF Owners
    <2>2. Cardinality(Owners) = 0
      BY <2>1, FS_EmptySet
    <2>3. QED
      BY <2>2 DEF OwnerInv, AtMostOneInit
  <1>3. QED
    BY <1>1, <1>2

\* OwnerInv implies InitStateConsistent.
LEMMA OwnerInvConsistent == OwnerInv => InitStateConsistent
  <1> SUFFICES ASSUME OwnerInv PROVE InitStateConsistent
    OBVIOUS
  <1>1. (Owners # {}) <=> \E t \in Threads : tpc[t] \in OwnerPCs
    BY DEF Owners
  <1>2. (\E t \in Owners : tpc[t] # "Map")
          <=> \E t \in Threads : tpc[t] \in OwnerPCs /\ tpc[t] # "Map"
    BY DEF Owners
  <1>3. QED
    BY <1>1, <1>2, Zenon DEF OwnerInv, InitStateConsistent

(***************************************************************************)
(* Single initialiser (spec 5 and 8), for every number of goroutines:     *)
(* the compare-and-swap on pmemInfo.initState in PmallocInit admits one   *)
(* call at a time, every failure path hands the initialisation back, and  *)
(* at most one call in a process returns the mapped address.               *)
(***************************************************************************)
THEOREM SingleInitialiser == Spec => []AtMostOneInit
  <1>1. Init => OwnerInv
    BY OwnerInvInit
  <1>2. OwnerInv /\ [Next]_vars => OwnerInv'
    BY OwnerInvNext
  <1>3. OwnerInv => AtMostOneInit
    BY OwnerInvAtMostOne
  <1>4. QED
    BY <1>1, <1>2, <1>3, PTL DEF Spec

(***************************************************************************)
(* initState of PmallocInit tells the truth in every reachable state: it  *)
(* is initOngoing exactly while a call owns the initialisation, initDone  *)
(* exactly once a call returned the address, and the file stays mapped    *)
(* only after a successful growPmemRegion that no failure path undid.     *)
(***************************************************************************)
THEOREM InitStateTruthful == Spec => []InitStateConsistent
  <1>1. Init => OwnerInv
    BY OwnerInvInit
  <1>2. OwnerInv /\ [Next]_vars => OwnerInv'
    BY OwnerInvNext
  <1>3. OwnerInv => InitStateConsistent
    BY OwnerInvConsistent
  <1>4. QED
    BY <1>1, <1>2, <1>3, PTL DEF Spec
=============================================================================
