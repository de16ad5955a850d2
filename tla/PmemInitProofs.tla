---------------------------- MODULE PmemInitProofs ----------------------------
(***************************************************************************)
(* Proofs about the region manager model PmemInit: the layout PmallocInit *)
(* computes is sound for every size and offset its argument checks accept, *)
(* and hence every reachable initialised state satisfies                   *)
(* UsableRangeInRegion, whatever the goroutines, sizes, offsets and bounds.*)
(***************************************************************************)
EXTENDS PmemInit, TLAPS

(* Dividing by the page size drops whole pages: the step that turns the   *)
(* byte arithmetic of PmallocInit into page counts.                        *)
LEMMA DivPages ==
  ASSUME NEW j \in Int, NEW h \in Int
  PROVE  (j * 8192 + h) \div 8192 = j + h \div 8192
  OBVIOUS

(***************************************************************************)
(* The layout of PmallocInit is sound for all accepted arguments, not only *)
(* the ones TLC enumerates: for any size and offset that pass the checks   *)
(* of part_000 lines 100-111, the span bitmap window, the type bitmap      *)
(* window and the usable pages follow one another inside the file, at     *)
(* least one page is usable, and endAddr is the last byte of the file.     *)
(***************************************************************************)
THEOREM LayoutSound ==
  ASSUME NEW size \in Nat, NEW offset \in Nat, ArgsOK(size, offset)
  PROVE  LET L == Layout(size, offset) IN
           /\ L.size = size /\ L.offset = offset
           /\ L.offset + pmemHdrSize <= L.spanLo
           /\ L.spanHi <= L.typeLo
           /\ L.typeHi <= L.start
           /\ L.start < L.end
           /\ L.end = size - 1
<1>1. pageSize = 8192 /\ heapBytesPerPage = 256 /\ logBytesPerPage = 4
      /\ pmemHdrSize = 16 /\ pmemInitSize = 8192 * 8192
  BY DEF pageSize, pageShift, heapBytesPerPage, logBytesPerPage,
         pmemHdrSize, pmemInitSize
<1>2. \A q \in Int, r \in 0..8191 : (q * 8192 + r) \div 8192 = q
  OBVIOUS
<1>3. PICK k \in Nat : offset = k * 8192
  <2>1. offset \div 8192 \in Nat /\ offset = (offset \div 8192) * 8192
    BY <1>1 DEF ArgsOK
  <2>2. QED
    BY <2>1
<1>4. PICK T \in Nat : size = T * 8192
  <2>1. size \div 8192 \in Nat /\ size = (size \div 8192) * 8192
    BY <1>1 DEF ArgsOK
  <2>2. QED
    BY <2>1
<1>5. T - k >= 8192
  BY <1>1, <1>3, <1>4 DEF ArgsOK
<1>6. PICK Q \in Nat : Q = (260 * (T - k) + 8207) \div 8192
  BY <1>5
<1>7. Q * 8192 <= 260 * (T - k) + 8207 /\ 260 * (T - k) + 8207 < Q * 8192 + 8192
  BY <1>5, <1>6
<1>8. k \in Nat /\ T \in Nat /\ Q \in Nat
  BY <1>3, <1>4, <1>6
<1>9. 1 <= Q /\ Q < T - k
  BY <1>5, <1>7
<1>10. (size - offset) \div pageSize = T - k /\ size \div pageSize = T
  BY <1>1, <1>2, <1>3, <1>4, <1>5
<1>11. RoundUp(offset + ((T - k) * heapBytesPerPage + (T - k) * logBytesPerPage
                          + pmemHdrSize)) \div pageSize = k + Q
  <2>1. offset + (T - k) * 256 + (T - k) * 4 + 16 + 8192 - 1
          = (k + Q) * 8192 + (260 * (T - k) + 8207 - Q * 8192)
    BY <1>3
  <2>2. 260 * (T - k) + 8207 - Q * 8192 \in 0..8191
    BY <1>7, <1>8
  <2>3. ((k + Q) * 8192 + (260 * (T - k) + 8207 - Q * 8192)) \div 8192 = k + Q
    <3>1. (260 * (T - k) + 8207 - Q * 8192) \div 8192 = 0
      BY <1>8, <2>2
    <3>2. QED
      BY <1>8, <3>1, DivPages
  <2>5. (offset + (T - k) * 256 + (T - k) * 4 + 16 + 8192 - 1) \div 8192 = k + Q
    BY <2>1, <2>3
  <2>4. QED
    BY <1>1, <1>2, <2>5 DEF RoundUp
<1>12. ((T - (k + Q)) * pageSize) \div 32 = (T - (k + Q)) * 256
  BY <1>1, <1>9
<1>13. Layout(size, offset) =
        [size |-> size, offset |-> offset,
         spanLo |-> offset + 16, spanHi |-> offset + 16 + (T - (k + Q)) * 4,
         typeLo |-> offset + 16 + (T - k) * 4,
         typeHi |-> offset + 16 + (T - k) * 4 + (T - (k + Q)) * 256,
         start |-> (k + Q) * 8192, end |-> (k + Q) * 8192 + (T - (k + Q)) * 8192 - 1]
  <2>1. Layout(size, offset) =
        [size |-> size, offset |-> offset,
         spanLo |-> offset + pmemHdrSize,
         spanHi |-> offset + pmemHdrSize + (T - (k + Q)) * logBytesPerPage,
         typeLo |-> offset + pmemHdrSize + (T - k) * logBytesPerPage,
         typeHi |-> offset + pmemHdrSize + (T - k) * logBytesPerPage
                      + ((T - (k + Q)) * pageSize) \div 32,
         start |-> (k + Q) * pageSize,
         end |-> (k + Q) * pageSize + (T - (k + Q)) * pageSize - 1]
    BY <1>10, <1>11 DEF Layout
  <2>2. QED
    BY <1>1, <1>12, <2>1
<1>14. QED
  BY <1>1, <1>3, <1>4, <1>5, <1>7, <1>9, <1>13

-----------------------------------------------------------------------------
(***************************************************************************)
(* The inductive invariant behind UsableRangeInRegion: a call owns the     *)
(* initialisation only with arguments that passed the checks of           *)
(* PmallocInit, and an installed layout is the layout of such arguments.   *)
(***************************************************************************)
LayoutInv ==
  /\ tpc \in [Threads -> TPCs]
  /\ DOMAIN targ = Threads
  /\ \A t \in Threads :
       tpc[t] \in OwnerPCs => targ[t] \in Args /\ ArgsOK(targ[t].size, targ[t].offset)
  /\ initState = "initDone" =>
       \E s \in Nat, o \in Nat : ArgsOK(s, o) /\ info = Layout(s, o)

\* LayoutInv holds in the initial state: no call owns the initialisation.
LEMMA LayoutInvInit == Init => LayoutInv
  BY DEF Init, LayoutInv, TPCs, OwnerPCs

\* Every step of PmallocInit, write-back and crash preserves LayoutInv.
LEMMA LayoutInvNext == LayoutInv /\ [Next]_vars => LayoutInv'
  <1> SUFFICES ASSUME LayoutInv, [Next]_vars PROVE LayoutInv'
    OBVIOUS
  <1>1. ASSUME NEW t \in Threads, NEW a \in Args, Call(t, a) PROVE LayoutInv'
    BY <1>1 DEF Call, LayoutInv, OwnerPCs, TPCs
  <1>2. ASSUME NEW t \in Threads, Map(t) PROVE LayoutInv'
    BY <1>2 DEF Map, LayoutInv, OwnerPCs, TPCs
  <1>3. ASSUME NEW t \in Threads, Check(t) PROVE LayoutInv'
    BY <1>3 DEF Check, LayoutInv, OwnerPCs, TPCs
  <1>4. ASSUME NEW t \in Threads, WriteMagic(t) PROVE LayoutInv'
    BY <1>4 DEF WriteMagic, LayoutInv, OwnerPCs, TPCs
  <1>5. ASSUME NEW t \in Threads, Finish(t) PROVE LayoutInv'
    <2>1. targ[t] \in Args /\ ArgsOK(targ[t].size, targ[t].offset)
      BY <1>5 DEF Finish, LayoutInv, OwnerPCs
    <2>2. targ[t].size \in Nat /\ targ[t].offset \in Nat
      BY <2>1, InitConstAssumption DEF Args
    <2>3. (initState = "initDone" =>
             \E s \in Nat, o \in Nat : ArgsOK(s, o) /\ info = Layout(s, o))'
      BY <1>5, <2>1, <2>2 DEF Finish
    <2>4. QED
      BY <1>5, <2>3 DEF Finish, LayoutInv, OwnerPCs, TPCs
  <1>6. ASSUME NEW o \in HdrOffsets, NEW w \in {"magic", "size"}, WriteBack(o, w)
        PROVE LayoutInv'
    BY <1>6 DEF WriteBack, LayoutInv
  <1>7. ASSUME Crash PROVE LayoutInv'
    BY <1>7 DEF Crash, LayoutInv, OwnerPCs, TPCs
  <1>8. CASE UNCHANGED vars
    BY <1>8 DEF vars, LayoutInv
  <1>9. QED
    BY <1>1, <1>2, <1>3, <1>4, <1>5, <1>6, <1>7, <1>8 DEF Next

\* LayoutInv implies UsableRangeInRegion, by LayoutSound.
LEMMA LayoutInvUsable == LayoutInv => UsableRangeInRegion
  <1> SUFFICES ASSUME LayoutInv, initState = "initDone"
               PROVE  UsableRangeInRegion
    BY DEF UsableRangeInRegion
  <1>1. PICK s \in Nat, o \in Nat : ArgsOK(s, o) /\ info = Layout(s, o)
    BY DEF LayoutInv
  <1>2. QED
    BY <1>1, LayoutSound DEF UsableRangeInRegion

(***************************************************************************)
(* Whatever the goroutines, arguments and crash bound, once PmallocInit    *)
(* has stored initDone the span bitmap window, the type bitmap window and *)
(* the usable pages it installed lie in order inside the mapped file, with *)
(* at least one usable page: the layout arithmetic of part_000 lines      *)
(* 124-137 never overlaps the windows or runs past the file.               *)
(***************************************************************************)
THEOREM UsableRange == Spec => []UsableRangeInRegion
  <1>1. Init => LayoutInv
    BY LayoutInvInit
  <1>2. LayoutInv /\ [Next]_vars => LayoutInv'
    BY LayoutInvNext
  <1>3. LayoutInv => UsableRangeInRegion
    BY LayoutInvUsable
  <1>4. QED
    BY <1>1, <1>2, <1>3, PTL DEF Spec

-----------------------------------------------------------------------------
(* Every field of an accepted layout is a byte offset: the windows and the *)
(* usable range start at non-negative offsets, and endAddr is an integer.  *)
LEMMA LayoutTyped ==
  ASSUME NEW s \in Nat, NEW o \in Nat, ArgsOK(s, o)
  PROVE  Layout(s, o) \in [size : Nat, offset : Nat, spanLo : Nat, spanHi : Nat,
                           typeLo : Nat, typeHi : Nat, start : Nat, end : Int]
<1> DEFINE avail == (s - o) \div pageSize
           res   == RoundUp(o + avail * heapBytesPerPage + avail * logBytesPerPage
                            + pmemHdrSize) \div pageSize
           u     == s \div pageSize - res
<1>1. pageSize = 8192 /\ heapBytesPerPage = 256 /\ logBytesPerPage = 4
      /\ pmemHdrSize = 16 /\ pmemInitSize = 8192 * 8192
  BY DEF pageSize, pageShift, heapBytesPerPage, logBytesPerPage,
         pmemHdrSize, pmemInitSize
<1>2. avail \in Nat /\ res \in Nat /\ u \in Int
  BY <1>1 DEF ArgsOK, RoundUp
<1>3. Layout(s, o) = [size |-> s, offset |-> o,
         spanLo |-> o + 16, spanHi |-> o + 16 + u * 4,
         typeLo |-> o + 16 + avail * 4,
         typeHi |-> o + 16 + avail * 4 + (u * 8192) \div 32,
         start |-> res * 8192, end |-> res * 8192 + u * 8192 - 1]
  BY <1>1 DEF Layout
<1>4. res * 8192 < res * 8192 + u * 8192 - 1
  BY <1>3, LayoutSound
<1>5. u \in Nat
  BY <1>2, <1>4
<1>6. QED
  BY <1>2, <1>3, <1>5

(***************************************************************************)
(* The inductive strengthening of TypeOK: the type facts together with    *)
(* LayoutInv, whose accepted arguments make the installed layout typed.   *)
(***************************************************************************)
TypeInv == TypeOK /\ LayoutInv

\* TypeInv holds in the initial state.
LEMMA TypeInvInit == Init => TypeInv
  <1> SUFFICES ASSUME Init PROVE TypeInv
    OBVIOUS
  <1>1. Args # {}
    <2>1. PICK r \in ReqSizes, f \in Offsets : TRUE
      BY InitConstAssumption
    <2>2. [size |-> r, offset |-> f] \in Args
      BY <2>1 DEF Args
    <2>3. QED
      BY <2>2
  <1>2. (CHOOSE a \in Args : TRUE) \in Args
    BY <1>1
  <1>3. NoInfo \in [size : Nat, offset : Nat, spanLo : Nat, spanHi : Nat,
                    typeLo : Nat, typeHi : Nat, start : Nat, end : Int]
    BY DEF NoInfo
  <1>4. crashes \in 0 .. MaxCrashes /\ successes \in Nat
    BY InitConstAssumption DEF Init
  <1>5. TypeOK
    BY <1>2, <1>3, <1>4 DEF Init, TypeOK, InitStates, TPCs, Results
  <1>6. QED
    BY <1>5, LayoutInvInit DEF TypeInv

\* Every step of PmallocInit, write-back and crash preserves TypeInv.
LEMMA TypeInvNext == TypeInv /\ [Next]_vars => TypeInv'
  <1> SUFFICES ASSUME TypeOK, LayoutInv, [Next]_vars PROVE TypeOK'
    BY LayoutInvNext DEF TypeInv
  <1>1. ASSUME NEW t \in Threads, NEW a \in Args, Call(t, a) PROVE TypeOK'
    BY <1>1 DEF Call, TypeOK, InitStates, TPCs, Results
  <1>2. ASSUME NEW t \in Threads, Map(t) PROVE TypeOK'
    BY <1>2 DEF Map, TypeOK, InitStates, TPCs, Results
  <1>3. ASSUME NEW t \in Threads, Check(t) PROVE TypeOK'
    <2>1. targ[t] \in Args
      BY <1>3 DEF Check, LayoutInv, OwnerPCs
    <2>2. targ[t].size \in SizeVals
      BY <2>1 DEF Args, SizeVals
    <2>3. [hdr EXCEPT ![targ[t].offset].size = targ[t].size] \in [HdrOffsets -> HdrWords]
      BY <2>2 DEF TypeOK, HdrWords
    <2>4. QED
      BY <1>3, <2>3 DEF Check, TypeOK, InitStates, TPCs, Results
  <1>4. ASSUME NEW t \in Threads, WriteMagic(t) PROVE TypeOK'
    <2>1. targ[t] \in Args
      BY <1>4 DEF WriteMagic, LayoutInv, OwnerPCs
    <2>2. targ[t].size \in SizeVals
      BY <2>1 DEF Args, SizeVals
    <2>3. [hdr EXCEPT ![targ[t].offset].magic = pmemHdrMagic] \in [HdrOffsets -> HdrWords]
      BY DEF TypeOK, HdrWords, Magics
    <2>4. [magicSize EXCEPT ![targ[t].offset] = targ[t].size] \in [HdrOffsets -> SizeVals]
      BY <2>2 DEF TypeOK
    <2>5. QED
      BY <1>4, <2>3, <2>4 DEF WriteMagic, TypeOK, TPCs
  <1>5. ASSUME NEW t \in Threads, Finish(t) PROVE TypeOK'
    <2>1. targ[t] \in Args /\ ArgsOK(targ[t].size, targ[t].offset)
      BY <1>5 DEF Finish, LayoutInv, OwnerPCs
    <2>2. targ[t].size \in Nat /\ targ[t].offset \in Nat
      BY <2>1, InitConstAssumption DEF Args
    <2>3. Layout(targ[t].size, targ[t].offset)
            \in [size : Nat, offset : Nat, spanLo : Nat, spanHi : Nat,
                 typeLo : Nat, typeHi : Nat, start : Nat, end : Int]
      BY <2>1, <2>2, LayoutTyped
    <2>4. info' \in [size : Nat, offset : Nat, spanLo : Nat, spanHi : Nat,
                     typeLo : Nat, typeHi : Nat, start : Nat, end : Int]
      BY <1>5, <2>3 DEF Finish
    <2>5. successes' \in Nat
      BY <1>5 DEF Finish, TypeOK
    <2>6. QED
      BY <1>5, <2>4, <2>5 DEF Finish, TypeOK, InitStates, TPCs, Results
  <1>6. ASSUME NEW o \in HdrOffsets, NEW w \in {"magic", "size"}, WriteBack(o, w)
        PROVE TypeOK'
    BY <1>6 DEF WriteBack, TypeOK, HdrWords
  <1>7. ASSUME Crash PROVE TypeOK'
    <2>1. info' \in [size : Nat, offset : Nat, spanLo : Nat, spanHi : Nat,
                     typeLo : Nat, typeHi : Nat, start : Nat, end : Int]
      BY <1>7 DEF Crash, NoInfo
    <2>2. crashes' \in 0 .. MaxCrashes /\ successes' \in Nat
      BY <1>7, InitConstAssumption DEF Crash, TypeOK
    <2>3. hdr' \in [HdrOffsets -> HdrWords]
      BY <1>7 DEF Crash, TypeOK
    <2>4. QED
      BY <1>7, <2>1, <2>2, <2>3 DEF Crash, TypeOK, InitStates, TPCs, Results
  <1>8. CASE UNCHANGED vars
    BY <1>8 DEF vars, TypeOK
  <1>9. QED
    BY <1>1, <1>2, <1>3, <1>4, <1>5, <1>6, <1>7, <1>8 DEF Next

(***************************************************************************)
(* Whatever the goroutines, arguments and crash bound, every reachable     *)
(* state of PmallocInit, the header write-back and crashes is well typed:  *)
(* in particular the header stores of the first-run path only write the   *)
(* page-aligned header of an accepted offset, and the layout installed at *)
(* initDone has non-negative windows (no underflow of usablePages).        *)
(***************************************************************************)
THEOREM TypeCorrect == Spec => []TypeOK
  <1>1. Init => TypeInv
    BY TypeInvInit
  <1>2. TypeInv /\ [Next]_vars => TypeInv'
    BY TypeInvNext
  <1>3. TypeInv => TypeOK
    BY DEF TypeInv
  <1>4. QED
    BY <1>1, <1>2, <1>3, PTL DEF Spec

=============================================================================
