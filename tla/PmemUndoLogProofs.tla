-------------------------- MODULE PmemUndoLogProofs --------------------------
(***************************************************************************)
(* Proofs about the arena undo log (PmemUndoLog), for every set of header  *)
(* fields and values and every bound.                                      *)
(***************************************************************************)
EXTENDS PmemUndoLog, TLAPS

(***************************************************************************)
(* TypeOK alone is not inductive: between the two parts of logEntry the    *)
(* counter must still have a free slot, which the ind == maxLogEntries     *)
(* check established.                                                      *)
(***************************************************************************)
TypeInv ==
  /\ TypeOK
  /\ pc = "LogCount" => numLogEntries < maxLogEntries

\* TypeInv holds initially.
LEMMA TypeInvInit == Init => TypeInv
<1> SUFFICES ASSUME Init PROVE TypeInv
  OBVIOUS
<1>1. hdr \in [Fields -> Vals] /\ hdrPm \in [Fields -> Vals]
      /\ logs \in [LogIdx -> LogEntry]
  BY DEF Init
<1>2. numLogEntries \in 0 .. maxLogEntries /\ i \in 0 .. maxLogEntries
      /\ pc \in PCs
  BY DEF Init, maxLogEntries, PCs
<1>3. txFields \subseteq Fields /\ mutated \subseteq Fields
      /\ txCount \in 0 .. MaxTx /\ crashes \in 0 .. MaxCrashes
  BY ConstAssumption DEF Init
<1>4. QED
  BY <1>1, <1>2, <1>3 DEF TypeOK, TypeInv, Init

\* Every step of the undo log, or a stutter, preserves TypeInv.
LEMMA TypeInvNext == TypeInv /\ [Next]_vars => TypeInv'
<1> SUFFICES ASSUME TypeInv, [Next]_vars PROVE TypeInv'
  OBVIOUS
<1>. USE ConstAssumption DEF TypeInv, TypeOK, LogIdx, LogEntry, maxLogEntries, PCs
<1>1. ASSUME NEW f \in Fields, LogEntryWrite(f) PROVE TypeInv'
  BY <1>1 DEF LogEntryWrite
<1>2. ASSUME NEW f \in Fields, LogEntryFull(f) PROVE TypeInv'
  <2>1. hdr' \in [Fields -> Vals] /\ pc' \in {"Recover", "Idle"} /\ i' \in 0 .. maxLogEntries
    BY <1>2 DEF LogEntryFull, Restart
  <2>2. txFields' \subseteq Fields /\ mutated' \subseteq Fields
        /\ txCount' \in 0 .. MaxTx
    BY <1>2 DEF LogEntryFull, CloseTx
  <2>3. UNCHANGED <<hdrPm, logs, numLogEntries, crashes>>
    BY <1>2 DEF LogEntryFull
  <2>4. QED
    BY <2>1, <2>2, <2>3, Zenon
<1>3. ASSUME NEW f \in Fields, WriteBack(f) PROVE TypeInv'
  BY <1>3 DEF WriteBack
<1>4. CASE LogEntryCount
  BY <1>4 DEF LogEntryCount
<1>5. ASSUME NEW f \in Fields, NEW v \in Vals, Mutate(f, v) PROVE TypeInv'
  BY <1>5 DEF Mutate
<1>6. CASE CommitBegin
  BY <1>6 DEF CommitBegin, CloseTx
<1>7. CASE CommitStep
  BY <1>7 DEF CommitStep
<1>8. CASE CommitEnd
  BY <1>8 DEF CommitEnd
<1>9. CASE RevertBegin
  BY <1>9 DEF RevertBegin, CloseTx
<1>10. CASE RevertStep
  BY <1>10 DEF RevertStep
<1>11. CASE RevertEnd
  BY <1>11 DEF RevertEnd
<1>12. CASE ResetLog
  BY <1>12 DEF ResetLog, CloseTx
<1>13. CASE Crash
  BY <1>13 DEF Crash, Restart
<1>14. CASE UNCHANGED vars
  BY <1>14 DEF vars
<1>15. QED
  BY <1>1, <1>2, <1>3, <1>4, <1>5, <1>6, <1>7, <1>8, <1>9, <1>10, <1>11,
     <1>12, <1>13, <1>14 DEF Next

(***************************************************************************)
(* Type correctness: every handler of the undo log (logEntry, commitLog,   *)
(* revertLog, resetLog), the caller, cache write-backs and crashes keep    *)
(* the state well typed; in particular logEntry never writes past the two  *)
(* log slots and numLogEntries stays within 0..maxLogEntries.              *)
(***************************************************************************)
THEOREM TypeCorrect == Spec => []TypeOK
<1>1. Init => TypeInv
  BY TypeInvInit
<1>2. TypeInv /\ [Next]_vars => TypeInv'
  BY TypeInvNext
<1>3. TypeInv => TypeOK
  BY DEF TypeInv
<1>4. QED
  BY <1>1, <1>2, <1>3, PTL DEF Spec

-----------------------------------------------------------------------------
(***************************************************************************)
(* The inductive invariant behind LogCoversDirty.  A dirty word (cache and *)
(* media differ) can only come from the caller's Mutate, so:              *)
(*  - outside commitLog and revertLog every dirty word is one the open     *)
(*    transaction mutated (this is what makes resetLog, which requires    *)
(*    nothing mutated, safe to clear the count);                           *)
(*  - every field of the open transaction has a counted entry, except the *)
(*    one whose slot logEntry has written but not yet counted (this is    *)
(*    what makes Mutate safe);                                             *)
(*  - inside commitLog and revertLog every dirty word still has an entry  *)
(*    at or after the loop index (this is what makes clearing the count at *)
(*    the end of the loop safe);                                           *)
(*  - commitLog, revertLog and recovery run with no transaction open (the  *)
(*    caller closed it before calling them, a restart dropped it).         *)
(***************************************************************************)
Dirty == {f \in Fields : hdr[f] # hdrPm[f]}

TxLogged ==
  \A f \in txFields :
    CountedIdx(f) # {} \/ (pc = "LogCount" /\ logs[numLogEntries].off = f)

DirtyMutated == pc \in {"Idle", "LogCount"} => Dirty \subseteq mutated

DirtyAhead ==
  pc \in {"Commit", "Revert"} =>
    \A f \in Dirty : \E k \in i .. (numLogEntries - 1) : logs[k].off = f

NoOpenTx == pc \in {"Commit", "Revert", "Recover"} => txFields = {}

WalInv ==
  /\ TypeInv
  /\ LogCoversDirty
  /\ TxLogged
  /\ DirtyMutated
  /\ DirtyAhead
  /\ NoOpenTx


\* WalInv holds initially: cache and media agree and no transaction is open.
LEMMA WalInit == Init => WalInv
<1> SUFFICES ASSUME Init PROVE WalInv
  OBVIOUS
<1>1. TypeInv
  BY TypeInvInit
<1>2. Dirty = {}
  BY DEF Init, Dirty
<1>3. LogCoversDirty
  BY DEF Init, LogCoversDirty
<1>4. TxLogged /\ NoOpenTx
  BY DEF Init, TxLogged, NoOpenTx
<1>5. DirtyMutated /\ DirtyAhead
  BY <1>2 DEF DirtyMutated, DirtyAhead, Init
<1>6. QED
  BY <1>1, <1>3, <1>4, <1>5 DEF WalInv

\* A step that leaves the counted log alone leaves CountedIdx alone.
LEMMA CountedUnchanged ==
  ASSUME UNCHANGED <<logs, numLogEntries>>
  PROVE  \A f \in Fields : CountedIdx(f)' = CountedIdx(f)
BY DEF CountedIdx

\* A step that leaves cache and media alone leaves the dirty words alone.
LEMMA DirtyUnchanged ==
  ASSUME UNCHANGED <<hdr, hdrPm>>
  PROVE  Dirty' = Dirty
BY DEF Dirty


\* Every step of the undo log, or a stutter, preserves WalInv.
LEMMA WalNext == WalInv /\ [Next]_vars => WalInv'
<1> SUFFICES ASSUME WalInv, [Next]_vars PROVE WalInv'
  OBVIOUS
<1>0. TypeInv'
  BY TypeInvNext DEF WalInv
<1>. DEFINE n == numLogEntries
<1>a. /\ hdr \in [Fields -> Vals] /\ hdrPm \in [Fields -> Vals]
      /\ logs \in [LogIdx -> LogEntry] /\ n \in 0 .. maxLogEntries
      /\ i \in 0 .. maxLogEntries /\ pc \in PCs
      /\ txFields \subseteq Fields /\ mutated \subseteq Fields
  BY DEF WalInv, TypeInv, TypeOK
<1>b. LogCoversDirty /\ TxLogged /\ DirtyMutated /\ DirtyAhead /\ NoOpenTx
  BY DEF WalInv
<1>1. ASSUME NEW f \in Fields, LogEntryWrite(f) PROVE WalInv'
  <2>1. Dirty' = Dirty
    BY <1>1, DirtyUnchanged DEF LogEntryWrite
  <2>2. n \in LogIdx
    BY <1>1, <1>a DEF LogEntryWrite, LogIdx, maxLogEntries
  <2>3. \A g \in Fields : CountedIdx(g)' = CountedIdx(g)
    BY <1>1, <1>a, <2>2 DEF LogEntryWrite, CountedIdx, LogIdx, maxLogEntries
  <2>4. LogCoversDirty'
    BY <1>1, <1>b, <2>3 DEF LogEntryWrite, LogCoversDirty
  <2>5. TxLogged'
    <3> SUFFICES ASSUME NEW g \in txFields'
                 PROVE  CountedIdx(g)' # {} \/ (pc' = "LogCount" /\ logs'[n'].off = g)
      BY DEF TxLogged
    <3>1. CASE g = f
      BY <3>1, <1>1, <1>a, <2>2 DEF LogEntryWrite
    <3>2. CASE g # f
      BY <3>2, <1>1, <1>a, <1>b, <2>3 DEF LogEntryWrite, TxLogged
    <3>3. QED
      BY <3>1, <3>2
  <2>6. DirtyMutated'
    BY <1>1, <1>b, <2>1 DEF LogEntryWrite, DirtyMutated
  <2>7. DirtyAhead' /\ NoOpenTx'
    BY <1>1 DEF LogEntryWrite, DirtyAhead, NoOpenTx
  <2>8. QED
    BY <1>0, <2>4, <2>5, <2>6, <2>7 DEF WalInv
<1>2. ASSUME hdr' = hdrPm, hdrPm' = hdrPm, txFields' = {}, mutated' = {},
             pc' \in {"Recover", "Idle"}
      PROVE  WalInv'
  <2>1. Dirty' = {}
    BY <1>2 DEF Dirty
  <2>2. LogCoversDirty'
    BY <1>2 DEF LogCoversDirty
  <2>3. TxLogged' /\ NoOpenTx'
    BY <1>2 DEF TxLogged, NoOpenTx
  <2>4. DirtyMutated' /\ DirtyAhead'
    BY <1>2, <2>1 DEF DirtyMutated, DirtyAhead
  <2>5. QED
    BY <1>0, <2>2, <2>3, <2>4 DEF WalInv
<1>3. ASSUME NEW f \in Fields, LogEntryFull(f) PROVE WalInv'
  BY <1>3, <1>2, Zenon DEF LogEntryFull, Restart, CloseTx
<1>4. CASE Crash
  BY <1>4, <1>2, Zenon DEF Crash, Restart
<1>5. ASSUME NEW f \in Fields, WriteBack(f) PROVE WalInv'
  <2>1. Dirty' \subseteq Dirty
    BY <1>5, <1>a DEF WriteBack, Dirty
  <2>2. \A g \in Fields : CountedIdx(g)' = CountedIdx(g)
    BY <1>5, CountedUnchanged DEF WriteBack
  <2>3. LogCoversDirty'
    BY <1>5, <1>b, <2>1, <2>2 DEF LogCoversDirty, Dirty
  <2>4. TxLogged' /\ NoOpenTx'
    BY <1>5, <1>a, <1>b, <2>2 DEF WriteBack, TxLogged, NoOpenTx
  <2>5. DirtyMutated' /\ DirtyAhead'
    BY <1>5, <1>b, <2>1 DEF WriteBack, DirtyMutated, DirtyAhead
  <2>6. QED
    BY <1>0, <2>3, <2>4, <2>5 DEF WalInv
<1>6. CASE LogEntryCount
  <2>1. Dirty' = Dirty
    BY <1>6, DirtyUnchanged DEF LogEntryCount
  <2>2. \A g \in Fields : CountedIdx(g) \subseteq CountedIdx(g)'
    BY <1>6, <1>a DEF LogEntryCount, CountedIdx
  <2>3. LogCoversDirty'
    BY <1>6, <1>b, <2>2 DEF LogEntryCount, LogCoversDirty
  <2>4. TxLogged'
    <3> SUFFICES ASSUME NEW g \in txFields' PROVE CountedIdx(g)' # {}
      BY DEF TxLogged
    <3>1. CASE CountedIdx(g) # {}
      BY <3>1, <2>2, <1>6, <1>a DEF LogEntryCount
    <3>2. CASE logs[n].off = g
      BY <3>2, <1>6, <1>a DEF LogEntryCount, CountedIdx
    <3>3. QED
      BY <3>1, <3>2, <1>6, <1>b DEF TxLogged, LogEntryCount
  <2>5. DirtyMutated' /\ DirtyAhead' /\ NoOpenTx'
    BY <1>6, <1>b, <2>1 DEF LogEntryCount, DirtyMutated, DirtyAhead, NoOpenTx
  <2>6. QED
    BY <1>0, <2>3, <2>4, <2>5 DEF WalInv
<1>7. ASSUME NEW f \in Fields, NEW v \in Vals, Mutate(f, v) PROVE WalInv'
  <2>1. Dirty' \subseteq Dirty \cup {f}
    BY <1>7, <1>a DEF Mutate, Dirty
  <2>2. \A g \in Fields : CountedIdx(g)' = CountedIdx(g)
    BY <1>7, CountedUnchanged DEF Mutate
  <2>3. CountedIdx(f) # {}
    BY <1>7, <1>b DEF Mutate, TxLogged
  <2>4. LogCoversDirty'
    BY <1>7, <1>b, <2>1, <2>2, <2>3 DEF LogCoversDirty, Dirty
  <2>5. TxLogged'
    BY <1>7, <1>a, <1>b, <2>2 DEF Mutate, TxLogged
  <2>6. DirtyMutated' /\ DirtyAhead' /\ NoOpenTx'
    BY <1>7, <1>b, <2>1 DEF Mutate, DirtyMutated, DirtyAhead, NoOpenTx
  <2>7. QED
    BY <1>0, <2>4, <2>5, <2>6 DEF WalInv

<1>8. CASE CommitBegin
  <2>1. Dirty' = Dirty
    BY <1>8, DirtyUnchanged DEF CommitBegin
  <2>2. \A g \in Fields : CountedIdx(g)' = CountedIdx(g)
    BY <1>8, CountedUnchanged DEF CommitBegin
  <2>3. LogCoversDirty'
    BY <1>8, <1>b, <2>2 DEF CommitBegin, LogCoversDirty
  <2>4. DirtyAhead'
    BY <1>8, <1>b, <2>1, <2>2 DEF CommitBegin, CloseTx, DirtyAhead,
                                   LogCoversDirty, Dirty, CountedIdx
  <2>5. TxLogged' /\ DirtyMutated' /\ NoOpenTx'
    BY <1>8 DEF CommitBegin, CloseTx, TxLogged, DirtyMutated, NoOpenTx
  <2>6. QED
    BY <1>0, <2>3, <2>4, <2>5 DEF WalInv
<1>9. ASSUME NEW g0 \in Fields, pc \in {"Commit", "Revert"}, pc' = pc,
             i < n, logs[i].off = g0, i' = i + 1,
             Dirty' \subseteq Dirty \ {g0},
             UNCHANGED <<logs, numLogEntries, txFields, mutated>>
      PROVE  WalInv'
  \* one iteration of the commitLog or revertLog loop cleans logs[i].off
  <2>1. \A g \in Fields : CountedIdx(g)' = CountedIdx(g)
    BY <1>9, CountedUnchanged
  <2>2. LogCoversDirty'
    BY <1>9, <1>b, <2>1 DEF LogCoversDirty, Dirty
  <2>3. DirtyAhead'
    <3> SUFFICES ASSUME NEW g \in Dirty'
                 PROVE  \E k \in i' .. (n' - 1) : logs'[k].off = g
      BY <1>9 DEF DirtyAhead
    <3>1. g \in Dirty /\ g # g0
      BY <1>9
    <3>2. PICK k \in i .. (n - 1) : logs[k].off = g
      BY <3>1, <1>9, <1>b DEF DirtyAhead
    <3>3. k # i
      BY <3>1, <3>2, <1>9
    <3>4. QED
      BY <3>2, <3>3, <1>9, <1>a
  <2>4. TxLogged' /\ NoOpenTx' /\ DirtyMutated'
    BY <1>9, <1>b DEF TxLogged, NoOpenTx, DirtyMutated
  <2>5. QED
    BY <1>0, <2>2, <2>3, <2>4 DEF WalInv
<1>10. CASE CommitStep
  <2>1. logs[i] \in LogEntry
    BY <1>10, <1>a DEF CommitStep, LogIdx, maxLogEntries
  <2>2. Dirty' \subseteq Dirty \ {logs[i].off}
    BY <1>10, <1>a, <2>1 DEF CommitStep, Dirty, LogEntry
  <2>3. QED
    BY <1>9, <1>10, <2>1, <2>2 DEF CommitStep, LogEntry
<1>11. CASE RevertStep
  <2>1. logs[i] \in LogEntry
    BY <1>11, <1>a DEF RevertStep, LogIdx, maxLogEntries
  <2>2. Dirty' \subseteq Dirty \ {logs[i].off}
    BY <1>11, <1>a, <2>1 DEF RevertStep, Dirty, LogEntry
  <2>3. QED
    BY <1>9, <1>11, <2>1, <2>2 DEF RevertStep, LogEntry
<1>12. ASSUME pc \in {"Commit", "Revert"}, i >= n, numLogEntries' = 0, pc' = "Idle",
              UNCHANGED <<hdr, hdrPm, txFields, mutated>>
       PROVE  WalInv'
  \* the end of the commitLog or revertLog loop: every word is clean
  <2>1. Dirty = {}
    BY <1>12, <1>a, <1>b DEF DirtyAhead
  <2>2. Dirty' = {}
    BY <1>12, <2>1, DirtyUnchanged
  <2>3. LogCoversDirty'
    BY <2>2 DEF LogCoversDirty, Dirty
  <2>4. TxLogged' /\ DirtyMutated' /\ DirtyAhead' /\ NoOpenTx'
    BY <1>12, <1>b, <2>2 DEF TxLogged, NoOpenTx, DirtyMutated, DirtyAhead
  <2>5. QED
    BY <1>0, <2>3, <2>4 DEF WalInv
<1>13. CASE CommitEnd
  BY <1>13, <1>12 DEF CommitEnd
<1>14. CASE RevertEnd
  BY <1>14, <1>12 DEF RevertEnd
<1>15. CASE RevertBegin
  <2>1. Dirty' = Dirty
    BY <1>15, DirtyUnchanged DEF RevertBegin
  <2>2. \A g \in Fields : CountedIdx(g)' = CountedIdx(g)
    BY <1>15, CountedUnchanged DEF RevertBegin
  <2>3. txFields' = {}
    BY <1>15, <1>b DEF RevertBegin, CloseTx, NoOpenTx
  <2>4. LogCoversDirty'
    BY <1>15, <1>b, <2>2 DEF RevertBegin, LogCoversDirty
  <2>5. CASE n = 0
    <3>1. Dirty = {}
      BY <2>5, <1>b DEF LogCoversDirty, Dirty, CountedIdx
    <3>2. QED
      BY <1>0, <1>15, <2>1, <2>3, <2>4, <2>5, <3>1
         DEF RevertBegin, WalInv, TxLogged, DirtyMutated, DirtyAhead, NoOpenTx
  <2>6. CASE n # 0
    <3>1. DirtyAhead'
      BY <2>6, <1>15, <1>b, <2>1, <2>2 DEF RevertBegin, DirtyAhead,
                                            LogCoversDirty, Dirty, CountedIdx
    <3>2. QED
      BY <1>0, <1>15, <2>3, <2>4, <2>6, <3>1
         DEF RevertBegin, WalInv, TxLogged, DirtyMutated, NoOpenTx
  <2>7. QED
    BY <2>5, <2>6
<1>16. CASE ResetLog
  <2>1. Dirty = {}
    BY <1>16, <1>b DEF ResetLog, DirtyMutated
  <2>2. Dirty' = {}
    BY <1>16, <2>1, DirtyUnchanged DEF ResetLog
  <2>3. LogCoversDirty'
    BY <2>2 DEF LogCoversDirty, Dirty
  <2>4. TxLogged' /\ DirtyMutated' /\ DirtyAhead' /\ NoOpenTx'
    BY <1>16, <2>2 DEF ResetLog, CloseTx, TxLogged, NoOpenTx, DirtyMutated, DirtyAhead
  <2>5. QED
    BY <1>0, <2>3, <2>4 DEF WalInv
<1>17. CASE UNCHANGED vars
  BY <1>17, <1>b, <1>0 DEF vars, WalInv, LogCoversDirty, TxLogged, DirtyMutated,
                          DirtyAhead, NoOpenTx, Dirty, CountedIdx
<1>18. QED
  BY <1>1, <1>3, <1>4, <1>5, <1>6, <1>7, <1>8, <1>10, <1>11, <1>13, <1>14,
     <1>15, <1>16, <1>17 DEF Next

(***************************************************************************)
(* Write-ahead rule, for every set of fields and values and every bound:   *)
(* whatever order the caller's logEntry, mutations and commitLog, revertLog *)
(* or resetLog, cache write-backs and crashes take, a header word whose    *)
(* cached value differs from the media copy has a counted undo entry.      *)
(***************************************************************************)
THEOREM DirtyCovered == Spec => []LogCoversDirty
<1>1. Init => WalInv
  BY WalInit
<1>2. WalInv /\ [Next]_vars => WalInv'
  BY WalNext
<1>3. WalInv => LogCoversDirty
  BY DEF WalInv
<1>4. QED
  BY <1>1, <1>2, <1>3, PTL DEF Spec


-----------------------------------------------------------------------------
(***************************************************************************)
(* Recovered as a function of the log slots L, the count m and the media   *)
(* words P, so that facts about it apply before and after a step alike.    *)
(***************************************************************************)
RecOf(L, m, P) ==
  [f \in Fields |-> IF {k \in 0 .. (m - 1) : L[k].off = f} = {} THEN P[f]
                    ELSE L[LastIdx({k \in 0 .. (m - 1) : L[k].off = f})].val]

\* Recovered is RecOf of the current log, count and media.
LEMMA RecoveredIsRecOf ==
  /\ Recovered = RecOf(logs, numLogEntries, hdrPm)
  /\ Recovered' = RecOf(logs', numLogEntries', hdrPm')
BY DEF Recovered, RecOf, CountedIdx

\* The latest slot of a singleton set of slots is its element.
LEMMA LastSingle == \A k \in Nat : LastIdx({k}) = k
BY DEF LastIdx

(***************************************************************************)
(* When the counted entries name distinct words, recovery restores each    *)
(* logged word to the value of its entry and leaves the others as the media *)
(* holds them.                                                             *)
(***************************************************************************)
LEMMA RecOfFacts ==
  ASSUME NEW L \in [LogIdx -> LogEntry], NEW m \in 0 .. maxLogEntries,
         NEW P \in [Fields -> Vals],
         \A j, k \in 0 .. (m - 1) : j # k => L[j].off # L[k].off
  PROVE  /\ RecOf(L, m, P) \in [Fields -> Vals]
         /\ \A k \in 0 .. (m - 1) : RecOf(L, m, P)[L[k].off] = L[k].val
         /\ \A f \in Fields : (\A k \in 0 .. (m - 1) : L[k].off # f)
                                => RecOf(L, m, P)[f] = P[f]
<1>. DEFINE S(f) == {k \in 0 .. (m - 1) : L[k].off = f}
<1>1. \A k \in 0 .. (m - 1) : S(L[k].off) = {k}
  BY DEF LogIdx, maxLogEntries
<1>2. \A k \in 0 .. (m - 1) : k \in LogIdx /\ L[k] \in LogEntry
  BY DEF LogIdx, maxLogEntries
<1>3. \A k \in 0 .. (m - 1) : RecOf(L, m, P)[L[k].off] = L[k].val
  <2> SUFFICES ASSUME NEW k \in 0 .. (m - 1) PROVE RecOf(L, m, P)[L[k].off] = L[k].val
    OBVIOUS
  <2>1. L[k].off \in Fields
    BY <1>2 DEF LogEntry
  <2>2. LastIdx(S(L[k].off)) = k
    BY <1>1, LastSingle
  <2>3. QED
    BY <2>1, <2>2, <1>1 DEF RecOf
<1>4. \A f \in Fields : S(f) = {} \/ \E k \in 0 .. (m - 1) : f = L[k].off
  OBVIOUS
<1>5. RecOf(L, m, P) \in [Fields -> Vals]
  <2> SUFFICES ASSUME NEW f \in Fields PROVE RecOf(L, m, P)[f] \in Vals
    BY DEF RecOf
  <2>1. CASE S(f) = {}
    BY <2>1 DEF RecOf
  <2>2. CASE \E k \in 0 .. (m - 1) : f = L[k].off
    BY <2>2, <1>2, <1>3 DEF LogEntry
  <2>3. QED
    BY <1>4, <2>1, <2>2
<1>6. QED
  BY <1>3, <1>5 DEF RecOf


(***************************************************************************)
(* The invariant behind the refinement, for a caller that logs each field  *)
(* once per transaction: the counted entries name distinct words, each     *)
(* field logged in the open transaction and not yet mutated still holds    *)
(* the value its entry saved, the slot written but not yet counted is a    *)
(* fresh field of the transaction, and the entries revertLog has replayed  *)
(* are clean on the media.                                                 *)
(***************************************************************************)
LogDistinct ==
  \A j, k \in 0 .. (numLogEntries - 1) : j # k => logs[j].off # logs[k].off

MutatedLogged == mutated \subseteq txFields

EntriesCurrent ==
  pc \in {"Idle", "LogCount"} =>
    \A k \in 0 .. (numLogEntries - 1) :
      /\ logs[k].off \in txFields
      /\ logs[k].off \notin mutated => logs[k].val = hdr[logs[k].off]

PendingFresh ==
  pc = "LogCount" =>
    /\ logs[numLogEntries].off \in txFields \ mutated
    /\ CountedIdx(logs[numLogEntries].off) = {}
    /\ logs[numLogEntries].val = hdr[logs[numLogEntries].off]

RevertedPrefix ==
  pc = "Revert" =>
    \A k \in 0 .. (i - 1) : /\ hdr[logs[k].off] = logs[k].val
                            /\ hdrPm[logs[k].off] = logs[k].val

AtomInv ==
  /\ WalInv
  /\ LogDistinct
  /\ MutatedLogged
  /\ EntriesCurrent
  /\ PendingFresh
  /\ RevertedPrefix

\* AtomInv holds initially.
LEMMA AtomInit == Init => AtomInv
<1> SUFFICES ASSUME Init PROVE AtomInv
  OBVIOUS
<1>1. WalInv
  BY WalInit
<1>2. LogDistinct /\ MutatedLogged /\ EntriesCurrent /\ PendingFresh /\ RevertedPrefix
  BY DEF Init, LogDistinct, MutatedLogged, EntriesCurrent, PendingFresh, RevertedPrefix
<1>3. QED
  BY <1>1, <1>2 DEF AtomInv

\* Under a caller that never relogs a field and the spec 4.6 restart, every
\* step preserves AtomInv.
LEMMA AtomNext ==
  ASSUME ~CallerRelogs, AtomInv, [Next]_vars
  PROVE  AtomInv'
<1>0. WalInv'
  BY WalNext DEF AtomInv
<1>. DEFINE n == numLogEntries
<1>a. /\ hdr \in [Fields -> Vals] /\ hdrPm \in [Fields -> Vals]
      /\ logs \in [LogIdx -> LogEntry] /\ n \in 0 .. maxLogEntries
      /\ i \in 0 .. maxLogEntries /\ pc \in PCs
      /\ txFields \subseteq Fields /\ mutated \subseteq Fields
  BY DEF AtomInv, WalInv, TypeInv, TypeOK
<1>b. /\ LogDistinct /\ MutatedLogged /\ EntriesCurrent /\ PendingFresh /\ RevertedPrefix
      /\ LogCoversDirty /\ TxLogged /\ DirtyMutated /\ DirtyAhead /\ NoOpenTx
  BY DEF AtomInv, WalInv
<1>c. ASSUME pc' = "Recover", txFields' = {}, mutated' = {},
             UNCHANGED <<logs, numLogEntries>>
      PROVE  AtomInv'
  \* a restart under spec 4.6: recovery runs next, no transaction is open
  BY <1>0, <1>b, <1>c DEF AtomInv, LogDistinct, MutatedLogged, EntriesCurrent,
                          PendingFresh, RevertedPrefix
<1>1. ASSUME NEW f \in Fields, LogEntryWrite(f) PROVE AtomInv'
  <2>1. f \notin txFields /\ n \in LogIdx
    BY <1>1, <1>a DEF LogEntryWrite, LogIdx, maxLogEntries
  <2>2. \A k \in 0 .. (n - 1) : logs'[k] = logs[k]
    BY <1>1, <1>a, <2>1 DEF LogEntryWrite, LogIdx, maxLogEntries
  <2>3. CountedIdx(f)' = {}
    BY <1>1, <1>b, <2>1, <2>2 DEF LogEntryWrite, CountedIdx, EntriesCurrent
  <2>4. LogDistinct' /\ MutatedLogged' /\ EntriesCurrent'
    BY <1>1, <1>b, <2>2 DEF LogEntryWrite, LogDistinct, MutatedLogged, EntriesCurrent
  <2>5. PendingFresh'
    BY <1>1, <1>a, <1>b, <2>1, <2>3 DEF LogEntryWrite, PendingFresh, MutatedLogged
  <2>6. RevertedPrefix'
    BY <1>1 DEF LogEntryWrite, RevertedPrefix
  <2>7. QED
    BY <1>0, <2>4, <2>5, <2>6 DEF AtomInv
<1>2. CASE LogEntryCount
  <2>1. PICK g \in Fields : g = logs[n].off
    BY <1>2, <1>a DEF LogEntryCount, AtomInv, WalInv, TypeInv, LogIdx, LogEntry,
                      maxLogEntries
  <2>2. /\ g \in txFields \ mutated /\ logs[n].val = hdr[g]
        /\ \A k \in 0 .. (n - 1) : logs[k].off # g
    BY <1>2, <1>b, <2>1 DEF LogEntryCount, PendingFresh, CountedIdx
  <2>3. LogDistinct'
    BY <1>2, <1>a, <1>b, <2>1, <2>2 DEF LogEntryCount, LogDistinct
  <2>4. EntriesCurrent'
    BY <1>2, <1>a, <1>b, <2>1, <2>2 DEF LogEntryCount, EntriesCurrent
  <2>5. MutatedLogged' /\ PendingFresh' /\ RevertedPrefix'
    BY <1>2, <1>b DEF LogEntryCount, MutatedLogged, PendingFresh, RevertedPrefix
  <2>6. QED
    BY <1>0, <2>3, <2>4, <2>5 DEF AtomInv
<1>3. ASSUME NEW f \in Fields, LogEntryFull(f) PROVE AtomInv'
  BY <1>3, <1>c DEF LogEntryFull, CloseTx, Restart
<1>4. CASE Crash
  BY <1>4, <1>c DEF Crash, Restart

<1>5. ASSUME NEW f \in Fields, WriteBack(f) PROVE AtomInv'
  <2>1. RevertedPrefix'
    BY <1>5, <1>a, <1>b DEF WriteBack, RevertedPrefix
  <2>2. LogDistinct' /\ MutatedLogged' /\ EntriesCurrent' /\ PendingFresh'
    BY <1>5, <1>b DEF WriteBack, LogDistinct, MutatedLogged, EntriesCurrent,
                      PendingFresh, CountedIdx
  <2>3. QED
    BY <1>0, <2>1, <2>2 DEF AtomInv
<1>6. ASSUME NEW f \in Fields, NEW v \in Vals, Mutate(f, v) PROVE AtomInv'
  <2>1. EntriesCurrent'
    BY <1>6, <1>a, <1>b DEF Mutate, EntriesCurrent
  <2>2. LogDistinct' /\ MutatedLogged' /\ PendingFresh' /\ RevertedPrefix'
    BY <1>6, <1>b DEF Mutate, LogDistinct, MutatedLogged, PendingFresh, RevertedPrefix
  <2>3. QED
    BY <1>0, <2>1, <2>2 DEF AtomInv
<1>7. ASSUME pc' \in {"Commit", "Revert", "Idle"}, pc' = "Idle" => n = 0,
             pc' = "Revert" => i' = 0, UNCHANGED <<logs, numLogEntries>>,
             \/ txFields' = {} /\ mutated' = {}
             \/ UNCHANGED <<txFields, mutated>> /\ pc = "Recover"
      PROVE  AtomInv'
  \* commitLog or revertLog is called
  <2>1. MutatedLogged'
    BY <1>7, <1>a, <1>b DEF MutatedLogged, NoOpenTx
  <2>2. QED
    BY <1>0, <1>7, <2>1, <1>b DEF AtomInv, LogDistinct, EntriesCurrent,
                                  PendingFresh, RevertedPrefix
<1>8. CASE CommitBegin
  BY <1>8, <1>7 DEF CommitBegin, CloseTx
<1>9. CASE RevertBegin
  BY <1>9, <1>7 DEF RevertBegin, CloseTx
<1>10. CASE CommitStep
  BY <1>0, <1>10, <1>b DEF CommitStep, AtomInv, LogDistinct, MutatedLogged,
                           EntriesCurrent, PendingFresh, RevertedPrefix
<1>11. CASE RevertStep
  <2>1. i \in 0 .. (n - 1) /\ logs[i] \in LogEntry
    BY <1>11, <1>a DEF RevertStep, LogIdx, maxLogEntries
  <2>2. \A k \in 0 .. (i - 1) : logs[k].off # logs[i].off
    BY <1>11, <1>a, <1>b, <2>1 DEF RevertStep, LogDistinct
  <2>3. RevertedPrefix'
    <3> SUFFICES ASSUME NEW k \in 0 .. i
                 PROVE  /\ hdr'[logs[k].off] = logs[k].val
                        /\ hdrPm'[logs[k].off] = logs[k].val
      BY <1>11, <1>a DEF RevertStep, RevertedPrefix
    <3>1. CASE k = i
      BY <3>1, <1>11, <1>a, <2>1 DEF RevertStep, LogEntry
    <3>2. CASE k # i
      <4>1. k \in 0 .. (i - 1) /\ logs[k] \in LogEntry
        BY <3>2, <2>1, <1>a DEF LogIdx, maxLogEntries
      <4>2. hdr[logs[k].off] = logs[k].val /\ hdrPm[logs[k].off] = logs[k].val
        BY <4>1, <1>11, <1>b DEF RevertStep, RevertedPrefix
      <4>3. QED
        BY <4>1, <4>2, <2>2, <1>11, <1>a DEF RevertStep, LogEntry
    <3>3. QED
      BY <3>1, <3>2
  <2>4. QED
    BY <1>0, <1>11, <1>b, <2>3 DEF RevertStep, AtomInv, LogDistinct, MutatedLogged,
                                   EntriesCurrent, PendingFresh
<1>12. ASSUME numLogEntries' = 0, pc' = "Idle", UNCHANGED <<txFields, mutated>>
       PROVE  AtomInv'
  \* commitLog or revertLog clears the count
  BY <1>0, <1>12, <1>b DEF AtomInv, LogDistinct, MutatedLogged, EntriesCurrent,
                           PendingFresh, RevertedPrefix
<1>13. CASE CommitEnd
  BY <1>13, <1>12 DEF CommitEnd
<1>14. CASE RevertEnd
  BY <1>14, <1>12 DEF RevertEnd
<1>15. CASE ResetLog
  BY <1>0, <1>15 DEF ResetLog, CloseTx, AtomInv, LogDistinct, MutatedLogged,
                     EntriesCurrent, PendingFresh, RevertedPrefix
<1>16. CASE UNCHANGED vars
  BY <1>0, <1>16, <1>b DEF vars, AtomInv, LogDistinct, MutatedLogged,
                           EntriesCurrent, PendingFresh, RevertedPrefix, CountedIdx
<1>17. QED
  BY <1>1, <1>2, <1>3, <1>4, <1>5, <1>6, <1>8, <1>9, <1>10, <1>11, <1>13,
     <1>14, <1>15, <1>16 DEF Next


\* Under the same hypotheses every step of the undo log is a step of
\* AtomicHeader, or leaves its variables unchanged, under the refinement
\* mapping durable <- Recovered, working <- WorkingView,
\* committing <- (pc = "Commit").
LEMMA AtomStep ==
  ASSUME ~CallerRelogs, AtomInv, [Next]_vars
  PROVE  [AH!Next]_<<Recovered, WorkingView, pc = "Commit">>
<1>. DEFINE n == numLogEntries
<1>0. AtomInv'
  BY AtomNext
<1>a. /\ hdr \in [Fields -> Vals] /\ hdrPm \in [Fields -> Vals]
      /\ logs \in [LogIdx -> LogEntry] /\ n \in 0 .. maxLogEntries
      /\ i \in 0 .. maxLogEntries /\ pc \in PCs
      /\ txFields \subseteq Fields /\ mutated \subseteq Fields
  BY DEF AtomInv, WalInv, TypeInv, TypeOK
<1>a2. /\ hdrPm' \in [Fields -> Vals] /\ logs' \in [LogIdx -> LogEntry]
       /\ n' \in 0 .. maxLogEntries
  BY <1>0 DEF AtomInv, WalInv, TypeInv, TypeOK
<1>b. /\ LogDistinct /\ MutatedLogged /\ EntriesCurrent /\ PendingFresh /\ RevertedPrefix
      /\ LogCoversDirty /\ TxLogged /\ DirtyMutated /\ DirtyAhead /\ NoOpenTx
  BY DEF AtomInv, WalInv
<1>r. /\ Recovered \in [Fields -> Vals]
      /\ \A k \in 0 .. (n - 1) : Recovered[logs[k].off] = logs[k].val
      /\ \A f \in Fields : (\A k \in 0 .. (n - 1) : logs[k].off # f)
                             => Recovered[f] = hdrPm[f]
  BY <1>a, <1>b, RecOfFacts, RecoveredIsRecOf DEF LogDistinct
<1>r2. /\ Recovered' \in [Fields -> Vals]
       /\ \A k \in 0 .. (n' - 1) : Recovered'[logs'[k].off] = logs'[k].val
       /\ \A f \in Fields : (\A k \in 0 .. (n' - 1) : logs'[k].off # f)
                              => Recovered'[f] = hdrPm'[f]
  <2>1. LogDistinct'
    BY <1>0 DEF AtomInv
  <2>2. QED
    BY <1>a2, <2>1, RecOfFacts, RecoveredIsRecOf DEF LogDistinct
<1>s. ASSUME Recovered' = Recovered, WorkingView' = WorkingView,
             (pc' = "Commit") = (pc = "Commit")
      PROVE  [AH!Next]_<<Recovered, WorkingView, pc = "Commit">>
  BY <1>s
<1>u. ASSUME UNCHANGED <<hdrPm, logs, numLogEntries>> PROVE Recovered' = Recovered
  BY <1>u, RecoveredIsRecOf
<1>c. ASSUME pc' = "Recover", UNCHANGED <<hdrPm, logs, numLogEntries>>
      PROVE  [AH!Next]_<<Recovered, WorkingView, pc = "Commit">>
  \* a restart under spec 4.6: the process is back to the recovered header
  <2>1. AH!Abort
    BY <1>c, <1>u DEF AH!Abort, WorkingView
  <2>2. QED
    BY <2>1 DEF AH!Next
<1>1. ASSUME NEW f \in Fields, LogEntryFull(f) PROVE [AH!Next]_<<Recovered, WorkingView, pc = "Commit">>
  BY <1>1, <1>c DEF LogEntryFull, Restart
<1>2. CASE Crash
  BY <1>2, <1>c DEF Crash, Restart
<1>3. ASSUME NEW f \in Fields, NEW v \in Vals, Mutate(f, v)
      PROVE  [AH!Next]_<<Recovered, WorkingView, pc = "Commit">>
  <2>1. Recovered' = Recovered
    BY <1>3, <1>u DEF Mutate
  <2>2. AH!Write(f, v)
    BY <1>3, <2>1 DEF Mutate, AH!Write, WorkingView
  <2>3. QED
    BY <2>2 DEF AH!Next
<1>4. CASE CommitBegin
  <2>1. Recovered' = Recovered
    BY <1>4, <1>u DEF CommitBegin
  <2>2. AH!RequestCommit
    BY <1>4, <2>1 DEF CommitBegin, AH!RequestCommit, WorkingView
  <2>3. QED
    BY <2>2 DEF AH!Next
<1>5. CASE RevertBegin
  <2>1. Recovered' = Recovered
    BY <1>5, <1>u DEF RevertBegin
  <2>2. CASE n = 0
    \* nothing logged: no word is dirty, the working header is the recovered one
    <3>1. \A f \in Fields : hdr[f] = hdrPm[f]
      BY <2>2, <1>b DEF LogCoversDirty, CountedIdx
    <3>2. hdr = Recovered
      BY <3>1, <2>2, <1>a, <1>r
    <3>3. AH!Abort
      BY <1>5, <2>1, <2>2, <3>2 DEF RevertBegin, CloseTx, AH!Abort, WorkingView
    <3>4. QED
      BY <3>3 DEF AH!Next
  <2>3. CASE n # 0
    <3>1. AH!Abort
      BY <1>5, <2>1, <2>3 DEF RevertBegin, CloseTx, AH!Abort, WorkingView
    <3>2. QED
      BY <3>1 DEF AH!Next
  <2>4. QED
    BY <2>2, <2>3

<1>k. ASSUME NEW g0 \in Fields, NEW k0 \in 0 .. (n - 1), logs[k0].off = g0,
             \A g \in Fields \ {g0} : hdrPm'[g] = hdrPm[g],
             UNCHANGED <<logs, numLogEntries>>
      PROVE  Recovered' = Recovered
  \* a media store to a logged word: recovery would overwrite it anyway
  <2> SUFFICES ASSUME NEW g \in Fields PROVE Recovered'[g] = Recovered[g]
    BY <1>r, <1>r2
  <2>1. CASE \E k \in 0 .. (n - 1) : logs[k].off = g
    BY <2>1, <1>k, <1>r, <1>r2
  <2>2. CASE \A k \in 0 .. (n - 1) : logs[k].off # g
    BY <2>2, <1>k, <1>r, <1>r2
  <2>3. QED
    BY <2>1, <2>2
<1>z. ASSUME numLogEntries' = 0, UNCHANGED hdrPm PROVE Recovered' = hdrPm
  BY <1>z, <1>a, <1>r2
<1>6. ASSUME NEW f \in Fields, WriteBack(f)
      PROVE  [AH!Next]_<<Recovered, WorkingView, pc = "Commit">>
  <2>1. PICK k0 \in 0 .. (n - 1) : logs[k0].off = f
    BY <1>6, <1>b DEF WriteBack, LogCoversDirty, CountedIdx
  <2>2. Recovered' = Recovered
    BY <1>6, <1>a, <2>1, <1>k DEF WriteBack
  <2>3. QED
    BY <1>6, <2>2, <1>s DEF WriteBack, WorkingView
<1>7. CASE CommitStep
  <2>1. logs[i] \in LogEntry /\ i \in 0 .. (n - 1)
    BY <1>7, <1>a DEF CommitStep, LogIdx, maxLogEntries
  <2>2. Recovered' = Recovered
    BY <1>7, <1>a, <2>1, <1>k DEF CommitStep, LogEntry
  <2>3. QED
    BY <1>7, <2>2, <1>s DEF CommitStep, WorkingView
<1>8. CASE RevertStep
  <2>1. logs[i] \in LogEntry /\ i \in 0 .. (n - 1)
    BY <1>8, <1>a DEF RevertStep, LogIdx, maxLogEntries
  <2>2. Recovered' = Recovered
    BY <1>8, <1>a, <2>1, <1>k DEF RevertStep, LogEntry
  <2>3. QED
    BY <1>8, <2>2, <1>s DEF RevertStep, WorkingView
<1>9. ASSUME NEW f \in Fields, LogEntryWrite(f)
      PROVE  [AH!Next]_<<Recovered, WorkingView, pc = "Commit">>
  <2>1. \A k \in 0 .. (n - 1) : logs'[k] = logs[k]
    BY <1>9, <1>a DEF LogEntryWrite, LogIdx, maxLogEntries
  <2>2. Recovered' = Recovered
    <3> SUFFICES ASSUME NEW g \in Fields PROVE Recovered'[g] = Recovered[g]
      BY <1>r, <1>r2
    <3>1. CASE \E k \in 0 .. (n - 1) : logs[k].off = g
      BY <3>1, <2>1, <1>9, <1>r, <1>r2 DEF LogEntryWrite
    <3>2. CASE \A k \in 0 .. (n - 1) : logs[k].off # g
      BY <3>2, <2>1, <1>9, <1>r, <1>r2 DEF LogEntryWrite
    <3>3. QED
      BY <3>1, <3>2
  <2>3. QED
    BY <1>9, <2>2, <1>s DEF LogEntryWrite, WorkingView
<1>10. CASE LogEntryCount
  <2>1. PICK g0 \in Fields : g0 = logs[n].off
    BY <1>10, <1>a DEF LogEntryCount, AtomInv, WalInv, TypeInv, LogIdx, LogEntry,
                       maxLogEntries
  <2>2. /\ logs[n].val = hdrPm[g0]
        /\ \A k \in 0 .. (n - 1) : logs[k].off # g0
    BY <1>10, <1>a, <1>b, <2>1 DEF LogEntryCount, PendingFresh, DirtyMutated, Dirty,
                                   CountedIdx
  <2>3. Recovered' = Recovered
    <3> SUFFICES ASSUME NEW g \in Fields PROVE Recovered'[g] = Recovered[g]
      BY <1>r, <1>r2
    <3>1. CASE \E k \in 0 .. (n - 1) : logs[k].off = g
      BY <3>1, <1>10, <1>a, <1>r, <1>r2 DEF LogEntryCount
    <3>2. CASE g = g0
      BY <3>2, <2>1, <2>2, <1>10, <1>a, <1>r, <1>r2 DEF LogEntryCount
    <3>3. CASE g # g0 /\ \A k \in 0 .. (n - 1) : logs[k].off # g
      BY <3>3, <2>1, <1>10, <1>a, <1>r, <1>r2 DEF LogEntryCount
    <3>4. QED
      BY <3>1, <3>2, <3>3
  <2>4. QED
    BY <1>10, <2>3, <1>s DEF LogEntryCount, WorkingView

<1>11. CASE CommitEnd
  \* every logged word is flushed: the commit takes the whole working header
  <2>1. \A f \in Fields : hdr[f] = hdrPm[f]
    BY <1>11, <1>a, <1>b DEF CommitEnd, DirtyAhead, Dirty
  <2>2. Recovered' = hdr
    BY <1>11, <1>a, <1>z, <2>1 DEF CommitEnd
  <2>3. AH!Commit
    BY <1>11, <2>2 DEF CommitEnd, AH!Commit, WorkingView
  <2>4. QED
    BY <2>3 DEF AH!Next
<1>12. CASE RevertEnd
  \* every logged word is back to its entry, on the media and in the cache
  <2>1. \A f \in Fields : hdr[f] = hdrPm[f]
    BY <1>12, <1>a, <1>b DEF RevertEnd, DirtyAhead, Dirty
  <2>2. Recovered = hdrPm
    <3> SUFFICES ASSUME NEW g \in Fields PROVE Recovered[g] = hdrPm[g]
      BY <1>r, <1>a
    <3>1. CASE \E k \in 0 .. (n - 1) : logs[k].off = g
      BY <3>1, <1>12, <1>a, <1>b, <1>r DEF RevertEnd, RevertedPrefix
    <3>2. CASE \A k \in 0 .. (n - 1) : logs[k].off # g
      BY <3>2, <1>r
    <3>3. QED
      BY <3>1, <3>2
  <2>3. Recovered' = Recovered /\ WorkingView' = WorkingView
    BY <1>12, <1>a, <1>z, <2>1, <2>2 DEF RevertEnd, WorkingView
  <2>4. QED
    BY <1>12, <2>3, <1>s DEF RevertEnd
<1>13. CASE ResetLog
  \* nothing was mutated: every entry holds the value cache and media hold
  <2>1. \A f \in Fields : hdr[f] = hdrPm[f]
    BY <1>13, <1>a, <1>b DEF ResetLog, DirtyMutated, Dirty
  <2>2. Recovered = hdrPm
    <3> SUFFICES ASSUME NEW g \in Fields PROVE Recovered[g] = hdrPm[g]
      BY <1>r, <1>a
    <3>1. CASE \E k \in 0 .. (n - 1) : logs[k].off = g
      BY <3>1, <2>1, <1>13, <1>b, <1>r DEF ResetLog, EntriesCurrent
    <3>2. CASE \A k \in 0 .. (n - 1) : logs[k].off # g
      BY <3>2, <1>r
    <3>3. QED
      BY <3>1, <3>2
  <2>3. Recovered' = Recovered /\ WorkingView' = WorkingView
    BY <1>13, <1>z, <2>2 DEF ResetLog, WorkingView
  <2>4. QED
    BY <1>13, <2>3, <1>s DEF ResetLog
<1>14. CASE UNCHANGED vars
  BY <1>14, <1>u, <1>s DEF vars, WorkingView
<1>15. QED
  BY <1>1, <1>2, <1>3, <1>4, <1>5, <1>6, <1>7, <1>8, <1>9, <1>10, <1>11,
     <1>12, <1>13, <1>14 DEF Next

(***************************************************************************)
(* Crash atomicity of the undo log, for every set of header fields and     *)
(* values and every bound, when the caller logs each field at most once    *)
(* per transaction, with the restart recovery of spec 4.6: the header     *)
(* recovery would produce changes only when commitLog clears              *)
(* numLogEntries, and then to the header the process wrote; a throw, a     *)
(* revertLog or a crash brings the process back to that header.  The run   *)
(* undo_relog shows that the hypothesis on the caller cannot go.           *)
(***************************************************************************)
THEOREM AtomicRefinement ==
  ASSUME ~CallerRelogs
  PROVE  Spec => AtomicUpdate
<1>1. Init => AtomInv
  BY AtomInit
<1>2. AtomInv /\ [Next]_vars => AtomInv'
  BY AtomNext
<1>3. AtomInv /\ [Next]_vars => [AH!Next]_<<Recovered, WorkingView, pc = "Commit">>
  BY AtomStep
<1>4. Init => AH!Init
  <2> SUFFICES ASSUME Init PROVE AH!Init
    OBVIOUS
  <2>1. Recovered = hdrPm
    BY RecoveredIsRecOf DEF Init, RecOf
  <2>2. QED
    BY <2>1 DEF Init, AH!Init, AH!Header, WorkingView
<1>5. QED
  BY <1>1, <1>2, <1>3, <1>4, PTL DEF Spec, AtomicUpdate, AH!Spec

=============================================================================
