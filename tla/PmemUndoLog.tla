----------------------------- MODULE PmemUndoLog -----------------------------
(***************************************************************************)
(* The arena undo log (src/unnamed/part_001, pArena.logEntry, revertLog,   *)
(* resetLog, commitLog): a write-ahead log of at most maxLogEntries        *)
(* previous values, kept in the persistent arena header, that makes an     *)
(* in-place update of header fields atomic with respect to crashes.        *)
(*                                                                         *)
(* Memory is modelled at the granularity of one header word.  hdr is what  *)
(* the CPU sees (cache), hdrPm what is on the persistent media.  A store   *)
(* goes to the cache; PersistRange (flush + fence) copies it to the media  *)
(* before the next step; the cache may also write a dirty word back to the *)
(* media at any moment (WriteBack).  A crash loses the cache.  The log     *)
(* entries and numLogEntries are always stored and persisted in the same   *)
(* step, so they are kept in one copy.                                     *)
(*                                                                         *)
(* The caller of the log (the code that updates arena header fields) is    *)
(* not in the repository; it is modelled from the contract of spec 4.5:    *)
(* log a field before mutating it, mutate only logged fields, close the    *)
(* transaction with exactly one of commit, revert or reset, and reset only *)
(* when nothing was mutated.  Recovery is modelled from spec 4.6: after a  *)
(* restart revertLog runs before the arena is used (the repository has    *)
(* no recovery code yet, spec 2).                                          *)
(***************************************************************************)
EXTENDS Naturals, FiniteSets

CONSTANTS
  Fields,       \* header words that callers update through the log
  Vals,         \* values a header word may hold
  CallerRelogs, \* whether a caller may log the same field twice in one transaction
  MaxTx,        \* bound on the number of transactions the caller closes
  MaxCrashes    \* bound on the number of crashes

ASSUME ConstAssumption ==
  /\ Fields # {} /\ IsFiniteSet(Fields)
  /\ Vals # {}
  /\ CallerRelogs \in BOOLEAN
  /\ MaxTx \in Nat /\ MaxCrashes \in Nat

\* maxLogEntries (part_001 line 18): the arena header has two log slots.
maxLogEntries == 2

LogIdx == 0 .. (maxLogEntries - 1)

\* logEntry (part_001 lines 9-14): offset of the logged word and its value.
LogEntry == [off : Fields, val : Vals]

VARIABLES
  hdr,           \* header words as the CPU sees them
  hdrPm,         \* header words on the persistent media
  logs,          \* pa.logs: the log slots (persisted when written)
  numLogEntries, \* pa.numLogEntries (persisted when written)
  pc,            \* which handler step runs next
  i,             \* loop index of commitLog and revertLog
  txFields,      \* caller: the fields it logged in the open transaction
  mutated,       \* caller: the fields it mutated in the open transaction
  txCount,       \* caller: transactions closed so far (bounded)
  crashes        \* crashes so far (bounded)

vars == <<hdr, hdrPm, logs, numLogEntries, pc, i, txFields, mutated, txCount, crashes>>

PCs == {"Idle", "LogCount", "Commit", "Revert", "Recover"}

TypeOK ==
  /\ hdr \in [Fields -> Vals]
  /\ hdrPm \in [Fields -> Vals]
  /\ logs \in [LogIdx -> LogEntry]
  /\ numLogEntries \in 0 .. maxLogEntries
  /\ pc \in PCs
  /\ i \in 0 .. maxLogEntries
  /\ txFields \subseteq Fields
  /\ mutated \subseteq Fields
  /\ txCount \in 0 .. MaxTx
  /\ crashes \in 0 .. MaxCrashes

(***************************************************************************)
(* The header a restart would see once recovery (revertLog) has run: the   *)
(* counted entries are copied back in slot order, so for a field logged    *)
(* several times the entry in the highest slot wins.                       *)
(***************************************************************************)
CountedIdx(f) == {k \in 0 .. (numLogEntries - 1) : logs[k].off = f}

LastIdx(S) == CHOOSE k \in S : \A j \in S : j <= k

Recovered ==
  [f \in Fields |-> IF CountedIdx(f) = {} THEN hdrPm[f]
                                          ELSE logs[LastIdx(CountedIdx(f))].val]

Init ==
  /\ hdrPm \in [Fields -> Vals]
  /\ hdr = hdrPm
  /\ logs \in [LogIdx -> LogEntry]   \* stale slots of earlier transactions
  /\ numLogEntries = 0
  /\ pc = "Idle"
  /\ i = 0
  /\ txFields = {}
  /\ mutated = {}
  /\ txCount = 0
  /\ crashes = 0

(***************************************************************************)
(* Process restart: the cache is lost, the caller's transaction with it,  *)
(* and recovery (spec 4.6) runs revertLog before anything else.           *)
(***************************************************************************)
Restart ==
  /\ hdr' = hdrPm
  /\ pc' = "Recover"
  /\ i' = 0
  /\ txFields' = {}
  /\ mutated' = {}

\* The caller closes its transaction.
CloseTx ==
  /\ txFields # {}
  /\ txCount < MaxTx
  /\ txFields' = {}
  /\ mutated' = {}
  /\ txCount' = txCount + 1

(***************************************************************************)
(* Plausible bugs of the handlers below, each the body of a handler with   *)
(* one thing changed; the properties are checked to detect them.           *)
(***************************************************************************)
\* logEntry without the ind == maxLogEntries check.
LogEntryWriteNoFullCheck(f) ==
  /\ pc = "Idle"
  /\ txCount < MaxTx
  /\ CallerRelogs \/ f \notin txFields
  /\ logs' = [logs EXCEPT ![numLogEntries] = [off |-> f, val |-> hdr[f]]]
  /\ pc' = "LogCount"
  /\ txFields' = txFields \cup {f}
  /\ UNCHANGED <<hdr, hdrPm, numLogEntries, i, mutated, txCount, crashes>>

\* commitLog that clears numLogEntries without flushing the logged words.
CommitEndNoFlush ==
  /\ pc = "Commit"
  /\ numLogEntries' = 0
  /\ pc' = "Idle"
  /\ UNCHANGED <<hdr, hdrPm, logs, i, txFields, mutated, txCount, crashes>>

\* revertLog that copies the old value back without persisting it.
RevertStepNoPersist ==
  /\ pc = "Revert"
  /\ i < numLogEntries
  /\ hdr' = [hdr EXCEPT ![logs[i].off] = logs[i].val]
  /\ i' = i + 1
  /\ UNCHANGED <<hdrPm, logs, numLogEntries, pc, txFields, mutated, txCount, crashes>>

\* revertLog that leaves numLogEntries as it is after the loop.
RevertEndNoClear ==
  /\ pc = "Revert"
  /\ i >= numLogEntries
  /\ pc' = "Idle"
  /\ UNCHANGED <<hdr, hdrPm, logs, numLogEntries, i, txFields, mutated, txCount, crashes>>

(***************************************************************************)
(* pa.logEntry(addr), first part: ind := numLogEntries; record off and the *)
(* current value of the word in logs[ind] and persist the slot.            *)
(***************************************************************************)
LogEntryWrite(f) ==
  /\ pc = "Idle"
  /\ txCount < MaxTx
  /\ CallerRelogs \/ f \notin txFields
  /\ numLogEntries # maxLogEntries
  /\ logs' = [logs EXCEPT ![numLogEntries] = [off |-> f, val |-> hdr[f]]]
  /\ pc' = "LogCount"
  /\ txFields' = txFields \cup {f}
  /\ UNCHANGED <<hdr, hdrPm, numLogEntries, i, mutated, txCount, crashes>>

\* pa.logEntry, second part: numLogEntries := ind + 1, persisted.
LogEntryCount ==
  /\ pc = "LogCount"
  /\ numLogEntries' = numLogEntries + 1
  /\ pc' = "Idle"
  /\ UNCHANGED <<hdr, hdrPm, logs, i, txFields, mutated, txCount, crashes>>

\* pa.logEntry with ind = maxLogEntries: throw, which terminates the process.
LogEntryFull(f) ==
  /\ pc = "Idle"
  /\ CallerRelogs \/ f \notin txFields
  /\ numLogEntries = maxLogEntries
  /\ CloseTx
  /\ Restart
  /\ UNCHANGED <<hdrPm, logs, numLogEntries, crashes>>

\* The caller stores a new value into a field it has logged.
Mutate(f, v) ==
  /\ pc = "Idle"
  /\ f \in txFields
  /\ hdr' = [hdr EXCEPT ![f] = v]
  /\ mutated' = mutated \cup {f}
  /\ UNCHANGED <<hdrPm, logs, numLogEntries, pc, i, txFields, txCount, crashes>>

\* pa.commitLog() is called.
CommitBegin ==
  /\ pc = "Idle"
  /\ CloseTx
  /\ pc' = "Commit"
  /\ i' = 0
  /\ UNCHANGED <<hdr, hdrPm, logs, numLogEntries, crashes>>

\* commitLog loop body: PersistRange on the logged word of slot i.
CommitStep ==
  /\ pc = "Commit"
  /\ i < numLogEntries
  /\ hdrPm' = [hdrPm EXCEPT ![logs[i].off] = hdr[logs[i].off]]
  /\ i' = i + 1
  /\ UNCHANGED <<hdr, logs, numLogEntries, pc, txFields, mutated, txCount, crashes>>

\* commitLog after the loop: numLogEntries := 0, persisted.
CommitEnd ==
  /\ pc = "Commit"
  /\ i >= numLogEntries
  /\ numLogEntries' = 0
  /\ pc' = "Idle"
  /\ UNCHANGED <<hdr, hdrPm, logs, i, txFields, mutated, txCount, crashes>>

(***************************************************************************)
(* pa.revertLog() is called, by the caller closing its transaction or by   *)
(* recovery after a restart.  It returns at once when no entry is logged.  *)
(***************************************************************************)
RevertBegin ==
  /\ \/ pc = "Idle" /\ CloseTx
     \/ pc = "Recover" /\ UNCHANGED <<txFields, mutated, txCount>>
  /\ pc' = IF numLogEntries = 0 THEN "Idle" ELSE "Revert"
  /\ i' = 0
  /\ UNCHANGED <<hdr, hdrPm, logs, numLogEntries, crashes>>

\* revertLog loop body: copy logs[i].val back to its word and persist it.
RevertStep ==
  /\ pc = "Revert"
  /\ i < numLogEntries
  /\ hdr' = [hdr EXCEPT ![logs[i].off] = logs[i].val]
  /\ hdrPm' = [hdrPm EXCEPT ![logs[i].off] = logs[i].val]
  /\ i' = i + 1
  /\ UNCHANGED <<logs, numLogEntries, pc, txFields, mutated, txCount, crashes>>

\* revertLog after the loop: numLogEntries := 0, persisted.
RevertEnd ==
  /\ pc = "Revert"
  /\ i >= numLogEntries
  /\ numLogEntries' = 0
  /\ pc' = "Idle"
  /\ UNCHANGED <<hdr, hdrPm, logs, i, txFields, mutated, txCount, crashes>>

\* pa.resetLog(): numLogEntries := 0, persisted; used only when nothing was mutated.
ResetLog ==
  /\ pc = "Idle"
  /\ mutated = {}
  /\ CloseTx
  /\ numLogEntries' = 0
  /\ UNCHANGED <<hdr, hdrPm, logs, pc, i, crashes>>

\* The cache writes a dirty header word back to the media on its own.
WriteBack(f) ==
  /\ hdr[f] # hdrPm[f]
  /\ hdrPm' = [hdrPm EXCEPT ![f] = hdr[f]]
  /\ UNCHANGED <<hdr, logs, numLogEntries, pc, i, txFields, mutated, txCount, crashes>>

\* Power failure or process crash at any point between two steps.
Crash ==
  /\ crashes < MaxCrashes
  /\ crashes' = crashes + 1
  /\ Restart
  /\ UNCHANGED <<hdrPm, logs, numLogEntries, txCount>>

Next ==
  \/ \E f \in Fields : LogEntryWrite(f) \/ LogEntryFull(f) \/ WriteBack(f)
  \/ LogEntryCount
  \/ \E f \in Fields, v \in Vals : Mutate(f, v)
  \/ CommitBegin \/ CommitStep \/ CommitEnd
  \/ RevertBegin \/ RevertStep \/ RevertEnd
  \/ ResetLog
  \/ Crash

Spec == Init /\ [][Next]_vars

(***************************************************************************)
(* revertLog is a loop of one goroutine with no lock and no wait: once    *)
(* called, by recovery or by the caller, it keeps being scheduled until it *)
(* returns.  Nothing else is assumed to make progress.                     *)
(***************************************************************************)
Reverting == pc \in {"Recover", "Revert"} /\ (RevertBegin \/ RevertStep \/ RevertEnd)

FairSpec == Spec /\ WF_vars(Reverting)

-----------------------------------------------------------------------------
(***************************************************************************)
(* Write-ahead rule: a header word whose cached value differs from the     *)
(* media copy (so that a write-back or a crash can change what is on the   *)
(* media) is always covered by a counted log entry.  It is what lets       *)
(* logEntry persist the slot before numLogEntries, and commitLog flush the *)
(* words before clearing numLogEntries, be enough.                         *)
(***************************************************************************)
LogCoversDirty ==
  \A f \in Fields : hdr[f] # hdrPm[f] => CountedIdx(f) # {}

(***************************************************************************)
(* Recovery terminates: after a restart the process reaches a state where *)
(* revertLog has returned and numLogEntries is 0 on the media, however    *)
(* many of the allowed crashes interrupt it, so the arena is eventually   *)
(* usable with no uncommitted transaction left in its log.                *)
(***************************************************************************)
RecoveryCompletes == pc = "Recover" ~> (pc = "Idle" /\ numLogEntries = 0)

(***************************************************************************)
(* Crash atomicity, as a refinement: the header recovery would produce     *)
(* (Recovered) and the header the process works on behave as AtomicHeader: *)
(* the recovered header changes only when a commitLog the caller called   *)
(* clears numLogEntries, and then to the values the caller wrote; a crash, *)
(* a throw or revertLog brings the working header back to the recovered    *)
(* one.                                                                    *)
(***************************************************************************)
WorkingView == IF pc \in {"Recover", "Revert"} THEN Recovered ELSE hdr

AH == INSTANCE AtomicHeader
        WITH durable <- Recovered, working <- WorkingView, committing <- (pc = "Commit")

AtomicUpdate == AH!Spec
=============================================================================
