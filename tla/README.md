# Verification of the persistent-memory runtime (go-pmem)

This directory holds TLA+ models of the crash-consistency core of the
persistent-memory extension of the Go runtime. It also holds the TLC
configurations that model-check them and TLAPS proofs about them. The code is
in `src/unnamed/part_000`, `src/unnamed/part_001` and
`src/src/runtime/pmemLog.go`. The design document is `spec.md`.

## 1. The system

| Part | Code | State | Operations |
|---|---|---|---|
| Region manager | `PmallocInit`, `growPmemRegion` (part_000 99-244) | `pmemInfo.initState`; the bitmap windows and usable range in `pmemInfo`; the region header (magic word and size word at `offset`) | argument checks; CAS `initNotDone -> initOngoing`; mapping; first-run detection; size and magic stores; layout; `initDone` |
| Span allocation log | `logSpanAlloc`, `logSpanFree`, `spanLogValue`, `spanLogAddr` (part_001 134-225; older copies in part_000 247-313 and pmemLog.go 75-153) | one 32-bit word per page in the span bitmap | store on allocation (reuse check, idempotent skip, store plus flush with the fence deferred); zero on free (store plus persist) |
| Heap pointer-bitmap log | `logHeapBits`, `pmemHeapBitsAddr`, `clearHeapBits`, `LogAddPtrs` | the type bitmap: direct bytes, or a per-span type descriptor | copy bitmap bytes plus persist; write the descriptor plus one persist; clear |
| Arena undo log | `pArena.logEntry`, `revertLog`, `resetLog`, `commitLog` (part_001 237-292) | `pa.logs[0..1]`, `pa.numLogEntries`, and the header words they protect | log (slot, then count, each persisted); commit (flush words, clear count); revert (restore and persist words, clear count); reset |
| Recovery engine | none in the repository (spec 2) | n/a | spec 4.6: revert every undo log with a count above 0, and rebuild from the logs; the code does neither |
| Arena layout | `pmemHeapBitsAddr`, `spanLogAddr` (pmemLog.go 63-72, 140-153); `pArena.layout()` is not in the repository | the arena header, the type bitmap, the span bitmap and the heap, at fixed offsets from `mapAddr` | address arithmetic only |
| Persistence primitives | stubs at part_000 366-387 | n/a | `PersistRange` = `FlushRange` + `Fence`; all of them throw on this platform |

How the parts interact:

- Everything sits on one memory model. A store goes to the CPU cache.
- A flush plus a fence makes a word durable. The cache may also write any dirty word back at any moment.
- A crash loses the cache and all volatile state.
- PmallocInit runs once per process, before allocations.
- The allocator calls the span and bitmap logs on every persistent allocation and free.
- The undo log protects in-place updates of arena header fields. Spec 4.6 requires it to be reverted at restart.

What makes the system hard:

- Several goroutines may call PmallocInit at the same time.
- A crash can fall between any two stores.
- Unflushed stores reach the media in any order.
- A handler may throw after part of a transaction is done.
- Recovery runs at restart and can itself be interrupted by a crash.

## 2. Modules

| Module | Models | Notes |
|---|---|---|
| `AtomicHeader` | the abstract contract of an atomically updated header | A durable header, a working copy and a commit phase. The durable header changes only by a commit, to the working copy. |
| `PmemUndoLog` | the undo log, its caller (spec 4.5), cache write-back, crash and restart recovery (spec 4.6) | Each handler is split at its `PersistRange` calls: `LogEntryWrite`/`LogEntryCount`, `CommitBegin`/`Step`/`End`, `RevertBegin`/`Step`/`End`, `ResetLog`. `hdr` is the cache and `hdrPm` the media. The log slots and the count are always persisted in the same step that writes them, so they are kept once. A throw (`LogEntryFull`) ends the process. |
| `PmemUndoLogProofs` | TLAPS proofs about `PmemUndoLog` | |
| `PmemInit` | PmallocInit with concurrent goroutines | The state is `initState`, `info` (the `pmemInfo` windows and range, relative to the mapped address), `mapped`, per-goroutine step, arguments and result, the header words `hdr`/`hdrPm` per header offset, and a crash counter. See the notes after this table. |
| `PmemInitProofs`, `PmemInitOwnerProofs` | TLAPS proofs about `PmemInit` | |
| `PmemSpanLog` | `logSpanAlloc`, `logSpanFree`, `spanLogValue`, `spanLogAddr` (part_001 134-225), goroutines that allocate and free spans, the fence at the end of `mallocgc`, write-back, crash and the spec 4.6 rebuild | See the notes below. |
| `PmemSpanLogProofs` | TLAPS proofs about `PmemSpanLog` | `spanLogValue`, and the span log's invariants for every bound. |
| `PmemArenaAddr` | the arena address layout: `arenaStart`, the type bitmap (`typeBitsAddr`, `pmemHeapBitsAddr`) and the span bitmap (`spanBitmap`, `spanLogAddr`) of pmemLog.go | The pair `(mdSize, allocSize)` that `layout()` returns is a pair of constants. `LayoutContract` (spec 4.2 and 6) says both are whole pages, the heap has a page, and header plus both bitmaps fit in the metadata. |
| `PmemArenaAddrProofs` | TLAPS proofs about `PmemArenaAddr` | |
| `PmemSpanLogGo` | the pmemLog.go copy of `logSpanAlloc`, `logSpanFree`, `spanLogValue` (pmemLog.go 74-153) over the addresses of `PmemArenaAddr` | See the notes below. |
| `PmemSpanLogGoProofs` | TLAPS proofs about `PmemSpanLogGo` | |
| `PmemHeapBits` | direct-mode `logHeapBits`, `clearHeapBits` and `pmemHeapBitsAddr` (pmemLog.go 21-72) over the objects of one span | The type bitmap is kept per 8-byte word: `bits` in the cache, `bitsPm` on the media, `heap` the runtime's volatile heap bitmap. Byte ranges are computed exactly as the code does (`addr / 32`, `size / 32`, `endByte - startByte + 1`), so straddling bytes are real. |
| `PmemHeapBitsProofs` | TLAPS proofs about `PmemHeapBits` | |
| `PmemTypeDesc` | the optimized branch of `logHeapBits` (part_001 60-102) per span | Each descriptor field (type index, kind, size, ptrdata, gcdata mask) is abstracted to the type it was written for. The stores go to the cache in one step, `DescPersist` is the `PersistRange`; write-back and crash as elsewhere. |
| `PmemTypeDescProofs` | TLAPS proofs about `PmemTypeDesc` | |
| `MCPmemUndoLog`, `MCPmemInit`, `MCPmemSpanLog`, `MCPmemSpanLogGo`, `MCPmemHeapBits`, `MCPmemTypeDesc` | TLC instances | model values and symmetry |

Notes on `PmemInit`:

- Sizes and offsets are the code's byte values: 64 MiB units and a page size of 8192.
- A call is split where it touches shared state:
  - `Call`: the argument checks and the CAS;
  - `Map`: `growPmemRegion`, which succeeds or fails;
  - `Check`: reads the magic, then either rejects a size mismatch, accepts the header, or stores the size;
  - `WriteMagic`;
  - `Finish`: the windows, `endAddr` and `initDone`.
- The ghost `magicSize` records the size that the call which stored the magic had stored.

Notes on `PmemSpanLog`:

- A span is a descriptor record: large or small, span class `spc`, page count, the `optTypeLog` bit and the `needzero` bit. `spanLogValue` is the code's packing of it; `spanLogAddr` is the index of the span's first page (the code's address is `spanBitmap + pageOffset * 4`, one word per page).
- `slot` is the span word as the CPU sees it, `slotPm` the word on the media, `live` the allocator's view (the span starting at each page, or `Free`).
- `Alloc` is all of `logSpanAlloc`: the reuse check on `v >> 2` throws, equal low bits return, else store plus flush. The flushed word becomes durable at `MallocEnd`, the store fence at the end of `mallocgc`.
- `FreeBegin` is the store of 0 and `FreeEnd` the `PersistRange`.
- A span word is a `uint32`, so `Words` is `0 .. 2^32 - 1`. TLC cannot enumerate that set, so no run checks `TypeOK`; `PmemSpanLogProofs` proves the typing instead.
- `Crash` loses the cache and rebuilds `live` from the durable words (`Rebuilt`, spec 4.6: a non-zero word is decoded back to its span).

Notes on `PmemSpanLogGo`:

- pmemLog.go is an older copy of the span log, and it differs from part_001 in three ways. Its word is `spc<<1 | needzero`, or `(66+npages-4)<<2 | spc<<1 | needzero` for a large span; there is no `optTypeLog` bit. The reuse check compares `v >> 1`. `logSpanAlloc` ends with its own `PersistRange` (`AllocPersist`), with no fence left to `mallocgc`.
- The words are addressed as the code addresses them: `LogAddr(b)` is `spanLogAddr` of the span's base over the arena of `PmemArenaAddr`, and `slot`/`slotPm` are functions of those addresses.
- `AllocatorGives` is the allocator contract (spec 5), as in `PmemSpanLog`. It hands out free pages that no live span covers, or a live small span again for its class.
- The memtype checks that throw for a non-persistent span are left out: the allocator calls both functions for persistent spans only.

Notes on restart in `PmemUndoLog`: the repository has no recovery code, and the spec describes it as unimplemented upstream. `Restart` is the spec 4.6 contract: recovery runs `revertLog` before anything else (`pc = "Recover"`). Without any recovery, no undo log could give atomic updates, so the project checks the log under that contract and does not check the absence of recovery.

Refinement: `PmemUndoLog` instantiates `AtomicHeader` with this mapping:

- `durable <- Recovered`: the header `revertLog` would produce after a crash now;
- `working <- WorkingView`;
- `committing <- (pc = "Commit")`.

## 3. Runs

| Run | cfg | Expect | Checks |
|---|---|---|---|
| undo_wal | `MCPmemUndoLog.cfg` | pass | `TypeOK`; `LogCoversDirty`: every word whose cached value differs from the media is covered by a counted entry. |
| undo_atomic | `MCPmemUndoLogAtomic.cfg` | pass | `AtomicUpdate`: the model refines `AtomicHeader`; `RecoveryCompletes`: after a restart, `revertLog` eventually returns with `numLogEntries = 0`, under `FairSpec`. |
| undo_relog | `MCPmemUndoLogRelog.cfg` | violation | `AtomicUpdate` when the caller may log a word twice in one transaction. |
| init_safety | `MCPmemInit.cfg` | pass | `TypeOK`, `AtMostOneInit`, `InitStateConsistent`, `UsableRangeInRegion` |
| init_header | `MCPmemInitHeader.cfg` | violation | `MagicImpliesSize` |
| heap_bits | `MCPmemHeapBits.cfg` | pass | `ObjectBitsDurable`: once `logHeapBits` or `clearHeapBits` returned for an allocated object, the media bitmap gives exactly its pointer words. |
| heap_bits_unaligned | `MCPmemHeapBitsUnaligned.cfg` | violation | `ObjectBitsDurable` with 48-byte objects. |
| type_desc | `MCPmemTypeDesc.cfg` | pass | `DescriptorDurable`: once `logHeapBits` returned for a span, its whole descriptor is durable. |
| type_desc_torn | `MCPmemTypeDescTorn.cfg` | violation | `DescriptorWhole`: a durable non-zero type index always comes with its own fields. |
| span_log | `MCPmemSpanLog.cfg` | pass | `DurableLogMatches`: for every page no goroutine is logging, the durable word encodes the live span (0 when free); `NoMismatchThrow`: the reuse check never throws. |
| span_log_go | `MCPmemSpanLogGo.cfg` | pass | the same two properties for the pmemLog.go copy, with words at the addresses `spanLogAddr` gives. |

Bounds for the undo-log runs:

- 3 header words, so a third `logEntry` reaches the full-log throw.
- Values {0, 1}.
- At most 3 closed transactions and 2 crashes, so a crash during recovery happens too.
- Symmetry over the words, except in undo_atomic, which checks a liveness property.

Bounds for the init runs:

- 2 goroutines, so the CAS race happens.
- Sizes of 64 and 128 MiB.
- Offsets 0, 4096, 8192 and 64 MiB:
  - 4096 fails the alignment check;
  - 8192 with 64 MiB fails the minimum-size check;
  - 64 MiB is accepted only with 128 MiB, and puts the header at a second place.
- 1 crash.

Bounds for the span-log run:

- 2 goroutines and 5 pages, so a large span (at least 5 pages, the smallest `npages` a large span of this runtime has) and small spans compete for the same pages, and two logging operations overlap.
- Small spans of class 2 with every `optTypeLog`/`needzero` pair, so reuse hits both the skip and the store path; large spans of class 0 and 1.
- 1 crash, so the rebuild from a word whose flush had no fence yet happens.
- Symmetry over the goroutines.

Bounds for the pmemLog.go span-log run:

- An arena mapped at 0 with a 64-byte header, one page of metadata and 6 heap pages (`AllocSize = 49152`), so the span bitmap sits at 64 + 1536 and a large span of 5 pages leaves one page free.
- 2 goroutines; small spans of class 2 and 1 page with both `needzero` bits, so reuse hits both the skip and the store; large spans of class 0 and 1.
- 1 crash; symmetry over the goroutines.

Bounds for the heap-bits runs:

- 3 objects of 64 bytes (2 bitmap bytes each), or of 48 bytes (objects straddle bitmap bytes).
- Pointer patterns: none, first word, last word; the media starts all clear or all set (stale bits of an earlier scan span).
- The span switches between scan and noscan when all its objects are free, so a noscan object lands on stale pointer bits.

Bounds for the type-descriptor runs: 2 spans (symmetric), 2 types, 1 crash, so a span is reused for another type and a crash falls between the stores and the `PersistRange`.

Fairness: only undo_atomic assumes any. `FairSpec` adds weak fairness of `Reverting`, the steps of `revertLog` (begin, loop body, end) while `pc` is `Recover` or `Revert`. `revertLog` is a loop of one goroutine with no lock and no wait, so once called it keeps being scheduled until it returns. Nothing is assumed of the caller, of write-backs or of crashes. With crashes bounded by `MaxCrashes`, a crash in the middle of recovery restarts it, and recovery still ends. Without the fairness TLC finds a behaviour that stays at `Recover`, and with `RevertEnd` not clearing the count it finds one that never reaches a clear log. The run has no symmetry, since TLC's symmetry reduction is unsound for liveness.

Deadlock checking:

- It is off for the undo log. The caller closes a bounded number of transactions, after which the system stops by design.
- It is on for the init runs.

### Results

**heap_bits_unaligned (a divergence from spec 4.4).** `clearHeapBits` computes `size / bytesPerBitmapByte` and returns normally for any size (pmemLog.go 56); its comment says it "expects size to be a multiple of bytesPerBitmapByte", and spec 4.4 says anything else is an `InvalidArgumentError`. For a 48-byte size class the call clears one bitmap byte, so a noscan object that reuses memory keeps the stale pointer bits of its words 4 and 5 on the media. Recovery would take that data for pointers.

**type_desc_torn (a gap in spec 4.4/4.6).** The descriptor fields are plain stores with one `PersistRange` at the end (part_001 65-102). A crash during the first `logHeapBits` of a new or reused span can leave a durable type index beside zero or earlier-type fields. Spec 7 treats a self-inconsistent log entry as corruption; the spec does not say how recovery tells this crash window from corruption.

**undo_relog (a code bug).** `logEntry` does not reject an address already logged in the open transaction, and `revertLog` replays the slots in order. So after `logEntry(a)`, a mutation, and `logEntry(a)` again, recovery would restore the intermediate value. Spec 8 says revert restores the pre-mutation value. TLC finds the recovered header changing outside a commit.

**init_header (a divergence from spec 4.1).** On a first run the size and magic words are plain stores, with "todo persist" comments (part_000 168-173). The platform guarantees only 8-byte failure atomicity and orders nothing without a fence, so the magic can reach the media while the size word is stale. The next run with the same size then fails with a size mismatch, every time. Spec 4.1 requires size-before-magic ordering.

## 4. Proofs

`PmemUndoLogProofs.TypeCorrect`: `Spec => []TypeOK` for every set of words and values and every bound.

- `TypeOK` is not inductive: `LogEntryCount` needs a free slot.
- The proof uses `TypeInv == TypeOK /\ (pc = "LogCount" => numLogEntries < maxLogEntries)`.
- It proves three things: `Init => TypeInv`, one step per action for `TypeInv /\ [Next]_vars => TypeInv'`, and `TypeInv => TypeOK`.

`PmemSpanLogProofs.SpanLogValueSound`: for every two descriptors the constants admit, the word is non-zero, equal words mean the same span, and the upper 30 bits agree exactly when class and size agree. It rests on two lemmas: the ranges of the two encodings (small words lie in 8..535, large words are at least 536) and the split of a word by `\div 4` and `% 4`.

`PmemInitProofs.LayoutSound`: for every size and offset that pass `ArgsOK`, the layout is ordered and `end = size - 1`. The argument names the page counts (`offset = k * 8192`, `size = T * 8192`), shows that the rounded-up header takes `Q` pages with `1 <= Q < T - k`, and rewrites each field of `Layout` in `k`, `T` and `Q`.

`PmemInitProofs.UsableRange`: `Spec => []UsableRangeInRegion`. The inductive invariant `LayoutInv` says that a goroutine past the compare-and-swap holds arguments that passed `ArgsOK`, and that an installed layout is `Layout(s, o)` of such arguments. `UsableRangeInRegion` alone is not inductive: `Finish` installs the layout of the owner's arguments, so the invariant must know they were checked.

`PmemInitOwnerProofs.SingleInitialiser` and `InitStateTruthful`: `Spec => []AtMostOneInit` and `Spec => []InitStateConsistent`. Both rest on `OwnerInv`: at most one goroutine is in an owner step, `initState` is `initOngoing` exactly when one is, `initDone` exactly when `successes = 1`, and `mapped` exactly when initialised or an owner is past `Map`. `AtMostOneInit` needs the uniqueness of the owner and the link between `initState` and `successes`; the cardinality step uses `FS_Singleton` and `FS_EmptySet`.

`PmemTypeDescProofs.DescriptorDurableInvariant`: `Spec => []DescriptorDurable` for every set of spans, number of types and crash bound. The inductive invariant `DescInv` adds two facts: a call at its `PersistRange` has the span's whole descriptor in the cache, and a span whose call returned is allocated with its descriptor both in the cache and on the media. The cache half is needed because write-back copies the cache to the media and a crash copies the media back to the cache.

`PmemArenaAddrProofs.LogWindowsSeparate`: for every layout that satisfies `LayoutContract`, `pmemHeapBitsAddr` of a heap address lies in the type bitmap, before the span bitmap. `spanLogAddr` of page `p` is `spanBitmap + 4p`, and its word ends before the heap. Distinct pages get disjoint words. The argument names the page count `n` (`allocSize = 8192n`, so the type bitmap has `256n` bytes), then bounds each offset.

`PmemSpanLogGoProofs.DurableLogMatchesGo` and `NoMismatchThrowGo`: `Spec => []DurableLogMatches` and `Spec => []NoMismatchThrow` for the pmemLog.go span log, for every layout, set of goroutines, set of spans and crash bound.

- The inductive invariant is `GoInv`. It has five parts besides `TypeOK`:
  - every page word, in the cache and on the media, is 0 or some span's encoding, which makes recovery's `Decode` return a span with that word;
  - at most one goroutine works on a page;
  - a goroutine at `AllocPersist` has the span's word in the cache;
  - a goroutine at `FreeEnd` has 0 in the cache;
  - every page not being logged has the live span's word both in the cache and on the media.
- The cache half is needed because a crash copies the media to the cache and a write-back copies the cache to the media.
- Each action has its own lemma. The lemmas rest on `LogAddrInjective`, from `LogWindowsSeparate`: distinct pages never share a word.
- `NoMismatchThrowGo` adds `AllocNoThrow`. A non-zero word at a page the allocator hands out belongs to the live small span of the same class, so its upper 31 bits are the class (`SmallClass`).

`PmemUndoLogProofs.DirtyCovered`: `Spec => []LogCoversDirty`, for every set of words and values and every bound. `LogCoversDirty` alone is not inductive: a write-back, a crash or a throw in the middle of `commitLog` or `revertLog` needs to know more. The inductive invariant `WalInv` adds these conjuncts to `TypeInv`:

- `TxLogged`: every field of the open transaction has a counted entry, or is the slot `LogEntryCount` is about to count;
- `DirtyMutated`: outside commit and revert, a dirty word was mutated in the transaction;
- `DirtyAhead`: during commit or revert, every dirty word has an entry at or after the loop index `i`, so the loop still reaches it;
- `NoOpenTx`: commit, revert and recovery run with no transaction open.

`PmemUndoLogProofs.AtomicRefinement`: `PmemUndoLog` implements `AtomicHeader` under the refinement mapping above. The theorem has one hypothesis, `~CallerRelogs`: the caller logs each field once per transaction. undo_relog shows the refinement failing otherwise. The restart is the spec 4.6 recovery, as in the model.

The proof goes as follows:

- `RecOf(L, m, P)` is a constant-level form of `Recovered`. One lemma then serves both before and after a step.
- `RecOfFacts` says what recovery gives a field. With distinct offsets it is the entry's value if logged, the media value otherwise.
- The inductive invariant `AtomInv` is `WalInv` plus five conjuncts:
  - `LogDistinct`: counted entries name distinct words;
  - `MutatedLogged`: a mutated word was logged;
  - `EntriesCurrent`: a logged word that is not yet mutated still holds its entry's value;
  - `PendingFresh`: the slot written but not yet counted is a fresh field of the transaction;
  - `RevertedPrefix`: the entries `revertLog` has replayed are clean on the media.
- `AtomStep` shows that every step maps to an `AtomicHeader` step or a stutter of `<<Recovered, WorkingView, pc = "Commit">>`.
- `RecoveryCompletes` is liveness and stays with TLC.

`PmemSpanLogProofs.DurableLogMatchesProof` and `NoMismatchThrowProof`: `Spec => []DurableLogMatches` and `Spec => []NoMismatchThrow` for the part_001 span log, for every set of goroutines, pages, descriptors and crash bound. They follow the argument of `PmemSpanLogGoProofs`. The inductive invariant `SpanInv` has these parts:

- `WordsEncoded`: every word, in the cache and on the media, is 0 or `Enc` of a span;
- `Owned`: at most one goroutine works on a page;
- `FlushedOwn`: a goroutine's flushed words are only the word of its own span, while it is in `Malloc`;
- `MallocPending`: a goroutine between `logSpanAlloc` and the fence of `mallocgc` has its span's word in the cache, and on the media too unless the word is among its flushed ones;
- `FreePending`: a goroutine between the store of 0 and its `PersistRange` has 0 in the cache;
- `Settled`: a page nobody is logging has the live span's word in the cache and on the media.

The lemmas on `spanLogValue` (`ValueInWords`, `DecodeOK`, `SmallClass`, and `LargeWordBound` for the page-count term) let `Rebuilt` decode each durable word back to its span.

`PmemInitProofs.TypeCorrect`: `Spec => []TypeOK` for `PmemInit`. It rests on `TypeInv == TypeOK /\ LayoutInv`:

- `Check` and `WriteMagic` store into the header at the owner's offset. That offset is a header offset only because the owner's arguments passed `ArgsOK`.
- `Finish` installs a typed layout by `LayoutTyped`: `start < end` forces at least one usable page, so no window end goes negative.
- `InitConstAssumption` requires the argument sets to be non-empty, so that `Init`'s arguments are arguments.

`PmemHeapBitsProofs.ObjectBitsDurableProof`: `Spec => []ObjectBitsDurable` for every size class that is a multiple of 32 bytes (`SizeAligned`), every span size and every set of pointer patterns. The hypothesis is needed: heap_bits_unaligned shows the property failing for the 48-byte class. The argument:

- `Geometry` writes object `o`'s bytes and words in `k = size / 32`: bytes `o*k .. o*k + k - 1`, words `4*o*k ..`.
- `ObjRange` shows that the bytes `logHeapBits` and `clearHeapBits` copy describe exactly the object's words. `WordOfInjective` shows that no two objects share a word.
- `CopyObj` combines them: copying one object's bytes changes exactly that object's words.
- The inductive invariant `HBInv` adds three facts. A logged object is allocated. The object of a call in progress is allocated, not yet logged, and its pattern is already in the cache. A logged object's pattern is both in the cache and on the media. The cache half is needed because a write-back copies the cache to the media.

The following stay with TLC, because TLAPS cannot prove them:

- liveness and anything using ENABLED (`RecoveryCompletes` is model-checked only);
- facts about what recursive definitions compute for every input;
- every module that declares a RECURSIVE operator. None does.

## 5. Not modelled

- **The allocator's seeding of the free span** in `growPmemRegion` is reduced to success or failure. It belongs to the external allocator.
- **`pArena.layout()` and arena growth** are not in the repository. The address arithmetic built on `layout()` is modelled in `PmemArenaAddr`, with the result of `layout()` as constants.
- **The memtype checks** at the top of `logHeapBits`, `clearHeapBits`, `logSpanAlloc` and `logSpanFree` throw for a non-persistent span. The allocator never passes one.
- **The persistence primitives** are throwing stubs. Their contract is the memory model above.
- **Recovery** has no code in the repository. The undo-log model's restart runs `revertLog` as spec 4.6 describes. Span-log and bitmap reconstruction have no code: the span-log models rebuild the allocator from the durable words as spec 4.6 describes.

## 6. Plan

1. Models:
   - `LogAddPtrs` as an algorithm over heap bits, checked against a reference definition;
   - a composition of the span log and the type descriptor, so that the span word's `optTypeLog` bit and the descriptor are checked together across a crash.
2. Proofs:
   - `MagicImpliesSize` is violated by the code. The `PmemInit` model with size and magic persisted in order could be proved once the code persists them.
   - `RecoveryCompletes` stays a TLC property, because it is liveness.
