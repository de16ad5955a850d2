------------------------------- MODULE PmemInit -------------------------------
(***************************************************************************)
(* The region manager (src/unnamed/part_000, PmallocInit and               *)
(* growPmemRegion): goroutines of one process call PmallocInit(fname,      *)
(* size, offset) concurrently; a compare-and-swap on pmemInfo.initState    *)
(* admits one of them, which maps the file, detects a first run from the   *)
(* magic word of the region header, writes size and magic on a first run,  *)
(* installs the bitmap windows and the usable range, and sets initDone.    *)
(*                                                                         *)
(* Sizes and offsets are the code's byte values.  Addresses are relative   *)
(* to the address the file is mapped at.  The region header is kept per    *)
(* header offset, once as the CPU sees it (hdr) and once on the media      *)
(* (hdrPm); the two header words are plain stores with no flush, and the  *)
(* cache writes each word back on its own (WriteBack).  A crash ends the   *)
(* process: the cache and every volatile variable are lost.                *)
(***************************************************************************)
EXTENDS Integers, FiniteSets

CONSTANTS
  Threads,     \* goroutines that call PmallocInit
  ReqSizes,    \* values of the size argument
  Offsets,     \* values of the offset argument
  MaxCrashes   \* bound on the number of crashes

\* Constants of part_000 lines 8-47 and of the Go runtime (pageShift = 13).
pageShift == 13
pageSize == 2 ^ pageShift
logBytesPerPage == 4
pmemHdrMagic == 180149434   \* 0xABCDCBA
pmemHdrSize == 16
pmemInitSize == 64 * 1024 * 1024
heapBytesPerPage == pageSize \div 32

ASSUME InitConstAssumption ==
  /\ Threads # {} /\ IsFiniteSet(Threads)
  /\ ReqSizes \subseteq Nat /\ Offsets \subseteq Nat
  /\ ReqSizes # {} /\ Offsets # {}
  /\ MaxCrashes \in Nat

\* Offsets at which a call that passes the argument checks finds its header.
HdrOffsets == {o \in Offsets : o % pageSize = 0}

\* The header words hold 0 or the magic, and 0 or a recorded size.
Magics == {0, pmemHdrMagic}
SizeVals == ReqSizes \cup {0}
HdrWords == [magic : Magics, size : SizeVals]

\* round(x, pageSize) of the runtime: x rounded up to a multiple of pageSize.
RoundUp(x) == ((x + pageSize - 1) \div pageSize) * pageSize

\* The layout with endAddr computed without the final - 1.
LayoutEndOffByOne(size, offset) ==
  LET availPages   == (size - offset) \div pageSize
      spanBitmapSize == availPages * logBytesPerPage
      headerSize   == availPages * heapBytesPerPage + spanBitmapSize + pmemHdrSize
      reservePages == RoundUp(offset + headerSize) \div pageSize
      usablePages  == size \div pageSize - reservePages
      spanLo       == offset + pmemHdrSize
      typeLo       == spanLo + spanBitmapSize
      start        == reservePages * pageSize
  IN [size |-> size, offset |-> offset,
      spanLo |-> spanLo, spanHi |-> spanLo + usablePages * logBytesPerPage,
      typeLo |-> typeLo, typeHi |-> typeLo + (usablePages * pageSize) \div 32,
      start |-> start, end |-> start + usablePages * pageSize]

(***************************************************************************)
(* The layout PmallocInit computes (part_000 lines 130-137 and 181-195),   *)
(* relative to the mapped address: the span bitmap window starts after the *)
(* magic and size words, the type bitmap window after spanBitmapSize       *)
(* bytes, and the usable pages after the reserved pages.                   *)
(***************************************************************************)
Layout(size, offset) ==
  LET availPages   == (size - offset) \div pageSize
      spanBitmapSize == availPages * logBytesPerPage
      headerSize   == availPages * heapBytesPerPage + spanBitmapSize + pmemHdrSize
      reservePages == RoundUp(offset + headerSize) \div pageSize
      totalPages   == size \div pageSize
      usablePages  == totalPages - reservePages
      spanLo       == offset + pmemHdrSize
      typeLo       == spanLo + spanBitmapSize
      start        == reservePages * pageSize
  IN [size |-> size, offset |-> offset,
      spanLo |-> spanLo, spanHi |-> spanLo + usablePages * logBytesPerPage,
      typeLo |-> typeLo, typeHi |-> typeLo + (usablePages * pageSize) \div 32,
      start |-> start, end |-> start + usablePages * pageSize - 1]

\* The argument checks of PmallocInit (part_000 lines 100-111).
ArgsOK(size, offset) ==
  /\ size - offset >= pmemInitSize
  /\ size % pmemInitSize = 0
  /\ offset % pageSize = 0

InitStates == {"initNotDone", "initOngoing", "initDone"}

\* Steps of a call of PmallocInit; "Out" is outside any call.
TPCs == {"Out", "Map", "Check", "WriteMagic", "Finish"}

\* The steps a call that won the compare-and-swap goes through.
OwnerPCs == {"Map", "Check", "WriteMagic", "Finish"}

Results == {"none", "nil", "addr"}

VARIABLES
  initState,   \* pmemInfo.initState
  info,        \* pmemInfo bitmap windows and usable range, once installed
  mapped,      \* whether the file is mapped (growPmemRegion .. sysFree)
  tpc,         \* step of each goroutine's call
  targ,        \* size and offset arguments of each goroutine's call
  tret,        \* what each goroutine's last call returned
  successes,   \* calls that returned the mapped address in this process
  hdr,         \* region header words as the CPU sees them
  hdrPm,       \* region header words on the media
  magicSize,   \* the size word stored by the call that stored the magic
  crashes      \* crashes so far (bounded)

vars == <<initState, info, mapped, tpc, targ, tret, successes, hdr, hdrPm,
          magicSize, crashes>>

NoInfo == [size |-> 0, offset |-> 0, spanLo |-> 0, spanHi |-> 0,
           typeLo |-> 0, typeHi |-> 0, start |-> 0, end |-> 0]

Args == [size : ReqSizes, offset : Offsets]

TypeOK ==
  /\ initState \in InitStates
  /\ info \in [size : Nat, offset : Nat, spanLo : Nat, spanHi : Nat,
               typeLo : Nat, typeHi : Nat, start : Nat, end : Int]
  /\ mapped \in {TRUE, FALSE}
  /\ tpc \in [Threads -> TPCs]
  /\ targ \in [Threads -> Args]
  /\ tret \in [Threads -> Results]
  /\ successes \in Nat
  /\ hdr \in [HdrOffsets -> HdrWords]
  /\ hdrPm \in [HdrOffsets -> HdrWords]
  /\ magicSize \in [HdrOffsets -> SizeVals]
  /\ crashes \in 0 .. MaxCrashes

\* The owner of the initialisation, if any.
Owners == {t \in Threads : tpc[t] \in OwnerPCs}

(***************************************************************************)
(* A fresh process on a store whose header is either blank (no magic, any *)
(* stale size word) or was completed by an earlier run.                   *)
(***************************************************************************)
Init ==
  /\ hdrPm \in [HdrOffsets -> HdrWords]
  /\ magicSize \in [HdrOffsets -> SizeVals]
  /\ \A o \in HdrOffsets :
        hdrPm[o].magic = pmemHdrMagic => hdrPm[o].size = magicSize[o]
  /\ hdr = hdrPm
  /\ initState = "initNotDone"
  /\ info = NoInfo
  /\ mapped = FALSE
  /\ tpc = [t \in Threads |-> "Out"]
  /\ targ = [t \in Threads |-> CHOOSE a \in Args : TRUE]
  /\ tret = [t \in Threads |-> "none"]
  /\ successes = 0
  /\ crashes = 0

(***************************************************************************)
(* Plausible bugs of the handlers below, each the body of a handler with   *)
(* one thing changed; the properties are checked to detect them.           *)
(***************************************************************************)
\* The CAS on initState replaced by a plain store.
CallNoCas(t, a) ==
  /\ tpc[t] = "Out"
  /\ ArgsOK(a.size, a.offset)
  /\ initState' = "initOngoing"
  /\ tpc' = [tpc EXCEPT ![t] = "Map"]
  /\ targ' = [targ EXCEPT ![t] = a]
  /\ UNCHANGED <<info, mapped, tret, successes, hdr, hdrPm, magicSize, crashes>>

\* The size-mismatch path returning without resetting initState.
CheckNoReset(t) ==
  LET o == targ[t].offset IN
  /\ tpc[t] = "Check"
  /\ hdr[o].magic = pmemHdrMagic
  /\ hdr[o].size # targ[t].size
  /\ mapped' = FALSE
  /\ tpc' = [tpc EXCEPT ![t] = "Out"]
  /\ tret' = [tret EXCEPT ![t] = "nil"]
  /\ UNCHANGED <<initState, info, targ, successes, hdr, hdrPm, magicSize, crashes>>

\* The first-run path recording size - offset instead of size.
CheckStoresAvail(t) ==
  LET o == targ[t].offset IN
  /\ tpc[t] = "Check"
  /\ hdr[o].magic # pmemHdrMagic
  /\ hdr' = [hdr EXCEPT ![o].size = targ[t].size - o]
  /\ tpc' = [tpc EXCEPT ![t] = "WriteMagic"]
  /\ UNCHANGED <<initState, info, mapped, targ, tret, successes, hdrPm, magicSize, crashes>>

-----------------------------------------------------------------------------
(***************************************************************************)
(* PmallocInit up to its compare-and-swap: the argument checks, then       *)
(* atomic.Cas(&initState, initNotDone, initOngoing).  A call that fails    *)
(* either returns nil with no state change.                                *)
(***************************************************************************)
Call(t, a) ==
  /\ tpc[t] = "Out"
  /\ targ' = [targ EXCEPT ![t] = a]
  /\ \/ /\ ~ArgsOK(a.size, a.offset) \/ initState # "initNotDone"
        /\ tret' = [tret EXCEPT ![t] = "nil"]
        /\ UNCHANGED <<initState, tpc>>
     \/ /\ ArgsOK(a.size, a.offset) /\ initState = "initNotDone"
        /\ initState' = "initOngoing"
        /\ tpc' = [tpc EXCEPT ![t] = "Map"]
        /\ UNCHANGED tret
  /\ UNCHANGED <<info, mapped, successes, hdr, hdrPm, magicSize, crashes>>

(***************************************************************************)
(* growPmemRegion: sysAlloc either maps the whole file or fails (nil, or a *)
(* short mapping that it frees); on failure PmallocInit stores            *)
(* initNotDone and returns nil.                                            *)
(***************************************************************************)
Map(t) ==
  /\ tpc[t] = "Map"
  /\ \/ /\ mapped' = TRUE
        /\ tpc' = [tpc EXCEPT ![t] = "Check"]
        /\ UNCHANGED <<initState, tret>>
     \/ /\ initState' = "initNotDone"
        /\ tpc' = [tpc EXCEPT ![t] = "Out"]
        /\ tret' = [tret EXCEPT ![t] = "nil"]
        /\ UNCHANGED mapped
  /\ UNCHANGED <<info, targ, successes, hdr, hdrPm, magicSize, crashes>>

(***************************************************************************)
(* The magic check.  Magic present: a different recorded size unmaps,     *)
(* stores initNotDone and returns nil.  Magic absent: first run, the size *)
(* word is stored (no flush).                                              *)
(***************************************************************************)
Check(t) ==
  LET o == targ[t].offset IN
  /\ tpc[t] = "Check"
  /\ \/ /\ hdr[o].magic = pmemHdrMagic
        /\ hdr[o].size # targ[t].size
        /\ mapped' = FALSE
        /\ initState' = "initNotDone"
        /\ tpc' = [tpc EXCEPT ![t] = "Out"]
        /\ tret' = [tret EXCEPT ![t] = "nil"]
        /\ UNCHANGED hdr
     \/ /\ hdr[o].magic = pmemHdrMagic
        /\ hdr[o].size = targ[t].size
        /\ tpc' = [tpc EXCEPT ![t] = "Finish"]
        /\ UNCHANGED <<mapped, initState, tret, hdr>>
     \/ /\ hdr[o].magic # pmemHdrMagic
        /\ hdr' = [hdr EXCEPT ![o].size = targ[t].size]
        /\ tpc' = [tpc EXCEPT ![t] = "WriteMagic"]
        /\ UNCHANGED <<mapped, initState, tret>>
  /\ UNCHANGED <<info, targ, successes, hdrPm, magicSize, crashes>>

\* First run: the magic word is stored (no flush).
WriteMagic(t) ==
  LET o == targ[t].offset IN
  /\ tpc[t] = "WriteMagic"
  /\ hdr' = [hdr EXCEPT ![o].magic = pmemHdrMagic]
  /\ magicSize' = [magicSize EXCEPT ![o] = targ[t].size]
  /\ tpc' = [tpc EXCEPT ![t] = "Finish"]
  /\ UNCHANGED <<initState, info, mapped, targ, tret, successes, hdrPm, crashes>>

\* The windows and the usable range are installed, initDone stored, the address returned.
Finish(t) ==
  /\ tpc[t] = "Finish"
  /\ info' = Layout(targ[t].size, targ[t].offset)
  /\ initState' = "initDone"
  /\ tpc' = [tpc EXCEPT ![t] = "Out"]
  /\ tret' = [tret EXCEPT ![t] = "addr"]
  /\ successes' = successes + 1
  /\ UNCHANGED <<mapped, targ, hdr, hdrPm, magicSize, crashes>>

\* The cache writes one dirty header word back to the media on its own.
WriteBack(o, w) ==
  /\ hdr[o][w] # hdrPm[o][w]
  /\ hdrPm' = [hdrPm EXCEPT ![o][w] = hdr[o][w]]
  /\ UNCHANGED <<initState, info, mapped, tpc, targ, tret, successes, hdr, magicSize, crashes>>

\* Power failure or process crash: the cache and the process's memory are lost.
Crash ==
  /\ crashes < MaxCrashes
  /\ crashes' = crashes + 1
  /\ hdr' = hdrPm
  /\ initState' = "initNotDone"
  /\ info' = NoInfo
  /\ mapped' = FALSE
  /\ tpc' = [t \in Threads |-> "Out"]
  /\ tret' = [t \in Threads |-> "none"]
  /\ successes' = 0
  /\ UNCHANGED <<targ, hdrPm, magicSize>>

Next ==
  \/ \E t \in Threads :
       \/ \E a \in Args : Call(t, a)
       \/ Map(t) \/ Check(t) \/ WriteMagic(t) \/ Finish(t)
  \/ \E o \in HdrOffsets, w \in {"magic", "size"} : WriteBack(o, w)
  \/ Crash

Spec == Init /\ [][Next]_vars

-----------------------------------------------------------------------------
(***************************************************************************)
(* Single initialiser (spec 5 and 8): the compare-and-swap admits one call *)
(* at a time, and in one process at most one call of PmallocInit returns   *)
(* the mapped address, however the goroutines' calls interleave.           *)
(***************************************************************************)
AtMostOneInit == Cardinality(Owners) + successes <= 1

(***************************************************************************)
(* initState tells the truth after every return path of PmallocInit: it is *)
(* initOngoing exactly while a call owns the initialisation, initDone      *)
(* exactly once a call returned the address, and the file is mapped only   *)
(* while it is owned after growPmemRegion or initialised (the failure      *)
(* paths reset initState and unmap, so a later call can retry).            *)
(***************************************************************************)
InitStateConsistent ==
  /\ (initState = "initOngoing") = (Owners # {})
  /\ (initState = "initDone") = (successes = 1)
  /\ mapped = (initState = "initDone" \/ \E t \in Owners : tpc[t] # "Map")

(***************************************************************************)
(* The layout PmallocInit installs for any accepted size and offset: the   *)
(* span bitmap window, the type bitmap window and the usable pages follow  *)
(* one another without overlap inside the mapped file, and at least one   *)
(* page is usable.                                                         *)
(***************************************************************************)
UsableRangeInRegion ==
  initState = "initDone" =>
    /\ info.offset + pmemHdrSize <= info.spanLo
    /\ info.spanHi <= info.typeLo
    /\ info.typeHi <= info.start
    /\ info.start < info.end
    /\ info.end < info.size

(***************************************************************************)
(* Size before magic (spec 4.1): whenever the media holds the magic, it    *)
(* also holds the size word stored by the call that stored the magic, so a *)
(* restart after a crash between the two stores is seen as a first run and *)
(* never as a size mismatch.                                               *)
(***************************************************************************)
MagicImpliesSize ==
  \A o \in HdrOffsets :
    hdrPm[o].magic = pmemHdrMagic => hdrPm[o].size = magicSize[o]
=============================================================================
