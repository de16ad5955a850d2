---------------------------- MODULE PmemArenaAddr ----------------------------
(***************************************************************************)
(* Where the logs of one persistent arena live (src/src/runtime/pmemLog.go *)
(* pmemHeapBitsAddr and spanLogAddr).  An arena is mapped at mapAddr; at  *)
(* pa.offset its header begins, followed by the heap type bitmap (one     *)
(* byte per 32 heap bytes) and the span bitmap (one 32-bit word per page); *)
(* the heap proper starts mdSize bytes after mapAddr and has allocSize    *)
(* bytes.  pArena.layout() is not in the repository: the pair             *)
(* (mdSize, allocSize) it returns is a constant here, constrained by the   *)
(* byte layout of spec 6 (LayoutContract).                                 *)
(***************************************************************************)
EXTENDS Naturals

CONSTANTS
  MapAddr,       \* pa.mapAddr
  ArenaOffset,   \* pa.offset: bytes before the arena header
  ArenaHdrSize,  \* pArenaHeaderSize
  MdSize,        \* layout(): bytes of metadata before the heap
  AllocSize      \* layout(): bytes of heap

pageSize == 8192
bytesPerBitmapByte == 32
spanBytesPerPage == 4

(***************************************************************************)
(* The layout contract of spec 4.2 and 6: metadata and heap are whole     *)
(* pages, the heap has at least one page, and the header, the type bitmap *)
(* (allocSize/32 bytes) and the span bitmap (4 bytes per heap page) fit   *)
(* in the metadata.                                                        *)
(***************************************************************************)
ASSUME LayoutContract ==
  /\ MapAddr \in Nat /\ ArenaOffset \in Nat /\ ArenaHdrSize \in Nat
  /\ MdSize \in Nat /\ AllocSize \in Nat
  /\ MdSize % pageSize = 0 /\ AllocSize % pageSize = 0 /\ AllocSize > 0
  /\ ArenaOffset + ArenaHdrSize + AllocSize \div bytesPerBitmapByte
       + (AllocSize \div pageSize) * spanBytesPerPage <= MdSize

\* The heap: its first address, its bytes and its pages.
arenaStart == MapAddr + MdSize
HeapAddrs == arenaStart .. (arenaStart + AllocSize - 1)
Pages == 0 .. (AllocSize \div pageSize - 1)
PageBase(p) == arenaStart + p * pageSize

\* pmemHeapBitsAddr(x, pa): the type-bitmap byte of heap address x.
typeBitsAddr == MapAddr + ArenaOffset + ArenaHdrSize
pmemHeapBitsAddr(x) == typeBitsAddr + (x - arenaStart) \div bytesPerBitmapByte

\* spanLogAddr(s): the span bitmap follows the type bitmap; one word per page.
spanBitmap == MapAddr + ArenaOffset + ArenaHdrSize + AllocSize \div bytesPerBitmapByte
spanLogAddr(base) == spanBitmap + ((base - arenaStart) \div pageSize) * spanBytesPerPage
=============================================================================
