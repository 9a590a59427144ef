----------------------------- MODULE HeapLayout -----------------------------
(***************************************************************************)
(* __libnx_initheap of source/main.c: the process heap is split into the   *)
(* heap of newlib, which starts at its first byte, and the arena that      *)
(* holds the Android modules.  Constant-level: e is what the environment   *)
(* reports before main(), a record                                         *)
(*   override         the launcher hands the heap over                     *)
(*   addr, size       the memory it hands over; without an override the    *)
(*                    address at which the kernel puts the heap            *)
(*   available, used  TotalMemorySize and UsedMemorySize of the process    *)
(***************************************************************************)
EXTENDS Naturals

CONSTANTS
  Heaps,    \* environments the process may be started in
  SizeMax   \* the largest size_t

PageSize == 4096
MB == 1048576
MemoryMB == 512          \* MEMORY_MB
Chunk == 2 * MB          \* svcSetHeapSize takes multiples of 0x200000
DefaultSize == 16 * 32 * MB

\* Launcher and kernel deal in whole pages.
ASSUME HeapsAssumption ==
  /\ SizeMax \in Nat
  /\ \A e \in Heaps :
       /\ e.override \in BOOLEAN
       /\ e.addr \in Nat \ {0} /\ e.addr % PageSize = 0
       /\ e.size \in Nat /\ e.size % PageSize = 0
       /\ e.available \in Nat /\ e.used \in Nat

\* ALIGN_MEM(n, 0x1000)
AlignUp(n) == ((n + PageSize - 1) \div PageSize) * PageSize

\* The kernel's free memory in whole chunks, one chunk kept back.
KernelSize(e) ==
  IF e.available > e.used + Chunk
  THEN ((e.available - e.used - Chunk) \div Chunk) * Chunk
  ELSE 0

HeapSize(e) == IF e.override THEN e.size
               ELSE IF KernelSize(e) = 0 THEN DefaultSize
               ELSE KernelSize(e)

\* fake_heap_size
NewlibSize(e) == IF HeapSize(e) < MemoryMB * MB THEN HeapSize(e) ELSE MemoryMB * MB

\* fake_heap_end, and the end of the whole heap.
NewlibEnd(e) == e.addr + NewlibSize(e)
HeapEnd(e) == e.addr + HeapSize(e)

\* heap_so_base
\* Faulty variant: the arena starts one page early.
SoBase_PageEarly(e) == AlignUp(NewlibEnd(e)) - PageSize
SoBase(e) == AlignUp(NewlibEnd(e))

\* heap_so_limit, an unsigned difference: it wraps when the base was
\* rounded past the end.
SoLimit(e) == IF SoBase(e) <= HeapEnd(e) THEN HeapEnd(e) - SoBase(e)
              ELSE SizeMax - (SoBase(e) - HeapEnd(e)) + 1
=============================================================================
