----------------------------- MODULE HostMemory -----------------------------
(***************************************************************************)
(* The memory the host shares with the device: class mmem, the buffers of  *)
(* the AFU driver below it, and the device's side of the bargain, four     *)
(* base address registers and accesses that use them.                      *)
(*                                                                         *)
(* An operation of mmem is a sequence of MMIO writes, releases and         *)
(* allocations; the device may act between any two of them.                *)
(***************************************************************************)
EXTENDS Integers

CONSTANTS
  GB,        \* bytes of a segment, 2^30
  Buffers,   \* addresses an allocation can return
  Null

ASSUME MemoryAssumption == GB \in Nat \ {0} /\ Null \notin Buffers /\ Null \notin Nat

Segments == 0 .. 3

VARIABLES
  data,      \* mmem: the buffer of each segment
  size,      \* mmem: bytes of the memory
  buffers,   \* AFU: the keys of buffer_map_, the allocated buffers
  len,       \* bytes asked for when the buffer was allocated
  memop,     \* what mmem is doing, or how it ended
  seg, left, \* loop variables of that: segment, bytes_left
  goal,      \* the new size, or Null when mmem is being destroyed
  base,      \* device: MMIO_BASE_ADDR_S0 .. S3
  started,   \* device: the memory controller has left STARTUP
  dma        \* device: the access in flight

hostvars == <<data, size, buffers, len>>
opvars == <<memop, seg, left, goal>>
memvars == <<data, size, buffers, len, memop, seg, left, goal, base, started, dma>>

\* An access that was translated while no operation of mmem was going on, and
\* has not met one since, is calm.
NoDma == [buf |-> Null, off |-> 0, calm |-> FALSE]
Busy == {"unmap", "free", "alloc", "map"}
Failed == {"bad_alloc", "mmio_error", "no_buffer", "overrun"}

\* An operation never writes a fifth segment ("overrun"), nor frees a buffer that
\* the driver does not know ("no_buffer").
MemTypeOK ==
  /\ data \in [Segments -> Buffers \cup {Null}]
  /\ size \in Nat
  /\ buffers \subseteq Buffers
  /\ len \in [Buffers -> Nat]
  /\ memop \in Busy \cup {"bad_alloc", "mmio_error", "none", "destroyed"}
  /\ seg \in Segments
  /\ left \in Nat
  /\ goal \in Nat \cup {Null}
  /\ base \in [Segments -> Buffers \cup {Null}]
  /\ started \in BOOLEAN
  /\ dma \in [buf : Buffers \cup {Null}, off : Nat, calm : BOOLEAN]

MemInit ==
  /\ data = [s \in Segments |-> Null]
  /\ size = 0
  /\ buffers = {}
  /\ len = [b \in Buffers |-> 0]
  /\ memop = "none" /\ seg = 0 /\ left = 0 /\ goal = Null
  /\ base = [s \in Segments |-> Null]
  /\ started = FALSE
  /\ dma = NoDma

-----------------------------------------------------------------------------
(* Addresses.  mmem::operator[] and the device's addr_tr_unit both split   *)
(* an address into two bits of segment and an offset.                      *)

SegmentOf(a) == (a \div GB) % 4
HostAddress(a) == [buf |-> data[SegmentOf(a)], off |-> a % GB]
DeviceAddress(a) == [buf |-> base[SegmentOf(a)], off |-> a % GB]

InBuffer(x) == x.buf \in buffers /\ x.off \in 0 .. len[x.buf] - 1

\* The bytes the methods of mmem touch: save, restore (which stores once more
\* when it meets the end of the file) and reset, segment by segment.
Saved(begin, end) == {HostAddress((begin + i) % size) : i \in 0 .. end - begin - 1}
Restored(begin, bytes) == {HostAddress((begin + i) % size) : i \in 0 .. bytes}
BytesIn(s) ==
  IF size >= (s + 1) * GB THEN GB ELSE IF size > s * GB THEN size - s * GB ELSE 0
Reset == UNION {{[buf |-> data[s], off |-> i] : i \in 0 .. BytesIn(s) - 1} : s \in Segments}

-----------------------------------------------------------------------------
(* mmem.  resize is dealloc, the new size, alloc; the destructor is        *)
(* dealloc.                                                                *)

\* Mutated form: dealloc does not tell the device.
Begin_Silent(g) ==
  /\ memop' = "free" /\ seg' = 0 /\ left' = 0 /\ goal' = g
  /\ dma' = [dma EXCEPT !.calm = FALSE]
  /\ UNCHANGED <<hostvars, base, started>>

Begin(g) ==
  /\ memop' = "unmap" /\ seg' = 0 /\ left' = 0 /\ goal' = g
  /\ dma' = [dma EXCEPT !.calm = FALSE]
  /\ UNCHANGED <<hostvars, base, started>>

\* Mutated form: a loop variable of two bits never gets past 3.
Loop_Wraps(next) == memop' = memop /\ seg' = (seg + 1) % 4

Loop(next) ==
  IF seg = 3 THEN memop' = next /\ seg' = 0 ELSE memop' = memop /\ seg' = seg + 1

\* dealloc tells the device first...
Unmap ==
  /\ memop = "unmap"
  /\ base' = [base EXCEPT ![seg] = Null]
  /\ Loop("free")
  /\ UNCHANGED <<hostvars, left, goal, started, dma>>

\* Mutated form: AFU::free forgets to erase the buffer.
Free_Leaks ==
  /\ memop = "free"
  /\ Loop(IF goal = Null THEN "destroyed" ELSE "alloc")
  /\ data' = [data EXCEPT ![seg] = Null]
  /\ IF seg = 3 /\ goal # Null THEN size' = goal /\ left' = goal
                               ELSE UNCHANGED <<size, left>>
  /\ UNCHANGED <<buffers, len, goal, base, started, dma>>

\* ... and then gives each segment back to the driver, which throws if it
\* does not know the buffer.
Free ==
  /\ memop = "free"
  /\ IF data[seg] \in buffers \cup {Null}
       THEN Loop(IF goal = Null THEN "destroyed" ELSE "alloc")
       ELSE memop' = "no_buffer" /\ seg' = 0
  /\ buffers' = buffers \ {data[seg]}
  /\ data' = [data EXCEPT ![seg] = Null]
  /\ IF seg = 3 /\ goal # Null THEN size' = goal /\ left' = goal
                               ELSE UNCHANGED <<size, left>>
  /\ UNCHANGED <<len, goal, base, started, dma>>

\* Mutated form: the number of segments is size / GB.
Alloc_RoundsDown ==
  /\ memop = "alloc"
  /\ \E b \in Buffers \ buffers :
       LET bytes == IF left >= GB THEN GB ELSE left
       IN  /\ data' = [data EXCEPT ![seg] = b]
           /\ buffers' = buffers \cup {b}
           /\ len' = [len EXCEPT ![b] = bytes]
           /\ left' = left - bytes
           /\ IF left - bytes < GB THEN memop' = "map" /\ seg' = 0
                                   ELSE memop' = memop /\ seg' = seg + 1
  /\ UNCHANGED <<size, goal, base, started, dma>>

\* A segment of a GB, or of what is left.  The driver may return any address
\* that is not in use, one the device still has in flight included.
Alloc ==
  /\ memop = "alloc"
  /\ \E b \in Buffers \ buffers :
       LET bytes == IF left >= GB THEN GB ELSE left
       IN  /\ data' = [data EXCEPT ![seg] = b]
           /\ buffers' = buffers \cup {b}
           /\ len' = [len EXCEPT ![b] = bytes]
           /\ left' = left - bytes
           /\ IF left = bytes THEN memop' = "map" /\ seg' = 0
              ELSE IF seg = 3 THEN memop' = "overrun" /\ seg' = 0
              ELSE memop' = memop /\ seg' = seg + 1
  /\ UNCHANGED <<size, goal, base, started, dma>>

\* std::bad_alloc: the segments allocated so far stay in data.
AllocFails ==
  /\ memop = "alloc"
  /\ memop' = "bad_alloc" /\ seg' = 0
  /\ UNCHANGED <<hostvars, left, goal, base, started, dma>>

\* Mutated forms: the wrong register; two registers only.
MapMem_Reversed ==
  /\ memop = "map"
  /\ base' = [base EXCEPT ![3 - seg] = data[seg]]
  /\ Loop("none")
  /\ UNCHANGED <<hostvars, left, goal, started, dma>>

MapMem_Two ==
  /\ memop = "map"
  /\ base' = [base EXCEPT ![seg] = IF seg < 2 THEN data[seg] ELSE @]
  /\ Loop("none")
  /\ UNCHANGED <<hostvars, left, goal, started, dma>>

\* map_mem, the end of alloc.
MapMem ==
  /\ memop = "map"
  /\ base' = [base EXCEPT ![seg] = data[seg]]
  /\ Loop("none")
  /\ UNCHANGED <<hostvars, left, goal, started, dma>>

\* AFU::write throws the status of a write the device did not take.
MmioFails ==
  /\ memop \in {"unmap", "map"}
  /\ memop' = "mmio_error" /\ seg' = 0
  /\ UNCHANGED <<hostvars, left, goal, base, started, dma>>

\* The end of the program: nothing tells the device, and the buffers are gone.
Reclaim ==
  /\ memop' = "destroyed" /\ buffers' = {}
  /\ dma' = [dma EXCEPT !.calm = FALSE]
  /\ UNCHANGED <<data, size, len, seg, left, goal, base, started>>

MemStep == Unmap \/ Free \/ Alloc \/ AllocFails \/ MapMem \/ MmioFails

-----------------------------------------------------------------------------
(* The device.  The address is translated when the transfer starts; the    *)
(* program on the processor stays inside the memory.                       *)

DmaStart ==
  /\ started /\ dma = NoDma
  /\ \E a \in 0 .. size - 1 :
       dma' = [buf |-> DeviceAddress(a).buf, off |-> DeviceAddress(a).off,
               calm |-> memop = "none"]
  /\ UNCHANGED <<hostvars, opvars, base, started>>

DmaDone ==
  /\ dma # NoDma
  /\ dma' = NoDma
  /\ UNCHANGED <<hostvars, opvars, base, started>>

Device == DmaStart \/ DmaDone
=============================================================================
