---------------------------- MODULE LoaderProofs ----------------------------
(***************************************************************************)
(* Proofs about Loader: its types, the memory it shares with the device,   *)
(* .wait and the mode of the prompt.                                       *)
(***************************************************************************)
EXTENDS Loader, TLAPS

-----------------------------------------------------------------------------
(* The invariant of the memory, for each operation and each point in it.   *)

Sizes == 1 .. 4 * GB

\* Every segment that has bytes has a buffer of that many bytes.
Backed ==
  \A s \in Segments : BytesIn(s) > 0 => data[s] # Null /\ len[data[s]] = BytesIn(s)

Silent == \A s \in Segments : base[s] = Null

MemInv ==
  /\ \A s \in Segments : base[s] \in {Null, data[s]}
  /\ buffers = {data[s] : s \in Segments} \ {Null}
  /\ \A s, t \in Segments : data[s] = data[t] /\ data[s] # Null => s = t
  /\ memop \in {"unmap", "free"} => goal \in Sizes \cup {Null}
  /\ memop = "unmap" => \A s \in Segments : s < seg => base[s] = Null
  /\ memop = "free" => Silent /\ \A s \in Segments : s < seg => data[s] = Null
  /\ memop = "alloc" =>
       /\ Silent /\ size \in Sizes /\ left > 0 /\ left = size - seg * GB
       /\ \A s \in Segments : s >= seg => data[s] = Null
       /\ \A s \in Segments : s < seg => data[s] # Null /\ len[data[s]] = GB
  /\ memop = "map" =>
       size \in Sizes /\ Backed /\ \A s \in Segments : s < seg => base[s] = data[s]
  /\ memop = "none" =>
       size \in 0 .. 4 * GB /\ Backed /\ \A s \in Segments : base[s] = data[s]
  /\ memop = "destroyed" => \A s \in Segments : data[s] = Null

\* The program does something else only while the memory is in place.
Running == {"script", "test", "test2", "prompt", "read", "eof", "hung",
            "arm", "poll", "look", "settle", "disarm"}

PcInv ==
  /\ pc \in Running \cup {"start"} => memop = "none"
  /\ memop = "none" => size > 0 \/ pc \in {"start", "ended"}
  /\ pc = "terminated" => memop = "destroyed"
  /\ env.mode \in {"MACHINE", "INTERACTIVE"}
  /\ pc = "look" /\ wait.timeout > 0 => wait.numms < wait.timeout

TypeInv == LoaderTypeOK /\ PcInv /\ (pc # "terminated" => MemInv)

-----------------------------------------------------------------------------
(* Steps of the memory.                                                    *)

LEMMA BeginMem ==
  ASSUME NEW g \in Sizes \cup {Null}, MemTypeOK, MemInv, Begin(g)
  PROVE  MemTypeOK' /\ MemInv' /\ memop' = "unmap"
<1>1. MemTypeOK'
  <2>1. g \in Nat \cup {Null}
    BY MemoryAssumption DEF Sizes
  <2>2. dma' \in [buf : Buffers \cup {Null}, off : Nat, calm : BOOLEAN]
    BY DEF MemTypeOK, Begin
  <2> QED BY <2>1, <2>2 DEF MemTypeOK, Begin, Busy, Segments, hostvars
<1>2. MemInv' /\ memop' = "unmap"
  BY MemoryAssumption DEF MemInv, MemTypeOK, Begin, Segments, hostvars, Sizes
<1> QED BY <1>1, <1>2

LEMMA UnmapMem ==
  ASSUME MemTypeOK, MemInv, Unmap
  PROVE  MemTypeOK' /\ MemInv' /\ memop' \in {"unmap", "free"}
<1>1. MemTypeOK'
  BY MemoryAssumption DEF MemTypeOK, Unmap, Loop, Busy, Segments, hostvars
<1>2. MemInv' /\ memop' \in {"unmap", "free"}
  BY MemoryAssumption DEF MemInv, MemTypeOK, Unmap, Loop, Segments, hostvars, Silent, Sizes
<1> QED BY <1>1, <1>2

LEMMA FreeMem ==
  ASSUME MemTypeOK, MemInv, Free
  PROVE  MemTypeOK' /\ MemInv' /\ memop' \in {"free", "alloc", "destroyed"}
<1>1. MemTypeOK'
  BY MemoryAssumption DEF MemTypeOK, MemInv, Free, Loop, Busy, Failed, Segments, Sizes
<1>2. data[seg] \in buffers \cup {Null}
  BY DEF MemTypeOK, MemInv, Segments
<1>3. memop' \in {"free", "alloc", "destroyed"}
  BY <1>2 DEF Free, Loop
<1>4. buffers' = {data'[s] : s \in Segments} \ {Null}
  BY DEF MemTypeOK, MemInv, Free, Segments
<1>5. /\ \A s \in Segments : base'[s] = Null
      /\ \A s, t \in Segments : data'[s] = data'[t] /\ data'[s] # Null => s = t
      /\ \A s \in Segments : s <= seg => data'[s] = Null
  BY DEF MemTypeOK, MemInv, Free, Segments, Silent
<1>6. CASE seg # 3
  BY <1>2, <1>3, <1>4, <1>5, <1>6 DEF MemTypeOK, MemInv, Free, Loop, Segments, Silent, Sizes
<1>7. CASE seg = 3
  <2>1. \A s \in Segments : data'[s] = Null
    BY <1>5, <1>7 DEF Segments
  <2>2. CASE goal = Null
    <3>1. memop' = "destroyed" /\ \A s \in Segments : base'[s] \in {Null, data'[s]}
      BY <1>2, <1>5, <1>7, <2>2 DEF Free, Loop
    <3> QED BY <1>1, <1>4, <1>5, <2>1, <3>1 DEF MemInv, Segments
  <2>3. CASE goal # Null
    <3>1. memop' = "alloc" /\ seg' = 0 /\ size' = goal /\ left' = goal /\ goal \in Sizes
      BY <1>2, <1>7, <2>3 DEF MemInv, Free, Loop
    <3>2. left' > 0 /\ left' = size' - seg' * GB
      BY <3>1, MemoryAssumption DEF Sizes
    <3>3. \A s \in Segments : base'[s] \in {Null, data'[s]}
      BY <1>5
    <3>4. \A s \in Segments : ~ (s < seg')
      BY <3>1 DEF Segments
    <3> QED BY <1>1, <1>4, <1>5, <2>1, <3>1, <3>2, <3>3, <3>4 DEF MemInv, Silent, Sizes, Segments
  <2> QED BY <2>2, <2>3
<1>8. seg \in 0 .. 3
  BY DEF MemTypeOK, Segments
<1> QED BY <1>1, <1>3, <1>6, <1>7

\* A segment of `bytes` bytes is the right one, and the last if none are left.
LEMMA AllocMem ==
  ASSUME MemTypeOK, MemInv, Alloc
  PROVE  MemTypeOK' /\ MemInv' /\ memop' \in {"alloc", "map"}
<1> DEFINE bytes == IF left >= GB THEN GB ELSE left
<1>1. PICK b \in Buffers \ buffers :
        /\ data' = [data EXCEPT ![seg] = b]
        /\ buffers' = buffers \cup {b}
        /\ len' = [len EXCEPT ![b] = bytes]
        /\ left' = left - bytes
        /\ IF left = bytes THEN memop' = "map" /\ seg' = 0
           ELSE IF seg = 3 THEN memop' = "overrun" /\ seg' = 0
           ELSE memop' = memop /\ seg' = seg + 1
  BY DEF Alloc
<1>2. /\ seg \in 0 .. 3 /\ GB \in Nat /\ GB > 0 /\ left \in Nat /\ left > 0 /\ size \in Nat
      /\ size <= 4 * GB /\ left = size - seg * GB /\ memop = "alloc" /\ Silent
      /\ UNCHANGED <<size, goal, base, started, dma>>
  BY MemoryAssumption DEF MemTypeOK, MemInv, Alloc, Segments, Sizes
<1>3. bytes \in Nat /\ bytes > 0 /\ bytes <= left /\ bytes <= GB /\ (bytes < left => bytes = GB)
  BY <1>2
<1>4. b # Null /\ \A s \in Segments : data[s] # b
  BY <1>1, MemoryAssumption DEF MemInv
<1>5. data' \in [Segments -> Buffers \cup {Null}] /\ len' \in [Buffers -> Nat]
  BY <1>1, <1>3 DEF MemTypeOK
<1>6. seg = 3 => left = bytes
  BY <1>2
<1>7. MemTypeOK'
  <2>1. seg' \in Segments /\ left' \in Nat
    BY <1>1, <1>2, <1>3 DEF Segments
  <2>2. buffers' \subseteq Buffers
    BY <1>1 DEF MemTypeOK
  <2>3. memop' \in {"alloc", "map"}
    BY <1>1, <1>2, <1>6
  <2> QED BY <1>2, <1>5, <2>1, <2>2, <2>3 DEF MemTypeOK, Busy, Segments
<1>8. memop' \in {"alloc", "map"}
  BY <1>1, <1>2, <1>6
<1>9. /\ data'[seg] = b /\ \A s \in Segments : s # seg => data'[s] = data[s]
      /\ len'[b] = bytes /\ \A x \in Buffers : x # b => len'[x] = len[x]
  BY <1>1, <1>2 DEF MemTypeOK, Segments
<1>10. buffers' = {data'[s] : s \in Segments} \ {Null}
  <2>1. data[seg] = Null
    BY <1>2 DEF MemInv, Segments
  <2> QED BY <1>1, <1>2, <1>4, <1>9, <2>1 DEF MemInv, Segments
<1>11. \A s, t \in Segments : data'[s] = data'[t] /\ data'[s] # Null => s = t
  BY <1>2, <1>4, <1>9 DEF MemInv, Segments
<1>12. \A s \in Segments : s < seg => data'[s] # Null /\ len'[data'[s]] = GB
  BY <1>2, <1>4, <1>9 DEF MemInv, MemTypeOK, Segments
<1>13. CASE left # bytes
  <2>1. memop' = "alloc" /\ seg' = seg + 1 /\ bytes = GB /\ left' = left - GB /\ left' > 0
    BY <1>1, <1>2, <1>3, <1>6, <1>13
  <2>2. left' = size' - seg' * GB
    <3>1. (seg + 1) * GB = seg * GB + GB
      BY <1>2
    <3> QED BY <1>2, <2>1, <3>1
  <2>3. \A s \in Segments : s >= seg' => data'[s] = Null
    BY <1>2, <1>9, <2>1 DEF MemInv, Segments
  <2>4. \A s \in Segments : s < seg' => data'[s] # Null /\ len'[data'[s]] = GB
    BY <1>2, <1>4, <1>9, <1>12, <2>1 DEF Segments
  <2>5. size' \in 1 .. 4 * GB /\ \A s \in Segments : base'[s] = Null
    BY <1>2 DEF MemInv, Sizes, Silent
  <2> QED BY <1>7, <1>10, <1>11, <2>1, <2>2, <2>3, <2>4, <2>5 DEF MemInv, Silent, Sizes, Segments
<1>14. CASE left = bytes
  <2>1. memop' = "map" /\ seg' = 0 /\ size = seg * GB + bytes
    BY <1>1, <1>2, <1>3, <1>14
  <2>2. \A s \in Segments : BytesIn(s)' > 0 => data'[s] # Null /\ len'[data'[s]] = BytesIn(s)'
    <3>1. SUFFICES ASSUME NEW s \in Segments, BytesIn(s)' > 0
                   PROVE  data'[s] # Null /\ len'[data'[s]] = BytesIn(s)'
      OBVIOUS
    <3>2. seg = 0 \/ seg = 1 \/ seg = 2 \/ seg = 3
      BY <1>2
    <3>3. s = 0 \/ s = 1 \/ s = 2 \/ s = 3
      BY DEF Segments
    <3>4. s < seg => BytesIn(s)' = GB
      BY <1>2, <1>3, <2>1, <3>2, <3>3 DEF BytesIn
    <3>5. s = seg => BytesIn(s)' = bytes
      BY <1>2, <1>3, <2>1, <3>2 DEF BytesIn
    <3>6. s > seg => BytesIn(s)' = 0
      BY <1>2, <1>3, <2>1, <3>2, <3>3 DEF BytesIn
    <3> QED BY <1>2, <1>4, <1>9, <1>12, <3>1, <3>3, <3>4, <3>5, <3>6 DEF Segments
  <2>3. size' \in 1 .. 4 * GB /\ \A s \in Segments : base'[s] = Null
    BY <1>2 DEF MemInv, Sizes, Silent
  <2> QED BY <1>7, <1>10, <1>11, <2>1, <2>2, <2>3 DEF MemInv, Backed, Sizes, Segments
<1> QED BY <1>7, <1>8, <1>13, <1>14

LEMMA MapMem_Mem ==
  ASSUME MemTypeOK, MemInv, MapMem
  PROVE  MemTypeOK' /\ MemInv' /\ memop' \in {"map", "none"} /\ size > 0
<1>1. MemTypeOK' /\ memop' \in {"map", "none"} /\ size > 0
  BY MemoryAssumption DEF MemTypeOK, MemInv, MapMem, Loop, Busy, Segments, hostvars, Sizes
<1>2. /\ \A s \in Segments : base'[s] \in {Null, data'[s]}
      /\ \A s \in Segments : s <= seg => base'[s] = data'[s]
  BY DEF MemTypeOK, MemInv, MapMem, Segments, hostvars
<1>3. size' \in 1 .. 4 * GB /\ Backed'
  BY DEF MemInv, MapMem, Backed, BytesIn, hostvars, Sizes, Segments
<1>4. size' \in 0 .. 4 * GB
  BY <1>3, MemoryAssumption
<1>5. IF seg = 3 THEN memop' = "none" ELSE memop' = "map" /\ seg' = seg + 1
  BY DEF MapMem, Loop
<1>6. seg \in 0 .. 3
  BY DEF MemTypeOK, Segments
<1> QED BY <1>1, <1>2, <1>3, <1>4, <1>5, <1>6 DEF MemInv, MapMem, hostvars, Sizes, Segments

LEMMA FailMem ==
  ASSUME MemTypeOK, MemInv, AllocFails \/ MmioFails
  PROVE  MemTypeOK' /\ MemInv' /\ memop' \in {"bad_alloc", "mmio_error"}
<1>1. MemTypeOK' /\ memop' \in {"bad_alloc", "mmio_error"}
  BY DEF MemTypeOK, AllocFails, MmioFails, hostvars, Segments, Failed
<1> QED BY <1>1 DEF MemInv, AllocFails, MmioFails, hostvars, Segments

LEMMA ReclaimType ==
  ASSUME MemTypeOK, Reclaim
  PROVE  MemTypeOK'
<1>1. dma' \in [buf : Buffers \cup {Null}, off : Nat, calm : BOOLEAN]
  BY DEF MemTypeOK, Reclaim
<1> QED BY <1>1 DEF MemTypeOK, Reclaim, Segments

LEMMA DeviceMem ==
  ASSUME MemTypeOK, Device
  PROVE  /\ MemTypeOK' /\ (MemInv => MemInv')
         /\ UNCHANGED <<data, size, buffers, len, memop, seg, left, goal, base, started>>
<1>1. UNCHANGED <<data, size, buffers, len, memop, seg, left, goal, base, started>>
  BY DEF Device, DmaStart, DmaDone, hostvars, opvars
<1>2. dma' \in [buf : Buffers \cup {Null}, off : Nat, calm : BOOLEAN]
  <2>1. CASE DmaStart
    <3>1. PICK a \in 0 .. size - 1 :
            dma' = [buf |-> DeviceAddress(a).buf, off |-> DeviceAddress(a).off,
                    calm |-> memop = "none"]
      BY <2>1 DEF DmaStart
    <3>2. a \in Nat /\ SegmentOf(a) \in Segments /\ a % GB \in Nat
      BY <3>1, MemoryAssumption DEF MemTypeOK, SegmentOf, Segments
    <3> QED BY <3>1, <3>2 DEF DeviceAddress, MemTypeOK
  <2>2. CASE DmaDone
    BY <2>2 DEF DmaDone, NoDma
  <2> QED BY <2>1, <2>2 DEF Device
<1>3. MemTypeOK'
  BY <1>1, <1>2 DEF MemTypeOK
<1>4. MemInv => MemInv'
  BY <1>1 DEF MemInv, Backed, Silent, BytesIn, Sizes, Segments
<1> QED BY <1>1, <1>3, <1>4

LEMMA StepMem ==
  ASSUME MemTypeOK, MemInv, MemStep
  PROVE  MemTypeOK' /\ MemInv' /\ (memop' = "none" => size' > 0)
BY UnmapMem, FreeMem, AllocMem, MapMem_Mem, FailMem DEF MemStep, MapMem, hostvars

LEMMA QuietMem ==
  ASSUME MemTypeOK, Quiet
  PROVE  MemTypeOK' /\ (MemInv => MemInv') /\ memop' = memop /\ size' = size
<1>1. UNCHANGED <<data, size, buffers, len, memop, seg, left, goal, base, started, dma>>
  BY DEF Quiet, memvars
<1> QED BY <1>1 DEF MemTypeOK, MemInv, Backed, Silent, BytesIn, Sizes, Segments, Busy, Failed

-----------------------------------------------------------------------------
(* Steps of the program.                                                   *)

LEMMA EnvMode ==
  ASSUME NEW args
  PROVE  /\ characterize_Env(args).mode \in {"MACHINE", "INTERACTIVE"}
         /\ characterize_Env(args).mode = "MACHINE" =>
              characterize_Env(args).hasInput \/ characterize_Env(args).hasOutput
BY DEF characterize_Env

LEMMA NoWaitType ==
  NoWait \in Waits /\ NoWait.timeout = 0
BY DEF NoWait, Waits, Verdicts

\* Actions that leave the memory alone.
LEMMA QuietStep ==
  ASSUME TypeInv, Quiet, ShellTypeOK', UNCHANGED env,
         pc \in Running \cup {"start", "boot", "resizing", "recovering"},
         pc' \in Running => pc # "start" /\ memop = "none",
         pc' \notin {"start", "terminated"},
         pc' = "look" /\ wait'.timeout > 0 => wait'.numms < wait'.timeout,
         pc = "start" => pc' = "ended"
  PROVE  TypeInv'
<1>1. MemTypeOK' /\ (MemInv => MemInv') /\ memop' = memop /\ size' = size
  BY QuietMem DEF TypeInv, LoaderTypeOK
<1>2. pc # "terminated"
  BY DEF Running
<1>3. pc' \in Running \cup {"start"} => memop' = "none"
  BY <1>1 DEF TypeInv, PcInv, Running
<1>4. memop' = "none" => size' > 0 \/ pc' \in {"start", "ended"}
  BY <1>1 DEF TypeInv, PcInv, Running
<1>5. MemInv'
  BY <1>1, <1>2 DEF TypeInv
<1> QED BY <1>1, <1>2, <1>3, <1>4, <1>5 DEF TypeInv, PcInv, LoaderTypeOK

LEMMA LoopStep ==
  ASSUME TypeInv, OpenFails \/ Booted \/ ScriptEnds \/ Test \/ Test2 \/ Prompt \/ EndOfInput
  PROVE  TypeInv'
<1>1. Quiet /\ UNCHANGED env
  BY DEF OpenFails, Booted, ScriptEnds, Test, Test2, Prompt, EndOfInput, Go
<1>2. ShellTypeOK'
  BY LoaderAssumption DEF TypeInv, LoaderTypeOK, ShellTypeOK, OpenFails, Booted, ScriptEnds, Test, Test2, Prompt, EndOfInput,
       Go, Modes, Ended
<1> QED
  BY <1>1, <1>2, QuietStep DEF TypeInv, PcInv, Running, OpenFails, Booted, ScriptEnds, Test, Test2,
       Prompt, EndOfInput, Go

\* Directives that only look.
LEMMA LookStep ==
  ASSUME TypeInv,
         \/ Other \/ Exit \/ SaveBackwards
         \/ \E host \in BOOLEAN : Rst(host)
         \/ \E begin, n \in 0 .. size : Restore(begin, n) \/ Save(begin, n)
         \/ \E span \in Spans, width \in {1} \cup Widths : Mem(span, width)
         \/ \E bits \in Bits : ResizeRefused(bits)
  PROVE  TypeInv'
<1>1. /\ Quiet /\ UNCHANGED <<env, wait, sigints>>
      /\ \E there \in {Back, "hung"} : Line(there)
      /\ mode' \in {mode, "SHUTDOWN"}
      /\ oob' \in BOOLEAN
  <2>a. oob \in BOOLEAN
    BY DEF TypeInv, LoaderTypeOK, ShellTypeOK
  <2>1. CASE Other \/ Exit \/ SaveBackwards
    BY <2>a, <2>1 DEF Other, Exit, SaveBackwards, Line, Touch
  <2>2. CASE \E host \in BOOLEAN : Rst(host)
    BY <2>a, <2>2 DEF Rst, Line, Touch
  <2>3. CASE \E begin, n \in 0 .. size : Restore(begin, n) \/ Save(begin, n)
    BY <2>a, <2>3 DEF Restore, Save, Line, Touch
  <2>4. CASE \E span \in Spans, width \in {1} \cup Widths : Mem(span, width)
    BY <2>a, <2>4 DEF Mem, Line, Touch
  <2>5. CASE \E bits \in Bits : ResizeRefused(bits)
    BY <2>a, <2>5 DEF ResizeRefused, Line, Touch
  <2> QED BY <2>1, <2>2, <2>3, <2>4, <2>5
<1>2. pc \in {"read", "script"} /\ pc' \in {"script", "test", "hung"}
  BY <1>1 DEF Line, Back
<1>3. ShellTypeOK'
  BY <1>1, <1>2, LoaderAssumption DEF TypeInv, LoaderTypeOK, ShellTypeOK, Line, Modes, Ended
<1> QED BY <1>1, <1>2, <1>3, QuietStep DEF TypeInv, PcInv, Running

LEMMA WaitStep ==
  ASSUME TypeInv,
         \/ \E addr \in {0, size}, mmio \in BOOLEAN, asked \in Asked, timeout \in Timeouts :
              Wait(addr, mmio, asked, timeout)
         \/ Arm \/ Poll \/ Look \/ Settle \/ Disarm
  PROVE  TypeInv'
<1>1. CASE \E addr \in {0, size}, mmio \in BOOLEAN, asked \in Asked, timeout \in Timeouts :
              Wait(addr, mmio, asked, timeout)
  <2>1. PICK addr \in {0, size}, mmio \in BOOLEAN, asked \in Asked, timeout \in Timeouts :
              Wait(addr, mmio, asked, timeout)
    BY <1>1
  <2>2. size \in Nat /\ size > 0 /\ asked \in Nat /\ timeout \in Nat /\ pc \in {"read", "script"}
    BY <2>1, LoaderAssumption DEF Wait, Line, TypeInv, PcInv, Running, LoaderTypeOK, MemTypeOK
  <2>3. addr % size \in Nat
    BY <2>2
  <2>4. wait' \in Waits /\ wait'.numms = 0 /\ wait'.timeout = timeout
    BY <2>1, <2>2, <2>3 DEF Wait, NoWait, Waits, Verdicts
  <2>5. ShellTypeOK'
    <3>0. /\ Line("arm") /\ UNCHANGED <<mode, oob>>
      BY <2>1 DEF Wait
    <3>1. /\ script' \in -1 .. MaxScript /\ pc' = "arm"
          /\ UNCHANGED <<mode, sigints, oob>>
      BY <3>0, LoaderAssumption DEF TypeInv, LoaderTypeOK, ShellTypeOK, Line
    <3>2. wait'.timeout > 0 => wait'.numms <= wait'.timeout
      BY <2>2, <2>4
    <3> QED BY <2>4, <3>1, <3>2 DEF TypeInv, LoaderTypeOK, ShellTypeOK
  <2>6. Quiet /\ UNCHANGED env /\ pc' = "arm"
    BY <2>1 DEF Wait, Line
  <2> QED BY <2>2, <2>5, <2>6, QuietStep DEF TypeInv, PcInv, Running
<1>2. CASE Arm
  <2>1. ShellTypeOK'
    BY <1>2 DEF TypeInv, LoaderTypeOK, ShellTypeOK, Arm, Modes
  <2> QED BY <1>2, <2>1, QuietStep DEF Arm, TypeInv, PcInv, Running
<1>3. CASE Poll
  <2>1. ShellTypeOK'
    BY <1>3 DEF TypeInv, LoaderTypeOK, ShellTypeOK, Poll, Go
  <2>2. pc' = "look" /\ wait'.timeout > 0 => wait'.numms < wait'.timeout
    BY <1>3 DEF TypeInv, LoaderTypeOK, ShellTypeOK, Poll, Go
  <2>3. Quiet /\ UNCHANGED env /\ pc' \in {"look", "settle"} /\ pc = "poll"
    BY <1>3 DEF Poll, Go
  <2> QED BY <2>1, <2>2, <2>3, QuietStep DEF TypeInv, PcInv, Running
<1>4. CASE Look
  <2>1. wait \in Waits /\ (wait.timeout > 0 => wait.numms < wait.timeout)
    BY <1>4 DEF TypeInv, PcInv, LoaderTypeOK, ShellTypeOK, Look
  <2>2. wait' \in Waits /\ (wait'.timeout > 0 => wait'.numms <= wait'.timeout)
    <3>1. CASE wait' = [wait EXCEPT !.hit = TRUE]
      <4>1. wait' \in Waits
        BY <2>1, <3>1 DEF Waits
      <4>2. wait'.timeout = wait.timeout /\ wait'.numms = wait.numms
        BY <2>1, <3>1 DEF Waits
      <4>3. wait.timeout \in Nat /\ wait.numms \in Nat
        BY <2>1 DEF Waits
      <4> QED BY <2>1, <4>1, <4>2, <4>3
    <3>2. CASE wait' = [wait EXCEPT !.numms = IF wait.timeout = 0 THEN @ ELSE @ + 1]
      <4> DEFINE n == IF wait.timeout = 0 THEN wait.numms ELSE wait.numms + 1
      <4>1. n \in Nat /\ (wait.timeout > 0 => n <= wait.timeout)
        BY <2>1 DEF Waits
      <4>2. wait' = [wait EXCEPT !.numms = n]
        BY <3>2
      <4> HIDE DEF n
      <4> QED BY <2>1, <4>1, <4>2 DEF Waits
    <3> QED BY <1>4, <3>1, <3>2 DEF Look
  <2>3. pc = "look" /\ pc' \in {"settle", "poll"} /\ Quiet /\ UNCHANGED <<env, mode, script, sigints>>
    BY <1>4 DEF Look
  <2>4. oob' \in BOOLEAN
    BY <1>4 DEF Look, Touch
  <2>5. ShellTypeOK'
    BY <2>2, <2>3, <2>4 DEF TypeInv, LoaderTypeOK, ShellTypeOK
  <2> QED BY <2>3, <2>5, QuietStep DEF TypeInv, PcInv, Running
<1>5. CASE Settle
  <2>1. wait' = [wait EXCEPT !.verdict = wait'.verdict] /\ wait'.verdict \in Verdicts
    BY <1>5 DEF Settle, Verdicts, TypeInv, LoaderTypeOK, ShellTypeOK, Waits
  <2>2. wait \in Waits /\ (wait.timeout > 0 => wait.numms <= wait.timeout)
    BY DEF TypeInv, LoaderTypeOK, ShellTypeOK
  <2>3. wait' \in Waits
    BY <2>1, <2>2 DEF Waits
  <2>4. wait'.timeout = wait.timeout /\ wait'.numms = wait.numms
    BY <2>1, <2>2 DEF Waits
  <2>5. ShellTypeOK'
    BY <1>5, <2>2, <2>3, <2>4 DEF TypeInv, LoaderTypeOK, ShellTypeOK, Settle
  <2> QED BY <1>5, <2>5, QuietStep DEF Settle, TypeInv, PcInv, Running
<1>6. CASE Disarm
  <2>1. ShellTypeOK'
    BY <1>6, NoWaitType DEF TypeInv, LoaderTypeOK, ShellTypeOK, Disarm, Return, Modes
  <2> QED BY <1>6, <2>1, QuietStep DEF Disarm, Return, TypeInv, PcInv, Running
<1> QED BY <1>1, <1>2, <1>3, <1>4, <1>5, <1>6

\* Actions that begin a resize or the end.
LEMMA BeginStep ==
  ASSUME TypeInv, NEW g \in Sizes \cup {Null}, Begin(g), ShellTypeOK', UNCHANGED env,
         pc # "terminated", pc' \in {"boot", "resizing", "recovering", "closing"}
  PROVE  TypeInv'
<1>1. MemTypeOK' /\ MemInv' /\ memop' = "unmap"
  BY BeginMem DEF TypeInv, LoaderTypeOK
<1> QED BY <1>1 DEF TypeInv, LoaderTypeOK, PcInv, Running

LEMMA OpStep ==
  ASSUME TypeInv,
         \/ Start \/ Leave \/ RunFails \/ LookFails \/ Unwind \/ Recover
         \/ \E bits \in Bits : Resize(bits)
  PROVE  TypeInv'
<1>a. DefaultSize \in Sizes /\ RecoverySize \in Sizes
  BY LoaderAssumption DEF Sizes
<1>b. NoWait \in Waits /\ NoWait.timeout = 0
  BY NoWaitType
<1>1. CASE Start
  <2>1. mode' \in Modes /\ UNCHANGED <<env, wait, sigints, oob>> /\ pc = "start"
    BY <1>1 DEF Start, TypeInv, PcInv, Modes
  <2>2. /\ script' \in -1 .. MaxScript /\ pc' \in {"boot", "closing"}
        /\ Begin(DefaultSize) \/ Begin(Null)
    BY <1>1, LoaderAssumption DEF Start, Close
  <2>3. ShellTypeOK'
    BY <2>1, <2>2 DEF TypeInv, LoaderTypeOK, ShellTypeOK
  <2> QED BY <1>a, <2>1, <2>2, <2>3, BeginStep
<1>2. CASE Leave \/ Unwind
  <2>1. /\ UNCHANGED <<mode, env, script, wait, sigints, oob>> /\ pc' = "closing"
        /\ pc # "terminated" /\ Begin(Null)
    BY <1>2 DEF Leave, Unwind, Go, Close
  <2>2. ShellTypeOK'
    BY <2>1 DEF TypeInv, LoaderTypeOK, ShellTypeOK
  <2> QED BY <2>1, <2>2, BeginStep
<1>3. CASE Recover
  <2>1. /\ UNCHANGED <<mode, env, script, wait, sigints, oob>> /\ pc' = "recovering"
        /\ pc # "terminated" /\ Begin(RecoverySize)
    BY <1>3 DEF Recover, Go
  <2>2. ShellTypeOK'
    BY <2>1 DEF TypeInv, LoaderTypeOK, ShellTypeOK
  <2> QED BY <1>a, <2>1, <2>2, BeginStep
<1>4. CASE RunFails
  <2>1. Line("closing") /\ UNCHANGED <<mode, wait, oob>> /\ Begin(Null)
    BY <1>4 DEF RunFails, Close
  <2>2. ShellTypeOK' /\ pc' = "closing" /\ pc # "terminated" /\ UNCHANGED env
    BY <2>1, LoaderAssumption DEF TypeInv, LoaderTypeOK, ShellTypeOK, Line
  <2> QED BY <2>1, <2>2, BeginStep
<1>5. CASE \E bits \in Bits : Resize(bits)
  <2>1. PICK bits \in Bits : Resize(bits)
    BY <1>5
  <2>2. Line("resizing") /\ UNCHANGED <<mode, wait, oob>> /\ Begin(2^bits)
    BY <2>1 DEF Resize
  <2>3. ShellTypeOK' /\ pc' = "resizing" /\ pc # "terminated" /\ UNCHANGED env
    BY <2>2, LoaderAssumption DEF TypeInv, LoaderTypeOK, ShellTypeOK, Line
  <2>4. 2^bits \in Sizes
    BY <2>1, LoaderAssumption DEF Resize, Sizes
  <2> QED BY <2>2, <2>3, <2>4, BeginStep
<1>6. CASE LookFails
  <2>1. /\ UNCHANGED <<mode, env, script, sigints, oob>> /\ pc' = "closing" /\ wait' = NoWait
        /\ pc # "terminated" /\ Begin(Null)
    BY <1>6 DEF LookFails, Close
  <2>2. ShellTypeOK'
    BY <1>b, <2>1 DEF TypeInv, LoaderTypeOK, ShellTypeOK
  <2> QED BY <2>1, <2>2, BeginStep
<1> QED BY <1>1, <1>2, <1>3, <1>4, <1>5, <1>6

LEMMA RestStep ==
  ASSUME TypeInv, Run \/ Resized \/ Mmem \/ Terminate \/ BadQuote \/ Closed \/ Sigint
  PROVE  TypeInv'
<1>1. CASE Run
  <2>1. /\ Line(Back) /\ started' = TRUE /\ UNCHANGED <<mode, wait, oob>>
        /\ UNCHANGED <<data, size, buffers, len, memop, seg, left, goal, base, dma>>
    BY <1>1 DEF Run, hostvars, opvars
  <2>2. pc \in {"read", "script"} /\ pc' \in {"test", "script"}
    BY <2>1 DEF Line, Back
  <2>3. ShellTypeOK' /\ UNCHANGED env
    BY <2>1, <2>2, LoaderAssumption DEF TypeInv, LoaderTypeOK, ShellTypeOK, Line
  <2>4. MemTypeOK' /\ MemInv'
    BY <2>1, <2>2 DEF TypeInv, LoaderTypeOK, MemTypeOK, MemInv, Backed, Silent, BytesIn, Sizes, Segments
  <2> QED BY <2>1, <2>2, <2>3, <2>4 DEF TypeInv, LoaderTypeOK, PcInv, Running
<1>2. CASE Resized
  <2>1. /\ UNCHANGED <<mode, env, script, wait, sigints>> /\ Quiet
        /\ pc \in {"resizing", "recovering"} /\ memop = "none"
        /\ pc' \in {"script", "test"}
    BY <1>2 DEF Resized, Return
  <2>2. oob' \in BOOLEAN
    BY <1>2 DEF Resized, Touch, TypeInv, LoaderTypeOK, ShellTypeOK
  <2>3. ShellTypeOK'
    BY <2>1, <2>2 DEF TypeInv, LoaderTypeOK, ShellTypeOK
  <2> QED BY <2>1, <2>3, QuietStep
<1>3. CASE Mmem
  <2>1. /\ pc \in {"boot", "resizing", "recovering", "closing"} /\ MemStep
        /\ UNCHANGED <<pc, mode, env, script, wait, sigints, oob>>
    BY <1>3 DEF Mmem, shellvars
  <2>2. MemTypeOK' /\ MemInv' /\ (memop' = "none" => size' > 0)
    BY <2>1, StepMem DEF TypeInv, LoaderTypeOK
  <2>3. ShellTypeOK'
    BY <2>1 DEF TypeInv, LoaderTypeOK, ShellTypeOK
  <2> QED BY <2>1, <2>2, <2>3 DEF TypeInv, LoaderTypeOK, PcInv, Running
<1>4. CASE Terminate
  <2>1. /\ UNCHANGED <<mode, env, script, wait, sigints, oob>> /\ pc' = "terminated"
        /\ Reclaim
    BY <1>4 DEF Terminate, Go
  <2>2. ShellTypeOK'
    BY <2>1 DEF TypeInv, LoaderTypeOK, ShellTypeOK, Ended
  <2>3. MemTypeOK' /\ memop' = "destroyed"
    BY <2>1, ReclaimType DEF TypeInv, LoaderTypeOK, Reclaim
  <2> QED BY <2>1, <2>2, <2>3 DEF TypeInv, LoaderTypeOK, PcInv, Running
<1>5. CASE BadQuote
  <2>1. Line("terminated") /\ UNCHANGED <<mode, wait, oob>> /\ Reclaim
    BY <1>5 DEF BadQuote
  <2>2. ShellTypeOK' /\ pc' = "terminated" /\ UNCHANGED env
    BY <2>1, LoaderAssumption DEF TypeInv, LoaderTypeOK, ShellTypeOK, Line, Ended
  <2>3. MemTypeOK' /\ memop' = "destroyed"
    BY <2>1, ReclaimType DEF TypeInv, LoaderTypeOK, Reclaim
  <2> QED BY <2>1, <2>2, <2>3 DEF TypeInv, LoaderTypeOK, PcInv, Running
<1>6. CASE Closed
  <2>1. /\ UNCHANGED <<mode, env, script, wait, sigints, oob>> /\ pc' = "ended"
        /\ pc = "closing" /\ memop = "destroyed" /\ Reclaim
    BY <1>6 DEF Closed, Go
  <2>2. ShellTypeOK'
    BY <2>1 DEF TypeInv, LoaderTypeOK, ShellTypeOK, Ended
  <2>3. MemTypeOK' /\ memop' = "destroyed"
    BY <2>1, ReclaimType DEF TypeInv, LoaderTypeOK, Reclaim
  <2>4. MemInv'
    BY <2>1 DEF TypeInv, MemInv, Reclaim, Segments
  <2> QED BY <2>1, <2>2, <2>3, <2>4 DEF TypeInv, LoaderTypeOK, PcInv, Running
<1>7. CASE Sigint
  <2>1. /\ pc \notin Ended /\ mode' = "INTERACTIVE" /\ sigints' = sigints + 1
        /\ sigints < MaxSigint /\ Quiet /\ UNCHANGED <<pc, env, script, oob>>
        /\ wait' \in {wait, [wait EXCEPT !.interrupted = TRUE]}
    BY <1>7 DEF Sigint
  <2>2. wait \in Waits
    BY DEF TypeInv, LoaderTypeOK, ShellTypeOK
  <2>3. wait' \in Waits /\ wait'.timeout = wait.timeout /\ wait'.numms = wait.numms
    BY <2>1, <2>2 DEF Waits
  <2>4. ShellTypeOK'
    BY <2>1, <2>3, LoaderAssumption DEF TypeInv, LoaderTypeOK, ShellTypeOK, Modes
  <2>5. MemTypeOK' /\ MemInv' /\ memop' = memop /\ size' = size
    BY <2>1, QuietMem DEF TypeInv, LoaderTypeOK, Ended
  <2> QED BY <2>1, <2>3, <2>4, <2>5 DEF TypeInv, LoaderTypeOK, PcInv, Running
<1> QED BY <1>1, <1>2, <1>3, <1>4, <1>5, <1>6, <1>7

LEMMA DeviceStep ==
  ASSUME TypeInv, Device, UNCHANGED shellvars
  PROVE  TypeInv'
<1>1. /\ MemTypeOK' /\ (MemInv => MemInv')
      /\ UNCHANGED <<data, size, buffers, len, memop, seg, left, goal, base, started>>
  BY DeviceMem DEF TypeInv, LoaderTypeOK
<1>2. UNCHANGED <<pc, mode, env, script, wait, sigints, oob>>
  BY DEF shellvars
<1>3. ShellTypeOK'
  BY <1>2 DEF TypeInv, LoaderTypeOK, ShellTypeOK
<1> QED BY <1>1, <1>2, <1>3 DEF TypeInv, LoaderTypeOK, PcInv

LEMMA TypeInit ==
  ASSUME Init
  PROVE  TypeInv
<1>1. MemTypeOK /\ MemInv
  <2>1. dma \in [buf : Buffers \cup {Null}, off : Nat, calm : BOOLEAN]
    BY DEF Init, MemInit, NoDma
  <2>2. /\ data = [s \in Segments |-> Null] /\ size = 0 /\ buffers = {}
        /\ len = [b \in Buffers |-> 0] /\ memop = "none" /\ seg = 0 /\ left = 0
        /\ goal = Null /\ base = [s \in Segments |-> Null] /\ started = FALSE
    BY DEF Init, MemInit
  <2>3. MemTypeOK
    <3>1. data \in [Segments -> Buffers \cup {Null}] /\ base \in [Segments -> Buffers \cup {Null}]
      BY <2>2
    <3>2. len \in [Buffers -> Nat]
      BY <2>2
    <3>3. seg \in Segments /\ left \in Nat /\ size \in Nat
      BY <2>2 DEF Segments
    <3> QED BY <2>1, <2>2, <3>1, <3>2, <3>3 DEF MemTypeOK
  <2>4. \A s \in Segments : BytesIn(s) = 0 /\ data[s] = Null /\ base[s] = Null
    BY <2>2, MemoryAssumption DEF BytesIn, Segments
  <2>5. size \in 0 .. 4 * GB
    BY <2>2, MemoryAssumption
  <2>6. buffers = {data[s] : s \in Segments} \ {Null}
    BY <2>2, <2>4
  <2>7. Backed
    BY <2>4 DEF Backed
  <2> QED BY <2>2, <2>3, <2>4, <2>5, <2>6, <2>7 DEF MemInv
<1>2. /\ pc = "start" /\ mode = "INTERACTIVE" /\ script = -1 /\ wait = NoWait
      /\ sigints = 0 /\ oob = FALSE
  BY DEF Init
<1>3. ShellTypeOK
  <2>1. wait \in Waits /\ ~ (wait.timeout > 0)
    BY <1>2, NoWaitType
  <2>2. script \in -1 .. MaxScript /\ sigints \in 0 .. MaxSigint
    BY <1>2, LoaderAssumption
  <2> QED BY <1>2, <2>1, <2>2 DEF ShellTypeOK, Modes
<1>4. PcInv
  <2>1. env.mode \in {"MACHINE", "INTERACTIVE"}
    BY EnvMode DEF Init
  <2>2. memop = "none"
    BY DEF Init, MemInit
  <2> QED BY <1>2, <2>1, <2>2 DEF PcInv, Running
<1> QED BY <1>1, <1>3, <1>4 DEF TypeInv, LoaderTypeOK

LEMMA TypeStep ==
  ASSUME TypeInv, [Next]_vars
  PROVE  TypeInv'
<1>1. CASE Own
  BY <1>1, LoopStep, WaitStep, OpStep, RestStep DEF Own
<1>2. CASE Directive
  BY <1>2, LookStep, WaitStep, OpStep, RestStep DEF Directive
<1>3. CASE UNCHANGED vars
  <2>1. Quiet /\ UNCHANGED <<pc, mode, env, script, wait, sigints, oob>>
    BY <1>3 DEF vars, shellvars, Quiet
  <2>2. ShellTypeOK'
    BY <2>1 DEF TypeInv, LoaderTypeOK, ShellTypeOK
  <2>3. MemTypeOK' /\ (MemInv => MemInv') /\ memop' = memop /\ size' = size
    BY <2>1, QuietMem DEF TypeInv, LoaderTypeOK
  <2> QED BY <2>1, <2>2, <2>3 DEF TypeInv, LoaderTypeOK, PcInv
<1>4. CASE EndOfInput \/ Sigint
  BY <1>4, LoopStep, RestStep
<1>5. CASE Device /\ UNCHANGED shellvars
  BY <1>5, DeviceStep
<1> QED BY <1>1, <1>2, <1>3, <1>4, <1>5 DEF Next

LEMMA TypeInvariant ==
  Spec => []TypeInv
<1>1. Init => TypeInv
  BY TypeInit
<1>2. TypeInv /\ [Next]_vars => TypeInv'
  BY TypeStep
<1> QED BY <1>1, <1>2, PTL DEF Spec

-----------------------------------------------------------------------------
(* What follows from the state of the memory.                              *)

LEMMA Division ==
  ASSUME NEW n \in Nat \ {0}, NEW a \in 0 .. 4 * n - 1
  PROVE  /\ (a \div n) \in 0 .. 3 /\ a % n \in 0 .. n - 1
         /\ a = (a \div n) * n + (a % n)
<1>1. a \in Int /\ n \in Int /\ n > 0
  OBVIOUS
<1>2. (a \div n) \in Int
  BY <1>1
<1>3. a % n \in 0 .. n - 1
  BY <1>1
<1>4. a = n * (a \div n) + (a % n)
  BY <1>1
<1> QED BY <1>1, <1>2, <1>3, <1>4

\* A byte of the memory has a place in the buffer of its segment.
LEMMA Placed ==
  ASSUME MemTypeOK, MemInv, memop = "none", NEW a \in 0 .. size - 1
  PROVE  InBuffer(HostAddress(a)) /\ DeviceAddress(a) = HostAddress(a)
<1>1. GB \in Nat \ {0} /\ size \in Nat /\ size <= 4 * GB /\ a \in 0 .. 4 * GB - 1
  BY MemoryAssumption DEF MemInv, MemTypeOK
<1> DEFINE s == SegmentOf(a)  o == a % GB
<1>2. s \in 0 .. 3 /\ o \in 0 .. GB - 1 /\ a = s * GB + o
  <2>1. /\ (a \div GB) \in 0 .. 3 /\ a % GB \in 0 .. GB - 1
        /\ a = (a \div GB) * GB + (a % GB)
    BY <1>1, Division
  <2>2. (a \div GB) % 4 = a \div GB
    BY <2>1
  <2> QED BY <2>1, <2>2 DEF SegmentOf
<1> HIDE DEF s, o
<1>3. s \in Segments /\ BytesIn(s) \in Nat /\ o < BytesIn(s)
  <2>1. CASE s = 0
    BY <1>1, <1>2, <2>1 DEF BytesIn, Segments
  <2>2. CASE s = 1
    BY <1>1, <1>2, <2>2 DEF BytesIn, Segments
  <2>3. CASE s = 2
    BY <1>1, <1>2, <2>3 DEF BytesIn, Segments
  <2>4. CASE s = 3
    BY <1>1, <1>2, <2>4 DEF BytesIn, Segments
  <2> QED BY <1>2, <2>1, <2>2, <2>3, <2>4
<1>4. data[s] \in buffers /\ len[data[s]] = BytesIn(s) /\ base[s] = data[s]
  BY <1>2, <1>3 DEF MemInv, Backed
<1>5. HostAddress(a) = [buf |-> data[s], off |-> o] /\ DeviceAddress(a) = [buf |-> base[s], off |-> o]
  BY DEF HostAddress, DeviceAddress, s, o
<1>6. InBuffer([buf |-> data[s], off |-> o])
  BY <1>2, <1>3, <1>4 DEF InBuffer
<1> QED BY <1>4, <1>5, <1>6

\* Loader: types, and the bounds of the counters of .wait and of the script.
THEOREM LoaderTypes ==
  Spec => []LoaderTypeOK
<1>1. TypeInv => LoaderTypeOK
  BY DEF TypeInv
<1> QED BY <1>1, TypeInvariant, PTL

\* mmem::resize and ~mmem: while the program lives, no base address register
\* holds the address of a buffer that was given back.
THEOREM RegistersStayLive ==
  Spec => []RegistersLive
<1>1. TypeInv => RegistersLive
  <2>1. SUFFICES ASSUME TypeInv, pc # "terminated", NEW s \in Segments
                 PROVE  base[s] \in buffers \cup {Null}
    BY DEF RegistersLive
  <2>2. base[s] \in {Null, data[s]} /\ buffers = {data[t] : t \in Segments} \ {Null}
    BY <2>1 DEF TypeInv, MemInv
  <2> QED BY <2>2
<1> QED BY <1>1, TypeInvariant, PTL

\* mmem and AFU: the driver holds the buffers of the segments and no others.
THEOREM NothingLeaks ==
  Spec => []NoLeak
<1>1. TypeInv => NoLeak
  BY DEF TypeInv, MemInv, NoLeak
<1> QED BY <1>1, TypeInvariant, PTL

\* mmem::operator[]: every address below get_size() has a byte in a live buffer.
THEOREM MemoryCovered ==
  Spec => []Covered
<1>1. TypeInv => Covered
  BY Placed DEF TypeInv, LoaderTypeOK, PcInv, Covered
<1> QED BY <1>1, TypeInvariant, PTL

\* mmem::map_mem: the processor translates an address as mmem::operator[] does.
THEOREM ViewsAgree ==
  Spec => []SameView
<1>1. TypeInv => SameView
  BY Placed DEF TypeInv, LoaderTypeOK, PcInv, SameView
<1> QED BY <1>1, TypeInvariant, PTL

-----------------------------------------------------------------------------
(* Transfers of the device.                                                *)

\* What a step does to the memory.
LEMMA MemoryStep ==
  ASSUME [Next]_vars
  PROVE  \/ UNCHANGED <<hostvars, opvars, dma>>
         \/ \E g \in Nat \cup {Null} : Begin(g)
         \/ Reclaim \/ MemStep \/ Device
<1>1. CASE \/ OpenFails \/ Booted \/ ScriptEnds \/ Test \/ Test2 \/ Prompt \/ EndOfInput
           \/ Resized \/ Arm \/ Poll \/ Look \/ Settle \/ Disarm \/ Sigint
           \/ Other \/ Exit \/ SaveBackwards \/ UNCHANGED vars
  <2>1. Quiet
    BY <1>1 DEF OpenFails, Booted, ScriptEnds, Test, Test2, Prompt, EndOfInput, Resized, Arm, Poll,
                Look, Settle, Disarm, Sigint, Other, Exit, SaveBackwards, vars, Quiet
  <2> QED BY <2>1 DEF Quiet, memvars, hostvars, opvars
<1>2. CASE \/ \E host \in BOOLEAN : Rst(host)
           \/ \E begin, n \in 0 .. size : Restore(begin, n) \/ Save(begin, n)
           \/ \E span \in Spans, width \in {1} \cup Widths : Mem(span, width)
           \/ \E bits \in Bits : ResizeRefused(bits)
           \/ \E addr \in {0, size}, mmio \in BOOLEAN, asked \in Asked, timeout \in Timeouts :
                Wait(addr, mmio, asked, timeout)
  <2>1. Quiet
    <3>1. CASE \E host \in BOOLEAN : Rst(host)
      BY <3>1 DEF Rst
    <3>2. CASE \E begin, n \in 0 .. size : Restore(begin, n) \/ Save(begin, n)
      BY <3>2 DEF Restore, Save
    <3>3. CASE \E span \in Spans, width \in {1} \cup Widths : Mem(span, width)
      BY <3>3 DEF Mem
    <3>4. CASE \E bits \in Bits : ResizeRefused(bits)
      BY <3>4 DEF ResizeRefused
    <3>5. CASE \E addr \in {0, size}, mmio \in BOOLEAN, asked \in Asked, timeout \in Timeouts :
                 Wait(addr, mmio, asked, timeout)
      BY <3>5 DEF Wait
    <3> QED BY <1>2, <3>1, <3>2, <3>3, <3>4, <3>5
  <2> QED BY <2>1 DEF Quiet, memvars, hostvars, opvars
<1>3. CASE \/ Start \/ Leave \/ RunFails \/ LookFails \/ Unwind \/ Recover
           \/ \E bits \in Bits : Resize(bits)
  <2>1. CASE Start \/ Recover
    <3>1. DefaultSize \in Nat /\ RecoverySize \in Nat
      BY LoaderAssumption, MemoryAssumption
    <3>2. Begin(DefaultSize) \/ Begin(RecoverySize) \/ Begin(Null)
      BY <2>1 DEF Start, Recover, Close
    <3> QED BY <3>1, <3>2
  <2>2. CASE Leave \/ RunFails \/ LookFails \/ Unwind
    BY <2>2 DEF Leave, RunFails, LookFails, Unwind, Close
  <2>3. CASE \E bits \in Bits : Resize(bits)
    <3>1. PICK bits \in Bits : Resize(bits)
      BY <2>3
    <3>2. 2^bits \in Nat
      BY <3>1, LoaderAssumption, MemoryAssumption DEF Resize
    <3> QED BY <3>1, <3>2 DEF Resize
  <2> QED BY <1>3, <2>1, <2>2, <2>3
<1>4. CASE Terminate \/ BadQuote \/ Closed
  BY <1>4 DEF Terminate, BadQuote, Closed
<1>5. CASE Mmem \/ Run \/ (Device /\ UNCHANGED shellvars)
  BY <1>5 DEF Mmem, Run
<1>6. CASE Own
  BY <1>1, <1>3, <1>4, <1>5, <1>6 DEF Own
<1>7. CASE Directive
  BY <1>1, <1>2, <1>3, <1>4, <1>5, <1>7 DEF Directive
<1> QED BY <1>1, <1>5, <1>6, <1>7 DEF Next

DeviceInv == dma.calm => memop = "none" /\ InBuffer(dma)

LEMMA CalmStep ==
  ASSUME TypeInv, pc # "terminated", DeviceInv, [Next]_vars
  PROVE  DeviceInv'
<1>t. dma \in [buf : Buffers \cup {Null}, off : Nat, calm : BOOLEAN]
  BY DEF TypeInv, LoaderTypeOK, MemTypeOK
<1>1. CASE UNCHANGED <<hostvars, opvars, dma>>
  BY <1>1 DEF hostvars, opvars, DeviceInv, InBuffer
<1>2. CASE (\E g \in Nat \cup {Null} : Begin(g)) \/ Reclaim
  <2>1. dma' = [dma EXCEPT !.calm = FALSE]
    BY <1>2 DEF Begin, Reclaim
  <2>2. dma'.calm = FALSE
    BY <1>t, <2>1
  <2> QED BY <2>2 DEF DeviceInv
<1>3. CASE MemStep
  BY <1>3 DEF MemStep, Unmap, Free, Alloc, AllocFails, MapMem, MmioFails, DeviceInv
<1>4. CASE DmaStart
  <2>1. PICK a \in 0 .. size - 1 :
          dma' = [buf |-> DeviceAddress(a).buf, off |-> DeviceAddress(a).off,
                  calm |-> memop = "none"]
    BY <1>4 DEF DmaStart
  <2>2. UNCHANGED <<buffers, len, memop>>
    BY <1>4 DEF DmaStart, hostvars, opvars
  <2>3. CASE memop = "none"
    <3>1. InBuffer(HostAddress(a)) /\ DeviceAddress(a) = HostAddress(a)
      BY <2>1, <2>3, Placed DEF TypeInv, LoaderTypeOK
    <3>2. dma'.buf = HostAddress(a).buf /\ dma'.off = HostAddress(a).off
      BY <2>1, <3>1
    <3> QED BY <2>2, <2>3, <3>1, <3>2 DEF DeviceInv, InBuffer
  <2>4. CASE memop # "none"
    <3>1. ~ dma'.calm
      BY <2>1, <2>4
    <3> QED BY <3>1 DEF DeviceInv
  <2> QED BY <2>3, <2>4
<1>5. CASE DmaDone
  BY <1>5 DEF DmaDone, NoDma, DeviceInv
<1> QED BY <1>1, <1>2, <1>3, <1>4, <1>5, MemoryStep DEF Device

\* mmem and the device: a transfer that no resize, and not the end of the
\* program, coincides with stays inside a live buffer.
THEOREM TransfersStayInside ==
  Spec => []DeviceSafe
<1>1. Init => DeviceInv
  BY DEF Init, MemInit, NoDma, DeviceInv
<1>2. TypeInv /\ DeviceInv /\ [Next]_vars => DeviceInv'
  <2>1. SUFFICES ASSUME TypeInv, DeviceInv, [Next]_vars
                 PROVE  DeviceInv'
    OBVIOUS
  <2>2. CASE pc # "terminated"
    BY <2>1, <2>2, CalmStep
  <2>3. CASE pc = "terminated"
    <3>t. dma \in [buf : Buffers \cup {Null}, off : Nat, calm : BOOLEAN]
      BY <2>1 DEF TypeInv, LoaderTypeOK, MemTypeOK
    <3>1. memop = "destroyed" /\ dma.calm = FALSE
      BY <2>1, <2>3, <3>t DEF TypeInv, PcInv, DeviceInv
    <3>2. dma'.calm = FALSE
      <4>1. CASE UNCHANGED <<hostvars, opvars, dma>>
        BY <3>1, <3>t, <4>1
      <4>2. CASE (\E g \in Nat \cup {Null} : Begin(g)) \/ Reclaim
        <5>1. dma' = [dma EXCEPT !.calm = FALSE]
          BY <4>2 DEF Begin, Reclaim
        <5> QED BY <3>t, <5>1
      <4>3. CASE MemStep
        BY <3>1, <4>3 DEF MemStep, Unmap, Free, Alloc, AllocFails, MapMem, MmioFails
      <4>4. CASE DmaStart
        <5>1. PICK a \in 0 .. size - 1 :
                dma' = [buf |-> DeviceAddress(a).buf, off |-> DeviceAddress(a).off,
                        calm |-> memop = "none"]
          BY <4>4 DEF DmaStart
        <5>2. (memop = "none") = FALSE
          BY <3>1
        <5> QED BY <5>1, <5>2
      <4>5. CASE DmaDone
        BY <4>5 DEF DmaDone, NoDma
      <4> QED BY <2>1, <4>1, <4>2, <4>3, <4>4, <4>5, MemoryStep DEF Device
    <3> QED BY <3>2 DEF DeviceInv
  <2> QED BY <2>2, <2>3
<1>3. DeviceInv => DeviceSafe
  BY DEF DeviceInv, DeviceSafe
<1> QED BY <1>1, <1>2, <1>3, TypeInvariant, PTL DEF Spec

-----------------------------------------------------------------------------
(* .wait, and the bytes the directives touch.                              *)

WaitPcs == {"arm", "poll", "look", "settle", "disarm"}

WaitInv ==
  /\ pc \notin WaitPcs => wait.verdict = "none"
  /\ pc \in WaitPcs \ {"disarm"} => wait.verdict = "none" /\ wait.addr < size
  /\ pc \in {"arm", "poll", "look"} => ~ wait.hit
  /\ pc = "arm" => ~ wait.interrupted
  /\ pc \in {"poll", "look", "settle"} =>
       (mode = "MACHINE" /\ ~ wait.interrupted) \/ (mode # "MACHINE" /\ wait.interrupted)
  /\ pc = "settle" /\ wait.hit => wait.timeout = 0 \/ wait.numms < wait.timeout
  /\ pc = "settle" /\ ~ wait.hit /\ ~ wait.interrupted =>
       wait.timeout > 0 /\ wait.numms = wait.timeout

\* A step outside .wait begins one or has nothing to do with it.
LEMMA Elsewhere ==
  ASSUME TypeInv, [Next]_vars, pc \notin WaitPcs
  PROVE  \/ \E addr \in {0, size}, mmio \in BOOLEAN, asked \in Asked, timeout \in Timeouts :
              Wait(addr, mmio, asked, timeout)
         \/ pc' \notin WaitPcs /\ wait' = wait
<1> USE DEF WaitPcs
<1>1. CASE \/ OpenFails \/ Booted \/ ScriptEnds \/ Test \/ Test2 \/ Prompt \/ EndOfInput
           \/ Leave \/ Recover \/ Unwind \/ Terminate \/ Closed
  BY <1>1 DEF OpenFails, Booted, ScriptEnds, Test, Test2, Prompt, EndOfInput, Go, Leave, Recover,
              Unwind, Terminate, Closed, Ended
<1>2. CASE Start \/ Resized
  BY <1>2 DEF Start, Resized, Return
<1>3. CASE Mmem \/ UNCHANGED vars \/ (Device /\ UNCHANGED shellvars)
  BY <1>3 DEF Mmem, shellvars, vars
<1>4. CASE Sigint
  BY <1>4 DEF Sigint
<1>5. CASE Other \/ BadQuote \/ Exit \/ Run \/ RunFails \/ SaveBackwards
  BY <1>5 DEF Other, BadQuote, Exit, Run, RunFails, SaveBackwards, Line, Back
<1>6. CASE \/ \E host \in BOOLEAN : Rst(host)
           \/ \E bits \in Bits : ResizeRefused(bits) \/ Resize(bits)
  BY <1>6 DEF Rst, ResizeRefused, Resize, Line, Back
<1>7. CASE \E begin, n \in 0 .. size : Restore(begin, n) \/ Save(begin, n)
  BY <1>7 DEF Restore, Save, Line, Back
<1>8. CASE \E span \in Spans, width \in {1} \cup Widths : Mem(span, width)
  BY <1>8 DEF Mem, Line, Back
<1>9. ~ (Arm \/ Poll \/ Look \/ LookFails \/ Settle \/ Disarm)
  BY DEF Arm, Poll, Look, LookFails, Settle, Disarm
<1>10. CASE Own
  BY <1>1, <1>2, <1>3, <1>9, <1>10 DEF Own
<1>11. CASE Directive
  BY <1>5, <1>6, <1>7, <1>8, <1>11 DEF Directive
<1> QED BY <1>1, <1>3, <1>4, <1>10, <1>11 DEF Next

\* In .wait nothing else happens but interrupts and transfers.
LEMMA InWait ==
  ASSUME TypeInv, [Next]_vars, pc \in WaitPcs
  PROVE  \/ Arm \/ Poll \/ Look \/ LookFails \/ Settle \/ Disarm \/ Sigint
         \/ UNCHANGED shellvars /\ UNCHANGED size
<1> USE DEF WaitPcs
<1>1. memop = "none"
  BY DEF TypeInv, PcInv, Running
<1>2. ~ Directive
  <2>1. ~ (Other \/ BadQuote \/ Exit \/ Run \/ RunFails \/ SaveBackwards)
    BY DEF Other, BadQuote, Exit, Run, RunFails, SaveBackwards, Line
  <2>2. ~ (\E host \in BOOLEAN : Rst(host))
    BY DEF Rst, Line
  <2>3. ~ (\E begin, n \in 0 .. size : Restore(begin, n) \/ Save(begin, n))
    BY DEF Restore, Save, Line
  <2>4. ~ (\E span \in Spans, width \in {1} \cup Widths : Mem(span, width))
    <3>1. SUFFICES ASSUME NEW span \in Spans, NEW width \in {1} \cup Widths, Mem(span, width)
                   PROVE  FALSE
      OBVIOUS
    <3>2. Line(Back)
      BY <3>1 DEF Mem
    <3> QED BY <3>2 DEF Line
  <2>5. ~ (\E bits \in Bits : ResizeRefused(bits) \/ Resize(bits))
    BY DEF ResizeRefused, Resize, Line
  <2>6. ~ (\E addr \in {0, size}, mmio \in BOOLEAN, asked \in Asked, timeout \in Timeouts :
             Wait(addr, mmio, asked, timeout))
    BY DEF Wait, Line
  <2> QED BY <2>1, <2>2, <2>3, <2>4, <2>5, <2>6 DEF Directive
<1>3. CASE Own
  BY <1>1, <1>3 DEF Own, OpenFails, Start, Booted, ScriptEnds, Test, Test2, Leave, Prompt, Resized,
                    Recover, Mmem, Unwind, Terminate, Failed, Closed
<1>4. CASE UNCHANGED vars
  BY <1>4 DEF vars, shellvars, memvars
<1>5. CASE Device /\ UNCHANGED shellvars
  BY <1>5 DEF Device, DmaStart, DmaDone, hostvars
<1>6. ~ EndOfInput
  BY DEF EndOfInput
<1> QED BY <1>2, <1>3, <1>4, <1>5, <1>6 DEF Next

LEMMA WaitBegins ==
  ASSUME TypeInv,
         NEW addr \in {0, size}, NEW mmio \in BOOLEAN, NEW asked \in Asked, NEW timeout \in Timeouts,
         Wait(addr, mmio, asked, timeout)
  PROVE  WaitInv'
<1>1. size \in Nat /\ size > 0 /\ size' = size /\ pc' = "arm"
  BY DEF Wait, Line, TypeInv, PcInv, Running, LoaderTypeOK, MemTypeOK, Quiet, memvars
<1>2. addr % size \in 0 .. size - 1
  BY <1>1
<1>3. wait'.verdict = "none" /\ ~ wait'.hit /\ ~ wait'.interrupted
      /\ wait'.addr = IF mmio THEN 0 ELSE addr % size
  BY DEF Wait, NoWait
<1> QED BY <1>1, <1>2, <1>3 DEF WaitInv, WaitPcs

LEMMA WaitInvStep ==
  ASSUME TypeInv, TypeInv', WaitInv, [Next]_vars
  PROVE  WaitInv'
<1>1. CASE pc \notin WaitPcs
  <2>1. CASE \E addr \in {0, size}, mmio \in BOOLEAN, asked \in Asked, timeout \in Timeouts :
               Wait(addr, mmio, asked, timeout)
    BY <2>1, WaitBegins
  <2>2. CASE pc' \notin WaitPcs /\ wait' = wait
    BY <1>1, <2>2 DEF WaitInv, WaitPcs
  <2> QED BY <1>1, <2>1, <2>2, Elsewhere
<1>w. wait \in Waits /\ (wait.timeout > 0 => wait.numms <= wait.timeout)
  BY DEF TypeInv, LoaderTypeOK, ShellTypeOK
<1>n. wait.timeout \in Nat /\ wait.numms \in Nat
  BY <1>w DEF Waits
<1>2. CASE Arm
  BY <1>2 DEF Arm, Quiet, memvars, WaitInv, WaitPcs
<1>3. CASE Poll
  <2>1. /\ pc = "poll" /\ UNCHANGED <<mode, wait, size>>
        /\ pc' = IF mode = "MACHINE" /\ (wait.timeout = 0 \/ wait.numms < wait.timeout)
                    THEN "look" ELSE "settle"
    BY <1>3 DEF Poll, Go, Quiet, memvars
  <2> QED BY <1>n, <1>w, <2>1 DEF WaitInv, WaitPcs
<1>4. CASE Look
  <2>1. pc = "look" /\ UNCHANGED <<mode, size>>
    BY <1>4 DEF Look, Quiet, memvars
  <2>2. CASE pc' = "settle" /\ wait' = [wait EXCEPT !.hit = TRUE]
    <3>1. /\ wait'.hit /\ wait'.verdict = wait.verdict /\ wait'.addr = wait.addr
          /\ wait'.interrupted = wait.interrupted /\ wait'.timeout = wait.timeout
          /\ wait'.numms = wait.numms
      BY <1>w, <2>2 DEF Waits
    <3>2. wait.timeout = 0 \/ wait.numms < wait.timeout
      BY <1>n, <2>1 DEF TypeInv, PcInv
    <3> QED BY <2>1, <2>2, <3>1, <3>2 DEF WaitInv, WaitPcs
  <2>3. CASE /\ pc' = "poll"
             /\ wait' = [wait EXCEPT !.numms = IF wait.timeout = 0 THEN @ ELSE @ + 1]
    <3>1. /\ wait'.hit = wait.hit /\ wait'.verdict = wait.verdict /\ wait'.addr = wait.addr
          /\ wait'.interrupted = wait.interrupted
      BY <1>w, <2>3 DEF Waits
    <3> QED BY <2>1, <2>3, <3>1 DEF WaitInv, WaitPcs
  <2> QED BY <1>4, <2>2, <2>3 DEF Look
<1>5. CASE LookFails
  BY <1>5 DEF LookFails, NoWait, WaitInv, WaitPcs
<1>6. CASE Settle
  BY <1>6 DEF Settle, WaitInv, WaitPcs
<1>7. CASE Disarm
  BY <1>7 DEF Disarm, NoWait, Return, WaitInv, WaitPcs
<1>8. CASE Sigint /\ pc \in WaitPcs
  <2>1. /\ mode' = "INTERACTIVE" /\ UNCHANGED <<pc, size>>
        /\ wait' = IF pc \in {"poll", "look", "settle"}
                     THEN [wait EXCEPT !.interrupted = TRUE] ELSE wait
    BY <1>8 DEF Sigint, Quiet, memvars
  <2>2. /\ wait'.hit = wait.hit /\ wait'.verdict = wait.verdict /\ wait'.addr = wait.addr
        /\ wait'.timeout = wait.timeout /\ wait'.numms = wait.numms
        /\ pc \in {"poll", "look", "settle"} => wait'.interrupted
    BY <1>w, <2>1 DEF Waits
  <2> QED BY <1>8, <2>1, <2>2 DEF WaitInv, WaitPcs
<1>9. CASE UNCHANGED shellvars /\ UNCHANGED size
  BY <1>9 DEF shellvars, WaitInv
<1> QED BY <1>1, <1>2, <1>3, <1>4, <1>5, <1>6, <1>7, <1>8, <1>9, InWait

LEMMA WaitInvariant ==
  Spec => []WaitInv
<1>1. Init => WaitInv
  BY DEF Init, NoWait, WaitInv, WaitPcs
<1>2. TypeInv /\ TypeInv' /\ WaitInv /\ [Next]_vars => WaitInv'
  BY WaitInvStep
<1> QED BY <1>1, <1>2, TypeInvariant, PTL DEF Spec

LEMMA VerdictStep ==
  ASSUME TypeInv, WaitInv, WaitInv', VerdictSound, [Next]_vars
  PROVE  VerdictSound'
<1>w. wait \in Waits
  BY DEF TypeInv, LoaderTypeOK, ShellTypeOK
<1>1. CASE pc' # "disarm"
  <2>1. wait'.verdict = "none"
    BY <1>1 DEF WaitInv, WaitPcs
  <2> QED BY <2>1 DEF VerdictSound
<1>2. CASE pc' = "disarm"
  <2>1. CASE Settle
    <3>1. /\ pc = "settle" /\ wait'.hit = wait.hit /\ wait'.numms = wait.numms
          /\ wait'.timeout = wait.timeout /\ wait'.interrupted = wait.interrupted
          /\ wait'.verdict =
               IF wait.numms = wait.timeout /\ wait.timeout # 0 THEN "timed out"
               ELSE IF mode # "MACHINE" THEN "aborted" ELSE "observed"
      BY <1>w, <2>1 DEF Settle, Waits
    <3>2. wait.timeout \in Nat /\ wait.numms \in Nat
      BY <1>w DEF Waits
    <3>3. CASE wait.numms = wait.timeout /\ wait.timeout # 0
      <4>1. wait'.verdict = "timed out" /\ wait'.numms = wait'.timeout
        BY <3>1, <3>3
      <4>2. ~ (wait.timeout = 0 \/ wait.numms < wait.timeout)
        BY <3>2, <3>3
      <4>3. ~ wait.hit
        BY <3>1, <4>2 DEF WaitInv
      <4> QED BY <3>1, <4>1, <4>3 DEF VerdictSound
    <3>4. CASE ~ (wait.numms = wait.timeout /\ wait.timeout # 0) /\ mode # "MACHINE"
      BY <3>1, <3>2, <3>4 DEF WaitInv, VerdictSound
    <3>5. CASE ~ (wait.numms = wait.timeout /\ wait.timeout # 0) /\ mode = "MACHINE"
      <4>1. wait'.verdict = "observed"
        BY <3>1, <3>5
      <4>2. ~ (wait.timeout > 0 /\ wait.numms = wait.timeout)
        BY <3>2, <3>5
      <4>3. ~ wait.interrupted
        BY <3>1, <3>5 DEF WaitInv
      <4>4. wait.hit
        BY <3>1, <4>2, <4>3 DEF WaitInv
      <4> QED BY <3>1, <4>1, <4>4 DEF VerdictSound
    <3> QED BY <3>3, <3>4, <3>5
  <2>2. CASE pc = "disarm"
    <3>1. ~ (Arm \/ Poll \/ Look \/ LookFails \/ Settle)
      BY <2>2 DEF Arm, Poll, Look, LookFails, Settle
    <3>2. ~ Disarm
      BY <1>2 DEF Disarm, Return
    <3>3. Sigint \/ UNCHANGED shellvars
      BY <2>2, <3>1, <3>2, InWait DEF WaitPcs
    <3>4. wait' = wait
      BY <2>2, <3>3 DEF Sigint, shellvars
    <3> QED BY <3>4 DEF VerdictSound
  <2>3. pc = "disarm" \/ Settle
    <3>1. CASE pc \in WaitPcs
      <4>1. ~ (Arm \/ Poll \/ Look \/ LookFails)
        BY <1>2 DEF Arm, Poll, Look, LookFails, Go
      <4>2. ~ Disarm
        BY <1>2 DEF Disarm, Return
      <4>3. CASE Sigint \/ UNCHANGED shellvars
        BY <1>2, <4>3 DEF Sigint, shellvars
      <4> QED BY <3>1, <4>1, <4>2, <4>3, InWait
    <3>2. CASE pc \notin WaitPcs
      BY <1>2, <3>2, Elsewhere DEF Wait, Line, WaitPcs
    <3> QED BY <3>1, <3>2
  <2> QED BY <2>1, <2>2, <2>3
<1> QED BY <1>1, <1>2

\* wait: what .wait reports is what it saw.
THEOREM VerdictsAreSound ==
  Spec => []VerdictSound
<1>1. Init => VerdictSound
  BY DEF Init, NoWait, VerdictSound
<1>2. TypeInv /\ WaitInv /\ WaitInv' /\ VerdictSound /\ [Next]_vars => VerdictSound'
  BY VerdictStep
<1> QED BY <1>1, <1>2, TypeInvariant, WaitInvariant, PTL DEF Spec

LEMMA TouchSafe ==
  ASSUME HostSafe, NEW A, Touch(A), \A x \in A : InBuffer(x)
  PROVE  HostSafe'
BY DEF HostSafe, Touch

LEMMA ResetSafe ==
  ASSUME MemTypeOK, MemInv, memop = "none", NEW x \in Reset
  PROVE  InBuffer(x)
<1>1. PICK s \in Segments : \E i \in 0 .. BytesIn(s) - 1 : x = [buf |-> data[s], off |-> i]
  BY DEF Reset
<1>i. PICK i \in 0 .. BytesIn(s) - 1 : x = [buf |-> data[s], off |-> i]
  BY <1>1
<1>2. BytesIn(s) \in Nat /\ BytesIn(s) > 0 /\ i \in 0 .. BytesIn(s) - 1
  <2>1. GB \in Nat /\ size \in Nat
    BY MemoryAssumption DEF MemTypeOK
  <2>2. BytesIn(s) \in Int
    BY <2>1 DEF BytesIn, Segments
  <2> QED BY <1>i, <2>2
<1>3. data[s] \in buffers /\ len[data[s]] = BytesIn(s)
  BY <1>2 DEF MemInv, Backed
<1> QED BY <1>i, <1>2, <1>3 DEF InBuffer

LEMMA DirectiveSafe ==
  ASSUME TypeInv, HostSafe, Directive
  PROVE  HostSafe'
<1>1. CASE Other \/ BadQuote \/ Exit \/ Run \/ RunFails \/ SaveBackwards
  BY <1>1 DEF Other, BadQuote, Exit, Run, RunFails, SaveBackwards, HostSafe
<1>2. CASE \E bits \in Bits : ResizeRefused(bits) \/ Resize(bits)
  BY <1>2 DEF ResizeRefused, Resize, HostSafe
<1>3. CASE \E addr \in {0, size}, mmio \in BOOLEAN, asked \in Asked, timeout \in Timeouts :
             Wait(addr, mmio, asked, timeout)
  BY <1>3 DEF Wait, HostSafe
<1>a. ASSUME NEW there, Line(there)
      PROVE  MemTypeOK /\ MemInv /\ memop = "none" /\ size \in Nat /\ size > 0
  BY <1>a DEF Line, TypeInv, LoaderTypeOK, PcInv, Running, MemTypeOK
<1>4. CASE \E host \in BOOLEAN : Rst(host)
  <2>1. PICK host \in BOOLEAN : Rst(host)
    BY <1>4
  <2>2. Line(Back) /\ Touch(IF host THEN Reset ELSE {})
    BY <2>1 DEF Rst
  <2>3. \A x \in IF host THEN Reset ELSE {} : InBuffer(x)
    BY <1>a, <2>2, ResetSafe
  <2> QED BY <2>2, <2>3, TouchSafe
<1>5. CASE \E begin, n \in 0 .. size : Restore(begin, n) \/ Save(begin, n)
  <2>1. PICK begin \in 0 .. size, n \in 0 .. size : Restore(begin, n) \/ Save(begin, n)
    BY <1>5
  <2>2. Line(Back) /\ (Touch(Restored(begin, n)) \/ Touch(Saved(begin, n)))
    BY <2>1 DEF Restore, Save
  <2>3. MemTypeOK /\ MemInv /\ memop = "none" /\ size \in Nat /\ size > 0
    BY <1>a, <2>2
  <2>4. ASSUME NEW i \in Nat
        PROVE  InBuffer(HostAddress((begin + i) % size))
    <3>1. (begin + i) % size \in 0 .. size - 1
      BY <2>3
    <3> QED BY <2>3, <3>1, Placed
  <2>5. \A x \in Restored(begin, n) : InBuffer(x)
    <3>1. \A i \in 0 .. n : i \in Nat
      OBVIOUS
    <3> QED BY <2>4, <3>1 DEF Restored
  <2>6. \A x \in Saved(begin, n) : InBuffer(x)
    <3>1. \A i \in 0 .. n - begin - 1 : i \in Nat
      BY <2>3
    <3> QED BY <2>4, <3>1 DEF Saved
  <2> QED BY <2>2, <2>5, <2>6, TouchSafe
<1>6. CASE \E span \in Spans, width \in {1} \cup Widths : Mem(span, width)
  <2>1. PICK span \in Spans, width \in {1} \cup Widths : Mem(span, width)
    BY <1>6
  <2> DEFINE bad(i) == \/ span[i] < 0 \/ span[i] >= size
                       \/ width > 1 /\ span[i] + width >= size
             shown == {i \in DOMAIN span : \A j \in 1 .. i : ~ bad(j)}
             A == {HostAddress(span[i] + k) : i \in shown, k \in 0 .. width - 1}
  <2>2. Line(Back) /\ Touch(A)
    BY <2>1 DEF Mem
  <2>3. MemTypeOK /\ MemInv /\ memop = "none" /\ size \in Nat /\ size > 0
    BY <1>a, <2>2
  <2>4. span \in Seq(Int) /\ width \in Nat \ {0}
    BY LoaderAssumption
  <2>5. ASSUME NEW i \in shown, NEW k \in 0 .. width - 1
        PROVE  InBuffer(HostAddress(span[i] + k))
    <3>1. i \in 1 .. Len(span) /\ span[i] \in Int
      BY <2>4
    <3>2. ~ bad(i)
      BY <3>1
    <3>3. span[i] + k \in 0 .. size - 1
      BY <2>3, <2>4, <3>1, <3>2
    <3> QED BY <2>3, <3>3, Placed
  <2>6. \A x \in A : InBuffer(x)
    BY <2>5
  <2> HIDE DEF A
  <2> QED BY <2>2, <2>6, TouchSafe
<1> QED BY <1>1, <1>2, <1>3, <1>4, <1>5, <1>6 DEF Directive

LEMMA HostStep ==
  ASSUME TypeInv, WaitInv, HostSafe, [Next]_vars
  PROVE  HostSafe'
<1>1. CASE \/ OpenFails \/ Start \/ Booted \/ ScriptEnds \/ Test \/ Test2 \/ Leave \/ Prompt
           \/ Recover \/ Arm \/ Poll \/ LookFails \/ Settle \/ Disarm
  BY <1>1 DEF OpenFails, Start, Booted, ScriptEnds, Test, Test2, Leave, Prompt, Recover, Go, Arm,
              Poll, LookFails, Settle, Disarm, HostSafe
<1>2. CASE \/ Mmem \/ Unwind \/ Terminate \/ Closed \/ EndOfInput \/ Sigint
           \/ UNCHANGED vars \/ (Device /\ UNCHANGED shellvars)
  BY <1>2 DEF Mmem, Unwind, Terminate, Closed, EndOfInput, Sigint, vars, shellvars, Go, HostSafe
<1>3. CASE Resized
  <2>1. MemTypeOK /\ MemInv /\ memop = "none" /\ Touch(Reset)
    BY <1>3 DEF Resized, TypeInv, LoaderTypeOK
  <2> QED BY <2>1, ResetSafe, TouchSafe
<1>4. CASE Look
  <2>1. /\ MemTypeOK /\ MemInv /\ memop = "none" /\ pc = "look"
        /\ Touch(IF wait.mmio THEN {} ELSE {HostAddress(wait.addr)})
    BY <1>4 DEF Look, TypeInv, LoaderTypeOK, PcInv, Running
  <2>2. wait.addr \in 0 .. size - 1
    <3>1. wait.addr \in Nat /\ size \in Nat
      BY DEF TypeInv, LoaderTypeOK, MemTypeOK, ShellTypeOK, Waits
    <3>2. wait.addr < size
      BY <2>1 DEF WaitInv, WaitPcs
    <3> QED BY <3>1, <3>2
  <2>3. InBuffer(HostAddress(wait.addr))
    BY <2>1, <2>2, Placed
  <2> QED BY <2>1, <2>3, TouchSafe
<1>5. CASE Own
  BY <1>1, <1>2, <1>3, <1>4, <1>5 DEF Own
<1>6. CASE Directive
  BY <1>6, DirectiveSafe
<1> QED BY <1>2, <1>5, <1>6 DEF Next

\* .rst, .sr, .mem and .wait touch no byte outside the buffers.
THEOREM HostStaysInside ==
  Spec => []HostSafe
<1>1. Init => HostSafe
  BY DEF Init, HostSafe
<1>2. TypeInv /\ WaitInv /\ HostSafe /\ [Next]_vars => HostSafe'
  BY HostStep
<1> QED BY <1>1, <1>2, TypeInvariant, WaitInvariant, PTL DEF Spec

-----------------------------------------------------------------------------
(* The mode of the prompt.                                                 *)

Stuck == env.hasOutput /\ ~ env.hasInput

PromptInv ==
  /\ env.mode = "MACHINE" => env.hasInput \/ env.hasOutput
  /\ pc = "script" => script >= 0
  /\ pc \in {"test", "test2", "prompt", "read", "eof"} => script = -1
  /\ /\ pc \in {"boot", "test", "test2", "prompt", "read", "resizing", "recovering"}
     /\ script = -1 /\ mode = "MACHINE"
     => Stuck

\* Steps that leave the mode alone or take it away, and keep script.
LEMMA Kept ==
  ASSUME TypeInv, PromptInv, UNCHANGED <<env, script>>,
         mode' = "MACHINE" => mode = "MACHINE",
         \/ pc' \in {"closing", "ended", "terminated", "eof", "hung"} /\ pc # "script"
              /\ (pc' = "eof" => pc = "read")
         \/ pc' = pc
         \/ pc \in {"test", "test2", "prompt"} /\ pc' \in {"test", "test2", "prompt", "read"}
         \/ pc \in {"resizing", "recovering", "boot"} /\ pc' \in {Return, "recovering"}
  PROVE  PromptInv'
<1>1. script \in Int /\ script >= -1
  BY LoaderAssumption DEF TypeInv, LoaderTypeOK, ShellTypeOK
<1> QED BY <1>1 DEF PromptInv, Stuck, Return

LEMMA LineKept ==
  ASSUME TypeInv, PromptInv, NEW there, Line(there), mode' = "MACHINE" => mode = "MACHINE",
         there \in {Back, "terminated", "closing", "hung", "resizing", "arm"}
  PROVE  PromptInv'
<1>1. script \in Int /\ script >= -1
  BY LoaderAssumption DEF TypeInv, LoaderTypeOK, ShellTypeOK
<1>2. CASE pc = "read" /\ script' = script
  BY <1>1, <1>2 DEF PromptInv, Stuck, Line, Back
<1>3. CASE pc = "script" /\ script > 0 /\ script' = script - 1
  BY <1>1, <1>3 DEF PromptInv, Stuck, Line, Back
<1> QED BY <1>2, <1>3 DEF Line

LEMMA PromptDirective ==
  ASSUME TypeInv, PromptInv, Directive
  PROVE  PromptInv'
<1>1. CASE \/ Other \/ BadQuote \/ Exit \/ Run \/ RunFails \/ SaveBackwards
           \/ \E host \in BOOLEAN : Rst(host)
           \/ \E begin, n \in 0 .. size : Restore(begin, n) \/ Save(begin, n)
  <2>1. mode' \in {mode, "SHUTDOWN"}
    BY <1>1 DEF Other, BadQuote, Exit, Run, RunFails, SaveBackwards, Rst, Restore, Save
  <2>2. \E there \in {Back, "terminated", "closing", "hung"} : Line(there)
    BY <1>1 DEF Other, BadQuote, Exit, Run, RunFails, SaveBackwards, Rst, Restore, Save
  <2> QED BY <2>1, <2>2, LineKept
<1>2. CASE \E span \in Spans, width \in {1} \cup Widths : Mem(span, width)
  <2>1. mode' = mode /\ Line(Back)
    BY <1>2 DEF Mem
  <2> QED BY <2>1, LineKept
<1>3. CASE \E bits \in Bits : ResizeRefused(bits) \/ Resize(bits)
  <2>1. mode' = mode /\ (Line(Back) \/ Line("resizing"))
    BY <1>3 DEF ResizeRefused, Resize
  <2> QED BY <2>1, LineKept
<1>4. CASE \E addr \in {0, size}, mmio \in BOOLEAN, asked \in Asked, timeout \in Timeouts :
             Wait(addr, mmio, asked, timeout)
  <2>1. mode' = mode /\ Line("arm")
    BY <1>4 DEF Wait
  <2> QED BY <2>1, LineKept
<1> QED BY <1>1, <1>2, <1>3, <1>4 DEF Directive

LEMMA PromptStep ==
  ASSUME TypeInv, PromptInv, [Next]_vars
  PROVE  PromptInv'
<1>1. CASE OpenFails \/ Test \/ Test2 \/ Leave \/ Prompt \/ EndOfInput
  BY <1>1, Kept DEF OpenFails, Test, Test2, Leave, Prompt, EndOfInput, Go
<1>2. CASE Booted \/ Resized \/ Recover \/ Unwind \/ Closed
  BY <1>2, Kept DEF Booted, Resized, Recover, Unwind, Closed, Go, Return
<1>3. CASE Mmem \/ UNCHANGED vars \/ (Device /\ UNCHANGED shellvars)
  BY <1>3, Kept DEF Mmem, vars, shellvars
<1>4. CASE Sigint
  BY <1>4, Kept DEF Sigint
<1>5. CASE Terminate
  <2>1. pc # "script"
    BY <1>5 DEF Terminate, Failed, TypeInv, PcInv, Running
  <2> QED BY <1>5, <2>1, Kept DEF Terminate, Go
<1>6. CASE Start
  <2>1. /\ pc = "start" /\ mode' = env.mode /\ UNCHANGED env
        /\ \/ pc' = "boot" /\ env.hasInput /\ script' \in 0 .. MaxScript
           \/ pc' = "closing"
           \/ pc' = "boot" /\ ~ env.hasInput
    BY <1>6 DEF Start
  <2>2. pc' = "boot" /\ script' = -1 => ~ env.hasInput
    BY <2>1, LoaderAssumption
  <2> QED BY <2>1, <2>2 DEF PromptInv, Stuck
<1>7. CASE ScriptEnds
  BY <1>7 DEF ScriptEnds, PromptInv
<1>8. CASE Arm \/ Poll \/ Look \/ LookFails \/ Settle
  <2>1. UNCHANGED env /\ pc' \in {"poll", "look", "settle", "closing", "disarm"}
    <3>1. CASE Look
      BY <3>1 DEF Look
    <3>2. CASE Arm \/ Poll \/ LookFails \/ Settle
      BY <3>2 DEF Arm, Poll, LookFails, Settle, Go
    <3> QED BY <1>8, <3>1, <3>2
  <2> QED BY <2>1 DEF PromptInv
<1>9. CASE Disarm
  <2>1. script \in Int /\ script >= -1
    BY LoaderAssumption DEF TypeInv, LoaderTypeOK, ShellTypeOK
  <2> QED BY <1>9, <2>1 DEF Disarm, Return, PromptInv
<1>10. CASE Own
  BY <1>1, <1>2, <1>3, <1>5, <1>6, <1>7, <1>8, <1>9, <1>10 DEF Own
<1> QED BY <1>1, <1>3, <1>4, <1>10, PromptDirective DEF Next

\* Shell_Cload::Run: a script and every .wait in it leave mode MACHINE behind;
\* only -o without a script takes it to the prompt.
THEOREM ModeAtPrompt ==
  Spec => []PromptMode
<1>1. Init => PromptInv
  <2>1. ASSUME Init PROVE env.mode = "MACHINE" => env.hasInput \/ env.hasOutput
    BY <2>1, EnvMode DEF Init
  <2> QED BY <2>1 DEF Init, PromptInv
<1>2. TypeInv /\ PromptInv /\ [Next]_vars => PromptInv'
  BY PromptStep
<1>3. PromptInv => PromptMode
  BY DEF PromptInv, PromptMode, Stuck
<1> QED BY <1>1, <1>2, <1>3, TypeInvariant, PTL DEF Spec
=============================================================================
