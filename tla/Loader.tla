------------------------------- MODULE Loader -------------------------------
(***************************************************************************)
(* The host loader, cload: Shell_Cload::Run, the runtime directives, main  *)
(* and the handler of SIGINT, on top of HostMemory.                        *)
(*                                                                         *)
(* pc is where the program is; the handler may run between any two steps,  *)
(* and the device between any two steps of either.                         *)
(***************************************************************************)
EXTENDS HostMemory, ShellEnv

CONSTANTS
  DefaultSize, RecoverySize,  \* 64 MB; 16 KB, when a resize fails
  MinBits, MaxBits,           \* .resize: 16 and 32
  Bits,                       \* the sizes asked of .resize
  Spans,                      \* the addresses asked of .mem: sequences of integers
  Widths,                     \* .mem -b: 2, 4, 8
  ByteValues,                 \* how many values a byte has, 256
  Asked, Timeouts,            \* values and timeouts asked of .wait
  CVs,                        \* what MMIO_CV can read
  MaxScript,                  \* bound: lines of a script
  MaxSigint                   \* bound: interrupts

ASSUME LoaderAssumption ==
  /\ DefaultSize \in 1 .. 4 * GB /\ RecoverySize \in 1 .. 4 * GB
  /\ MinBits \in Nat /\ MaxBits \in Nat
  /\ \A b \in MinBits .. MaxBits : 2^b \in 1 .. 4 * GB
  /\ Bits \subseteq Nat /\ Asked \subseteq Nat /\ Timeouts \subseteq Nat /\ CVs \subseteq Nat
  /\ Widths \subseteq Nat \ {0} /\ Spans \subseteq Seq(Int)
  /\ ByteValues \in Nat \ {0}
  /\ MaxScript \in Nat /\ MaxSigint \in Nat

VARIABLES
  pc, mode,
  env,      \* what the command line said
  script,   \* lines left of the script, -1 when the input is the terminal
  wait,     \* the .wait under way
  sigints,  \* history: interrupts so far
  oob       \* history: a directive touched a byte outside the buffers

shellvars == <<pc, mode, env, script, wait, sigints, oob>>
vars == <<memvars, shellvars>>

NoWait == [addr |-> 0, mmio |-> FALSE, asked |-> 0, timeout |-> 0, numms |-> 0,
           hit |-> FALSE, interrupted |-> FALSE, verdict |-> "none"]
Verdicts == {"none", "observed", "timed out", "aborted"}
Ended == {"ended", "terminated"}

Waits == [addr : Nat, mmio : BOOLEAN, asked : Nat, timeout : Nat, numms : Nat,
          hit : BOOLEAN, interrupted : BOOLEAN, verdict : Verdicts]

ShellTypeOK ==
  /\ pc \in {"start", "boot", "script", "test", "test2", "prompt", "read", "eof", "hung",
             "resizing", "recovering", "arm", "poll", "look", "settle", "disarm",
             "closing"} \cup Ended
  /\ mode \in Modes
  /\ script \in -1 .. MaxScript
  /\ wait \in Waits
  /\ wait.timeout > 0 => wait.numms <= wait.timeout
  /\ sigints \in 0 .. MaxSigint
  /\ oob \in BOOLEAN

LoaderTypeOK == MemTypeOK /\ ShellTypeOK

Init ==
  /\ MemInit
  /\ pc = "start" /\ mode = "INTERACTIVE"
  /\ env \in {characterize_Env(args) : args \in ArgLists}
  /\ script = -1 /\ wait = NoWait /\ sigints = 0 /\ oob = FALSE

Go(there) == pc' = there /\ UNCHANGED <<mode, env, script, wait, sigints, oob>>
Quiet == UNCHANGED memvars

-----------------------------------------------------------------------------
(* From main to the prompt.                                                *)

\* Nothing is mapped when the accelerator cannot be opened.
OpenFails == pc = "start" /\ Go("ended") /\ Quiet

\* Leaving Run in any way destroys the memory.
Close == Begin(Null)

\* Run: the command line sets the mode; then the memory is allocated.
Start ==
  /\ pc = "start"
  /\ mode' = env.mode
  /\ IF env.hasInput
       THEN \/ /\ env.hasInputValue
               /\ script' \in 0 .. MaxScript
               /\ pc' = "boot" /\ Begin(DefaultSize)
            \/ /\ script' = -1      \* no file name, or no such file
               /\ pc' = "closing" /\ Close
       ELSE script' = -1 /\ pc' = "boot" /\ Begin(DefaultSize)
  /\ UNCHANGED <<env, wait, sigints, oob>>

Booted ==
  /\ pc = "boot" /\ memop = "none"
  /\ Go(IF script >= 0 THEN "script" ELSE "test") /\ Quiet

\* The end of the script: .exit in a script is obeyed here.
ScriptEnds ==
  /\ pc = "script" /\ script = 0
  /\ mode' = IF mode = "SHUTDOWN" THEN mode ELSE "INTERACTIVE"
  /\ script' = -1 /\ pc' = "test"
  /\ UNCHANGED <<env, wait, sigints, oob>> /\ Quiet

\* while(mode is INTERACTIVE || mode is MACHINE): two reads of the mode, and
\* a third behind the condition.
Test == pc = "test" /\ Go(IF mode = "INTERACTIVE" THEN "prompt" ELSE "test2") /\ Quiet
\* Mutated form: only INTERACTIVE is looked at twice.
Test2_Any == pc = "test2" /\ mode # "INTERACTIVE" /\ Go("prompt") /\ Quiet
Test2 == pc = "test2" /\ mode = "MACHINE" /\ Go("prompt") /\ Quiet
Leave == pc = "test2" /\ mode # "MACHINE" /\ Go("closing") /\ Close
Prompt == pc = "prompt" /\ Go(IF mode = "MACHINE" THEN "test" ELSE "read") /\ Quiet

\* At the end of the input ReadFromInput waits for text that never comes.
EndOfInput == pc = "read" /\ Go("eof") /\ Quiet

-----------------------------------------------------------------------------
(* Runtime directives.  Each takes a line of the script or of the terminal *)
(* and goes back for the next one.                                         *)

Line(there) ==
  /\ \/ pc = "read" /\ script' = script
     \/ pc = "script" /\ script > 0 /\ script' = script - 1
  /\ pc' = there
  /\ UNCHANGED <<env, sigints>>

Back == IF pc = "script" THEN "script" ELSE "test"
Return == IF script >= 0 THEN "script" ELSE "test"

Touch(addresses) == oob' = (oob \/ \E x \in addresses : ~ InBuffer(x))

\* Help, unknown directives, other text, blank lines, malformed arguments.
Other == Line(Back) /\ UNCHANGED <<mode, wait, oob>> /\ Quiet

\* chop_string throws outside the try block.
BadQuote ==
  Line("terminated") /\ UNCHANGED <<mode, wait, oob>> /\ Reclaim

Exit == Line(Back) /\ mode' = "SHUTDOWN" /\ UNCHANGED <<wait, oob>> /\ Quiet

\* .run, whose MMIO write may fail.
Run ==
  /\ Line(Back) /\ started' = TRUE
  /\ UNCHANGED <<mode, wait, oob, hostvars, opvars, base, dma>>
RunFails == Line("closing") /\ UNCHANGED <<mode, wait, oob>> /\ Close

\* .rst zeroes the memory; of the AFU nothing is reset, whatever it is given.
Rst(host) ==
  /\ Line(Back) /\ Touch(IF host THEN Reset ELSE {})
  /\ UNCHANGED <<mode, wait>> /\ Quiet

\* .sr
Restore(begin, bytes) ==
  Line(Back) /\ Touch(Restored(begin, bytes)) /\ UNCHANGED <<mode, wait>> /\ Quiet
Save(begin, end) ==
  /\ begin <= end
  /\ Line(Back) /\ Touch(Saved(begin, end)) /\ UNCHANGED <<mode, wait>> /\ Quiet

\* count < end - begin is unsigned: 2^64 bytes, less a few, are saved.
SaveBackwards == Line("hung") /\ UNCHANGED <<mode, wait, oob>> /\ Quiet

\* Mutated form: a word is checked like a byte.
Mem_NoWordCheck(span, width) ==
  LET bad(i) == span[i] < 0 \/ span[i] >= size
      shown == {i \in DOMAIN span : \A j \in 1 .. i : ~ bad(j)}
  IN  /\ Line(Back)
      /\ Touch({HostAddress(span[i] + k) : i \in shown, k \in 0 .. width - 1})
      /\ UNCHANGED <<mode, wait>> /\ Quiet

\* .mem looks at one index after the other and throws at the first bad one; a
\* negative one is huge as a size_t.  The check of a word keeps clear of the
\* last word too.
Mem(span, width) ==
  LET bad(i) == \/ span[i] < 0 \/ span[i] >= size
                \/ width > 1 /\ span[i] + width >= size
      shown == {i \in DOMAIN span : \A j \in 1 .. i : ~ bad(j)}
  IN  /\ Line(Back)
      /\ Touch({HostAddress(span[i] + k) : i \in shown, k \in 0 .. width - 1})
      /\ UNCHANGED <<mode, wait>> /\ Quiet

-----------------------------------------------------------------------------
(* .resize                                                                 *)

ResizeRefused(bits) ==
  /\ bits < MinBits \/ bits > MaxBits
  /\ Line(Back) /\ UNCHANGED <<mode, wait, oob>> /\ Quiet

Resize(bits) ==
  /\ bits \in MinBits .. MaxBits
  /\ Line("resizing") /\ UNCHANGED <<mode, wait, oob>> /\ Begin(2^bits)

\* With the new memory, or the one for recovery, in place it is zeroed.
Resized ==
  /\ pc \in {"resizing", "recovering"} /\ memop = "none"
  /\ pc' = Return /\ Touch(Reset)
  /\ UNCHANGED <<mode, env, script, wait, sigints>> /\ Quiet

Recover ==
  /\ pc = "resizing" /\ memop = "bad_alloc"
  /\ Go("recovering") /\ Begin(RecoverySize)

-----------------------------------------------------------------------------
(* .wait polls every millisecond in mode MACHINE; SIGINT makes it          *)
(* INTERACTIVE.                                                            *)

Wait(addr, mmio, asked, timeout) ==
  /\ Line("arm")
  /\ wait' = [NoWait EXCEPT !.addr = IF mmio THEN 0 ELSE addr % size, !.mmio = mmio,
                            !.asked = asked, !.timeout = timeout]
  /\ UNCHANGED <<mode, oob>> /\ Quiet

Arm ==
  /\ pc = "arm" /\ mode' = "MACHINE" /\ pc' = "poll"
  /\ UNCHANGED <<env, script, wait, sigints, oob>> /\ Quiet

\* Mutated form: one look too many.
Poll_Late ==
  /\ pc = "poll"
  /\ Go(IF mode = "MACHINE" /\ (wait.timeout = 0 \/ wait.numms <= wait.timeout)
          THEN "look" ELSE "settle")
  /\ Quiet

Poll ==
  /\ pc = "poll"
  /\ Go(IF mode = "MACHINE" /\ (wait.timeout = 0 \/ wait.numms < wait.timeout)
          THEN "look" ELSE "settle")
  /\ Quiet

\* value_wait is a byte, whether memory or MMIO_CV is compared with it.
Matches(value) == value = wait.asked % ByteValues

\* Mutated forms: the look is counted before it is made; never counted.
Look_CountsFirst ==
  /\ pc = "look"
  /\ \E value \in IF wait.mmio THEN CVs ELSE 0 .. ByteValues - 1 :
       /\ pc' = IF Matches(value) THEN "settle" ELSE "poll"
       /\ wait' = [wait EXCEPT !.hit = Matches(value),
                              !.numms = IF wait.timeout = 0 THEN @ ELSE @ + 1]
  /\ Touch(IF wait.mmio THEN {} ELSE {HostAddress(wait.addr)})
  /\ UNCHANGED <<mode, env, script, sigints>> /\ Quiet

Look_NoCount ==
  /\ pc = "look"
  /\ \E value \in IF wait.mmio THEN CVs ELSE 0 .. ByteValues - 1 :
       /\ pc' = IF Matches(value) THEN "settle" ELSE "poll"
       /\ wait' = [wait EXCEPT !.hit = Matches(value)]
  /\ Touch(IF wait.mmio THEN {} ELSE {HostAddress(wait.addr)})
  /\ UNCHANGED <<mode, env, script, sigints>> /\ Quiet

\* One look.  A wait without a timeout does not look at numms.
Look ==
  /\ pc = "look"
  /\ \E value \in IF wait.mmio THEN CVs ELSE 0 .. ByteValues - 1 :
       IF Matches(value)
         THEN pc' = "settle" /\ wait' = [wait EXCEPT !.hit = TRUE]
         ELSE /\ pc' = "poll"
              /\ wait' = [wait EXCEPT !.numms = IF wait.timeout = 0 THEN @ ELSE @ + 1]
  /\ Touch(IF wait.mmio THEN {} ELSE {HostAddress(wait.addr)})
  /\ UNCHANGED <<mode, env, script, sigints>> /\ Quiet

\* AFU::read throws.
LookFails ==
  /\ pc = "look" /\ wait.mmio
  /\ pc' = "closing" /\ wait' = NoWait
  /\ UNCHANGED <<mode, env, script, sigints, oob>> /\ Close

Settle ==
  /\ pc = "settle" /\ pc' = "disarm"
  /\ wait' = [wait EXCEPT !.verdict =
                IF wait.numms = wait.timeout /\ wait.timeout # 0 THEN "timed out"
                ELSE IF mode # "MACHINE" THEN "aborted" ELSE "observed"]
  /\ UNCHANGED <<mode, env, script, sigints, oob>> /\ Quiet

\* Mutated form: the mode is left as it is.
Disarm_KeepsMode ==
  /\ pc = "disarm" /\ pc' = Return /\ wait' = NoWait
  /\ UNCHANGED <<mode, env, script, sigints, oob>> /\ Quiet

Disarm ==
  /\ pc = "disarm" /\ mode' = "INTERACTIVE" /\ pc' = Return /\ wait' = NoWait
  /\ UNCHANGED <<env, script, sigints, oob>> /\ Quiet

-----------------------------------------------------------------------------
(* Ends.  What main catches unwinds the stack and closes; a bad_alloc      *)
(* nobody catches, or a throw out of a destructor, terminates, and the     *)
(* system takes the buffers back.                                          *)

Mmem ==
  /\ pc \in {"boot", "resizing", "recovering", "closing"}
  /\ MemStep /\ UNCHANGED shellvars

Unwind ==
  /\ pc \in {"boot", "resizing", "recovering"} /\ memop = "mmio_error"
  /\ Go("closing") /\ Close

Terminate ==
  /\ memop \in Failed
  /\ pc = "resizing" => memop # "bad_alloc"
  /\ pc # "closing" => memop # "mmio_error"
  /\ Go("terminated") /\ Reclaim

\* ~AFU forgets what buffers are left.
Closed ==
  /\ pc = "closing" /\ memop = "destroyed"
  /\ Go("ended") /\ Reclaim

-----------------------------------------------------------------------------

Directive ==
  \/ Other \/ BadQuote \/ Exit \/ Run \/ RunFails
  \/ \E host \in BOOLEAN : Rst(host)
  \/ \E begin, n \in 0 .. size : Restore(begin, n) \/ Save(begin, n)
  \/ SaveBackwards
  \/ \E span \in Spans, width \in {1} \cup Widths : Mem(span, width)
  \/ \E bits \in Bits : ResizeRefused(bits) \/ Resize(bits)
  \/ \E addr \in {0, size}, mmio \in BOOLEAN, asked \in Asked, timeout \in Timeouts :
       Wait(addr, mmio, asked, timeout)

Own ==
  \/ OpenFails \/ Start \/ Booted \/ ScriptEnds
  \/ Test \/ Test2 \/ Leave \/ Prompt
  \/ Resized \/ Recover
  \/ Arm \/ Poll \/ Look \/ LookFails \/ Settle \/ Disarm
  \/ Mmem \/ Unwind \/ Terminate \/ Closed

\* break_machine
Sigint ==
  /\ pc \notin Ended /\ sigints < MaxSigint
  /\ mode' = "INTERACTIVE" /\ sigints' = sigints + 1
  /\ wait' = IF pc \in {"poll", "look", "settle"}
               THEN [wait EXCEPT !.interrupted = TRUE] ELSE wait
  /\ UNCHANGED <<pc, env, script, oob>> /\ Quiet

Next ==
  \/ Own \/ Directive \/ EndOfInput \/ Sigint
  \/ Device /\ UNCHANGED shellvars

\* The system runs the program, and a script is read to its end; nobody has
\* to type.
Spec == Init /\ [][Next]_vars /\ WF_vars(Own) /\ WF_vars(pc = "script" /\ Directive)

-----------------------------------------------------------------------------
(* What should hold.                                                       *)

\* As long as the program lives, no register of the device holds the address
\* of a buffer that was given back, not even in the middle of a resize that
\* fails: dealloc clears the registers before it frees, alloc sets them last.
RegistersLive ==
  pc # "terminated" => \A s \in Segments : base[s] \in buffers \cup {Null}

\* Between operations every address below get_size() has a byte, however
\* often the memory was resized, and after a resize that ran out of memory.
Covered ==
  memop = "none" => \A a \in 0 .. size - 1 : InBuffer(HostAddress(a))

\* Between operations the processor and mmem::operator[] see the same memory.
SameView ==
  memop = "none" => \A a \in 0 .. size - 1 : DeviceAddress(a) = HostAddress(a)

\* The driver holds the buffers of the segments and no others: none is lost
\* by a resize that fails half-way, and ~mmem leaves none to ~AFU.
NoLeak ==
  memop \in {"none", "destroyed"} /\ pc # "terminated" =>
    buffers = {data[s] : s \in Segments} \ {Null}

\* A transfer that does not coincide with a resize or the end of the program
\* stays inside a live buffer.
DeviceSafe == dma.calm => InBuffer(dma)

\* .rst, .sr, .mem and .wait touch no byte outside the buffers.
HostSafe == ~ oob

\* .wait reports a change only if it saw one that it was not interrupted in,
\* a timeout only after `timeout` looks of which none hit, and an abort only
\* if there was an interrupt while it waited.
VerdictSound ==
  /\ wait.verdict = "observed" => wait.hit
  /\ wait.verdict = "timed out" => ~ wait.hit /\ wait.numms = wait.timeout
  /\ wait.verdict = "aborted" => wait.interrupted

\* The loop of Run meets mode MACHINE only when -o without a script set it: a
\* script and every .wait in it, interrupted or not, leave the mode behind.
\* In that mode the loop spins, reads nothing, and an interrupt between its two
\* reads of the mode ends the program without .exit.
PromptMode ==
  pc \in {"test", "test2", "prompt", "read"} /\ mode = "MACHINE" =>
    env.hasOutput /\ ~ env.hasInput

\* Resizing and destroying the memory come to an end.
MemoryOpEnds == memop \in Busy ~> memop \notin Busy

\* A .wait that has a timeout ends, and so does one that is interrupted.
WaitEnds ==
  pc \in {"poll", "look"} /\ (wait.timeout > 0 \/ mode # "MACHINE") ~> wait = NoWait

\* .exit, on a line of a script or at the terminal, ends the program, unless a
\* backwards .sr behind it in the script goes on for ever, or it is taken back;
\* and only an interrupt takes it back, or a .wait behind it in the same script,
\* which sets the mode (runtime_call.cpp:481, 521).
ExitEnds ==
  /\ mode = "SHUTDOWN" ~> pc \in Ended \cup {"hung"} \/ mode # "SHUTDOWN"
  /\ [][mode = "SHUTDOWN" /\ mode' # "SHUTDOWN" =>
           sigints' > sigints \/ (pc = "arm" /\ script >= 0)]_vars
=============================================================================
