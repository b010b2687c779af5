-------------------------------- MODULE Mmu --------------------------------
(***************************************************************************)
(* The memory side of the processor on the FPGA card: i_cache.sv,          *)
(* d_cache.sv, mmu.sv which fetches lines for both of them, and the read   *)
(* channel of cci_dma.sv with its FIFO, through which the lines come.      *)
(*                                                                         *)
(* One step is one clock edge of all of them.  The core and the host are   *)
(* the environment: which accesses come, and when the host has room for a  *)
(* request and a line to give.  A word is the address in the host's memory *)
(* it was fetched from; what the host's memory holds is left out.          *)
(***************************************************************************)
EXTENDS Integers, Sequences

CONSTANTS
  W,               \* words of a line, 16
  ILines, DLines,  \* lines of the caches, 32 and 224
  Page,            \* the address of the first word, 16'h0001_0000
  FifoDepth,       \* 512
  Fetched,         \* what the core may ask of the i-cache,
  Accessed         \* and of the d-cache

Span == (ILines + DLines) * W

ASSUME MmuAssumption ==
  /\ W \in Nat \ {0} /\ ILines \in Nat \ {0} /\ DLines \in Nat \ {0}
  /\ Page \in Nat \ {0} /\ Page % Span = 0 /\ Page % W = 0
  /\ FifoDepth \in Nat \ {0}
  /\ Fetched \subseteq Nat /\ Accessed \subseteq Nat

Caches == {"i", "d"}
Line(a) == a \div W

\* The addresses a cache serves; any other is a segmentation fault.
Served(c) == IF c = "i" THEN Page .. Page + ILines * W - 1
                        ELSE Page + ILines * W .. Page + Span - 1

\* Where d_addr[11:0] falls.
Alias(a) == Page + (a % Span)

Junk == -1   \* a word nobody has written
New  == -2   \* a word the core has stored

VARIABLES
  valid,      \* of each cache: the lines whose valid bit is set
  cell,       \* mem: a word for each address served
  rd_data, miss, segfault,
  last_addr, miss_addr, rd_req,
  state,      \* of the mmu
  rd_addr_r,  \* dma: the next line to ask for
  cci_rd_remaining, dma_rd_remaining,
  pending,    \* lines asked for, in order
  fifo,       \* lines that have come
  inside,     \* whether the core asks only for addresses the caches serve
  skewed,     \* history: the lines a fill has written to that did not begin with
              \* the first word of a line
  answered    \* history: the access of the last clock was a read, of no such line

cachevars == <<valid, cell, rd_data, miss, segfault, last_addr, miss_addr, rd_req>>
dmavars == <<rd_addr_r, cci_rd_remaining, dma_rd_remaining, pending, fifo>>
vars == <<cachevars, state, dmavars, inside, skewed, answered>>

MmuTypeOK ==
  /\ \A c \in Caches :
       /\ valid[c] \subseteq {Line(a) : a \in Served(c)}
       /\ cell[c] \in [Served(c) -> Nat \cup {Junk, New}]
       /\ rd_data[c] \in Nat \cup {Junk, New}
       /\ last_addr[c] \in Nat /\ miss_addr[c] \in Nat
       /\ skewed[c] \subseteq Nat
  /\ {miss, segfault, rd_req, answered} \subseteq [Caches -> BOOLEAN]
  /\ state \in {"STARTUP", "READY", "IREAD", "DREAD"}
  /\ rd_addr_r \in Nat /\ cci_rd_remaining \in 0 .. 1 /\ dma_rd_remaining \in 0 .. 1
  /\ pending \in Seq(Nat) /\ fifo \in Seq(Nat)
  /\ inside \in BOOLEAN

Each(x) == [c \in Caches |-> x]

Init ==
  /\ valid = Each({}) /\ cell = [c \in Caches |-> [a \in Served(c) |-> Junk]]
  /\ rd_data = Each(Junk) /\ miss = Each(FALSE) /\ segfault = Each(FALSE)
  /\ last_addr = Each(0) /\ miss_addr = Each(0) /\ rd_req = Each(FALSE)
  /\ state = "STARTUP"
  /\ rd_addr_r = 0 /\ cci_rd_remaining = 0 /\ dma_rd_remaining = 0
  /\ pending = <<>> /\ fifo = <<>>
  /\ inside \in BOOLEAN /\ skewed = Each({}) /\ answered = Each(FALSE)

-----------------------------------------------------------------------------
(* Combinational signals of the current clock.  acc[c] is what the core    *)
(* asks of a cache.                                                        *)

NoAccess == [op |-> "none", addr |-> 0]
Accesses(c) ==
  {NoAccess} \cup IF c = "i" THEN [op : {"rd"}, addr : Fetched]
                             ELSE [op : {"rd", "wr"}, addr : Accessed]

Active(a) == a.op # "none"
InRange(c, a) == a.addr \in Served(c)
Missing(c, a) == Active(a) /\ InRange(c, a) /\ Line(a.addr) \notin valid[c]

\* A core may do what it likes, or stay inside the caches.
Permitted(acc) ==
  \A c \in Caches : inside /\ Active(acc[c]) => InRange(c, acc[c])

host_rd_ready == fifo # <<>>
reading == state \in {"IREAD", "DREAD"}
host_rd_addr ==
  CASE state = "IREAD" -> miss_addr["i"]
    [] state = "DREAD" -> miss_addr["d"]
    [] OTHER           -> 0

\* Mutated form: a cache takes the other one's line too.
host_rd_valid_Any(c) == host_rd_ready /\ reading

host_rd_valid(c) == host_rd_ready /\ host_rd_addr \in Served(c)

\* Mutated form: go starts a transfer while one is going on.
rd_start_Always == reading
rd_start == reading /\ dma_rd_remaining = 0

cci_rd_en(host) ==
  cci_rd_remaining > 0 /\ "room" \in host /\ Len(pending) < FifoDepth - Len(fifo)

-----------------------------------------------------------------------------
(* One clock edge.                                                         *)

\* A hit does not clear a miss of the clock before: only a clock without an
\* access does.
Look(acc) ==
  /\ miss' = [c \in Caches |->
       Active(acc[c]) /\ (miss[c] \/ Missing(c, acc[c]))]
  /\ segfault' = [c \in Caches |->
       Active(acc[c]) /\ (segfault[c] \/ ~ InRange(c, acc[c]))]
  /\ rd_data' = [c \in Caches |->
       IF acc[c].op # "rd" THEN Junk
       ELSE IF InRange(c, acc[c]) /\ ~ Missing(c, acc[c]) THEN cell[c][acc[c].addr]
       ELSE rd_data[c]]
  /\ last_addr' = [c \in Caches |-> IF Active(acc[c]) THEN acc[c].addr ELSE last_addr[c]]

\* Mutated form: the words of the line are written the other way round.
Fill_Backwards(c) ==
  [a \in Served(c) |->
     IF a - host_rd_addr \in 0 .. W - 1 THEN Head(fifo) * W + (host_rd_addr + W - 1 - a)
                                        ELSE cell[c][a]]

\* Word 0 of the line that came goes to the address that missed, and the other
\* words behind it.
Fill(c) ==
  [a \in Served(c) |->
     IF a - host_rd_addr \in 0 .. W - 1 THEN Head(fifo) * W + (a - host_rd_addr)
                                        ELSE cell[c][a]]

Stores(acc) == acc["d"].op = "wr"
Filled(c, acc) == host_rd_valid(c) /\ ~ (c = "d" /\ Stores(acc))

\* A store in the clock in which a line comes for the d-cache takes its place.
\* It is made only if its line is not valid.
Write(acc) ==
  LET x == Alias(acc["d"].addr)
  IN  /\ valid' = [c \in Caches |->
           IF Filled(c, acc) THEN valid[c] \cup {Line(host_rd_addr)} ELSE valid[c]]
      /\ cell' = [c \in Caches |->
           IF Filled(c, acc) THEN Fill(c)
           ELSE IF c = "d" /\ Stores(acc) /\ x \in Served("d") /\ Line(x) \notin valid["d"]
             THEN [cell[c] EXCEPT ![x] = New]
           ELSE cell[c]]

\* Mutated form: a miss that is still reported keeps the request up.
Request_Keeps ==
  LET new(c) == miss[c]
  IN  /\ rd_req' = [c \in Caches |-> new(c) \/ (rd_req[c] /\ ~ host_rd_valid(c))]
      /\ miss_addr' = [c \in Caches |->
           IF new(c) THEN last_addr[c] ELSE IF host_rd_valid(c) THEN 0 ELSE miss_addr[c]]

\* One request at a time; misses that come meanwhile are forgotten.
Request ==
  LET new(c) == miss[c] /\ ~ rd_req[c]
  IN  /\ rd_req' = [c \in Caches |-> new(c) \/ (rd_req[c] /\ ~ host_rd_valid(c))]
      /\ miss_addr' = [c \in Caches |->
           IF new(c) THEN last_addr[c] ELSE IF host_rd_valid(c) THEN 0 ELSE miss_addr[c]]

MmuState(host) ==
  state' = CASE state = "STARTUP" -> IF "go" \in host THEN "READY" ELSE state
             [] state = "READY"   -> IF rd_req["i"] THEN "IREAD"
                                     ELSE IF rd_req["d"] THEN "DREAD" ELSE state
             [] OTHER             -> IF host_rd_ready THEN "READY" ELSE state

\* The read channel: a transfer of one line starts when the last one was read
\* out of the FIFO.
Dma(host) ==
  LET pop == reading /\ host_rd_ready
      push == "line" \in host /\ pending # <<>>
  IN  /\ rd_addr_r' = IF cci_rd_en(host) THEN rd_addr_r + 1
                      ELSE IF rd_start THEN Line(host_rd_addr) ELSE rd_addr_r
      /\ cci_rd_remaining' = IF cci_rd_en(host) THEN cci_rd_remaining - 1
                             ELSE IF rd_start THEN 1 ELSE cci_rd_remaining
      /\ dma_rd_remaining' = IF pop THEN dma_rd_remaining - 1
                             ELSE IF rd_start THEN 1 ELSE dma_rd_remaining
      /\ pending' = (IF push THEN Tail(pending) ELSE pending)
                      \o (IF cci_rd_en(host) THEN <<rd_addr_r>> ELSE <<>>)
      /\ fifo' = (IF pop THEN Tail(fifo) ELSE fifo)
                   \o (IF push /\ Len(fifo) < FifoDepth THEN <<Head(pending)>> ELSE <<>>)

\* The histories.  A fill from the middle of a line ends in the middle of the
\* next one; a fill from the first word puts its line right again.
Note(acc) ==
  /\ answered' = [c \in Caches |-> acc[c].op = "rd" /\ Line(acc[c].addr) \notin skewed[c]]
  /\ skewed' = [c \in Caches |->
       IF ~ Filled(c, acc) THEN skewed[c]
       ELSE IF host_rd_addr % W = 0 THEN skewed[c] \ {Line(host_rd_addr)}
       ELSE skewed[c] \cup {Line(host_rd_addr), Line(host_rd_addr) + 1}]

\* The two halves of a clock: what the accesses of the core do, and what goes on
\* behind the caches.
Access(acc) == Look(acc) /\ Write(acc) /\ Note(acc)
Behind(host) == Request /\ MmuState(host) /\ Dma(host) /\ UNCHANGED inside

\* What the host may do in a clock: start the processor, take a request, give
\* a line.
Offers ==
  (IF state = "STARTUP" THEN {"go"} ELSE {})
    \cup (IF cci_rd_remaining > 0 THEN {"room"} ELSE {})
    \cup (IF pending # <<>> THEN {"line"} ELSE {})

Tick(host) ==
  /\ Behind(host)
  /\ \E fetch \in Accesses("i"), access \in Accesses("d") :
       LET acc == [i |-> fetch, d |-> access]
       IN  Permitted(acc) /\ Access(acc)

Next == \E host \in SUBSET Offers : Tick(host)

\* The clock ticks, and the host, which may be slow, does what it can in the end.
Spec == Init /\ [][Next]_vars /\ WF_vars(Tick(Offers))

-----------------------------------------------------------------------------
(* What should hold.                                                       *)

\* The handshakes of caches, mmu and dma fit together: no more than one line
\* is on its way, none is left over, and the line that comes out of the FIFO is
\* the one the cache being served is waiting for.
RightLine ==
  /\ cci_rd_remaining + Len(pending) + Len(fifo) = dma_rd_remaining
  /\ ~ reading => dma_rd_remaining = 0
  /\ host_rd_ready => reading /\ rd_req[IF state = "IREAD" THEN "i" ELSE "d"]
                      /\ Head(fifo) = Line(host_rd_addr)

\* A core that stays inside the caches gets every line it misses: the request
\* of the d-cache is answered too, because the i-cache, which has priority,
\* leaves the mmu to it for a clock after each line, even if it misses all the
\* time.
RequestEnds == \A c \in Caches : inside /\ rd_req[c] ~> ~ rd_req[c]

\* A read that reports neither a miss nor a fault gives the word the host has at
\* its address, whatever the core does: misses of both caches and repeated
\* requests, stores, and addresses out of range that alias a line.  The exception
\* is a line that a fill from the middle of a line has written to: after a jump
\* into a line that is not there, or after a hit behind a miss, whose address the
\* repeated request takes (i_cache.sv:54, 103).  It is the host's word and never
\* the core's: a store to a line that is there is dropped (d_cache.sv:77), and a
\* store to one that is not is lost when the line comes.
HitReturns ==
  \A c \in Caches :
    answered[c] /\ ~ miss[c] /\ ~ segfault[c] => rd_data[c] = last_addr[c]
=============================================================================
