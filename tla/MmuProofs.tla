----------------------------- MODULE MmuProofs -----------------------------
(***************************************************************************)
(* Proofs about Mmu: its types, the handshakes of caches, mmu and dma, and *)
(* what a hit returns.                                                     *)
(***************************************************************************)
EXTENDS Mmu, TLAPS

-----------------------------------------------------------------------------
(* Lines.                                                                  *)

LEMMA Places ==
  /\ Span \in Nat \ {0}
  /\ Served("i") \subseteq Nat \ {0} /\ Served("d") \subseteq Nat \ {0}
  /\ Served("i") \cap Served("d") = {}
<1>1. W \in Nat \ {0} /\ ILines \in Nat \ {0} /\ DLines \in Nat \ {0} /\ Page \in Nat \ {0}
  BY MmuAssumption
<1>2. ILines * W \in Nat \ {0} /\ DLines * W \in Nat \ {0}
  BY <1>1
<1>3. Span = ILines * W + DLines * W
  BY <1>1 DEF Span
<1> QED BY <1>1, <1>2, <1>3 DEF Served

LEMMA LineType ==
  ASSUME NEW a \in Nat
  PROVE  Line(a) \in Nat /\ a % W \in 0 .. W - 1 /\ a = Line(a) * W + (a % W)
<1>1. W \in Int /\ W > 0 /\ a \in Int /\ a >= 0
  BY MmuAssumption
<1>2. (a \div W) \in Int /\ a % W \in 0 .. W - 1 /\ a = W * (a \div W) + (a % W)
  BY <1>1
<1>3. (a \div W) >= 0
  BY <1>1
<1> QED BY <1>1, <1>2, <1>3 DEF Line

\* The words of a line are the W words from its first one on.
LEMMA InLine ==
  ASSUME NEW a \in Nat, NEW b \in Nat, b % W = 0
  PROVE  /\ Line(b) * W = b
         /\ Line(a) = Line(b) <=> a - b \in 0 .. W - 1
<1>1. W \in Nat \ {0}
  BY MmuAssumption
<1>2. Line(a) \in Nat /\ a % W \in 0 .. W - 1 /\ a = Line(a) * W + (a % W)
  BY LineType
<1>3. Line(b) \in Nat /\ b = Line(b) * W
  <2>1. Line(b) \in Nat /\ b = Line(b) * W + (b % W)
    BY LineType
  <2> DEFINE q == Line(b)
  <2>2. q \in Nat /\ b = q * W + 0
    BY <2>1
  <2> HIDE DEF q
  <2>3. b = q * W
    BY <1>1, <2>2
  <2> QED BY <2>2, <2>3 DEF q
<1>4. ASSUME Line(a) = Line(b) PROVE a - b \in 0 .. W - 1
  BY <1>1, <1>2, <1>3, <1>4
<1>5. ASSUME a - b \in 0 .. W - 1 PROVE Line(a) = Line(b)
  <2> DEFINE p == Line(a)  q == Line(b)  r == a % W
  <2>1. p \in Nat /\ q \in Nat /\ r \in 0 .. W - 1 /\ (p - q) * W = (a - b) - r
    BY <1>1, <1>2, <1>3
  <2> HIDE DEF p, q, r
  <2>2. ~ p - q >= 1
    <3>1. SUFFICES ASSUME p - q >= 1 PROVE FALSE
      OBVIOUS
    <3>2. (p - q) * W >= W
      BY <1>1, <2>1, <3>1
    <3> QED BY <1>1, <1>5, <2>1, <3>2
  <2>3. ~ q - p >= 1
    <3>1. SUFFICES ASSUME q - p >= 1 PROVE FALSE
      OBVIOUS
    <3>2. (q - p) * W >= W
      BY <1>1, <2>1, <3>1
    <3>3. (p - q) * W = - ((q - p) * W)
      BY <1>1, <2>1
    <3> QED BY <1>1, <1>5, <2>1, <3>2, <3>3
  <2>4. p = q
    BY <2>1, <2>2, <2>3
  <2> QED BY <2>4 DEF p, q
<1> QED BY <1>3, <1>4, <1>5

\* W words from any address on lie in its line and the next.
LEMMA TwoLines ==
  ASSUME NEW a \in Nat, NEW b \in Nat, a - b \in 0 .. W - 1
  PROVE  Line(a) = Line(b) \/ Line(a) = Line(b) + 1
<1>1. W \in Nat \ {0}
  BY MmuAssumption
<1>2. /\ Line(a) \in Nat /\ a % W \in 0 .. W - 1 /\ a = Line(a) * W + (a % W)
      /\ Line(b) \in Nat /\ b % W \in 0 .. W - 1 /\ b = Line(b) * W + (b % W)
  BY LineType
<1> DEFINE p == Line(a)  q == Line(b)  r == a % W  s == b % W
<1>3. /\ p \in Nat /\ q \in Nat /\ r \in 0 .. W - 1 /\ s \in 0 .. W - 1
      /\ (p - q) * W = (a - b) + (s - r)
  BY <1>1, <1>2
<1> HIDE DEF p, q, r, s
<1>4. ~ p - q >= 2
  <2>1. SUFFICES ASSUME p - q >= 2 PROVE FALSE
    OBVIOUS
  <2>2. (p - q) * W >= 2 * W
    BY <1>1, <1>3, <2>1
  <2> QED BY <1>1, <1>3, <2>2
<1>5. ~ q - p >= 1
  <2>1. SUFFICES ASSUME q - p >= 1 PROVE FALSE
    OBVIOUS
  <2>2. (q - p) * W >= W
    BY <1>1, <1>3, <2>1
  <2>3. (p - q) * W = - ((q - p) * W)
    BY <1>1, <1>3
  <2> QED BY <1>1, <1>3, <2>2, <2>3
<1>6. p = q \/ p = q + 1
  BY <1>3, <1>4, <1>5
<1> QED BY <1>6 DEF p, q

-----------------------------------------------------------------------------
(* The line under way.                                                     *)

Turn == IF state = "IREAD" THEN "i" ELSE "d"

\* While the mmu reads there is at most one line under way, at one place, and
\* it is the one the cache whose turn it is asks for; otherwise there is none.
ChannelInv ==
  /\ cci_rd_remaining + Len(pending) + Len(fifo) = dma_rd_remaining
  /\ reading => rd_req[Turn]
  /\ ~ reading => dma_rd_remaining = 0
  /\ cci_rd_remaining > 0 => rd_addr_r = Line(host_rd_addr)
  /\ pending # <<>> => Head(pending) = Line(host_rd_addr)
  /\ fifo # <<>> => Head(fifo) = Line(host_rd_addr)

Inv == MmuTypeOK /\ ChannelInv

LEMMA ChannelRight ==
  ASSUME Inv
  PROVE  RightLine
<1>1. /\ cci_rd_remaining \in Nat /\ dma_rd_remaining \in Nat
      /\ pending \in Seq(Nat) /\ fifo \in Seq(Nat)
  BY DEF Inv, MmuTypeOK
<1>2. ASSUME fifo # <<>> PROVE reading
  <2>1. Len(fifo) > 0 /\ Len(pending) >= 0
    BY <1>1, <1>2
  <2> QED BY <1>1, <2>1 DEF Inv, ChannelInv
<1> QED BY <1>2 DEF Inv, ChannelInv, RightLine, host_rd_ready, Turn

LEMMA InitInv ==
  Init => Inv
<1> SUFFICES ASSUME Init PROVE Inv
  OBVIOUS
<1>1. ASSUME NEW c \in Caches PROVE cell[c] \in [Served(c) -> Nat \cup {Junk, New}]
  BY <1>1 DEF Init, Each
<1>2. MmuTypeOK
  BY <1>1 DEF Init, MmuTypeOK, Each, Caches
<1>3. ChannelInv
  BY DEF Init, ChannelInv, reading
<1> QED BY <1>2, <1>3 DEF Inv

-----------------------------------------------------------------------------
(* One clock edge.                                                         *)

\* What the core can ask of the caches.
Asked(acc) == /\ acc \in [Caches -> [op : {"none", "rd", "wr"}, addr : Nat]]
              /\ acc["i"].op # "wr"

LEMMA TickTaken ==
  ASSUME Next
  PROVE  \E host, acc : Asked(acc) /\ Permitted(acc) /\ Access(acc) /\ Behind(host)
<1>1. PICK host \in SUBSET Offers : Tick(host)
  BY DEF Next
<1>2. PICK fetch \in Accesses("i"), access \in Accesses("d") :
        Permitted([i |-> fetch, d |-> access]) /\ Access([i |-> fetch, d |-> access])
  BY <1>1 DEF Tick
<1> DEFINE acc == [i |-> fetch, d |-> access]
<1>3. /\ fetch \in [op : {"none", "rd"}, addr : Nat]
      /\ access \in [op : {"none", "rd", "wr"}, addr : Nat]
  <2>1. Fetched \subseteq Nat /\ Accessed \subseteq Nat /\ NoAccess \in [op : {"none"}, addr : Nat]
    BY MmuAssumption DEF NoAccess
  <2>2. fetch \in {NoAccess} \cup [op : {"rd"}, addr : Fetched]
    BY <1>2 DEF Accesses
  <2>3. access \in {NoAccess} \cup [op : {"rd", "wr"}, addr : Accessed]
    BY <1>2 DEF Accesses
  <2> QED BY <2>1, <2>2, <2>3
<1>4. acc \in [Caches -> [op : {"none", "rd", "wr"}, addr : Nat]] /\ acc["i"] = fetch
  BY <1>3 DEF Caches
<1>5. Asked(acc)
  BY <1>3, <1>4 DEF Asked
<1>6. Behind(host)
  BY <1>1 DEF Tick
<1> QED BY <1>2, <1>5, <1>6

LEMMA LookTypes ==
  ASSUME MmuTypeOK, NEW acc, Asked(acc), Look(acc)
  PROVE  /\ {miss', segfault'} \subseteq [Caches -> BOOLEAN]
         /\ \A c \in Caches : rd_data'[c] \in Nat \cup {Junk, New} /\ last_addr'[c] \in Nat
<1>1. miss' \in [Caches -> BOOLEAN] /\ segfault' \in [Caches -> BOOLEAN]
  BY DEF Look, Active, MmuTypeOK, InRange, Missing
<1>2. ASSUME NEW c \in Caches
      PROVE  rd_data'[c] \in Nat \cup {Junk, New} /\ last_addr'[c] \in Nat
  <2>1. acc[c].addr \in Nat /\ cell[c] \in [Served(c) -> Nat \cup {Junk, New}]
    BY DEF MmuTypeOK, Asked
  <2>2. InRange(c, acc[c]) => cell[c][acc[c].addr] \in Nat \cup {Junk, New}
    BY <2>1 DEF InRange
  <2> QED BY <2>1, <2>2 DEF Look, MmuTypeOK
<1> QED BY <1>1, <1>2

LEMMA WriteTypes ==
  ASSUME Inv, NEW acc, Asked(acc), Write(acc), NEW c \in Caches
  PROVE  /\ valid'[c] \subseteq {Line(a) : a \in Served(c)}
         /\ cell'[c] \in [Served(c) -> Nat \cup {Junk, New}]
<1>1. /\ valid[c] \subseteq {Line(a) : a \in Served(c)}
      /\ cell[c] \in [Served(c) -> Nat \cup {Junk, New}]
  BY DEF Inv, MmuTypeOK
<1>2. host_rd_valid(c) => host_rd_addr \in Served(c)
  BY DEF host_rd_valid
<1>3. valid'[c] \in {valid[c], valid[c] \cup {Line(host_rd_addr)}}
      /\ (valid'[c] # valid[c] => host_rd_valid(c))
  BY DEF Write, Filled
<1>4. ASSUME host_rd_valid(c) PROVE Fill(c) \in [Served(c) -> Nat \cup {Junk, New}]
  <2>1. Head(fifo) \in Nat /\ W \in Nat
    BY <1>4, MmuAssumption DEF Inv, MmuTypeOK, host_rd_valid, host_rd_ready
  <2>2. ASSUME NEW a \in Served(c), a - host_rd_addr \in 0 .. W - 1
        PROVE  Head(fifo) * W + (a - host_rd_addr) \in Nat
    <3>1. Head(fifo) * W \in Nat
      BY <2>1
    <3> QED BY <2>2, <3>1, <2>1
  <2> QED BY <1>1, <2>2 DEF Fill
<1>5. cell'[c] \in [Served(c) -> Nat \cup {Junk, New}]
  BY <1>1, <1>4 DEF Write, Filled
<1> QED BY <1>1, <1>2, <1>3, <1>5

LEMMA SkewTypes ==
  ASSUME MmuTypeOK, NEW acc, Note(acc), NEW c \in Caches
  PROVE  skewed'[c] \subseteq Nat
<1>1. host_rd_addr \in Nat
  BY DEF MmuTypeOK, host_rd_addr, Caches
<1>2. Line(host_rd_addr) \in Nat /\ Line(host_rd_addr) + 1 \in Nat
  BY <1>1, LineType
<1> QED BY <1>2 DEF Note, MmuTypeOK

LEMMA RequestTypes ==
  ASSUME MmuTypeOK, Request
  PROVE  /\ rd_req' \in [Caches -> BOOLEAN]
         /\ \A c \in Caches : miss_addr'[c] \in Nat
<1>1. rd_req' \in [Caches -> BOOLEAN]
  BY DEF Request, MmuTypeOK, host_rd_valid
<1> QED BY <1>1 DEF Request, MmuTypeOK

Place(ask, asked, come, left) ==
  /\ cci_rd_remaining = ask /\ pending = asked /\ fifo = come
  /\ dma_rd_remaining = left

\* Where the line under way is: still to be asked for, asked for, or come.
LEMMA OnePlace ==
  ASSUME Inv
  PROVE  /\ dma_rd_remaining \in 0 .. 1 /\ cci_rd_remaining \in 0 .. 1
         /\ pending \in Seq(Nat) /\ fifo \in Seq(Nat)
         /\ \/ Place(0, <<>>, <<>>, 0)
            \/ Place(1, <<>>, <<>>, 1)
            \/ Place(0, <<Line(host_rd_addr)>>, <<>>, 1)
            \/ Place(0, <<>>, <<Line(host_rd_addr)>>, 1)
<1>1. /\ dma_rd_remaining \in 0 .. 1 /\ cci_rd_remaining \in 0 .. 1
      /\ pending \in Seq(Nat) /\ fifo \in Seq(Nat)
      /\ Len(pending) \in Nat /\ Len(fifo) \in Nat
      /\ cci_rd_remaining + Len(pending) + Len(fifo) = dma_rd_remaining
  BY DEF Inv, MmuTypeOK, ChannelInv
<1>2. ASSUME NEW s \in Seq(Nat), Len(s) = 0 PROVE s = <<>>
  BY <1>2
<1>3. ASSUME NEW s \in Seq(Nat), Len(s) = 1 PROVE s = <<Head(s)>> /\ s # <<>>
  BY <1>3
<1>4. CASE dma_rd_remaining = 0
  BY <1>1, <1>2, <1>4 DEF Place
<1>5. CASE dma_rd_remaining = 1
  <2>1. CASE cci_rd_remaining = 1
    BY <1>1, <1>2, <1>5, <2>1 DEF Place
  <2>2. CASE cci_rd_remaining = 0 /\ Len(pending) = 1 /\ Len(fifo) = 0
    BY <1>1, <1>2, <1>3, <1>5, <2>2 DEF Inv, ChannelInv, Place
  <2>3. CASE cci_rd_remaining = 0 /\ Len(pending) = 0 /\ Len(fifo) = 1
    BY <1>1, <1>2, <1>3, <1>5, <2>3 DEF Inv, ChannelInv, Place
  <2> QED BY <1>1, <1>5, <2>1, <2>2, <2>3
<1> QED BY <1>1, <1>4, <1>5

\* What the read channel does with the line, in each of the four places.
LEMMA LineMoves ==
  ASSUME Inv, NEW host, Dma(host)
  PROVE  /\ rd_addr_r' \in Nat
         /\ cci_rd_remaining' \in 0 .. 1 /\ dma_rd_remaining' \in 0 .. 1
         /\ pending' \in Seq(Nat) /\ fifo' \in Seq(Nat)
         /\ cci_rd_remaining' + Len(pending') + Len(fifo') = dma_rd_remaining'
         /\ dma_rd_remaining' = (IF reading /\ ~ host_rd_ready THEN 1 ELSE 0)
         /\ cci_rd_remaining' > 0 => rd_addr_r' = Line(host_rd_addr)
         /\ pending' # <<>> => Head(pending') = Line(host_rd_addr)
         /\ fifo' # <<>> => Head(fifo') = Line(host_rd_addr)
<1>1. /\ host_rd_addr \in Nat /\ rd_addr_r \in Nat
  BY DEF Inv, MmuTypeOK, host_rd_addr, Caches
<1>2. Line(host_rd_addr) \in Nat
  BY <1>1, LineType
<1>3. FifoDepth \in Nat \ {0}
  BY MmuAssumption
<1>4. dma_rd_remaining = 1 => reading
  BY DEF Inv, ChannelInv
<1> DEFINE l == Line(host_rd_addr)
<1>5. CASE Place(0, <<>>, <<>>, 0)
  <2>1. ~ host_rd_ready /\ ~ cci_rd_en(host) /\ (rd_start <=> reading)
    BY <1>5 DEF host_rd_ready, cci_rd_en, rd_start, Place
  <2>2. pending' = <<>> /\ fifo' = <<>>
    BY <1>5, <2>1 DEF Dma, Place
  <2>3. /\ rd_addr_r' = IF reading THEN l ELSE rd_addr_r
        /\ cci_rd_remaining' = IF reading THEN 1 ELSE 0
        /\ dma_rd_remaining' = IF reading THEN 1 ELSE 0
    BY <1>5, <2>1 DEF Dma, Place
  <2> QED BY <1>1, <1>2, <2>1, <2>2, <2>3
<1>6. CASE Place(1, <<>>, <<>>, 1)
  <2>1. ~ host_rd_ready /\ ~ rd_start /\ reading /\ rd_addr_r = l
    BY <1>4, <1>6 DEF host_rd_ready, rd_start, Inv, ChannelInv, Place
  <2>2. fifo' = <<>> /\ dma_rd_remaining' = 1
    BY <1>6, <2>1 DEF Dma, Place
  <2>3. CASE cci_rd_en(host)
    <3>1. pending' = <<l>> /\ cci_rd_remaining' = 0 /\ rd_addr_r' = l + 1
      BY <1>6, <2>1, <2>3 DEF Dma, Place
    <3> QED BY <1>2, <2>1, <2>2, <3>1
  <2>4. CASE ~ cci_rd_en(host)
    <3>1. pending' = <<>> /\ cci_rd_remaining' = 1 /\ rd_addr_r' = l
      BY <1>6, <2>1, <2>4 DEF Dma, Place
    <3> QED BY <1>2, <2>1, <2>2, <3>1
  <2> QED BY <2>3, <2>4
<1>7. CASE Place(0, <<l>>, <<>>, 1)
  <2>1. ~ host_rd_ready /\ ~ rd_start /\ reading /\ ~ cci_rd_en(host)
    BY <1>4, <1>7 DEF host_rd_ready, rd_start, cci_rd_en, Place
  <2>2. rd_addr_r' = rd_addr_r /\ dma_rd_remaining' = 1 /\ cci_rd_remaining' = 0
    BY <1>7, <2>1 DEF Dma, Place
  <2>3. CASE "line" \in host
    <3>1. pending' = <<>> /\ fifo' = <<l>>
      BY <1>3, <1>7, <2>1, <2>3 DEF Dma, Place
    <3> QED BY <1>1, <1>2, <2>1, <2>2, <3>1
  <2>4. CASE "line" \notin host
    <3>1. pending' = <<l>> /\ fifo' = <<>>
      BY <1>7, <2>1, <2>4 DEF Dma, Place
    <3> QED BY <1>1, <1>2, <2>1, <2>2, <3>1
  <2> QED BY <2>3, <2>4
<1>8. CASE Place(0, <<>>, <<l>>, 1)
  <2>1. host_rd_ready /\ ~ rd_start /\ reading /\ ~ cci_rd_en(host)
    BY <1>4, <1>8 DEF host_rd_ready, rd_start, cci_rd_en, Place
  <2>2. rd_addr_r' = rd_addr_r /\ dma_rd_remaining' = 0 /\ cci_rd_remaining' = 0
    BY <1>8, <2>1 DEF Dma, Place
  <2>3. pending' = <<>> /\ fifo' = <<>>
    BY <1>8, <2>1 DEF Dma, Place
  <2> QED BY <1>1, <1>2, <2>1, <2>2, <2>3
<1> QED BY OnePlace, <1>5, <1>6, <1>7, <1>8

\* The address asked for stays while the line is under way.
LEMMA TurnStays ==
  ASSUME Inv, NEW host, MmuState(host), Request
  PROVE  /\ state' \in {"STARTUP", "READY", "IREAD", "DREAD"}
         /\ reading' => rd_req'[Turn']
         /\ reading /\ ~ host_rd_ready => reading' /\ host_rd_addr' = host_rd_addr
         /\ reading /\ host_rd_ready => ~ reading'
<1>1. CASE reading /\ ~ host_rd_ready
  <2>1. state' = state /\ rd_req[Turn] /\ Turn \in Caches
    BY <1>1 DEF MmuState, reading, Inv, ChannelInv, Turn, Caches
  <2>2. rd_req'[Turn] /\ miss_addr'[Turn] = miss_addr[Turn]
    BY <1>1, <2>1 DEF Request, host_rd_valid
  <2> QED BY <1>1, <2>1, <2>2 DEF reading, Turn, host_rd_addr, Inv, MmuTypeOK
<1>2. CASE reading /\ host_rd_ready
  BY <1>2 DEF MmuState, reading
<1>3. CASE ~ reading
  <2>1. state \in {"STARTUP", "READY"} /\ ~ host_rd_ready
    <3>1. dma_rd_remaining = 0
      BY <1>3 DEF Inv, ChannelInv
    <3>2. fifo = <<>>
      BY <3>1, OnePlace DEF Place
    <3> QED BY <1>3, <3>2 DEF reading, Inv, MmuTypeOK, host_rd_ready
  <2>2. \A c \in Caches : rd_req[c] => rd_req'[c]
    BY <2>1 DEF Request, host_rd_valid
  <2>3. /\ state' \in {"STARTUP", "READY", "IREAD", "DREAD"}
        /\ state' = "IREAD" => rd_req["i"]
        /\ state' = "DREAD" => rd_req["d"]
    BY <2>1 DEF MmuState
  <2> QED BY <1>3, <2>2, <2>3 DEF reading, Turn, Caches
<1> QED BY <1>1, <1>2, <1>3

LEMMA ClockInv ==
  ASSUME Inv, NEW acc, NEW host, Asked(acc), Access(acc), Behind(host)
  PROVE  Inv'
<1> USE DEF Access, Behind
<1>1. /\ inside' = inside /\ inside \in BOOLEAN
      /\ answered' \in [Caches -> BOOLEAN]
      /\ \A c \in Caches : skewed'[c] \subseteq Nat
  BY SkewTypes DEF Inv, MmuTypeOK, Note
<1>2. MmuTypeOK
  BY DEF Inv
<1>3. MmuTypeOK'
  <2>1. /\ {miss', segfault'} \subseteq [Caches -> BOOLEAN]
        /\ \A c \in Caches : rd_data'[c] \in Nat \cup {Junk, New} /\ last_addr'[c] \in Nat
    BY <1>2, LookTypes
  <2>2. \A c \in Caches :
          /\ valid'[c] \subseteq {Line(a) : a \in Served(c)}
          /\ cell'[c] \in [Served(c) -> Nat \cup {Junk, New}]
    BY WriteTypes
  <2>3. rd_req' \in [Caches -> BOOLEAN] /\ \A c \in Caches : miss_addr'[c] \in Nat
    BY <1>2, RequestTypes
  <2>4. state' \in {"STARTUP", "READY", "IREAD", "DREAD"}
    BY TurnStays
  <2>5. /\ rd_addr_r' \in Nat
        /\ cci_rd_remaining' \in 0 .. 1 /\ dma_rd_remaining' \in 0 .. 1
        /\ pending' \in Seq(Nat) /\ fifo' \in Seq(Nat)
    BY LineMoves
  <2> QED BY <1>1, <2>1, <2>2, <2>3, <2>4, <2>5 DEF MmuTypeOK
<1>4. ChannelInv'
  <2>1. /\ cci_rd_remaining' \in Nat /\ Len(pending') \in Nat /\ Len(fifo') \in Nat
        /\ pending' \in Seq(Nat) /\ fifo' \in Seq(Nat)
    BY <1>3 DEF MmuTypeOK
  <2>2. /\ cci_rd_remaining' + Len(pending') + Len(fifo') = dma_rd_remaining'
        /\ dma_rd_remaining' = (IF reading /\ ~ host_rd_ready THEN 1 ELSE 0)
        /\ cci_rd_remaining' > 0 => rd_addr_r' = Line(host_rd_addr)
        /\ pending' # <<>> => Head(pending') = Line(host_rd_addr)
        /\ fifo' # <<>> => Head(fifo') = Line(host_rd_addr)
    BY LineMoves
  <2>3. /\ reading' => rd_req'[Turn']
        /\ reading /\ ~ host_rd_ready => reading' /\ host_rd_addr' = host_rd_addr
    BY TurnStays
  <2>4. cci_rd_remaining' > 0 \/ pending' # <<>> \/ fifo' # <<>> => dma_rd_remaining' > 0
    <3>1. ASSUME NEW s \in Seq(Nat), s # <<>> PROVE Len(s) > 0
      BY <3>1
    <3> QED BY <2>1, <2>2, <3>1
  <2>5. dma_rd_remaining' > 0 => reading' /\ Line(host_rd_addr') = Line(host_rd_addr)
    BY <2>2, <2>3
  <2>6. ~ reading' => dma_rd_remaining' = 0
    BY <2>2, <2>3
  <2> QED BY <2>2, <2>3, <2>4, <2>5, <2>6 DEF ChannelInv, Line
<1> QED BY <1>3, <1>4 DEF Inv

THEOREM InvHolds ==
  Spec => []Inv
<1>1. Inv /\ [Next]_vars => Inv'
  <2> SUFFICES ASSUME Inv, [Next]_vars PROVE Inv'
    OBVIOUS
  <2>1. CASE Next
    BY <2>1, TickTaken, ClockInv
  <2>2. CASE UNCHANGED vars
    BY <2>2 DEF vars, cachevars, dmavars, Inv, MmuTypeOK, ChannelInv, reading, Turn,
                host_rd_addr, Served
  <2> QED BY <2>1, <2>2
<1> QED BY InitInv, <1>1, PTL DEF Spec

-----------------------------------------------------------------------------
(* What a hit returns.                                                     *)

\* A line that is there and is not skewed holds what was fetched for it.
Good(c, a) == Line(a) \in valid[c] /\ Line(a) \notin skewed[c]

HitInv ==
  /\ \A c \in Caches : \A a \in Served(c) : Good(c, a) => cell[c][a] = a
  /\ HitReturns

\* A line that comes puts its words right or marks the lines it falls into; a
\* store changes no line that is there.
LEMMA WordKept ==
  ASSUME Inv, HitInv, NEW acc, Asked(acc), Write(acc), Note(acc),
         NEW c \in Caches, NEW a \in Served(c), Good(c, a)'
  PROVE  cell'[c][a] = a
<1>1. a \in Nat /\ host_rd_addr \in Nat
  BY Places DEF Caches, Inv, MmuTypeOK, host_rd_addr
<1>2. Line(a) \in valid'[c] /\ Line(a) \notin skewed'[c]
  BY DEF Good, Line
<1>3. CASE ~ Filled(c, acc)
  <2>1. Good(c, a)
    BY <1>2, <1>3 DEF Write, Note, Good
  <2>2. cell'[c][a] = cell[c][a]
    BY <1>3, <2>1 DEF Write, Good, Inv, MmuTypeOK
  <2> QED BY <2>1, <2>2 DEF HitInv
<1>4. CASE Filled(c, acc)
  <2>1. /\ valid'[c] = valid[c] \cup {Line(host_rd_addr)} /\ cell'[c] = Fill(c)
        /\ skewed'[c] = IF host_rd_addr % W = 0 THEN skewed[c] \ {Line(host_rd_addr)}
                        ELSE skewed[c] \cup {Line(host_rd_addr), Line(host_rd_addr) + 1}
    BY <1>4 DEF Write, Note
  <2>2. Head(fifo) = Line(host_rd_addr)
    BY <1>4, ChannelRight DEF RightLine, Filled, host_rd_valid
  <2>3. CASE a - host_rd_addr \in 0 .. W - 1
    <3>1. host_rd_addr % W = 0
      BY <1>1, <1>2, <2>1, <2>3, TwoLines
    <3>2. Line(host_rd_addr) * W = host_rd_addr
      BY <1>1, <3>1, InLine
    <3>3. Fill(c)[a] = host_rd_addr + (a - host_rd_addr)
      BY <2>2, <2>3, <3>2 DEF Fill
    <3> QED BY <1>1, <2>1, <3>3
  <2>4. CASE a - host_rd_addr \notin 0 .. W - 1
    <3>1. Fill(c)[a] = cell[c][a]
      BY <2>4 DEF Fill
    <3>2. Line(a) # Line(host_rd_addr)
      <4>1. CASE host_rd_addr % W = 0
        BY <1>1, <2>4, <4>1, InLine
      <4>2. CASE host_rd_addr % W # 0
        BY <1>2, <2>1, <4>2
      <4> QED BY <4>1, <4>2
    <3>3. Good(c, a)
      BY <1>2, <2>1, <3>2 DEF Good
    <3> QED BY <2>1, <3>1, <3>3 DEF HitInv
  <2> QED BY <2>3, <2>4
<1> QED BY <1>3, <1>4

LEMMA HitKept ==
  ASSUME HitInv, NEW acc, Asked(acc), Look(acc), Note(acc)
  PROVE  HitReturns'
<1> SUFFICES ASSUME NEW c \in Caches, answered'[c], ~ miss'[c], ~ segfault'[c]
             PROVE  rd_data'[c] = last_addr'[c]
  BY DEF HitReturns
<1>1. acc[c].op = "rd" /\ Active(acc[c]) /\ Line(acc[c].addr) \notin skewed[c]
  BY DEF Note, Active
<1>2. InRange(c, acc[c]) /\ ~ Missing(c, acc[c])
  BY <1>1 DEF Look
<1>3. acc[c].addr \in Served(c) /\ Good(c, acc[c].addr)
  BY <1>1, <1>2 DEF InRange, Missing, Good
<1>4. last_addr'[c] = acc[c].addr /\ rd_data'[c] = cell[c][acc[c].addr]
  BY <1>1, <1>2 DEF Look
<1> QED BY <1>3, <1>4 DEF HitInv

THEOREM HitInvHolds ==
  Spec => []HitInv
<1>1. Init => HitInv
  BY DEF Init, HitInv, Good, HitReturns, Each
<1>2. Inv /\ HitInv /\ [Next]_vars => HitInv'
  <2> SUFFICES ASSUME Inv, HitInv, [Next]_vars PROVE HitInv'
    OBVIOUS
  <2>1. CASE Next
    <3>1. PICK acc, host : Asked(acc) /\ Access(acc) /\ Behind(host)
      BY <2>1, TickTaken
    <3>2. Look(acc) /\ Write(acc) /\ Note(acc)
      BY <3>1 DEF Access
    <3>3. ASSUME NEW c \in Caches, NEW a \in Served(c), Good(c, a)'
          PROVE  cell'[c][a] = a
      BY <3>1, <3>2, <3>3, WordKept
    <3>4. HitReturns'
      BY <3>1, <3>2, HitKept
    <3> QED BY <3>3, <3>4 DEF HitInv, Served
  <2>2. CASE UNCHANGED vars
    BY <2>2 DEF vars, cachevars, HitInv, Good, HitReturns, Served, Line
  <2> QED BY <2>1, <2>2
<1> QED BY InvHolds, <1>1, <1>2, PTL DEF Spec

-----------------------------------------------------------------------------
(* The theorems.                                                           *)

\* Every register of caches, mmu and dma has its type in every reachable state;
\* in particular a cache never fills a line it does not serve.
THEOREM MmuTypes ==
  Spec => []MmuTypeOK
<1>1. Inv => MmuTypeOK
  BY DEF Inv
<1> QED BY <1>1, InvHolds, PTL

\* The handshakes of caches, mmu and dma: the line that comes is the one that
\* the cache being served waits for, whatever the core asks for.
THEOREM TheRightLine ==
  Spec => []RightLine
<1>1. Inv => RightLine
  BY ChannelRight
<1> QED BY <1>1, InvHolds, PTL

\* i_cache and d_cache: whatever the core does, a read that reports neither a miss
\* nor a fault gives the host's word at its address, but in a line that a fill from
\* the middle of a line has written to.
THEOREM HitsAreRight ==
  Spec => []HitReturns
<1>1. HitInv => HitReturns
  BY DEF HitInv, HitReturns
<1> QED BY <1>1, HitInvHolds, PTL
=============================================================================
