-------------------------- MODULE ShellTextProofs --------------------------
(***************************************************************************)
(* Proofs about ShellText, for every alphabet, width of the integer type   *)
(* and length of a text.                                                   *)
(***************************************************************************)
EXTENDS ShellText, DataLemmas

-----------------------------------------------------------------------------
(* Ranges.                                                                 *)

\* How many numbers the constructor means to count.
Count(begin, end, step) ==
  IF step > 0 THEN (end - begin) \div step + 1 ELSE (begin - end) \div (- step) + 1

\* A range after n calls of next.  What is behind the last number is not used.
Counted(begin, end, step, n) ==
  /\ \E c \in Int : /\ n < Count(begin, end, step) => c = begin + n * step
                   /\ rng = [first |-> begin, bound |-> Count(begin, end, step),
                             step |-> step, curr |-> c, next_count |-> n]
  /\ n <= Count(begin, end, step)
  /\ values \in Seq(Int) /\ Len(values) = n
  /\ \A i \in 1 .. n : values[i] = begin + (i - 1) * step

Near(begin, end) == Abs(end - begin) < MaxInt

RangeInv ==
  /\ pc = "reading" => values = <<>>
  /\ pc = "range" =>
       \E begin, end, step \in LongLongs :
         /\ given = <<begin, end, step>>
         /\ Near(begin, end) =>
              ~ Invalid(end - begin, step) /\ \E n \in Nat : Counted(begin, end, step, n)

\* The numbers between two others, with a step that leads to them.
Between(begin, end, step) ==
  {v \in (begin .. end) \cup (end .. begin) :
     (v - begin) % (IF step > 0 THEN step ELSE - step) = 0}

\* The multiples of w up to a.
LEMMA Multiples ==
  ASSUME NEW w \in Nat \ {0}, NEW a \in Nat, NEW d \in Int
  PROVE  d \in 0 .. a /\ d % w = 0 <=> \E k \in 0 .. a \div w : d = w * k
<1> DEFINE q == a \div w
           r == a % w
<1>1. q \in Int /\ r \in 0 .. w - 1 /\ a = w * q + r
  BY Division
<1> HIDE DEF q, r
<1>2. q \in Nat
  <2>1. CASE q <= -1
    <3>1. w * q <= - w
      BY <1>1, <2>1
    <3> QED BY <1>1, <3>1
  <2> QED BY <1>1, <2>1
<1>3. ASSUME d \in 0 .. a, d % w = 0
      PROVE  \E k \in 0 .. q : d = w * k
  <2> DEFINE k == d \div w
  <2>1. k \in Int /\ d = w * k + 0
    BY <1>3, Division
  <2> HIDE DEF k
  <2>2. k >= 0
    <3>1. CASE k <= -1
      <4>1. w * k <= - w
        BY <2>1, <3>1
      <4> QED BY <1>3, <2>1, <4>1
    <3> QED BY <2>1, <3>1
  <2>3. k <= q
    <3>1. CASE k >= q + 1
      <4>1. PICK j \in Nat : k = q + 1 + j
        <5>1. k = q + 1 + (k - q - 1) /\ k - q - 1 \in Nat
          BY <1>2, <2>1, <3>1
        <5> QED BY <5>1
      <4>2. w * k = w * q + w + w * j /\ w * j \in Nat
        BY <1>2, <4>1
      <4> QED BY <1>1, <1>3, <2>1, <4>2
    <3> QED BY <1>2, <2>1, <3>1
  <2> QED BY <2>1, <2>2, <2>3
<1>4. ASSUME NEW k \in 0 .. q, d = w * k
      PROVE  d \in 0 .. a /\ d % w = 0
  <2>1. PICK j \in Nat : q = k + j
    <3>1. q = k + (q - k) /\ q - k \in Nat
      BY <1>2
    <3> QED BY <3>1
  <2>2. w * q = w * k + w * j /\ w * j \in Nat /\ w * k \in Nat
    BY <2>1
  <2>3. d \in 0 .. a
    BY <1>1, <1>4, <2>2
  <2>4. (w * k + 0) % w = 0
    BY DivisionUnique
  <2> QED BY <1>4, <2>3, <2>4
<1>5. (\E k \in 0 .. a \div w : d = w * k) <=> \E k \in 0 .. q : d = w * k
  BY DEF q
<1> QED BY <1>3, <1>4, <1>5

\* The count of the constructor is of what is between.
LEMMA RangeCounts ==
  ASSUME NEW begin \in Int, NEW end \in Int, NEW step \in Int, ~ Invalid(end - begin, step)
  PROVE  /\ Count(begin, end, step) \in Nat
         /\ Between(begin, end, step) =
              {begin + (i - 1) * step : i \in 1 .. Count(begin, end, step)}
<1>1. CASE step > 0
  <2>1. end >= begin /\ end - begin \in Nat /\ step \in Nat \ {0}
    BY <1>1 DEF Invalid
  <2>2. PICK q \in Int : q = (end - begin) \div step
    <3>1. (end - begin) \div step \in Int
      BY <2>1, Division
    <3> QED BY <3>1
  <2>3. Count(begin, end, step) = q + 1
    BY <1>1, <2>2 DEF Count
  <2>4. \A d \in Int : d \in 0 .. end - begin /\ d % step = 0 <=> \E k \in 0 .. q : d = step * k
    BY <2>1, <2>2, Multiples
  <2>5. q \in Nat
    <3>1. 0 \in 0 .. end - begin /\ 0 % step = 0
      BY <2>1
    <3> QED BY <2>4, <3>1
  <2>6. ASSUME NEW v
        PROVE  v \in Between(begin, end, step) <=>
                 \E i \in 1 .. q + 1 : v = begin + (i - 1) * step
    <3>1. v \in Between(begin, end, step) <=> v \in begin .. end /\ (v - begin) % step = 0
      BY <1>1, <2>1 DEF Between
    <3>2. ASSUME v \in Int
          PROVE  v \in begin .. end <=> v - begin \in 0 .. end - begin
      BY <2>1, <3>2
    <3>3. ASSUME v \in Int
          PROVE  (\E k \in 0 .. q : v - begin = step * k) <=>
                   \E i \in 1 .. q + 1 : v = begin + (i - 1) * step
      <4>1. ASSUME NEW k \in 0 .. q, v - begin = step * k
            PROVE  \E i \in 1 .. q + 1 : v = begin + (i - 1) * step
        <5>1. k + 1 \in 1 .. q + 1 /\ (k + 1) - 1 = k
          BY <2>5
        <5>2. v = begin + ((k + 1) - 1) * step
          BY <3>3, <4>1, <5>1
        <5> QED BY <5>1, <5>2
      <4>2. ASSUME NEW i \in 1 .. q + 1, v = begin + (i - 1) * step
            PROVE  \E k \in 0 .. q : v - begin = step * k
        <5>1. i - 1 \in 0 .. q /\ v - begin = step * (i - 1)
          BY <2>5, <4>2
        <5> QED BY <5>1
      <4> QED BY <4>1, <4>2
    <3>4. (\E i \in 1 .. q + 1 : v = begin + (i - 1) * step) => v \in Int
      BY <2>5
    <3>5. CASE v \in Int
      <4>1. v - begin \in Int
        BY <3>5
      <4> QED BY <2>4, <3>1, <3>2, <3>3, <3>5, <4>1
    <3>6. CASE v \notin Int
      BY <3>1, <3>4, <3>6
    <3> QED BY <3>5, <3>6
  <2>7. Between(begin, end, step) = {begin + (i - 1) * step : i \in 1 .. q + 1}
    BY <2>6, Zenon
  <2> QED BY <2>3, <2>5, <2>7
<1>2. CASE ~ step > 0
  <2>1. PICK w \in Nat \ {0} : w = - step
    BY <1>2 DEF Invalid
  <2>2. end <= begin /\ begin - end \in Nat
    BY <1>2 DEF Invalid
  <2>3. PICK q \in Int : q = (begin - end) \div w
    <3>1. (begin - end) \div w \in Int
      BY <2>1, <2>2, Division
    <3> QED BY <3>1
  <2>4. Count(begin, end, step) = q + 1
    BY <1>2, <2>1, <2>3 DEF Count
  <2>5. \A d \in Int : d \in 0 .. begin - end /\ d % w = 0 <=> \E k \in 0 .. q : d = w * k
    <3>1. PICK a \in Nat : a = begin - end
      BY <2>2
    <3>2. \A d \in Int : d \in 0 .. a /\ d % w = 0 <=> \E k \in 0 .. a \div w : d = w * k
      BY Multiples
    <3> QED BY <2>3, <3>1, <3>2
  <2>6. q \in Nat
    <3>1. 0 \in 0 .. begin - end /\ 0 % w = 0
      BY <2>1, <2>2
    <3> QED BY <2>5, <3>1
  <2>7. ASSUME NEW v
        PROVE  v \in Between(begin, end, step) <=>
                 \E i \in 1 .. q + 1 : v = begin + (i - 1) * step
    <3>1. v \in Between(begin, end, step) <=> v \in end .. begin /\ (v - begin) % w = 0
      BY <1>2, <2>1, <2>2 DEF Between
    <3>2. ASSUME v \in Int
          PROVE  /\ v \in end .. begin <=> begin - v \in 0 .. begin - end
                 /\ (v - begin) % w = 0 <=> (begin - v) % w = 0
      <4>1. ASSUME NEW d \in Int, d % w = 0
            PROVE  (- d) % w = 0
        <5> DEFINE k == d \div w
        <5>1. k \in Int /\ d = w * k + 0
          BY <4>1, Division
        <5> HIDE DEF k
        <5>2. - d = w * (- k) + 0
          BY <5>1
        <5>3. (w * (- k) + 0) % w = 0
          BY <5>1, DivisionUnique
        <5> QED BY <5>2, <5>3
      <4>2. v - begin = - (begin - v) /\ begin - v = - (v - begin)
            /\ v - begin \in Int /\ begin - v \in Int
        BY <3>2
      <4>3. (v - begin) % w = 0 <=> (begin - v) % w = 0
        BY <4>1, <4>2
      <4> QED BY <2>2, <3>2, <4>3
    <3>3. ASSUME v \in Int
          PROVE  (\E k \in 0 .. q : begin - v = w * k) <=>
                   \E i \in 1 .. q + 1 : v = begin + (i - 1) * step
      <4>1. ASSUME NEW k \in 0 .. q, begin - v = w * k
            PROVE  \E i \in 1 .. q + 1 : v = begin + (i - 1) * step
        <5>1. k + 1 \in 1 .. q + 1 /\ (k + 1) - 1 = k
          BY <2>6
        <5>2. k * step = - (w * k)
          BY <2>1
        <5>3. v = begin + ((k + 1) - 1) * step
          BY <3>3, <4>1, <5>1, <5>2
        <5> QED BY <5>1, <5>3
      <4>2. ASSUME NEW i \in 1 .. q + 1, v = begin + (i - 1) * step
            PROVE  \E k \in 0 .. q : begin - v = w * k
        <5>1. (i - 1) * step = - (w * (i - 1))
          BY <2>1
        <5>2. i - 1 \in 0 .. q /\ begin - v = w * (i - 1)
          BY <2>6, <4>2, <5>1
        <5> QED BY <5>2
      <4> QED BY <4>1, <4>2
    <3>4. (\E i \in 1 .. q + 1 : v = begin + (i - 1) * step) => v \in Int
      BY <2>6
    <3>5. CASE v \in Int
      <4>1. begin - v \in Int
        BY <3>5
      <4> QED BY <2>5, <3>1, <3>2, <3>3, <3>5, <4>1
    <3>6. CASE v \notin Int
      BY <3>1, <3>4, <3>6
    <3> QED BY <3>5, <3>6
  <2>8. Between(begin, end, step) = {begin + (i - 1) * step : i \in 1 .. q + 1}
    BY <2>7, Zenon
  <2> QED BY <2>4, <2>6, <2>8
<1> QED BY <1>1, <1>2

LEMMA WrappedIs ==
  ASSUME NEW n \in LongLongs
  PROVE  Wrapped(n) = n
<1>1. PICK w \in Nat \ {0} : w = MaxInt + 1
  BY TextAssumption
<1>2. n + MaxInt + 1 \in 0 .. 2 * w - 1 /\ 2 * w \in Nat \ {0}
  BY <1>1, TextAssumption DEF LongLongs
<1>3. PICK d \in Nat \ {0}, r \in Nat :
        d = 2 * w /\ r = n + MaxInt + 1 /\ r \in 0 .. d - 1
  BY <1>2
<1>4. (d * 0 + r) % d = r
  BY <1>3, DivisionUnique
<1>5. r % d = r
  <2>1. d * 0 = 0
    BY <1>3
  <2>2. d * 0 + r = r
    BY <1>3, <2>1
  <2> QED BY <1>4, <2>2
<1>6. Wrapped(n) = (r % d) - w
  BY <1>1, <1>3, TextAssumption DEF Wrapped, LongLongs
<1> QED BY <1>1, <1>3, <1>5, <1>6, TextAssumption DEF LongLongs

\* Ends that are near: nothing overflows but the negation of the least step.
LEMMA BoundIs ==
  ASSUME NEW begin \in LongLongs, NEW end \in LongLongs, NEW step \in LongLongs,
         Near(begin, end), ~ Invalid(end - begin, step)
  PROVE  /\ Bound(begin, end, step) = Count(begin, end, step)
         /\ Wrapped(end - begin) = end - begin
<1>1. begin \in Int /\ end \in Int /\ step \in Int /\ MaxInt \in Nat \ {0}
  BY TextAssumption DEF LongLongs
<1>2. end - begin \in LongLongs /\ begin - end \in LongLongs
  BY <1>1 DEF Near, Abs, LongLongs
<1>3. Wrapped(end - begin) = end - begin /\ Wrapped(begin - end) = begin - end
  BY <1>2, WrappedIs
<1>4. ASSUME NEW a \in 0 .. MaxInt - 1, NEW w \in Nat \ {0}
      PROVE  a \div w + 1 \in LongLongs /\ (w > a => a \div w = 0)
  <2>1. PICK q \in Int, r \in 0 .. w - 1 : q = a \div w /\ a = w * q + r
    <3>1. a \in Int
      OBVIOUS
    <3>2. a \div w \in Int /\ a % w \in 0 .. w - 1 /\ a = w * (a \div w) + (a % w)
      BY <3>1, Division
    <3> QED BY <3>2
  <2>2. q >= 0
    <3>1. CASE q <= -1
      <4>1. w * q <= - w
        BY <2>1, <3>1
      <4> QED BY <2>1, <4>1
    <3> QED BY <2>1, <3>1
  <2>3. q <= w * q
    BY <2>1, <2>2
  <2>4. w > a => q = 0
    <3>1. CASE q >= 1
      <4>1. w * q >= w
        BY <2>1, <3>1
      <4> QED BY <2>1, <4>1
    <3> QED BY <2>1, <2>2, <3>1
  <2> QED BY <1>1, <2>1, <2>2, <2>3, <2>4 DEF LongLongs
<1>5. CASE step > 0
  <2>1. PICK a \in 0 .. MaxInt - 1 : a = end - begin
    <3>1. end - begin \in 0 .. MaxInt - 1
      BY <1>1, <1>5 DEF Near, Abs, Invalid
    <3> QED BY <3>1
  <2>2. PICK w \in Nat \ {0} : w = step
    BY <1>1, <1>5
  <2>3. Quotient(a, w) = a \div w
    BY <2>1, <2>2 DEF Quotient, Abs
  <2>4. Wrapped(a \div w + 1) = a \div w + 1
    BY <1>4, WrappedIs
  <2> QED BY <1>3, <1>5, <2>1, <2>2, <2>3, <2>4 DEF Bound, Count
<1>6. CASE ~ step > 0
  <2>1. PICK a \in 0 .. MaxInt - 1 : a = begin - end
    <3>1. begin - end \in 0 .. MaxInt - 1
      BY <1>1, <1>6 DEF Near, Abs, Invalid
    <3> QED BY <3>1
  <2>2. PICK w \in Nat \ {0} : w = - step
    BY <1>1, <1>6 DEF Invalid
  <2>3. Quotient(a, Wrapped(w)) = a \div w
    <3>1. CASE w \in LongLongs
      <4>1. Wrapped(w) = w
        BY <3>1, WrappedIs
      <4>2. Quotient(a, w) = a \div w
        BY <2>1, <2>2 DEF Quotient, Abs
      <4> QED BY <4>1, <4>2
    <3>2. CASE w \notin LongLongs
      <4>1. w = MaxInt + 1
        BY <1>1, <2>2, <3>2 DEF LongLongs
      <4>2. Wrapped(w) = - w
        <5>1. PICK d \in Nat \ {0} : d = 2 * w
          BY <2>2
        <5>2. (d * 1 + 0) % d = 0
          BY <5>1, DivisionUnique
        <5>3. d % d = 0
          BY <5>1, <5>2
        <5>4. Wrapped(w) = (d % d) - w
          BY <1>1, <4>1, <5>1 DEF Wrapped
        <5> QED BY <5>3, <5>4
      <4>3. a \div w = 0
        BY <1>1, <1>4, <4>1
      <4>4. Abs(- w) = w /\ Abs(a) = a
        BY <2>1, <2>2 DEF Abs
      <4>5. Quotient(a, - w) = 0
        BY <2>1, <2>2, <4>3, <4>4 DEF Quotient
      <4> QED BY <4>2, <4>3, <4>5
    <3> QED BY <3>1, <3>2
  <2>4. Wrapped(a \div w + 1) = a \div w + 1
    BY <1>4, WrappedIs
  <2> QED BY <1>3, <1>6, <2>1, <2>2, <2>3, <2>4 DEF Bound, Count
<1> QED BY <1>3, <1>5, <1>6

\* No number between two long longs overflows.
LEMMA BetweenFits ==
  ASSUME NEW begin \in LongLongs, NEW end \in LongLongs, NEW step \in LongLongs
  PROVE  Between(begin, end, step) \subseteq LongLongs
BY TextAssumption DEF Between, LongLongs

\* What the range actions do not touch.
LEMMA RangeKept ==
  ASSUME RangeInv, UNCHANGED rangevars, pc' = pc \/ pc' = "line"
  PROVE  RangeInv'
BY DEF RangeInv, Counted, rangevars

LEMMA RangeStart ==
  ASSUME RangeInv, NEW n \in 1 .. 3, NEW fields \in [1 .. n -> Fields], range(fields)
  PROVE  RangeInv'
<1>1. Len(fields) = n /\ \A i \in 1 .. n : fields[i] \in LongLongs
  <2>1. \A i \in 1 .. n : fields[i] \in LongLongs
    BY TextAssumption
  <2>2. n \in Nat /\ fields \in Seq(Fields) /\ DOMAIN fields = 1 .. n
    <3>1. n \in Nat
      OBVIOUS
    <3>2. [1 .. n -> Fields] \subseteq UNION {[1 .. m -> Fields] : m \in Nat}
      BY <3>1
    <3> QED BY <3>1, <3>2, SeqDef
  <2> QED BY <2>1, <2>2, LenProperties
<1> DEFINE begin == fields[1]
           end == IF Len(fields) > 1 THEN fields[2] ELSE begin
           step == IF Len(fields) > 2 THEN fields[3] ELSE 1
<1>2. begin \in LongLongs /\ end \in LongLongs /\ step \in LongLongs
  <2>1. 1 \in LongLongs
    BY TextAssumption DEF LongLongs
  <2> QED BY <1>1, <2>1
<1>3. PICK difference \in {Wrapped(end - begin), end - begin} :
        /\ pc = "reading" /\ given' = <<begin, end, step>> /\ UNCHANGED values
        /\ IF Invalid(difference, step) THEN pc' = "invalid_range" /\ UNCHANGED rng
           ELSE /\ pc' = "range"
                /\ rng' = [first |-> begin, bound |-> Bound(begin, end, step), step |-> step,
                           curr |-> begin, next_count |-> 0]
  BY DEF range
<1> HIDE DEF begin, end, step
<1>4. CASE Invalid(difference, step)
  BY <1>3, <1>4 DEF RangeInv
<1>5. CASE ~ Invalid(difference, step)
  <2>1. values = <<>> /\ values' = <<>> /\ pc' = "range"
    BY <1>3, <1>5 DEF RangeInv
  <2>2. ASSUME Near(begin, end)
        PROVE  ~ Invalid(end - begin, step) /\ \E m \in Nat : Counted(begin, end, step, m)'
    <3>1. begin \in Int /\ end \in Int /\ step \in Int
      BY <1>2, TextAssumption DEF LongLongs
    <3>2. ~ Invalid(end - begin, step)
      <4>1. end - begin \in LongLongs
        BY <1>2, <2>2, TextAssumption DEF Near, Abs, LongLongs
      <4>2. difference = end - begin
        BY <1>3, <4>1, WrappedIs
      <4> QED BY <1>5, <4>2
    <3>3. Bound(begin, end, step) = Count(begin, end, step)
      BY <1>2, <2>2, <3>2, BoundIs
    <3>4. Count(begin, end, step) \in Nat
      BY <3>1, <3>2, RangeCounts
    <3>5. begin = begin + 0 * step
      BY <3>1
    <3>6. rng' = [first |-> begin, bound |-> Count(begin, end, step), step |-> step,
                  curr |-> begin, next_count |-> 0]
      BY <1>3, <1>5, <3>3
    <3>7. values' \in Seq(Int) /\ Len(values') = 0
          /\ \A i \in 1 .. 0 : values'[i] = begin + (i - 1) * step
      BY <2>1
    <3>8. Counted(begin, end, step, 0)'
      BY <3>1, <3>4, <3>5, <3>6, <3>7 DEF Counted
    <3> QED BY <3>2, <3>8
  <2>3. given' = <<begin, end, step>>
    BY <1>3
  <2>4. \E b, e, s \in LongLongs :
          /\ given' = <<b, e, s>>
          /\ Near(b, e) => ~ Invalid(e - b, s) /\ \E m \in Nat : Counted(b, e, s, m)'
    BY <1>2, <2>2, <2>3
  <2> QED BY <2>1, <2>4, Zenon DEF RangeInv
<1> QED BY <1>4, <1>5

LEMMA RangeNext ==
  ASSUME RangeInv, next
  PROVE  RangeInv'
<1>1. /\ pc = "range" /\ pc' = "range" /\ ~ atEnd /\ UNCHANGED given
      /\ values' = Append(values, rng.curr)
      /\ rng' = [rng EXCEPT !.curr = Wrapped(@ + rng.step), !.next_count = @ + 1]
  BY DEF next
<1>2. PICK begin \in LongLongs, end \in LongLongs, step \in LongLongs :
         /\ given = <<begin, end, step>>
         /\ Near(begin, end) =>
              ~ Invalid(end - begin, step) /\ \E n \in Nat : Counted(begin, end, step, n)
  BY <1>1 DEF RangeInv
<1>3. begin \in Int /\ end \in Int /\ step \in Int /\ MaxInt \in Nat
  BY <1>2, TextAssumption DEF LongLongs
<1>4. ASSUME Near(begin, end)
      PROVE  \E m \in Nat : Counted(begin, end, step, m)'
  <2>1. PICK n \in Nat : Counted(begin, end, step, n)
    BY <1>2, <1>4
  <2>2. PICK k \in Nat : k = Count(begin, end, step)
    <3>1. Count(begin, end, step) \in Nat
      BY <1>2, <1>3, <1>4, RangeCounts
    <3> QED BY <3>1
  <2>3. PICK c \in Int :
          /\ n < k => c = begin + n * step
          /\ rng = [first |-> begin, bound |-> k, step |-> step, curr |-> c, next_count |-> n]
    BY <2>1, <2>2 DEF Counted
  <2>4. n < k /\ n + 1 <= k /\ n + 1 \in Nat
    BY <1>1, <2>2, <2>3 DEF atEnd
  <2>5. c = begin + n * step
    BY <2>3, <2>4
  <2>6. Wrapped(c + step) \in Int
    <3>1. PICK w \in Nat \ {0} : w = 2 * (MaxInt + 1)
      BY <1>3
    <3>2. (c + step + MaxInt + 1) % w \in Int
      <4>1. c + step + MaxInt + 1 \in Int
        BY <1>3
      <4> QED BY <3>1, <4>1, Division
    <3> QED BY <1>3, <3>1, <3>2 DEF Wrapped
  <2>7. ASSUME n + 1 < k
        PROVE  Wrapped(c + step) = begin + (n + 1) * step
    <3>1. PICK i \in 1 .. k : i = n + 2 /\ i - 1 = n + 1
      BY <2>4, <2>7
    <3>2. begin + (i - 1) * step \in Between(begin, end, step)
      BY <1>2, <1>3, <1>4, <2>2, RangeCounts
    <3>3. begin + (n + 1) * step \in LongLongs
      BY <1>2, <3>1, <3>2, BetweenFits
    <3>4. c + step = begin + (n + 1) * step
      BY <1>3, <2>5
    <3> QED BY <3>3, <3>4, WrappedIs
  <2>8. rng' = [first |-> begin, bound |-> k, step |-> step, curr |-> Wrapped(c + step),
                next_count |-> n + 1]
    BY <1>1, <2>3
  <2>9. values \in Seq(Int) /\ Len(values) = n
        /\ \A i \in 1 .. n : values[i] = begin + (i - 1) * step
    BY <2>1 DEF Counted
  <2>10. values' = Append(values, c)
    BY <1>1, <2>3
  <2>11. values' \in Seq(Int) /\ Len(values') = n + 1
         /\ values'[n + 1] = c /\ \A i \in 1 .. n : values'[i] = values[i]
    BY <2>9, <2>10
  <2>12. ASSUME NEW i \in 1 .. n + 1
         PROVE  values'[i] = begin + (i - 1) * step
    <3>1. CASE i = n + 1
      <4>1. i - 1 = n
        BY <3>1
      <4> QED BY <2>5, <2>11, <3>1, <4>1
    <3>2. CASE i # n + 1
      <4>1. i \in 1 .. n
        BY <3>2
      <4> QED BY <2>9, <2>11, <4>1
    <3> QED BY <3>1, <3>2
  <2>13. \E e \in Int : /\ n + 1 < k => e = begin + (n + 1) * step
                        /\ rng' = [first |-> begin, bound |-> k, step |-> step, curr |-> e,
                                   next_count |-> n + 1]
    BY <2>6, <2>7, <2>8
  <2>14. Counted(begin, end, step, n + 1)'
    BY <2>2, <2>4, <2>11, <2>12, <2>13 DEF Counted
  <2> QED BY <2>4, <2>14
<1>5. pc' = "range" /\ given' = <<begin, end, step>>
  BY <1>1, <1>2
<1>6. \E b, e, s \in LongLongs :
        /\ given' = <<b, e, s>>
        /\ Near(b, e) => ~ Invalid(e - b, s) /\ \E m \in Nat : Counted(b, e, s, m)'
  BY <1>2, <1>4, <1>5
<1>7. pc' # "reading"
  BY <1>5
<1> QED BY <1>6, <1>7, Zenon DEF RangeInv

\* range::range and range::next: a range counts out what is between its ends, if
\* they are less than MaxInt apart.
THEOREM RangesAreExact ==
  Spec => []RangeExact
<1>1. Init => RangeInv
  BY DEF Init, RangeInv
<1>2. RangeInv /\ [Next]_vars => RangeInv'
  <2>1. SUFFICES ASSUME RangeInv, [Next]_vars
                 PROVE  RangeInv'
    OBVIOUS
  <2>2. CASE Escape
    BY <2>1, <2>2, RangeKept DEF Escape
  <2>3. CASE \E c \in Alphabet : Type(c)
    <3>1. PICK c \in Alphabet : Type(c)
      BY <2>3
    <3>2. UNCHANGED rangevars /\ (pc' = pc \/ pc' = "line")
      BY <3>1 DEF Type
    <3> QED BY <2>1, <3>2, RangeKept
  <2>4. CASE typed = <<>> /\ \E n \in 1 .. 3 : \E fields \in [1 .. n -> Fields] : range(fields)
    BY <2>1, <2>4, RangeStart
  <2>5. CASE next
    BY <2>1, <2>5, RangeNext
  <2>6. CASE UNCHANGED vars
    BY <2>1, <2>6, RangeKept DEF vars, rangevars
  <2> QED BY <2>1, <2>2, <2>3, <2>4, <2>5, <2>6 DEF Next
<1>3. RangeInv => RangeExact
  <2>1. SUFFICES ASSUME RangeInv, pc = "range", Near(given[1], given[2])
                 PROVE  /\ \A i \in DOMAIN values : values[i] = given[1] + (i - 1) * given[3]
                        /\ ToSet(values) \subseteq
                             {v \in (given[1] .. given[2]) \cup (given[2] .. given[1]) :
                                (v - given[1]) % Abs(given[3]) = 0}
                        /\ atEnd => ToSet(values) =
                             {v \in (given[1] .. given[2]) \cup (given[2] .. given[1]) :
                                (v - given[1]) % Abs(given[3]) = 0}
    BY Zenon DEF RangeExact, Near
  <2>2. PICK begin \in LongLongs, end \in LongLongs, step \in LongLongs :
         /\ given = <<begin, end, step>>
         /\ Near(begin, end) =>
              ~ Invalid(end - begin, step) /\ \E n \in Nat : Counted(begin, end, step, n)
    BY <2>1 DEF RangeInv
  <2>3. given[1] = begin /\ given[2] = end /\ given[3] = step
        /\ begin \in Int /\ end \in Int /\ step \in Int
    BY <2>2, TextAssumption DEF LongLongs
  <2>4. ~ Invalid(end - begin, step)
    BY <2>1, <2>2, <2>3
  <2>5. PICK n \in Nat : Counted(begin, end, step, n)
    BY <2>1, <2>2, <2>3
  <2>6. PICK k \in Nat :
          /\ k = Count(begin, end, step)
          /\ Between(begin, end, step) = {begin + (i - 1) * step : i \in 1 .. k}
    <3>1. /\ Count(begin, end, step) \in Nat
          /\ Between(begin, end, step) =
               {begin + (i - 1) * step : i \in 1 .. Count(begin, end, step)}
      BY <2>3, <2>4, RangeCounts
    <3>2. PICK m \in Nat : m = Count(begin, end, step)
      BY <3>1
    <3> QED BY <3>1, <3>2
  <2>7. /\ n <= k /\ rng.bound = k /\ rng.next_count = n
        /\ values \in Seq(Int) /\ Len(values) = n /\ DOMAIN values = 1 .. n
        /\ \A i \in 1 .. n : values[i] = begin + (i - 1) * step
    BY <2>5, <2>6 DEF Counted
  <2>8. ToSet(values) = {begin + (i - 1) * step : i \in 1 .. n}
    BY <2>7 DEF ToSet
  <2>9. ToSet(values) \subseteq Between(begin, end, step)
    <3>1. 1 .. n \subseteq 1 .. k
      BY <2>7
    <3> QED BY <2>6, <2>8, <3>1
  <2>10. atEnd => ToSet(values) = Between(begin, end, step)
    <3>1. atEnd => n = k
      BY <2>7 DEF atEnd
    <3> QED BY <2>6, <2>8, <3>1
  <2>11. {v \in (begin .. end) \cup (end .. begin) : (v - begin) % Abs(step) = 0}
           = Between(begin, end, step)
    <3>1. Abs(step) = IF step > 0 THEN step ELSE - step
      BY <2>3 DEF Abs
    <3> QED BY <3>1, Zenon DEF Between
  <2> QED BY <2>3, <2>7, <2>9, <2>10, <2>11
<1> QED BY <1>1, <1>2, <1>3, PTL DEF Spec

-----------------------------------------------------------------------------
(* chop_string: the fold, character by character.                          *)

States(C) == [toks : Seq(Seq(C)), built : Seq(C), escaped : BOOLEAN, quoted : BOOLEAN]
Fresh == [toks |-> <<>>, built |-> <<>>, escaped |-> FALSE, quoted |-> FALSE]
Chopped(st, s) == FoldLeft(Chop, st, s)

IsChop(f, st, s) ==
  f = [t \in SUBSET DOMAIN s |->
         IF t = {} THEN st ELSE Chop(f[t \ {Max(t)}], s[Max(t)])]

\* h[k] is the state behind the k-th character.
IsChopRun(h, st, s) == h[0] = st /\ \A k \in 1 .. Len(s) : h[k] = Chop(h[k - 1], s[k])

LEMMA ChopType ==
  ASSUME NEW C, NEW st \in States(C), NEW c \in C
  PROVE  Chop(st, c) \in States(C) /\ Pushed(st) \in Seq(Seq(C))
<1>1. Pushed(st) \in Seq(Seq(C))
  BY DEF Pushed, States
<1>2. Append(st.built, c) \in Seq(C) /\ <<>> \in Seq(C)
  BY DEF States
<1> QED BY <1>1, <1>2 DEF Chop, States

LEMMA ChopDef ==
  ASSUME NEW st, NEW s
  PROVE  Chopped(st, s) = (CHOOSE f : IsChop(f, st, s))[DOMAIN s]
BY DEF Chopped, FoldLeft, MapThenFoldSet, IsChop

LEMMA ChopExists ==
  ASSUME NEW C, NEW st \in States(C), NEW s \in Seq(C)
  PROVE  IsChop(CHOOSE f : IsChop(f, st, s), st, s)
<1> DEFINE n == Len(s)
           op == [p \in States(C) \X (1 .. n) |-> Chop(p[1], s[p[2]])]
<1>1. n \in Nat /\ DOMAIN s = 1 .. n /\ \A i \in 1 .. n : s[i] \in C
  OBVIOUS
<1>2. op \in [States(C) \X (1 .. n) -> States(C)]
  <2>1. ASSUME NEW p \in States(C) \X (1 .. n)
        PROVE  Chop(p[1], s[p[2]]) \in States(C)
    <3>1. p[1] \in States(C) /\ s[p[2]] \in C
      BY <1>1
    <3> QED BY <3>1, ChopType
  <2> QED BY <2>1
<1>3. ASSUME NEW x \in States(C), NEW i \in 1 .. n
      PROVE  op[<<x, i>>] = Chop(x, s[i])
  OBVIOUS
<1> HIDE DEF op, n
<1>4. PICK f \in [SUBSET (1 .. n) -> States(C)] : IsFold(f, n, st, op)
  BY <1>1, <1>2, FoldExists
<1>5. ASSUME NEW t \in SUBSET (1 .. n), t # {}
      PROVE  op[<<f[t \ {Max(t)}], Max(t)>>] = Chop(f[t \ {Max(t)}], s[Max(t)])
  <2>1. Max(t) \in 1 .. n
    BY <1>1, <1>5, GreatestOne
  <2>2. t \ {Max(t)} \in SUBSET (1 .. n)
    OBVIOUS
  <2> QED BY <1>3, <2>1, <2>2
<1>6. IsChop(f, st, s)
  BY <1>1, <1>4, <1>5 DEF IsChop, IsFold
<1> QED BY <1>6

\* The fold is the end of any run.
LEMMA ChopIsRun ==
  ASSUME NEW C, NEW st \in States(C), NEW s \in Seq(C), NEW h, IsChopRun(h, st, s)
  PROVE  Chopped(st, s) = h[Len(s)]
<1> DEFINE f == CHOOSE f : IsChop(f, st, s)
<1>1. PICK n \in Nat : n = Len(s) /\ DOMAIN s = 1 .. n
  OBVIOUS
<1>2. IsChop(f, st, s) /\ Chopped(st, s) = f[1 .. n]
  BY <1>1, ChopExists, ChopDef
<1> HIDE DEF f
<1> DEFINE T == {k \in 0 .. n : f[1 .. k] = h[k]}
<1>3. 0 \in T
  <2>1. 1 .. 0 = {} /\ {} \in SUBSET (1 .. n)
    OBVIOUS
  <2>2. f[{}] = st
    BY <1>1, <1>2, <2>1 DEF IsChop
  <2> QED BY <2>1, <2>2 DEF IsChopRun
<1>4. ASSUME NEW k \in 1 .. n, k - 1 \in T
      PROVE  k \in T
  <2>1. k \in Nat /\ k # 0 /\ f[1 .. k - 1] = h[k - 1] /\ h[k] = Chop(h[k - 1], s[k])
    BY <1>1, <1>4 DEF IsChopRun
  <2>2. Max(1 .. k) = k /\ (1 .. k) \ {k} = 1 .. k - 1 /\ 1 .. k # {}
    BY <2>1, Initial
  <2>3. 1 .. k \in SUBSET (1 .. n)
    OBVIOUS
  <2>4. f[1 .. k] = Chop(f[(1 .. k) \ {Max(1 .. k)}], s[Max(1 .. k)])
    BY <1>1, <1>2, <2>2, <2>3 DEF IsChop
  <2>5. f[1 .. k] = h[k]
    BY <2>1, <2>2, <2>4
  <2> QED BY <2>5
<1> HIDE DEF T
<1>5. 0 .. n \subseteq T
  BY <1>3, <1>4, BoundedInduction
<1>6. n \in T
  BY <1>5
<1> QED BY <1>1, <1>2, <1>6 DEF T

\* There is a run.
LEMMA ChopRuns ==
  ASSUME NEW C, NEW st \in States(C), NEW s \in Seq(C)
  PROVE  \E h \in [0 .. Len(s) -> States(C)] :
           IsChopRun(h, st, s) /\ Chopped(st, s) = h[Len(s)]
<1> DEFINE n == Len(s)
           op == [p \in States(C) \X (1 .. n) |-> Chop(p[1], s[p[2]])]
<1>1. n \in Nat /\ \A i \in 1 .. n : s[i] \in C
  OBVIOUS
<1>2. op \in [States(C) \X (1 .. n) -> States(C)]
  <2>1. ASSUME NEW p \in States(C) \X (1 .. n)
        PROVE  Chop(p[1], s[p[2]]) \in States(C)
    <3>1. p[1] \in States(C) /\ s[p[2]] \in C
      BY <1>1
    <3> QED BY <3>1, ChopType
  <2> QED BY <2>1
<1>3. ASSUME NEW x \in States(C), NEW i \in 1 .. n
      PROVE  op[<<x, i>>] = Chop(x, s[i])
  OBVIOUS
<1> HIDE DEF op
<1>4. PICK h \in [0 .. n -> States(C)] : IsRun(h, n, st, op)
  BY <1>1, <1>2, RunExists
<1>5. ASSUME NEW k \in 1 .. n
      PROVE  h[k] = Chop(h[k - 1], s[k])
  <2>1. h[k - 1] \in States(C)
    BY <1>1
  <2> QED BY <1>3, <1>4, <2>1 DEF IsRun
<1>6. IsChopRun(h, st, s)
  BY <1>4, <1>5 DEF IsRun, IsChopRun
<1> QED BY <1>4, <1>6, ChopIsRun

LEMMA ChopEmpty ==
  ASSUME NEW C, NEW st \in States(C)
  PROVE  Chopped(st, <<>>) = st
<1>1. <<>> \in Seq(C) /\ Len(<<>>) = 0
  OBVIOUS
<1>2. PICK h \in [0 .. Len(<<>>) -> States(C)] :
        IsChopRun(h, st, <<>>) /\ Chopped(st, <<>>) = h[Len(<<>>)]
  BY <1>1, ChopRuns
<1> QED BY <1>1, <1>2 DEF IsChopRun

LEMMA ChopAppend ==
  ASSUME NEW C, NEW st \in States(C), NEW s \in Seq(C), NEW c \in C
  PROVE  /\ Chopped(st, Append(s, c)) = Chop(Chopped(st, s), c)
         /\ Chopped(st, s) \in States(C)
<1>0. PICK n \in Nat : n = Len(s)
  OBVIOUS
<1>1. PICK t : n = Len(s) /\ t = Append(s, c)
  BY <1>0
<1>2. t \in Seq(C) /\ Len(t) = n + 1 /\ t[n + 1] = c /\ \A i \in 1 .. n : t[i] = s[i]
  BY <1>1
<1>3. PICK h \in [0 .. n + 1 -> States(C)] :
        IsChopRun(h, st, t) /\ Chopped(st, t) = h[n + 1]
  <2>1. \E h \in [0 .. Len(t) -> States(C)] : IsChopRun(h, st, t) /\ Chopped(st, t) = h[Len(t)]
    BY <1>2, ChopRuns
  <2> QED BY <1>2, <2>1
<1>4. IsChopRun(h, st, s)
  BY <1>1, <1>2, <1>3 DEF IsChopRun
<1>5. Chopped(st, s) = h[n]
  BY <1>1, <1>4, ChopIsRun
<1>6. h[n + 1] = Chop(h[n], c)
  <2>1. n + 1 \in 1 .. Len(t) /\ (n + 1) - 1 = n
    BY <1>2
  <2> QED BY <1>2, <1>3, <2>1 DEF IsChopRun
<1> QED BY <1>1, <1>3, <1>5, <1>6

-----------------------------------------------------------------------------
(* Lines from the terminal.                                                *)

\* A character both readers know alike, and two that they do not.
Common(c) == c \notin {"'", ";"}
Pair(c, d) == c = "\\" /\ d = "\""

Plain(s) ==
  /\ \A i \in 1 .. Len(s) : Common(s[i])
  /\ \A i \in 1 .. Len(s) - 1 : ~ Pair(s[i], s[i + 1])

LEMMA PlainAppend ==
  ASSUME NEW C, NEW s \in Seq(C), NEW c, Plain(Append(s, c))
  PROVE  Plain(s) /\ Common(c) /\ (s # <<>> => ~ Pair(s[Len(s)], c))
<1>1. PICK n \in Nat : n = Len(s)
  OBVIOUS
<1>2. PICK t : t = Append(s, c)
  OBVIOUS
<1>3. Len(t) = n + 1 /\ t[n + 1] = c /\ \A i \in 1 .. n : t[i] = s[i]
  BY <1>1, <1>2
<1>4. /\ \A i \in 1 .. n + 1 : Common(t[i])
      /\ \A i \in 1 .. n : ~ Pair(t[i], t[i + 1])
  <2>1. Plain(t) /\ (n + 1) - 1 = n
    BY <1>2
  <2> QED BY <1>3, <2>1 DEF Plain
<1>5. Common(c) /\ \A i \in 1 .. n : Common(s[i])
  BY <1>3, <1>4
<1>6. \A i \in 1 .. n - 1 : ~ Pair(s[i], s[i + 1])
  <2>1. \A i \in 1 .. n - 1 : i \in 1 .. n /\ i + 1 \in 1 .. n
    OBVIOUS
  <2> QED BY <1>3, <1>4, <2>1
<1>7. ASSUME s # <<>>
      PROVE  ~ Pair(s[n], c)
  <2>1. n \in 1 .. n
    BY <1>1, <1>7
  <2> QED BY <1>3, <1>4, <2>1
<1> QED BY <1>1, <1>5, <1>6, <1>7 DEF Plain

\* What chop_string makes of a character that is no single quote.
LEMMA ChopPlain ==
  ASSUME NEW C, NEW st \in States(C), NEW c, Common(c)
  PROVE  /\ Chop(st, c).escaped => ~ st.escaped /\ c = "\\"
         /\ st.escaped => Chop(st, c).quoted = st.quoted
         /\ ~ st.escaped =>
              Chop(st, c).quoted = IF c = "\"" THEN ~ st.quoted ELSE st.quoted
<1>1. c # "'"
  BY Zenon DEF Common
<1> QED BY <1>1 DEF Chop, States, Quotes

EndsIn(s, Chars) == s # <<>> /\ s[Len(s)] \in Chars

\* A line that has come to no end yet has the quotes chop_string counts, and is
\* escaped only behind a backslash.
LineInv ==
  /\ rd_buffer \in Seq(Alphabet) /\ QUOTES \in BOOLEAN
  /\ pc = "line" => ~ QUOTES /\ EndsIn(rd_buffer, {"\n", "\r"})
  /\ Plain(rd_buffer) =>
       /\ Chopped(Fresh, rd_buffer).escaped => EndsIn(rd_buffer, {"\\"})
       /\ Chopped(Fresh, rd_buffer).quoted = QUOTES

LEMMA FreshState ==
  ASSUME NEW C
  PROVE  Fresh \in States(C)
BY DEF Fresh, States

\* ReadFromInput and chop_string: an interactive line is over outside quotes, as
\* chop_string sees them, if both see the same.
THEOREM LinesAreWhole ==
  Spec => []LineWhole
<1>1. Init => LineInv
  <2>1. SUFFICES ASSUME Init
                 PROVE  LineInv
    OBVIOUS
  <2>2. rd_buffer = <<>> /\ QUOTES = FALSE /\ pc = "reading"
    BY <2>1 DEF Init
  <2>3. Chopped(Fresh, <<>>) = Fresh
    BY ChopEmpty, FreshState
  <2>4. /\ Chopped(Fresh, rd_buffer).escaped => EndsIn(rd_buffer, {"\\"})
        /\ Chopped(Fresh, rd_buffer).quoted = QUOTES
    <3>1. Fresh.escaped = FALSE /\ Fresh.quoted = FALSE
      BY DEF Fresh
    <3>2. Chopped(Fresh, rd_buffer) = Fresh
      BY <2>2, <2>3
    <3> QED BY <2>2, <3>1, <3>2, Zenon
  <2>5. rd_buffer \in Seq(Alphabet) /\ QUOTES \in BOOLEAN
        /\ (pc = "line" => ~ QUOTES /\ EndsIn(rd_buffer, {"\n", "\r"}))
    <3>1. rd_buffer \in Seq(Alphabet)
      BY <2>2
    <3> QED BY <2>2, <3>1, Zenon
  <2> QED BY <2>4, <2>5 DEF LineInv
<1>2. LineInv /\ [Next]_vars => LineInv'
  <2>1. SUFFICES ASSUME LineInv, [Next]_vars
                 PROVE  LineInv'
    OBVIOUS
  <2>2. CASE UNCHANGED <<rd_buffer, QUOTES>> /\ (pc' = "line" => pc = "line")
    BY <2>1, <2>2 DEF LineInv
  <2>3. CASE \E c \in Alphabet : Type(c)
    <3>1. PICK c \in Alphabet : Type(c)
      BY <2>3
    <3>2. /\ rd_buffer' = Append(rd_buffer, c) /\ pc = "reading"
          /\ QUOTES' = IF c = "\"" THEN ~ QUOTES ELSE QUOTES
      BY <3>1 DEF Type
    <3>3. rd_buffer' \in Seq(Alphabet) /\ QUOTES' \in BOOLEAN
      <4>1. rd_buffer \in Seq(Alphabet) /\ QUOTES \in BOOLEAN
        BY <2>1 DEF LineInv
      <4>2. Append(rd_buffer, c) \in Seq(Alphabet)
        BY <4>1
      <4> QED BY <3>2, <4>1, <4>2, Zenon
    <3>4. ASSUME NEW Chars, c \in Chars
          PROVE  EndsIn(rd_buffer', Chars)
      <4>1. rd_buffer \in Seq(Alphabet)
        BY <2>1 DEF LineInv
      <4>2. PICK t : t = Append(rd_buffer, c)
        OBVIOUS
      <4>3. t # <<>> /\ t[Len(t)] = c
        BY <4>1, <4>2
      <4> QED BY <3>2, <3>4, <4>2, <4>3 DEF EndsIn
    <3>5. pc' = "line" => ~ QUOTES' /\ EndsIn(rd_buffer', {"\n", "\r"})
      <4>1. SUFFICES ASSUME pc' = "line"
                     PROVE  ~ QUOTES' /\ EndsIn(rd_buffer', {"\n", "\r"})
        OBVIOUS
      <4>2. c \in {"\n", "\r"} /\ ~ QUOTES
        BY <3>1, <3>2, <4>1 DEF Type
      <4>3. ~ QUOTES'
        BY <3>2, <4>2
      <4> QED BY <3>4, <4>2, <4>3
    <3>6. ASSUME Plain(rd_buffer')
          PROVE  /\ Chopped(Fresh, rd_buffer').escaped => EndsIn(rd_buffer', {"\\"})
                 /\ Chopped(Fresh, rd_buffer').quoted = QUOTES'
      <4>1. rd_buffer \in Seq(Alphabet)
        BY <2>1 DEF LineInv
      <4>2. Plain(rd_buffer) /\ Common(c)
            /\ (rd_buffer # <<>> => ~ Pair(rd_buffer[Len(rd_buffer)], c))
        <5>1. Plain(Append(rd_buffer, c))
          BY <3>2, <3>6
        <5> QED BY <4>1, <5>1, PlainAppend
      <4>3. PICK st \in States(Alphabet) : st = Chopped(Fresh, rd_buffer)
        BY <4>1, ChopAppend, FreshState, <3>1
      <4>4. Chopped(Fresh, rd_buffer') = Chop(st, c)
        <5>1. Chopped(Fresh, Append(rd_buffer, c)) = Chop(Chopped(Fresh, rd_buffer), c)
          BY <4>1, ChopAppend, FreshState
        <5> QED BY <3>2, <4>3, <5>1
      <4>5. (st.escaped => EndsIn(rd_buffer, {"\\"})) /\ st.quoted = QUOTES
        BY <2>1, <4>2, <4>3 DEF LineInv
      <4>6. /\ Chop(st, c).escaped => ~ st.escaped /\ c = "\\"
            /\ st.escaped => Chop(st, c).quoted = st.quoted
            /\ ~ st.escaped =>
                 Chop(st, c).quoted = IF c = "\"" THEN ~ st.quoted ELSE st.quoted
        BY <4>2, ChopPlain
      <4>7. st.escaped => c # "\""
        BY <4>2, <4>5 DEF EndsIn, Pair
      <4>8. Chop(st, c).quoted = QUOTES'
        <5>1. CASE st.escaped
          BY <3>2, <4>5, <4>6, <4>7, <5>1
        <5>2. CASE ~ st.escaped
          BY <3>2, <4>5, <4>6, <5>2
        <5> QED BY <5>1, <5>2
      <4>9. Chop(st, c).escaped => EndsIn(rd_buffer', {"\\"})
        BY <3>4, <4>6
      <4> QED BY <4>4, <4>8, <4>9
    <3> QED BY <3>3, <3>5, <3>6 DEF LineInv
  <2>4. CASE Escape \/ next \/ UNCHANGED vars
    BY <2>2, <2>4 DEF Escape, next, readvars, vars
  <2>5. CASE typed = <<>> /\ \E n \in 1 .. 3 : \E fields \in [1 .. n -> Fields] : range(fields)
    <3>1. UNCHANGED <<rd_buffer, QUOTES>> /\ (pc' = "line" => pc = "line")
      BY <2>5 DEF range, readvars
    <3> QED BY <2>2, <3>1
  <2> QED BY <2>1, <2>3, <2>4, <2>5 DEF Next
<1>3. LineInv => LineWhole
  <2>1. SUFFICES ASSUME LineInv, pc = "line",
                        \A i \in DOMAIN rd_buffer : Common(rd_buffer[i]),
                        \A i \in 1 .. Len(rd_buffer) - 1 : ~ Pair(rd_buffer[i], rd_buffer[i + 1])
                 PROVE  ~ chop_string(rd_buffer).thrown
    BY Zenon DEF LineWhole, Common, Pair
  <2>2. Plain(rd_buffer)
    <3>1. rd_buffer \in Seq(Alphabet)
      BY <2>1 DEF LineInv
    <3>2. DOMAIN rd_buffer = 1 .. Len(rd_buffer)
      BY <3>1
    <3> QED BY <2>1, <3>2 DEF Plain
  <2>3. Commentless(rd_buffer) = rd_buffer
    <3>1. \A i \in DOMAIN rd_buffer : rd_buffer[i] # ";"
      BY <2>1, Zenon DEF Common
    <3> QED BY <3>1 DEF Commentless
  <2>4. chop_string(rd_buffer).thrown =
          (Chopped(Fresh, rd_buffer).escaped \/ Chopped(Fresh, rd_buffer).quoted)
    BY <2>3 DEF chop_string, Chopped, Fresh
  <2>5. ~ Chopped(Fresh, rd_buffer).quoted
    BY <2>1, <2>2 DEF LineInv
  <2>6. ~ EndsIn(rd_buffer, {"\\"})
    BY <2>1 DEF LineInv, EndsIn
  <2>7. ~ Chopped(Fresh, rd_buffer).escaped
    BY <2>1, <2>2, <2>6 DEF LineInv
  <2> QED BY <2>4, <2>5, <2>7
<1> QED BY <1>1, <1>2, <1>3, PTL DEF Spec

-----------------------------------------------------------------------------
(* Arguments.                                                              *)

State(toks, built, escaped, quoted) ==
  [toks |-> toks, built |-> built, escaped |-> escaped, quoted |-> quoted]

\* Chop, by its cases.
LEMMA ChopEscape ==
  ASSUME NEW t, NEW b, NEW q, NEW c, c = "\\"
  PROVE  Chop(State(t, b, FALSE, q), c) = State(t, b, TRUE, q)
BY DEF Chop, State

LEMMA ChopQuote ==
  ASSUME NEW t, NEW b, NEW q \in BOOLEAN, NEW c \in Quotes
  PROVE  Chop(State(t, b, FALSE, q), c) = State(t, b, FALSE, ~ q)
BY DEF Chop, State, Quotes

LEMMA ChopSeparator ==
  ASSUME NEW t, NEW b, NEW c \in Separators
  PROVE  Chop(State(t, b, FALSE, FALSE), c)
           = State(IF b = <<>> THEN t ELSE Append(t, b), <<>>, FALSE, FALSE)
BY DEF Chop, State, Pushed, Quotes, Separators, White

\* A character that becomes part of an argument.
Ordinary(c, e, q) ==
  e = TRUE \/ (c # "\\" /\ c \notin Quotes /\ (q = TRUE \/ c \notin Separators))

LEMMA ChopCharacter ==
  ASSUME NEW t, NEW b, NEW e \in BOOLEAN, NEW q \in BOOLEAN, NEW c, NEW a, a = Append(b, c),
         Ordinary(c, e, q)
  PROVE  Chop(State(t, b, e, q), c) = State(t, a, FALSE, q)
BY DEF Chop, State, Ordinary

LEMMA StateParts ==
  ASSUME NEW C, NEW st \in States(C)
  PROVE  /\ st = State(st.toks, st.built, st.escaped, st.quoted)
         /\ st.toks \in Seq(Seq(C)) /\ st.built \in Seq(C)
         /\ st.escaped \in BOOLEAN /\ st.quoted \in BOOLEAN
BY DEF States, State

\* The tokens before those of a state.
Shift(T, st) == State(T \o st.toks, st.built, st.escaped, st.quoted)

LEMMA ShiftState ==
  ASSUME NEW T, NEW t, NEW b, NEW e, NEW q
  PROVE  Shift(T, State(t, b, e, q)) = State(T \o t, b, e, q)
BY DEF Shift, State

LEMMA PushedState ==
  ASSUME NEW t, NEW b, NEW e, NEW q
  PROVE  Pushed(State(t, b, e, q)) = IF b = <<>> THEN t ELSE Append(t, b)
BY DEF Pushed, State

LEMMA ChopShift ==
  ASSUME NEW C, NEW st \in States(C), NEW T \in Seq(Seq(C)), NEW c
  PROVE  /\ Pushed(Shift(T, st)) = T \o Pushed(st)
         /\ Chop(Shift(T, st), c) = Shift(T, Chop(st, c))
<1>1. PICK t \in Seq(Seq(C)), b \in Seq(C), e \in BOOLEAN, q \in BOOLEAN : st = State(t, b, e, q)
  BY StateParts
<1>2. Append(T \o t, b) = T \o Append(t, b)
  <2>1. <<b>> \in Seq(Seq(C)) /\ T \o t \in Seq(Seq(C))
    OBVIOUS
  <2>2. (T \o t) \o <<b>> = T \o (t \o <<b>>)
    BY <2>1, ConcatAssociative
  <2>3. Append(T \o t, b) = (T \o t) \o <<b>> /\ Append(t, b) = t \o <<b>>
    BY <2>1, AppendIsConcat
  <2> QED BY <2>2, <2>3
<1>3. PICK u : u = T \o t
  OBVIOUS
<1>4. PICK s : s = Shift(T, st)
  OBVIOUS
<1>5. s = State(u, b, e, q)
  BY <1>1, <1>3, <1>4, ShiftState
<1>6. Pushed(st) = IF b = <<>> THEN t ELSE Append(t, b)
  BY <1>1, PushedState, Zenon
<1>7. Pushed(s) = IF b = <<>> THEN u ELSE Append(u, b)
  BY <1>5, PushedState, Zenon
<1>8. Pushed(s) = T \o Pushed(st)
  BY <1>2, <1>3, <1>6, <1>7
<1>9. SUFFICES Chop(s, c) = Shift(T, Chop(st, c))
  BY <1>4, <1>8
<1>10. CASE e = FALSE /\ c = "\\"
  <2>1. Chop(st, c) = State(t, b, TRUE, q)
    BY <1>1, <1>10, ChopEscape, Zenon
  <2>2. Chop(s, c) = State(u, b, TRUE, q)
    BY <1>5, <1>10, ChopEscape, Zenon
  <2>3. Shift(T, State(t, b, TRUE, q)) = State(T \o t, b, TRUE, q)
    BY DEF Shift, State
  <2> QED BY <1>3, <2>1, <2>2, <2>3, Zenon
<1>11. CASE e = FALSE /\ c \in Quotes
  <2>1. Chop(st, c) = State(t, b, FALSE, ~ q)
    BY <1>1, <1>11, ChopQuote, Zenon
  <2>2. Chop(s, c) = State(u, b, FALSE, ~ q)
    BY <1>5, <1>11, ChopQuote, Zenon
  <2>3. Shift(T, State(t, b, FALSE, ~ q)) = State(T \o t, b, FALSE, ~ q)
    BY DEF Shift, State
  <2> QED BY <1>3, <2>1, <2>2, <2>3, Zenon
<1>12. CASE e = FALSE /\ q = FALSE /\ c \in Separators
  <2>1. Chop(st, c) = State(Pushed(st), <<>>, FALSE, FALSE)
    <3>1. Chop(st, c) = State(IF b = <<>> THEN t ELSE Append(t, b), <<>>, FALSE, FALSE)
      BY <1>1, <1>12, ChopSeparator, Zenon
    <3> QED BY <1>6, <3>1, Zenon
  <2>2. Chop(s, c) = State(Pushed(s), <<>>, FALSE, FALSE)
    <3>1. Chop(s, c) = State(IF b = <<>> THEN u ELSE Append(u, b), <<>>, FALSE, FALSE)
      BY <1>5, <1>12, ChopSeparator, Zenon
    <3> QED BY <1>7, <3>1, Zenon
  <2>3. Shift(T, State(Pushed(st), <<>>, FALSE, FALSE)) = State(T \o Pushed(st), <<>>, FALSE, FALSE)
    BY DEF Shift, State
  <2> QED BY <1>8, <2>1, <2>2, <2>3, Zenon
<1>13. CASE Ordinary(c, e, q)
  <2>0. PICK a : a = Append(b, c)
    OBVIOUS
  <2>1. Chop(st, c) = State(t, a, FALSE, q)
    BY <1>1, <1>13, <2>0 DEF Chop, State, Ordinary
  <2>2. Chop(s, c) = State(u, a, FALSE, q)
    BY <1>5, <1>13, <2>0 DEF Chop, State, Ordinary
  <2>3. Shift(T, State(t, a, FALSE, q)) = State(T \o t, a, FALSE, q)
    BY DEF Shift, State
  <2> QED BY <1>3, <2>1, <2>2, <2>3, Zenon
<1>14. e \in BOOLEAN /\ q \in BOOLEAN
  BY Zenon
<1> QED BY <1>10, <1>11, <1>12, <1>13, <1>14, Zenon DEF Ordinary

\* A run of a prefix.
LEMMA ChopPrefix ==
  ASSUME NEW C, NEW st \in States(C), NEW u \in Seq(C), NEW h, IsChopRun(h, st, u),
         NEW k \in 0 .. Len(u)
  PROVE  Chopped(st, SubSeq(u, 1, k)) = h[k]
<1>1. PICK s : s = SubSeq(u, 1, k)
  OBVIOUS
<1>2. \A i \in 1 .. k : i \in 1 .. Len(u) /\ u[i] \in C
  OBVIOUS
<1>3. s \in Seq(C) /\ Len(s) = k /\ \A i \in 1 .. k : s[i] = u[i]
  <2>1. SubSeq(u, 1, k) \in Seq(C)
    BY <1>2
  <2> QED BY <1>1, <1>2, <2>1
<1>4. IsChopRun(h, st, s)
  BY <1>2, <1>3 DEF IsChopRun
<1> QED BY <1>1, <1>3, <1>4, ChopIsRun

\* What is behind a separator is chopped as if it were alone.
LEMMA ChopBehind ==
  ASSUME NEW C, NEW u \in Seq(C), NEW i \in 1 .. Len(u), u[i] \in Separators,
         NEW st, st = Chopped(Fresh, SubSeq(u, 1, i - 1)), ~ st.escaped, ~ st.quoted
  PROVE  Chopped(Fresh, u) = Shift(Pushed(st), Chopped(Fresh, SubSeq(u, i + 1, Len(u))))
<1>1. PICK n \in Nat : n = Len(u)
  OBVIOUS
<1>2. PICK v \in Seq(C) : /\ v = SubSeq(u, i + 1, n) /\ Len(v) = n - i
                          /\ \A k \in 1 .. n - i : v[k] = u[k + i]
  <2>1. \A k \in i + 1 .. n : u[k] \in C
    BY <1>1
  <2>2. SubSeq(u, i + 1, n) \in Seq(C) /\ Len(SubSeq(u, i + 1, n)) = n - i
        /\ \A k \in 1 .. n - i : SubSeq(u, i + 1, n)[k] = u[k + i]
    BY <1>1, <2>1
  <2> QED BY <2>2
<1>3. PICK h \in [0 .. Len(u) -> States(C)] :
        IsChopRun(h, Fresh, u) /\ Chopped(Fresh, u) = h[Len(u)]
  <2>1. Fresh \in States(C)
    BY FreshState
  <2> QED BY <2>1, ChopRuns, Zenon
<1>4. PICK g \in [0 .. Len(v) -> States(C)] :
        IsChopRun(g, Fresh, v) /\ Chopped(Fresh, v) = g[Len(v)]
  <2>1. Fresh \in States(C)
    BY FreshState
  <2> QED BY <2>1, ChopRuns, Zenon
<1>5. st = h[i - 1] /\ st \in States(C)
  <2>1. i - 1 \in 0 .. Len(u)
    BY <1>1
  <2>2. Chopped(Fresh, SubSeq(u, 1, i - 1)) = h[i - 1]
    BY <1>3, <2>1, ChopPrefix, FreshState, SMTT(20)
  <2> QED BY <2>1, <2>2
<1>6. PICK t \in Seq(Seq(C)), b \in Seq(C) : st = State(t, b, FALSE, FALSE)
  <2>1. st.escaped = FALSE /\ st.quoted = FALSE
    BY <1>5, StateParts
  <2>2. st = State(st.toks, st.built, st.escaped, st.quoted)
        /\ st.toks \in Seq(Seq(C)) /\ st.built \in Seq(C)
    BY <1>5, StateParts
  <2>3. st = State(st.toks, st.built, FALSE, FALSE)
    BY <2>1, <2>2, Zenon
  <2> QED BY <2>2, <2>3, Zenon
<1>7. PICK T : T = Pushed(st)
  OBVIOUS
<1>8. T \in Seq(Seq(C)) /\ T = IF b = <<>> THEN t ELSE Append(t, b)
  BY <1>6, <1>7 DEF Pushed, State
<1>9. h[i] = Shift(T, g[0])
  <2>1. h[i] = Chop(st, u[i])
    BY <1>3, <1>5 DEF IsChopRun
  <2>2. Chop(st, u[i]) = State(T, <<>>, FALSE, FALSE)
    <3>1. Chop(st, u[i]) = State(IF b = <<>> THEN t ELSE Append(t, b), <<>>, FALSE, FALSE)
      BY <1>6, ChopSeparator, Zenon
    <3> QED BY <1>8, <3>1, Zenon
  <2>3. g[0] = State(<<>>, <<>>, FALSE, FALSE)
    BY <1>4 DEF IsChopRun, Fresh, State
  <2>4. Shift(T, State(<<>>, <<>>, FALSE, FALSE)) = State(T \o <<>>, <<>>, FALSE, FALSE)
    BY DEF Shift, State
  <2>5. T \o <<>> = T
    BY <1>8, ConcatEmptySeq
  <2> QED BY <2>1, <2>2, <2>3, <2>4, <2>5, Zenon
<1> DEFINE m == n - i
           Y == {k \in 0 .. m : h[i + k] = Shift(T, g[k])}
<1>10. m \in Nat /\ Len(v) = m
  BY <1>1, <1>2
<1>11. 0 \in Y
  BY <1>9, <1>10
<1>12. ASSUME NEW k \in 1 .. m, k - 1 \in Y
       PROVE  k \in Y
  <2>1. k - 1 \in 0 .. m /\ i + k \in 1 .. Len(u) /\ (i + k) - 1 = i + (k - 1)
    BY <1>1, <1>10
  <2>2. h[i + k] = Chop(h[i + (k - 1)], u[i + k])
    BY <1>3, <2>1 DEF IsChopRun
  <2>3. g[k] = Chop(g[k - 1], v[k]) /\ v[k] = u[i + k]
    BY <1>2, <1>4, <1>10 DEF IsChopRun
  <2>4. g[k - 1] \in States(C) /\ h[i + (k - 1)] = Shift(T, g[k - 1])
    BY <1>10, <1>12, <2>1
  <2>5. Chop(Shift(T, g[k - 1]), v[k]) = Shift(T, Chop(g[k - 1], v[k]))
    <3>1. T \in Seq(Seq(C)) /\ g[k - 1] \in States(C)
      BY <1>8, <2>4
    <3> QED BY <3>1, ChopShift, Zenon
  <2>6. h[i + k] = Shift(T, g[k])
    BY <2>2, <2>3, <2>4, <2>5
  <2> QED BY <2>6
<1> HIDE DEF Y
<1>13. 0 .. m \subseteq Y
  BY <1>10, <1>11, <1>12, BoundedInduction
<1>14. h[i + m] = Shift(T, g[m])
  <2>1. m \in Y
    BY <1>10, <1>13
  <2> QED BY <2>1 DEF Y
<1>15. i + m = n
  BY <1>1
<1> QED BY <1>1, <1>2, <1>3, <1>4, <1>7, <1>10, <1>14, <1>15

\* A part of a part.
LEMMA PartOfPart ==
  ASSUME NEW S, NEW s \in Seq(S), NEW i \in 1 .. Len(s) + 1, NEW j \in i - 1 .. Len(s),
         NEW p \in 1 .. j - i + 2, NEW q \in p - 1 .. j - i + 1
  PROVE  SubSeq(SubSeq(s, i, j), p, q) = SubSeq(s, i + p - 1, i + q - 1)
<1>1. PICK t : t = SubSeq(s, i, j)
  OBVIOUS
<1>2. /\ t \in Seq(S) /\ Len(t) = j - i + 1
      /\ \A k \in 1 .. j - i + 1 : t[k] = s[i + k - 1]
  BY <1>1, Part
<1>3. PICK v : v = SubSeq(t, p, q)
  OBVIOUS
<1>4. PICK w : w = SubSeq(s, i + p - 1, i + q - 1)
  OBVIOUS
<1>5. p \in 1 .. Len(t) + 1 /\ q \in p - 1 .. Len(t)
  BY <1>2
<1>6. v \in Seq(S) /\ Len(v) = q - p + 1 /\ \A k \in 1 .. q - p + 1 : v[k] = t[p + k - 1]
  BY <1>2, <1>3, <1>5, Part
<1>7. i + p - 1 \in 1 .. Len(s) + 1 /\ i + q - 1 \in (i + p - 1) - 1 .. Len(s)
  OBVIOUS
<1>8. PICK a \in 1 .. Len(s) + 1 : a = i + p - 1
  BY <1>7
<1>9. PICK b \in a - 1 .. Len(s) : b = i + q - 1
  BY <1>7, <1>8
<1>10. w \in Seq(S) /\ Len(w) = b - a + 1 /\ \A k \in 1 .. b - a + 1 : w[k] = s[a + k - 1]
  BY <1>4, <1>8, <1>9, Part
<1>11. b - a + 1 = q - p + 1
  BY <1>8, <1>9
<1>12. ASSUME NEW k \in 1 .. Len(v)
       PROVE  v[k] = w[k]
  <2>1. k \in 1 .. q - p + 1 /\ p + k - 1 \in 1 .. j - i + 1 /\ i + (p + k - 1) - 1 = a + k - 1
    BY <1>6, <1>8
  <2> QED BY <1>2, <1>6, <1>10, <1>11, <2>1
<1>13. v = w
  BY <1>6, <1>10, <1>11, <1>12, SeqEqual
<1> QED BY <1>1, <1>3, <1>4, <1>13

\* The character that begins a comment.
Comments(c) == c = ";"

\* Where the comment begins.
Cut(s, m) ==
  /\ m \in 0 .. Len(s) /\ \A i \in 1 .. m : ~ Comments(s[i])
  /\ m = Len(s) \/ Comments(s[m + 1])

Semicolons(s) == {i \in DOMAIN s : Comments(s[i])}

LEMMA CommentlessDef ==
  ASSUME NEW s
  PROVE  Commentless(s) = IF Semicolons(s) = {} THEN s ELSE SubSeq(s, 1, Min(Semicolons(s)) - 1)
BY Zenon DEF Commentless, Semicolons, Comments

LEMMA CommentMin ==
  ASSUME NEW C, NEW s \in Seq(C), Semicolons(s) # {}
  PROVE  /\ Min(Semicolons(s)) \in 1 .. Len(s) /\ Comments(s[Min(Semicolons(s))])
         /\ \A i \in 1 .. Len(s) : Comments(s[i]) => Min(Semicolons(s)) <= i
<1>1. DOMAIN s = 1 .. Len(s) /\ Len(s) \in Nat
  BY LenProperties
<1>2. Semicolons(s) \in SUBSET Nat
  BY <1>1 DEF Semicolons
<1>3. Min(Semicolons(s)) \in Semicolons(s) /\ \A y \in Semicolons(s) : Min(Semicolons(s)) <= y
  BY <1>2, LeastOne
<1> QED BY <1>1, <1>3 DEF Semicolons

LEMMA CommentIs ==
  ASSUME NEW C, NEW s \in Seq(C), NEW m, Cut(s, m)
  PROVE  Commentless(s) = SubSeq(s, 1, m)
<1>1. PICK n \in Nat : n = Len(s) /\ DOMAIN s = 1 .. n
  BY LenProperties
<1>2. /\ m \in 0 .. n /\ \A i \in 1 .. m : ~ Comments(s[i])
      /\ m = n \/ Comments(s[m + 1])
  BY <1>1 DEF Cut
<1>3. CASE m = n
  <2>1. Semicolons(s) = {}
    BY <1>1, <1>2, <1>3 DEF Semicolons
  <2>2. SubSeq(s, 1, n) = s
    BY <1>1, SubSeqFull
  <2> QED BY <1>3, <2>1, <2>2, CommentlessDef
<1>4. CASE m # n
  <2>1. m + 1 \in 1 .. n /\ Comments(s[m + 1])
    BY <1>2, <1>4
  <2>2. Semicolons(s) # {}
    BY <1>1, <2>1 DEF Semicolons
  <2>3. PICK f : f = Min(Semicolons(s))
    OBVIOUS
  <2>4. f \in 1 .. n /\ Comments(s[f]) /\ \A i \in 1 .. n : Comments(s[i]) => f <= i
    BY <1>1, <2>2, <2>3, CommentMin
  <2>5. f = m + 1
    BY <1>2, <2>1, <2>4
  <2>6. Commentless(s) = SubSeq(s, 1, f - 1)
    BY <2>2, <2>3, CommentlessDef
  <2>7. f - 1 = m
    BY <1>2, <2>5
  <2> QED BY <2>6, <2>7
<1> QED BY <1>3, <1>4

LEMMA CommentCut ==
  ASSUME NEW C, NEW s \in Seq(C)
  PROVE  \E m : Cut(s, m)
<1>1. PICK n \in Nat : n = Len(s) /\ DOMAIN s = 1 .. n
  BY LenProperties
<1>2. CASE Semicolons(s) = {}
  <2>1. Cut(s, n)
    BY <1>1, <1>2 DEF Semicolons, Cut
  <2> QED BY <2>1
<1>3. CASE Semicolons(s) # {}
  <2>1. PICK f : f = Min(Semicolons(s))
    OBVIOUS
  <2>2. f \in 1 .. n /\ Comments(s[f]) /\ \A i \in 1 .. n : Comments(s[i]) => f <= i
    BY <1>1, <1>3, <2>1, CommentMin
  <2>3. \A i \in 1 .. f - 1 : i \in 1 .. n /\ ~ f <= i
    BY <2>2
  <2>4. f - 1 \in 0 .. n /\ (f - 1) + 1 = f
    BY <2>2
  <2>5. Cut(s, f - 1)
    BY <1>1, <2>2, <2>3, <2>4 DEF Cut
  <2> QED BY <2>5
<1> QED BY <1>2, <1>3

LEMMA ChopString ==
  ASSUME NEW s
  PROVE  /\ chop_string(s).toks = Pushed(Chopped(Fresh, Commentless(s)))
         /\ chop_string(s).thrown = (\/ Chopped(Fresh, Commentless(s)).escaped
                                     \/ Chopped(Fresh, Commentless(s)).quoted)
         /\ chop_string(s) = [thrown |-> chop_string(s).thrown, toks |-> chop_string(s).toks]
BY DEF chop_string, Chopped, Fresh

LEMMA ContainsComment ==
  ASSUME NEW s
  PROVE  Contains(s, ";") <=> \E i \in 1 .. Len(s) : Comments(s[i])
BY Zenon DEF Contains, Comments

\* Without a comment all of the text is looked at.
LEMMA WholeText ==
  ASSUME NEW C, NEW s \in Seq(C), \A i \in 1 .. Len(s) : ~ Comments(s[i])
  PROVE  Commentless(s) = s
<1>1. PICK n \in Nat : n = Len(s)
  OBVIOUS
<1>2. Cut(s, n)
  BY <1>1 DEF Cut
<1> QED BY <1>1, <1>2, CommentIs, SubSeqFull

LEMMA FreshIs == Fresh = State(<<>>, <<>>, FALSE, FALSE)
BY DEF Fresh, State

LEMMA SeparatorsEnd == \A c \in Separators : ~ Comments(c) /\ c # ":"
BY Zenon DEF Separators, White, Comments

\* An escaped text is one argument.
LEMMA EscapedWhole ==
  ASSUME NEW A, NEW t \in Seq(A), t # <<>>, \A i \in 1 .. Len(t) : ~ Comments(t[i])
  PROVE  chop_string(FlattenSeq([i \in DOMAIN t |-> <<"\\", t[i]>>])) = [thrown |-> FALSE, toks |-> <<t>>]
<1> DEFINE slash == "\\"
           C == A \cup {slash}
           ss == [i \in DOMAIN t |-> <<slash, t[i]>>]
<1>1. ~ Comments(slash)
  BY Zenon DEF Comments
<1>2. slash = "\\"
  OBVIOUS
<1> HIDE DEF slash
<1>3. PICK n \in Nat : n = Len(t) /\ DOMAIN t = 1 .. n /\ \A i \in 1 .. n : t[i] \in A
  BY LenProperties, ElementOfSeq
<1>4. /\ ss \in Seq(Seq(C)) /\ Len(ss) = n
      /\ \A i \in 1 .. n : Len(ss[i]) = 2 /\ ss[i][1] = slash /\ ss[i][2] = t[i]
  <2>1. \A i \in 1 .. n : <<slash, t[i]>> \in Seq(C)
    BY <1>3
  <2>2. ss \in [1 .. n -> Seq(C)]
    BY <1>3, <2>1
  <2>3. ss \in Seq(Seq(C))
    BY <2>2, SeqDef
  <2>4. Len(ss) = n
    BY <2>2, <2>3, LenProperties
  <2> QED BY <1>3, <2>3, <2>4
<1> HIDE DEF ss, C
<1>5. PICK e : e = FlattenSeq(ss)
  OBVIOUS
<1>6. /\ e \in Seq(C) /\ Len(e) = 2 * n
      /\ \A i \in 1 .. n, j \in 1 .. 2 : e[2 * (i - 1) + j] = ss[i][j]
  <2>1. PICK w \in Nat : w = 2
    OBVIOUS
  <2>2. \A i \in 1 .. Len(ss) : Len(ss[i]) = w
    BY <1>4, <2>1
  <2>3. /\ FlattenSeq(ss) \in Seq(C) /\ Len(FlattenSeq(ss)) = w * Len(ss)
        /\ \A i \in 1 .. Len(ss), j \in 1 .. w : FlattenSeq(ss)[w * (i - 1) + j] = ss[i][j]
    <3>1. ss \in Seq(Seq(C))
      BY <1>4
    <3> QED BY <2>2, <3>1, FlattenChunks, Zenon
  <2> QED BY <1>4, <1>5, <2>1, <2>3
<1>7. ASSUME NEW i \in 1 .. n
      PROVE  e[2 * (i - 1) + 1] = slash /\ e[2 * (i - 1) + 2] = t[i]
  <2>1. 1 \in 1 .. 2 /\ 2 \in 1 .. 2
    OBVIOUS
  <2> QED BY <1>4, <1>6, <2>1
<1>8. \A k \in 1 .. 2 * n : ~ Comments(e[k])
  <2>1. SUFFICES ASSUME NEW k \in 1 .. 2 * n
                 PROVE  ~ Comments(e[k])
    OBVIOUS
  <2>2. PICK i \in 1 .. n : k = 2 * (i - 1) + 1 \/ k = 2 * (i - 1) + 2
    <3>1. \/ k = 2 * (((k + 1) \div 2) - 1) + 1
          \/ k = 2 * (((k + 1) \div 2) - 1) + 2
      OBVIOUS
    <3>2. (k + 1) \div 2 \in 1 .. n
      OBVIOUS
    <3> QED BY <3>1, <3>2
  <2>3. e[k] = slash \/ e[k] = t[i]
    BY <1>7, <2>2
  <2> QED BY <1>1, <1>3, <2>3
<1>9. Commentless(e) = e
  BY <1>6, <1>8, WholeText
<1>10. PICK h \in [0 .. Len(e) -> States(C)] :
         IsChopRun(h, Fresh, e) /\ Chopped(Fresh, e) = h[Len(e)]
  <2>1. Fresh \in States(C)
    BY FreshState
  <2> QED BY <1>6, <2>1, ChopRuns
<1> DEFINE T == {i \in 0 .. n : h[2 * i] = State(<<>>, SubSeq(t, 1, i), FALSE, FALSE)}
<1>11. 0 \in T
  <2>1. SubSeq(t, 1, 0) = <<>> /\ 2 * 0 = 0 /\ 0 \in 0 .. n
    BY SubSeqEmpty
  <2>2. h[0] = State(<<>>, <<>>, FALSE, FALSE)
    BY <1>10, FreshIs DEF IsChopRun
  <2> QED BY <2>1, <2>2
<1>12. ASSUME NEW i \in 1 .. n, i - 1 \in T
       PROVE  i \in T
  <2>1. PICK k \in Nat : k = 2 * (i - 1)
    OBVIOUS
  <2>2. PICK b \in Seq(A) : b = SubSeq(t, 1, i - 1)
    <3>1. SubSeq(t, 1, i - 1) \in Seq(A)
      BY <1>3, Part
    <3> QED BY <3>1
  <2>3. h[k] = State(<<>>, b, FALSE, FALSE)
    BY <1>12, <2>1, <2>2
  <2>4. k + 1 \in 1 .. 2 * n /\ k + 2 \in 1 .. 2 * n /\ (k + 1) - 1 = k /\ (k + 2) - 1 = k + 1
        /\ k + 2 = 2 * i
    BY <2>1
  <2>5. h[k + 1] = Chop(h[k], e[k + 1]) /\ h[k + 2] = Chop(h[k + 1], e[k + 2])
    BY <1>6, <1>10, <2>4 DEF IsChopRun
  <2>6. e[k + 1] = slash /\ e[k + 2] = t[i]
    BY <1>7, <2>1
  <2>7. h[k + 1] = State(<<>>, b, TRUE, FALSE)
    BY <1>2, <2>3, <2>5, <2>6, ChopEscape, Zenon
  <2>8. PICK a : a = Append(b, t[i])
    OBVIOUS
  <2>9. h[k + 2] = State(<<>>, a, FALSE, FALSE)
    <3>1. Chop(State(<<>>, b, TRUE, FALSE), t[i]) = State(<<>>, a, FALSE, FALSE)
      BY <2>8 DEF Chop, State
    <3> QED BY <2>5, <2>6, <2>7, <3>1, Zenon
  <2>10. a = SubSeq(t, 1, i)
    BY <1>3, <2>2, <2>8, PrefixGrows
  <2>11. h[2 * i] = State(<<>>, SubSeq(t, 1, i), FALSE, FALSE)
    BY <2>4, <2>9, <2>10
  <2>12. i \in 0 .. n
    OBVIOUS
  <2> QED BY <2>11, <2>12, Zenon
<1> HIDE DEF T
<1>13. 0 .. n \subseteq T
  BY <1>11, <1>12, BoundedInduction
<1>14. n \in T
  BY <1>13
<1>15. Chopped(Fresh, Commentless(e)) = State(<<>>, t, FALSE, FALSE)
  <2>1. SubSeq(t, 1, n) = t
    BY <1>3, SubSeqFull
  <2> QED BY <1>6, <1>9, <1>10, <1>14, <2>1 DEF T
<1>16. chop_string(e).thrown = FALSE
  <2>1. State(<<>>, t, FALSE, FALSE).escaped = FALSE /\ State(<<>>, t, FALSE, FALSE).quoted = FALSE
    BY DEF State
  <2> QED BY <1>15, <2>1, ChopString, Zenon
<1>17. chop_string(e).toks = <<t>>
  <2>1. Pushed(State(<<>>, t, FALSE, FALSE)) = <<t>>
    BY DEF Pushed, State
  <2> QED BY <1>15, <2>1, ChopString, Zenon
<1>18. chop_string(e) = [thrown |-> FALSE, toks |-> <<t>>]
  BY <1>16, <1>17, ChopString, Zenon
<1> QED BY <1>2, <1>5, <1>18 DEF ss

\* What is before and behind a separator, in the part that is looked at.
LEMMA SplitText ==
  ASSUME NEW C, NEW s \in Seq(C), NEW m, Cut(s, m), NEW i \in 1 .. Len(s), i <= m
  PROVE  /\ Commentless(s) \in Seq(C) /\ Len(Commentless(s)) = m
         /\ Commentless(s)[i] = s[i]
         /\ Commentless(SubSeq(s, 1, i - 1)) = SubSeq(Commentless(s), 1, i - 1)
         /\ Commentless(SubSeq(s, i + 1, Len(s))) = SubSeq(Commentless(s), i + 1, m)
<1>1. PICK n \in Nat : n = Len(s)
  OBVIOUS
<1>2. /\ m \in 0 .. n /\ \A k \in 1 .. m : ~ Comments(s[k])
      /\ m = n \/ Comments(s[m + 1])
  BY <1>1 DEF Cut
<1>3. PICK u : u = Commentless(s)
  OBVIOUS
<1>4. u = SubSeq(s, 1, m)
  BY <1>3, CommentIs
<1>5. u \in Seq(C) /\ Len(u) = m /\ \A k \in 1 .. m : u[k] = s[k]
  <2>1. 1 \in 1 .. Len(s) + 1 /\ m \in 1 - 1 .. Len(s) /\ m - 1 + 1 = m
    BY <1>1, <1>2
  <2>2. /\ u \in Seq(C) /\ Len(u) = m - 1 + 1
        /\ \A k \in 1 .. m - 1 + 1 : u[k] = s[1 + k - 1]
    BY <1>4, <2>1, Part
  <2> QED BY <2>1, <2>2
<1>6. Commentless(SubSeq(s, 1, i - 1)) = SubSeq(u, 1, i - 1)
  <2>1. PICK v : v = SubSeq(s, 1, i - 1)
    OBVIOUS
  <2>2. v \in Seq(C) /\ Len(v) = i - 1 /\ \A k \in 1 .. i - 1 : v[k] = s[k]
    BY <2>1, Part
  <2>3. \A k \in 1 .. Len(v) : ~ Comments(v[k])
    BY <1>2, <2>2
  <2>4. Commentless(v) = v
    BY <2>2, <2>3, WholeText
  <2>5. SubSeq(SubSeq(s, 1, m), 1, i - 1) = SubSeq(s, 1, i - 1)
    BY <1>1, <1>2, PartOfPart
  <2> QED BY <1>4, <2>1, <2>4, <2>5
<1>7. Commentless(SubSeq(s, i + 1, n)) = SubSeq(u, i + 1, m)
  <2>1. PICK v : v = SubSeq(s, i + 1, n)
    OBVIOUS
  <2>2. v \in Seq(C) /\ Len(v) = n - i /\ \A k \in 1 .. n - i : v[k] = s[i + k]
    <3>1. i + 1 \in 1 .. n + 1 /\ n \in (i + 1) - 1 .. n /\ n - (i + 1) + 1 = n - i
          /\ \A k \in 1 .. n - i : (i + 1) + k - 1 = i + k
      BY <1>1
    <3>2. PICK a \in 1 .. Len(s) + 1 : a = i + 1
      BY <1>1, <3>1
    <3>3. n \in a - 1 .. Len(s)
      BY <1>1, <3>1, <3>2
    <3>4. v \in Seq(C) /\ Len(v) = n - a + 1 /\ \A k \in 1 .. n - a + 1 : v[k] = s[a + k - 1]
      BY <2>1, <3>2, <3>3, Part
    <3> QED BY <3>1, <3>2, <3>4
  <2>3. Cut(v, m - i)
    <3>1. m - i \in 0 .. n - i
      BY <1>1, <1>2
    <3>2. \A k \in 1 .. m - i : ~ Comments(v[k])
      BY <1>1, <1>2, <2>2
    <3>3. m - i = n - i \/ Comments(v[m - i + 1])
      BY <1>1, <1>2, <2>2
    <3> QED BY <2>2, <3>1, <3>2, <3>3 DEF Cut
  <2>4. Commentless(v) = SubSeq(v, 1, m - i)
    BY <2>2, <2>3, CommentIs
  <2>5. SubSeq(SubSeq(s, i + 1, n), 1, m - i) = SubSeq(s, i + 1, m)
    <3>1. PICK a \in 1 .. Len(s) + 1 : a = i + 1
      BY <1>1
    <3>2. n \in a - 1 .. Len(s) /\ 1 \in 1 .. n - a + 2 /\ m - i \in 1 - 1 .. n - a + 1
      BY <1>1, <1>2, <3>1
    <3>3. SubSeq(SubSeq(s, a, n), 1, m - i) = SubSeq(s, a + 1 - 1, a + (m - i) - 1)
      BY <3>2, PartOfPart
    <3>4. a + 1 - 1 = i + 1 /\ a + (m - i) - 1 = m
      BY <1>2, <3>1
    <3> QED BY <3>1, <3>3, <3>4
  <2>6. SubSeq(SubSeq(s, 1, m), i + 1, m) = SubSeq(s, i + 1, m)
    <3>1. PICK p : p = i + 1
      OBVIOUS
    <3>2. 1 \in 1 .. Len(s) + 1 /\ m \in 1 - 1 .. Len(s)
          /\ p \in 1 .. m - 1 + 2 /\ m \in p - 1 .. m - 1 + 1
      BY <1>1, <1>2, <3>1
    <3>3. SubSeq(SubSeq(s, 1, m), p, m) = SubSeq(s, 1 + p - 1, 1 + m - 1)
      BY <3>2, PartOfPart
    <3>4. 1 + p - 1 = i + 1 /\ 1 + m - 1 = m
      BY <1>2, <3>1
    <3> QED BY <3>1, <3>3, <3>4
  <2> QED BY <1>4, <2>1, <2>4, <2>5, <2>6
<1> QED BY <1>1, <1>3, <1>5, <1>6, <1>7

LEMMA ChoppedType ==
  ASSUME NEW C, NEW st \in States(C), NEW s \in Seq(C)
  PROVE  Chopped(st, s) \in States(C)
<1>1. PICK n \in Nat : n = Len(s)
  OBVIOUS
<1>2. PICK h \in [0 .. Len(s) -> States(C)] : Chopped(st, s) = h[Len(s)]
  BY ChopRuns
<1>3. n \in 0 .. Len(s)
  BY <1>1
<1> QED BY <1>1, <1>2, <1>3

LEMMA PushedType ==
  ASSUME NEW C, NEW st \in States(C)
  PROVE  Pushed(st) \in Seq(Seq(C))
BY DEF Pushed, States

LEMMA PushedLater ==
  ASSUME NEW C, NEW st \in States(C), NEW T \in Seq(Seq(C))
  PROVE  /\ Shift(T, st).escaped = st.escaped /\ Shift(T, st).quoted = st.quoted
         /\ Pushed(Shift(T, st)) = T \o Pushed(st)
<1>1. Pushed(Shift(T, st)) = T \o Pushed(st)
  BY ChopShift
<1> QED BY <1>1 DEF Shift, State

\* A separator outside quotes separates.
LEMMA SplitHolds ==
  ASSUME NEW C, NEW s \in Seq(C), NEW i \in 1 .. Len(s), s[i] \in Separators,
         \A k \in 1 .. i - 1 : ~ Comments(s[k]), ~ chop_string(SubSeq(s, 1, i - 1)).thrown
  PROVE  /\ chop_string(s).thrown = chop_string(SubSeq(s, i + 1, Len(s))).thrown
         /\ chop_string(s).toks = chop_string(SubSeq(s, 1, i - 1)).toks
                                    \o chop_string(SubSeq(s, i + 1, Len(s))).toks
<1>1. PICK m : Cut(s, m)
  BY CommentCut
<1>2. i <= m
  <2>1. PICK n \in Nat : n = Len(s)
    OBVIOUS
  <2>2. m \in 0 .. n /\ (m = n \/ Comments(s[m + 1]))
    BY <1>1, <2>1 DEF Cut
  <2>3. ~ Comments(s[i])
    BY SeparatorsEnd
  <2> QED BY <2>1, <2>2, <2>3
<1>3. PICK u : u = Commentless(s)
  OBVIOUS
<1>4. PICK before : before = SubSeq(s, 1, i - 1)
  OBVIOUS
<1>5. PICK behind : behind = SubSeq(s, i + 1, Len(s))
  OBVIOUS
<1>6. /\ u \in Seq(C) /\ Len(u) = m /\ u[i] = s[i]
      /\ Commentless(before) = SubSeq(u, 1, i - 1)
      /\ Commentless(behind) = SubSeq(u, i + 1, m)
  BY <1>1, <1>2, <1>3, <1>4, <1>5, SplitText, SMTT(20)
<1>7. PICK st : st = Chopped(Fresh, SubSeq(u, 1, i - 1))
  OBVIOUS
<1>8. PICK nd : nd = Chopped(Fresh, SubSeq(u, i + 1, m))
  OBVIOUS
<1>9. m \in Nat /\ i \in 1 .. m
  BY <1>1, <1>2 DEF Cut
<1>10. st \in States(C) /\ nd \in States(C)
  <2>1. SubSeq(u, 1, i - 1) \in Seq(C)
    BY <1>6, <1>9, Part
  <2>2. SubSeq(u, i + 1, m) \in Seq(C)
    <3>1. \A k \in i + 1 .. m : u[k] \in C
      BY <1>6, <1>9
    <3> QED BY <1>9, <3>1, SubSeqProperties
  <2> QED BY <1>7, <1>8, <2>1, <2>2, ChoppedType, FreshState
<1>11. st.escaped = FALSE /\ st.quoted = FALSE
  <2>1. ~ st.escaped /\ ~ st.quoted
    BY <1>4, <1>6, <1>7, ChopString
  <2> QED BY <1>10, <2>1, StateParts
<1>12. Chopped(Fresh, u) = Shift(Pushed(st), nd)
  BY <1>6, <1>7, <1>8, <1>9, <1>11, ChopBehind
<1>13. Pushed(st) \in Seq(Seq(C))
  BY <1>10, PushedType
<1>14. /\ Chopped(Fresh, u).escaped = nd.escaped /\ Chopped(Fresh, u).quoted = nd.quoted
       /\ Pushed(Chopped(Fresh, u)) = Pushed(st) \o Pushed(nd)
  BY <1>10, <1>12, <1>13, PushedLater
<1>15. chop_string(s).toks = chop_string(before).toks \o chop_string(behind).toks
  <2>1. chop_string(s).toks = Pushed(Chopped(Fresh, u))
    BY <1>3, ChopString
  <2>2. chop_string(before).toks = Pushed(st) /\ chop_string(behind).toks = Pushed(nd)
    BY <1>6, <1>7, <1>8, ChopString
  <2> QED BY <1>14, <2>1, <2>2
<1>16. chop_string(s).thrown = chop_string(behind).thrown
  <2>1. chop_string(s).thrown = (Chopped(Fresh, u).escaped \/ Chopped(Fresh, u).quoted)
    BY <1>3, ChopString, Zenon
  <2>2. chop_string(behind).thrown = (nd.escaped \/ nd.quoted)
    BY <1>6, <1>8, ChopString, Zenon
  <2> QED BY <1>14, <2>1, <2>2, Zenon
<1> QED BY <1>4, <1>5, <1>15, <1>16, Zenon

\* The first b characters of u, behind separators, are an argument from a on.
First(u, a, b) ==
  /\ a \in 1 .. b + 1 /\ \A j \in 1 .. a - 1 : u[j] \in Separators
  /\ Chopped(Fresh, SubSeq(u, 1, b)) = State(<<>>, SubSeq(u, a, b), FALSE, FALSE)

\* Where the first argument of a text without quotes and escapes ends.
LEMMA FirstEnds ==
  ASSUME NEW C, NEW u \in Seq(C), \A k \in 1 .. Len(u) : u[k] \notin Quotes \cup {"\\"}
  PROVE  \/ \E a : First(u, a, Len(u))
         \/ \E a, b : /\ b \in 1 .. Len(u) - 1 /\ a \in 1 .. b /\ First(u, a, b)
                      /\ u[b + 1] \in Separators
<1>1. PICK n \in Nat : n = Len(u)
  OBVIOUS
<1> DEFINE Ended == \E a, b : /\ b \in 1 .. n - 1 /\ a \in 1 .. b /\ First(u, a, b)
                              /\ u[b + 1] \in Separators
           Open(k) == \E a : First(u, a, k)
           T == {k \in 0 .. n : Open(k) \/ Ended}
<1> HIDE DEF Ended, Open
<1>2. 0 \in T
  <2>1. SubSeq(u, 1, 0) = <<>>
    BY SubSeqEmpty
  <2>2. Chopped(Fresh, <<>>) = Fresh
    BY ChopEmpty, FreshState
  <2>3. First(u, 1, 0)
    <3>1. Chopped(Fresh, SubSeq(u, 1, 0)) = State(<<>>, SubSeq(u, 1, 0), FALSE, FALSE)
      BY <2>1, <2>2, FreshIs, Zenon
    <3>2. 1 \in 1 .. 0 + 1 /\ \A j \in 1 .. 1 - 1 : u[j] \in Separators
      OBVIOUS
    <3> QED BY <3>1, <3>2, Zenon DEF First
  <2> QED BY <2>3 DEF Open
<1>3. ASSUME NEW k \in 1 .. n, k - 1 \in T
      PROVE  k \in T
  <2>1. CASE Ended
    BY <2>1
  <2>2. CASE ~ Ended
    <3>1. PICK a : First(u, a, k - 1)
      BY <1>3, <2>2 DEF Open
    <3>2. PICK p : p = SubSeq(u, 1, k - 1)
      OBVIOUS
    <3>3. PICK b : b = SubSeq(u, a, k - 1)
      OBVIOUS
    <3>4. a \in 1 .. k /\ \A j \in 1 .. a - 1 : u[j] \in Separators
      BY <3>1 DEF First
    <3>5. Chopped(Fresh, p) = State(<<>>, b, FALSE, FALSE)
      BY <3>1, <3>2, <3>3 DEF First
    <3>6. Chopped(Fresh, SubSeq(u, 1, k)) = Chop(State(<<>>, b, FALSE, FALSE), u[k])
      <4>1. p \in Seq(C) /\ u[k] \in C /\ 1 \in 1 .. k
        BY <1>1, <3>2, Part
      <4>2. Append(p, u[k]) = SubSeq(u, 1, k)
        BY <1>1, <3>2, <4>1, PrefixGrows
      <4>3. Fresh \in States(C)
        BY FreshState
      <4>4. Chopped(Fresh, Append(p, u[k])) = Chop(Chopped(Fresh, p), u[k])
        BY <4>1, <4>3, ChopAppend
      <4> QED BY <3>5, <4>2, <4>4
    <3>7. CASE u[k] \notin Separators
      <4>1. PICK d : d = Append(b, u[k])
        OBVIOUS
      <4>2. Chop(State(<<>>, b, FALSE, FALSE), u[k]) = State(<<>>, d, FALSE, FALSE)
        <5>1. u[k] \notin Quotes \cup {"\\"}
          BY <1>1
        <5> QED BY <3>7, <4>1, <5>1 DEF Chop, State
      <4>3. d = SubSeq(u, a, k)
        BY <1>1, <3>3, <3>4, <4>1, PrefixGrows
      <4>4. First(u, a, k)
        <5>1. a \in 1 .. k + 1
          BY <3>4
        <5> QED BY <3>4, <3>6, <4>2, <4>3, <5>1, Zenon DEF First
      <4> QED BY <4>4 DEF Open
    <3>8. CASE u[k] \in Separators /\ a = k
      <4>1. b = <<>> /\ SubSeq(u, k + 1, k) = <<>>
        BY <3>3, <3>8, SubSeqEmpty
      <4>2. Chop(State(<<>>, <<>>, FALSE, FALSE), u[k]) = State(<<>>, <<>>, FALSE, FALSE)
        BY <3>8, ChopSeparator
      <4>3. First(u, k + 1, k)
        <5>1. k + 1 \in 1 .. k + 1 /\ \A j \in 1 .. (k + 1) - 1 : u[j] \in Separators
          BY <3>4, <3>8
        <5> QED BY <3>6, <4>1, <4>2, <5>1, Zenon DEF First
      <4> QED BY <4>3 DEF Open
    <3>9. CASE u[k] \in Separators /\ a # k
      <4>1. k - 1 \in 1 .. n - 1 /\ a \in 1 .. k - 1 /\ (k - 1) + 1 = k
        BY <3>4, <3>9
      <4>2. Ended
        BY <3>1, <3>9, <4>1 DEF Ended
      <4> QED BY <2>2, <4>2
    <3> QED BY <3>7, <3>8, <3>9
  <2> QED BY <2>1, <2>2
<1> HIDE DEF T
<1>4. 0 .. n \subseteq T
  BY <1>2, <1>3, BoundedInduction
<1>5. n \in T
  BY <1>4
<1>6. Open(n) \/ Ended
  BY <1>5 DEF T
<1> QED BY <1>1, <1>6 DEF Open, Ended

Colon(c) == c = ":"
Colons(s) == {i \in DOMAIN s : Colon(s[i])}

LEMMA LabelDefs ==
  ASSUME NEW s, NEW t
  PROVE  /\ trim_label(s) = IF Colons(s) = {} THEN <<>> ELSE SubSeq(s, Min(Colons(s)) + 1, Len(s))
         /\ SelectInSeq(t, LAMBDA c : c = ":") =
              IF {i \in 1 .. Len(t) : Colon(t[i])} # {}
                THEN Min({i \in 1 .. Len(t) : Colon(t[i])}) ELSE 0
         /\ \A c \in Separators : ~ Colon(c)
BY Zenon DEF trim_label, SelectInSeq, Colons, Colon, Separators, White

\* The first colon of a text is b if it is the last of the characters a to b,
\* their only colon, behind separators.
LEMMA FirstColon ==
  ASSUME NEW C, NEW s \in Seq(C), NEW b \in 1 .. Len(s), NEW a \in 1 .. b,
         \A j \in 1 .. a - 1 : s[j] \in Separators,
         SelectInSeq(SubSeq(s, a, b), LAMBDA c : c = ":") = Len(SubSeq(s, a, b))
  PROVE  trim_label(s) = SubSeq(s, b + 1, Len(s))
<1>1. PICK n \in Nat : n = Len(s) /\ DOMAIN s = 1 .. n
  BY LenProperties
<1>2. PICK t : t = SubSeq(s, a, b)
  OBVIOUS
<1>3. t \in Seq(C) /\ Len(t) = b - a + 1 /\ \A k \in 1 .. b - a + 1 : t[k] = s[a + k - 1]
  <2>1. a \in 1 .. Len(s) + 1 /\ b \in a - 1 .. Len(s)
    BY <1>1
  <2> QED BY <1>2, <2>1, Part
<1>4. PICK I : I = {i \in 1 .. Len(t) : Colon(t[i])}
  OBVIOUS
<1>5. SelectInSeq(t, LAMBDA c : c = ":") = IF I # {} THEN Min(I) ELSE 0
  BY <1>4, LabelDefs, Zenon
<1>6. (IF I # {} THEN Min(I) ELSE 0) = b - a + 1
  BY <1>2, <1>3, <1>5, Zenon
<1>7. I # {} /\ Min(I) = b - a + 1
  BY <1>1, <1>6
<1>8. Min(I) \in I /\ \A y \in I : Min(I) <= y
  <2>1. I \in SUBSET Nat
    BY <1>4
  <2> QED BY <1>7, <2>1, LeastOne
<1>9. Colon(s[b])
  <2>1. Colon(t[b - a + 1]) /\ b - a + 1 \in 1 .. b - a + 1 /\ a + (b - a + 1) - 1 = b
    BY <1>3, <1>4, <1>7, <1>8
  <2> QED BY <1>3, <2>1
<1>10. ASSUME NEW j \in 1 .. b - 1
       PROVE  ~ Colon(s[j])
  <2>1. CASE j < a
    <3>1. s[j] \in Separators
      BY <2>1
    <3> QED BY <3>1, LabelDefs, Zenon
  <2>2. CASE ~ j < a
    <3>1. j - a + 1 \in 1 .. b - a + 1 /\ a + (j - a + 1) - 1 = j /\ ~ b - a + 1 <= j - a + 1
      BY <1>1, <2>2
    <3>2. j - a + 1 \notin I
      BY <1>7, <1>8, <3>1
    <3> QED BY <1>3, <1>4, <3>1, <3>2
  <2> QED BY <2>1, <2>2
<1>11. b \in Colons(s) /\ \A y \in Colons(s) : b <= y
  <2>1. b \in Colons(s)
    BY <1>1, <1>9 DEF Colons
  <2>2. ASSUME NEW y \in Colons(s)
        PROVE  b <= y
    <3>1. y \in 1 .. n /\ Colon(s[y])
      BY <1>1 DEF Colons
    <3>2. y \notin 1 .. b - 1
      BY <1>10, <3>1
    <3> QED BY <1>1, <3>1, <3>2
  <2> QED BY <2>1, <2>2
<1>12. Colons(s) \in SUBSET Nat
  BY <1>1 DEF Colons
<1>13. Min(Colons(s)) = b
  <2>1. Min(Colons(s)) \in Colons(s) /\ \A y \in Colons(s) : Min(Colons(s)) <= y
    BY <1>11, <1>12, LeastOne
  <2>2. Min(Colons(s)) \in Nat
    BY <1>12, <2>1
  <2> QED BY <1>1, <1>11, <2>1, <2>2
<1>14. Colons(s) # {}
  BY <1>11
<1> QED BY <1>13, <1>14, LabelDefs, Zenon

LEMMA CutText ==
  ASSUME NEW C, NEW s \in Seq(C), NEW m, Cut(s, m)
  PROVE  /\ m \in 0 .. Len(s) /\ Commentless(s) \in Seq(C) /\ Len(Commentless(s)) = m
         /\ \A k \in 1 .. m : Commentless(s)[k] = s[k] /\ ~ Comments(s[k])
         /\ \A i \in 1 .. m + 1, j \in 0 .. m :
              i <= j + 1 => SubSeq(Commentless(s), i, j) = SubSeq(s, i, j)
<1>1. PICK n \in Nat : n = Len(s)
  OBVIOUS
<1>2. m \in 0 .. n /\ \A k \in 1 .. m : ~ Comments(s[k])
  BY <1>1 DEF Cut
<1>3. PICK u : u = Commentless(s)
  OBVIOUS
<1>4. u = SubSeq(s, 1, m)
  BY <1>3, CommentIs
<1>5. 1 \in 1 .. Len(s) + 1 /\ m \in 1 - 1 .. Len(s) /\ m - 1 + 1 = m
  BY <1>1, <1>2
<1>6. /\ u \in Seq(C) /\ Len(u) = m - 1 + 1
      /\ \A k \in 1 .. m - 1 + 1 : u[k] = s[1 + k - 1]
  BY <1>4, <1>5, Part
<1>7. u \in Seq(C) /\ Len(u) = m /\ \A k \in 1 .. m : u[k] = s[k]
  BY <1>5, <1>6
<1>8. ASSUME NEW i \in 1 .. m + 1, NEW j \in 0 .. m, i <= j + 1
      PROVE  SubSeq(u, i, j) = SubSeq(s, i, j)
  <2>1. i \in 1 .. m - 1 + 2 /\ j \in i - 1 .. m - 1 + 1
    BY <1>2, <1>8
  <2>2. SubSeq(SubSeq(s, 1, m), i, j) = SubSeq(s, 1 + i - 1, 1 + j - 1)
    BY <1>5, <2>1, PartOfPart
  <2>3. 1 + i - 1 = i /\ 1 + j - 1 = j
    BY <1>2
  <2> QED BY <1>4, <2>2, <2>3
<1> QED BY <1>1, <1>2, <1>3, <1>7, <1>8

\* Nothing is chopped into nothing.
LEMMA ChopNothing ==
  ASSUME NEW C, NEW s, Commentless(s) = <<>>
  PROVE  chop_string(s).thrown = FALSE /\ chop_string(s).toks = <<>>
<1>1. Chopped(Fresh, <<>>) = Fresh
  BY ChopEmpty, FreshState
<1>2. Fresh.escaped = FALSE /\ Fresh.quoted = FALSE /\ Pushed(Fresh) = <<>>
  BY DEF Fresh, Pushed
<1> QED BY <1>1, <1>2, ChopString, Zenon

LEMMA CutNothing ==
  ASSUME NEW C, NEW s \in Seq(C), Cut(s, 0)
  PROVE  Commentless(s) = <<>>
<1>1. Commentless(s) = SubSeq(s, 1, 0)
  BY CommentIs
<1>2. SubSeq(s, 1, 0) = <<>>
  BY SubSeqEmpty
<1> QED BY <1>1, <1>2

LEMMA TokensType ==
  ASSUME NEW C, NEW s \in Seq(C)
  PROVE  chop_string(s).toks \in Seq(Seq(C))
<1>1. Commentless(s) \in Seq(C)
  BY CommentCut, CutText
<1>2. Chopped(Fresh, Commentless(s)) \in States(C)
  BY <1>1, ChoppedType, FreshState
<1> QED BY <1>2, PushedType, ChopString

LEMMA PartBehind ==
  ASSUME NEW S, NEW s \in Seq(S), NEW i \in 1 .. Len(s)
  PROVE  SubSeq(SubSeq(s, i, Len(s)), 2, Len(s) - i + 1) = SubSeq(s, i + 1, Len(s))
<1>1. PICK j : j = Len(s) /\ j \in i - 1 .. Len(s)
  OBVIOUS
<1>2. PICK p : p = 2
  OBVIOUS
<1>3. PICK q : q = j - i + 1
  OBVIOUS
<1>4. i \in 1 .. Len(s) + 1 /\ p \in 1 .. j - i + 2 /\ q \in p - 1 .. j - i + 1
  BY <1>1, <1>2, <1>3
<1>5. SubSeq(SubSeq(s, i, j), p, q) = SubSeq(s, i + p - 1, i + q - 1)
  BY <1>1, <1>4, PartOfPart
<1>6. i + p - 1 = i + 1 /\ i + q - 1 = j
  BY <1>1, <1>2, <1>3
<1> QED BY <1>1, <1>2, <1>3, <1>5, <1>6

LEMMA TailOfCons ==
  ASSUME NEW S, NEW w \in S, NEW t \in Seq(S)
  PROVE  (<<w>> \o t)[1] = w /\ Tail(<<w>> \o t) = t
<1>1. PICK v : v = <<w>> \o t
  OBVIOUS
<1>2. PICK n \in Nat : n = Len(t)
  OBVIOUS
<1>3. <<w>> \in Seq(S) /\ Len(<<w>>) = 1 /\ <<w>>[1] = w
  OBVIOUS
<1>4. v \in Seq(S) /\ Len(v) = 1 + n /\ v[1] = w /\ \A i \in 1 .. n : v[i + 1] = t[i]
  <2>1. /\ v \in Seq(S) /\ Len(v) = Len(<<w>>) + Len(t)
        /\ \A i \in 1 .. Len(<<w>>) + Len(t) :
             v[i] = IF i <= Len(<<w>>) THEN <<w>>[i] ELSE t[i - Len(<<w>>)]
    BY <1>1, <1>3, ConcatProperties
  <2>2. \A i \in 1 .. 1 + n : v[i] = IF i <= 1 THEN <<w>>[i] ELSE t[i - 1]
    BY <1>2, <1>3, <2>1
  <2>3. v[1] = w
    BY <1>2, <1>3, <2>2
  <2>4. ASSUME NEW i \in 1 .. n
        PROVE  v[i + 1] = t[i]
    <3>1. i + 1 \in 1 .. 1 + n /\ ~ i + 1 <= 1 /\ (i + 1) - 1 = i
      BY <1>2
    <3> QED BY <2>2, <3>1
  <2> QED BY <1>2, <1>3, <2>1, <2>3, <2>4
<1>5. PICK r : r = Tail(v)
  OBVIOUS
<1>6. v # <<>>
  BY <1>2, <1>4
<1>7. r \in Seq(S) /\ Len(r) = Len(v) - 1 /\ \A i \in 1 .. Len(r) : r[i] = v[i + 1]
  BY <1>4, <1>5, <1>6, HeadTailProperties
<1>8. r = t
  <2>1. Len(r) = n
    BY <1>2, <1>4, <1>7
  <2> QED BY <1>2, <1>4, <1>7, <2>1, SeqEqual
<1> QED BY <1>1, <1>4, <1>5, <1>8

\* A label is the first argument.
LEMMA LabelHolds ==
  ASSUME NEW C, NEW s \in Seq(C), \A k \in 1 .. Len(s) : s[k] \notin Quotes \cup {"\\"},
         chop_string(s).toks # <<>>,
         SelectInSeq(chop_string(s).toks[1], LAMBDA c : c = ":") = Len(chop_string(s).toks[1])
  PROVE  chop_string(trim_label(s)).toks = Tail(chop_string(s).toks)
<1>1. PICK n \in Nat : n = Len(s)
  OBVIOUS
<1>2. PICK m : Cut(s, m)
  BY CommentCut
<1>3. PICK u : u = Commentless(s)
  OBVIOUS
<1>4. /\ m \in 0 .. n /\ u \in Seq(C) /\ Len(u) = m
      /\ \A k \in 1 .. m : u[k] = s[k] /\ ~ Comments(s[k])
      /\ \A i \in 1 .. m + 1, j \in 0 .. m : i <= j + 1 => SubSeq(u, i, j) = SubSeq(s, i, j)
  BY <1>1, <1>2, <1>3, CutText, SMTT(20)
<1>5. \A k \in 1 .. m : u[k] \notin Quotes \cup {"\\"}
  <2>1. \A k \in 1 .. m : k \in 1 .. Len(s)
    BY <1>1, <1>4
  <2> QED BY <1>4, <2>1, Zenon
<1>6. \/ \E a : First(u, a, m)
      \/ \E a, b : b \in 1 .. m - 1 /\ a \in 1 .. b /\ First(u, a, b) /\ u[b + 1] \in Separators
  BY <1>4, <1>5, FirstEnds, Zenon
<1>7. CASE \E a : First(u, a, m)
  <2>1. PICK a : First(u, a, m)
    BY <1>7
  <2>2. PICK w : w = SubSeq(u, a, m)
    OBVIOUS
  <2>3. a \in 1 .. m + 1 /\ \A j \in 1 .. a - 1 : u[j] \in Separators
    BY <2>1 DEF First
  <2>4. Chopped(Fresh, u) = State(<<>>, w, FALSE, FALSE)
    <3>1. SubSeq(u, 1, m) = u
      BY <1>4, SubSeqFull
    <3> QED BY <2>1, <2>2, <3>1, Zenon DEF First
  <2>5. chop_string(s).toks = <<w>> /\ w # <<>>
    <3>1. Pushed(State(<<>>, w, FALSE, FALSE)) = IF w = <<>> THEN <<>> ELSE <<w>>
      BY DEF Pushed, State
    <3>2. chop_string(s).toks = IF w = <<>> THEN <<>> ELSE <<w>>
      BY <1>3, <2>4, <3>1, ChopString, Zenon
    <3> QED BY <3>2
  <2>6. a \in 1 .. m
    <3>1. a # m + 1
      <4>1. ASSUME a = m + 1
            PROVE  FALSE
        <5>1. SubSeq(u, m + 1, m) = <<>>
          BY <1>4, SubSeqEmpty
        <5> QED BY <2>2, <2>5, <4>1, <5>1
      <4> QED BY <4>1
    <3> QED BY <1>4, <2>3, <3>1
  <2>7. m \in 1 .. Len(s) /\ w = SubSeq(s, a, m)
    BY <1>1, <1>4, <2>2, <2>6
  <2>8. trim_label(s) = SubSeq(s, m + 1, Len(s))
    <3>1. \A j \in 1 .. a - 1 : s[j] \in Separators
      BY <1>4, <2>3, <2>6
    <3>2. SelectInSeq(SubSeq(s, a, m), LAMBDA c : c = ":") = Len(SubSeq(s, a, m))
      <4>1. chop_string(s).toks[1] = SubSeq(s, a, m)
        <5>1. <<w>>[1] = w
          OBVIOUS
        <5> QED BY <2>5, <2>7, <5>1, Zenon
      <4> QED BY <4>1, Zenon
    <3> QED BY <2>6, <2>7, <3>1, <3>2, FirstColon, Zenon
  <2>9. PICK v : v = trim_label(s)
    OBVIOUS
  <2>10. v \in Seq(C) /\ Cut(v, 0)
    <3>1. m + 1 \in 1 .. Len(s) + 1 /\ Len(s) \in (m + 1) - 1 .. Len(s)
      BY <1>1, <1>4
    <3>2. PICK p : p = m + 1
      OBVIOUS
    <3>3. v \in Seq(C) /\ Len(v) = n - p + 1 /\ \A k \in 1 .. n - p + 1 : v[k] = s[p + k - 1]
      BY <1>1, <2>8, <2>9, <3>1, <3>2, Part, SMTT(20)
    <3>4. 0 = n - p + 1 \/ Comments(v[0 + 1])
      <4>1. m = n \/ Comments(s[m + 1])
        BY <1>1, <1>2 DEF Cut
      <4>2. CASE m # n
        <5>1. 1 \in 1 .. n - p + 1 /\ p + 1 - 1 = m + 1
          BY <1>4, <3>2, <4>2
        <5> QED BY <3>3, <4>1, <4>2, <5>1
      <4> QED BY <1>4, <3>2, <4>2
    <3> QED BY <1>4, <3>2, <3>3, <3>4 DEF Cut
  <2>11. chop_string(v).toks = <<>>
    BY <2>10, CutNothing, ChopNothing
  <2> QED BY <2>5, <2>9, <2>11
<1>8. CASE \E a, b : b \in 1 .. m - 1 /\ a \in 1 .. b /\ First(u, a, b) /\ u[b + 1] \in Separators
  <2>1. PICK a, b : b \in 1 .. m - 1 /\ a \in 1 .. b /\ First(u, a, b) /\ u[b + 1] \in Separators
    BY <1>8
  <2>2. PICK i : i = b + 1
    OBVIOUS
  <2>3. i \in 1 .. n /\ i <= m /\ i - 1 = b /\ s[i] \in Separators
    BY <1>4, <2>1, <2>2
  <2>4. PICK w : w = SubSeq(u, a, b)
    OBVIOUS
  <2>5. w = SubSeq(s, a, b) /\ w # <<>>
    <3>1. w = SubSeq(s, a, b)
      <4>1. a \in 1 .. m + 1 /\ b \in 0 .. m /\ a <= b + 1
        BY <1>4, <2>1
      <4> QED BY <1>4, <2>4, <4>1
    <3>2. Len(w) = b - a + 1
      <4>1. a \in 1 .. Len(s) + 1 /\ b \in a - 1 .. Len(s)
        BY <1>1, <1>4, <2>1
      <4> QED BY <3>1, <4>1, Part
    <3>3. b - a + 1 # 0
      BY <2>1
    <3> QED BY <3>1, <3>2, <3>3
  <2>6. PICK before : before = SubSeq(s, 1, i - 1)
    OBVIOUS
  <2>7. PICK behind : behind = SubSeq(s, i + 1, n)
    OBVIOUS
  <2>8. Commentless(before) = SubSeq(u, 1, b)
    BY <1>1, <1>2, <1>3, <2>3, <2>6, SplitText
  <2>9. chop_string(before).toks = <<w>> /\ chop_string(before).thrown = FALSE
    <3>1. Chopped(Fresh, Commentless(before)) = State(<<>>, w, FALSE, FALSE)
      BY <2>1, <2>4, <2>8, Zenon DEF First
    <3>2. /\ Pushed(State(<<>>, w, FALSE, FALSE)) = <<w>>
          /\ State(<<>>, w, FALSE, FALSE).escaped = FALSE
          /\ State(<<>>, w, FALSE, FALSE).quoted = FALSE
      BY <2>5 DEF Pushed, State
    <3> QED BY <3>1, <3>2, ChopString, Zenon
  <2>10. chop_string(s).toks = <<w>> \o chop_string(behind).toks
    <3>1. \A k \in 1 .. i - 1 : ~ Comments(s[k])
      BY <1>4, <2>3
    <3>2. i \in 1 .. Len(s) /\ ~ chop_string(SubSeq(s, 1, i - 1)).thrown
      BY <1>1, <2>3, <2>6, <2>9
    <3>3. chop_string(s).toks = chop_string(SubSeq(s, 1, i - 1)).toks
                                  \o chop_string(SubSeq(s, i + 1, Len(s))).toks
      BY <2>3, <3>1, <3>2, SplitHolds
    <3> QED BY <1>1, <2>6, <2>7, <2>9, <3>3, Zenon
  <2>11. PICK rest \in Seq(Seq(C)) : rest = chop_string(behind).toks
    <3>1. \A k \in i + 1 .. n : s[k] \in C
      BY <1>1, <2>3
    <3>2. behind \in Seq(C)
      BY <2>3, <2>7, <3>1, SubSeqProperties
    <3> QED BY <3>2, TokensType
  <2>12. chop_string(s).toks[1] = w /\ Tail(chop_string(s).toks) = rest
    <3>1. w \in Seq(C)
      <4>1. a \in 1 .. Len(s) + 1 /\ b \in a - 1 .. Len(s)
        BY <1>1, <1>4, <2>1
      <4> QED BY <2>5, <4>1, Part
    <3> QED BY <2>10, <2>11, <3>1, TailOfCons, SMTT(20)
  <2>13. trim_label(s) = SubSeq(s, i, n)
    <3>1. \A j \in 1 .. a - 1 : s[j] \in Separators
      <4>1. \A j \in 1 .. a - 1 : u[j] \in Separators /\ j \in 1 .. m
        BY <1>4, <2>1 DEF First
      <4> QED BY <1>4, <4>1
    <3>2. SelectInSeq(SubSeq(s, a, b), LAMBDA c : c = ":") = Len(SubSeq(s, a, b))
      BY <2>5, <2>12, Zenon
    <3>3. b \in 1 .. Len(s) /\ a \in 1 .. b
      BY <1>1, <1>4, <2>1
    <3>4. trim_label(s) = SubSeq(s, b + 1, Len(s))
      BY <3>1, <3>2, <3>3, FirstColon, Zenon
    <3> QED BY <1>1, <2>2, <3>4
  <2>14. PICK v : v = trim_label(s)
    OBVIOUS
  <2>15. v \in Seq(C) /\ Len(v) = n - i + 1 /\ \A k \in 1 .. n - i + 1 : v[k] = s[i + k - 1]
    <3>1. i \in 1 .. Len(s) + 1 /\ n \in i - 1 .. Len(s)
      BY <1>1, <2>3
    <3> QED BY <2>13, <2>14, <3>1, Part
  <2>16. 1 \in 1 .. Len(v) /\ v[1] \in Separators
    <3>1. 1 \in 1 .. n - i + 1 /\ i + 1 - 1 = i
      BY <1>1, <2>3
    <3> QED BY <2>3, <2>15, <3>1
  <2>17. PICK none : none = SubSeq(v, 1, 1 - 1)
    OBVIOUS
  <2>18. chop_string(none).toks = <<>> /\ chop_string(none).thrown = FALSE
    <3>1. none = <<>>
      BY <2>17, SubSeqEmpty
    <3>2. none \in Seq(C) /\ Cut(none, 0)
      BY <3>1 DEF Cut
    <3> QED BY <3>2, CutNothing, ChopNothing
  <2>19. SubSeq(v, 1 + 1, Len(v)) = behind
    <3>1. i \in 1 .. Len(s) /\ 1 + 1 = 2
      BY <1>1, <2>3
    <3>2. SubSeq(SubSeq(s, i, Len(s)), 2, Len(s) - i + 1) = SubSeq(s, i + 1, Len(s))
      BY <3>1, PartBehind
    <3> QED BY <1>1, <2>7, <2>13, <2>14, <2>15, <3>1, <3>2
  <2>20. chop_string(v).toks = <<>> \o rest
    <3>1. \A k \in 1 .. 1 - 1 : ~ Comments(v[k])
      OBVIOUS
    <3>2. ~ chop_string(SubSeq(v, 1, 1 - 1)).thrown
      BY <2>17, <2>18
    <3>3. PICK one : one = 1
      OBVIOUS
    <3>4. chop_string(v).toks = chop_string(SubSeq(v, 1, one - 1)).toks
                                  \o chop_string(SubSeq(v, one + 1, Len(v))).toks
      BY <2>15, <2>16, <3>1, <3>2, <3>3, SplitHolds
    <3> QED BY <2>11, <2>17, <2>18, <2>19, <3>3, <3>4, Zenon
  <2>21. <<>> \o rest = rest
    BY <2>11, ConcatEmptySeq
  <2> QED BY <2>12, <2>14, <2>20, <2>21
<1> QED BY <1>6, <1>7, <1>8

\* What is typed are characters of the alphabet.
TypedInv == typed \in Seq(Alphabet)

LEMMA TypedHolds ==
  Spec => []TypedInv
<1>1. Init => TypedInv
  BY DEF Init, TypedInv
<1>2. TypedInv /\ [Next]_vars => TypedInv'
  <2>1. SUFFICES ASSUME TypedInv, [Next]_vars
                 PROVE  TypedInv'
    OBVIOUS
  <2>2. ASSUME NEW c \in Alphabet, typed' = Append(typed, c)
        PROVE  TypedInv'
    BY <2>1, <2>2 DEF TypedInv
  <2>3. CASE UNCHANGED typed
    BY <2>1, <2>3 DEF TypedInv
  <2>4. CASE Escape
    BY <2>2, <2>4 DEF Escape
  <2>5. CASE \E c \in Alphabet : Type(c)
    BY <2>2, <2>5 DEF Type
  <2>6. CASE typed = <<>> /\ \E n \in 1 .. 3 : \E fields \in [1 .. n -> Fields] : range(fields)
    BY <2>3, <2>6 DEF range, readvars
  <2>7. CASE next \/ UNCHANGED vars
    BY <2>3, <2>7 DEF next, readvars, vars
  <2> QED BY <2>1, <2>4, <2>5, <2>6, <2>7 DEF Next
<1> QED BY <1>1, <1>2, PTL DEF Spec

\* chop_string and trim_label: escapes, separators and labels mean what they should.
THEOREM TokensAreRight ==
  Spec => []TokensRight
<1>1. TypedInv => EscapeRoundTrip
  <2>1. SUFFICES ASSUME TypedInv, typed # <<>>, ~ Contains(typed, ";")
                 PROVE  chop_string(FlattenSeq([i \in DOMAIN typed |-> <<"\\", typed[i]>>]))
                          = [thrown |-> FALSE, toks |-> <<typed>>]
    BY Zenon DEF EscapeRoundTrip
  <2>2. \A i \in 1 .. Len(typed) : ~ Comments(typed[i])
    BY <2>1, ContainsComment, Zenon
  <2> QED BY <2>1, <2>2, EscapedWhole, Zenon DEF TypedInv
<1>2. TypedInv => ChopSplits
  <2>1. SUFFICES ASSUME TypedInv, NEW i \in DOMAIN typed, typed[i] \in Separators,
                        ~ Contains(SubSeq(typed, 1, i - 1), ";"),
                        ~ chop_string(SubSeq(typed, 1, i - 1)).thrown
                 PROVE  chop_string(typed) =
                          [thrown |-> chop_string(SubSeq(typed, i + 1, Len(typed))).thrown,
                           toks |-> chop_string(SubSeq(typed, 1, i - 1)).toks
                                      \o chop_string(SubSeq(typed, i + 1, Len(typed))).toks]
    BY Zenon DEF ChopSplits
  <2>2. typed \in Seq(Alphabet) /\ i \in 1 .. Len(typed)
    BY <2>1, LenProperties DEF TypedInv
  <2>3. \A k \in 1 .. i - 1 : ~ Comments(typed[k])
    <3>1. PICK v : v = SubSeq(typed, 1, i - 1)
      OBVIOUS
    <3>2. Len(v) = i - 1 /\ \A k \in 1 .. i - 1 : v[k] = typed[k]
      BY <2>2, <3>1, Part
    <3>3. \A k \in 1 .. Len(v) : ~ Comments(v[k])
      BY <2>1, <3>1, ContainsComment, Zenon
    <3> QED BY <3>2, <3>3
  <2>4. /\ chop_string(typed).thrown = chop_string(SubSeq(typed, i + 1, Len(typed))).thrown
        /\ chop_string(typed).toks = chop_string(SubSeq(typed, 1, i - 1)).toks
                                       \o chop_string(SubSeq(typed, i + 1, Len(typed))).toks
    BY <2>1, <2>2, <2>3, SplitHolds
  <2>5. chop_string(typed) = [thrown |-> chop_string(typed).thrown, toks |-> chop_string(typed).toks]
    BY ChopString, Zenon
  <2> QED BY <2>4, <2>5, Zenon
<1>3. TypedInv => LabelTrimmed
  <2>1. SUFFICES ASSUME TypedInv,
                        \A i \in DOMAIN typed : typed[i] \notin Quotes \cup {"\\"},
                        chop_string(typed).toks # <<>>,
                        SelectInSeq(chop_string(typed).toks[1], LAMBDA c : c = ":")
                          = Len(chop_string(typed).toks[1])
                 PROVE  chop_string(trim_label(typed)).toks = Tail(chop_string(typed).toks)
    BY Zenon DEF LabelTrimmed
  <2>2. typed \in Seq(Alphabet) /\ DOMAIN typed = 1 .. Len(typed)
    BY <2>1, LenProperties DEF TypedInv
  <2>3. \A i \in 1 .. Len(typed) : typed[i] \notin Quotes \cup {"\\"}
    BY <2>1, <2>2, Zenon
  <2> QED BY <2>1, <2>2, <2>3, LabelHolds, Zenon
<1>4. TypedInv => TokensRight
  BY <1>1, <1>2, <1>3, Zenon DEF TokensRight
<1> QED BY <1>4, TypedHolds, PTL

-----------------------------------------------------------------------------
(* Numbers.                                                                *)

\* The powers of the base.
IsMultiplier(m, base) ==
  m = [itr \in Nat |-> IF itr = 0 THEN 1 ELSE (m[itr - 1] * base) % Values]

IsPowers(h, n, base) ==
  h \in [0 .. n -> Nat] /\ h[0] = 1 /\ \A k \in 1 .. n : h[k] = (h[k - 1] * base) % Values

LEMMA PowersExist ==
  ASSUME NEW base \in Nat, NEW n \in Nat
  PROVE  \E h : IsPowers(h, n, base)
<1> DEFINE op == [p \in Nat \X (1 .. n) |-> (p[1] * base) % Values]
<1>1. op \in [Nat \X (1 .. n) -> Nat]
  <2>1. ASSUME NEW a \in Nat
        PROVE  (a * base) % Values \in Nat
    <3>1. PICK x \in Nat : x = a * base
      OBVIOUS
    <3>2. x % Values \in 0 .. Values - 1
      BY TextAssumption, Division
    <3>3. 0 .. Values - 1 \subseteq Nat
      BY TextAssumption
    <3> QED BY <3>1, <3>2, <3>3
  <2>2. ASSUME NEW p \in Nat \X (1 .. n)
        PROVE  (p[1] * base) % Values \in Nat
    <3>1. p[1] \in Nat
      OBVIOUS
    <3> QED BY <2>1, <3>1
  <2> QED BY <2>2
<1>2. \A a \in Nat, k \in 1 .. n : op[<<a, k>>] = (a * base) % Values
  OBVIOUS
<1> HIDE DEF op
<1>3. PICK h \in [0 .. n -> Nat] : IsRun(h, n, 1, op)
  <2>1. 1 \in Nat
    OBVIOUS
  <2> QED BY <1>1, <2>1, RunExists
<1>4. ASSUME NEW k \in 1 .. n
      PROVE  h[k] = (h[k - 1] * base) % Values
  <2>1. h[k - 1] \in Nat
    OBVIOUS
  <2> QED BY <1>2, <1>3, <2>1 DEF IsRun
<1> QED BY <1>3, <1>4 DEF IsRun, IsPowers

LEMMA PowersAgree ==
  ASSUME NEW base \in Nat, NEW n \in Nat, NEW m \in n .. n + 1, NEW g, NEW h,
         IsPowers(g, n, base), IsPowers(h, m, base)
  PROVE  g[n] = h[n]
<1> DEFINE T == {k \in 0 .. n : g[k] = h[k]}
<1>1. 0 \in T
  BY DEF IsPowers
<1>2. ASSUME NEW k \in 1 .. n, k - 1 \in T
      PROVE  k \in T
  <2>1. k \in 1 .. m
    OBVIOUS
  <2>2. g[k] = (g[k - 1] * base) % Values
    BY DEF IsPowers
  <2>3. h[k] = (h[k - 1] * base) % Values
    BY <2>1 DEF IsPowers
  <2>4. g[k] = h[k]
    BY <1>2, <2>2, <2>3
  <2> QED BY <2>4
<1> HIDE DEF T
<1>3. 0 .. n \subseteq T
  BY <1>1, <1>2, BoundedInduction
<1>4. n \in T
  BY <1>3
<1> QED BY <1>4 DEF T

LEMMA MultiplierIs ==
  ASSUME NEW base \in Nat
  PROVE  /\ multiplier(base) \in [Nat -> Nat] /\ multiplier(base)[0] = 1
         /\ \A k \in Nat : multiplier(base)[k + 1] = (multiplier(base)[k] * base) % Values
<1> DEFINE row(k) == CHOOSE h : IsPowers(h, k, base)
           m == [k \in Nat |-> row(k)[k]]
<1>1. \A k \in Nat : IsPowers(row(k), k, base)
  BY PowersExist
<1> HIDE DEF row
<1>2. m \in [Nat -> Nat] /\ m[0] = 1
  BY <1>1 DEF IsPowers
<1>3. ASSUME NEW k \in Nat
      PROVE  m[k + 1] = (m[k] * base) % Values
  <2>1. k + 1 \in Nat /\ k + 1 \in k .. k + 1 /\ k + 1 \in 1 .. k + 1 /\ (k + 1) - 1 = k
    OBVIOUS
  <2>2. row(k + 1)[k + 1] = (row(k + 1)[k] * base) % Values
    BY <1>1, <2>1 DEF IsPowers
  <2>3. row(k)[k] = row(k + 1)[k]
    BY <1>1, <2>1, PowersAgree
  <2> QED BY <2>1, <2>2, <2>3
<1>4. IsMultiplier(m, base)
  <2>1. ASSUME NEW itr \in Nat
        PROVE  m[itr] = IF itr = 0 THEN 1 ELSE (m[itr - 1] * base) % Values
    <3>1. CASE itr = 0
      BY <1>2, <3>1
    <3>2. CASE itr # 0
      <4>1. itr - 1 \in Nat /\ (itr - 1) + 1 = itr
        BY <3>2
      <4> HIDE DEF m
      <4> QED BY <1>3, <3>2, <4>1
    <3> QED BY <3>1, <3>2
  <2>2. m = [itr \in Nat |-> m[itr]]
    OBVIOUS
  <2> HIDE DEF m
  <2> QED BY <2>1, <2>2 DEF IsMultiplier
<1> HIDE DEF m
<1>5. multiplier(base) = CHOOSE f : IsMultiplier(f, base)
  BY DEF multiplier, IsMultiplier
<1>6. PICK f : f = multiplier(base) /\ IsMultiplier(f, base)
  BY <1>4, <1>5
<1>7. DOMAIN f = Nat /\ f[0] = 1 /\ \A k \in Nat \ {0} : f[k] = (f[k - 1] * base) % Values
  BY <1>6 DEF IsMultiplier
<1>8. \A k \in Nat : f[k + 1] = (f[k] * base) % Values
  <2>1. \A k \in Nat : k + 1 \in Nat \ {0} /\ (k + 1) - 1 = k
    OBVIOUS
  <2> QED BY <1>7, <2>1
<1> DEFINE T == {k \in Nat : f[k] = m[k]}
<1>9. 0 \in T
  BY <1>2, <1>7
<1>10. \A k \in Nat : k \in T => k + 1 \in T
  BY <1>3, <1>8
<1> HIDE DEF T
<1>11. Nat \subseteq T
  BY <1>9, <1>10, SetInduction
<1>12. \A k \in Nat : f[k] = m[k]
  BY <1>11 DEF T
<1>13. f = [k \in Nat |-> f[k]]
  BY <1>6 DEF IsMultiplier
<1>14. f \in [Nat -> Nat]
  BY <1>2, <1>12, <1>13
<1> QED BY <1>6, <1>7, <1>8, <1>14

LEMMA DigitValue ==
  ASSUME NEW c, IsDigit(c)
  PROVE  get_digit_value(c) \in 0 .. 15 /\ Digits[get_digit_value(c) + 1] = Lower(c)
BY Zenon DEF IsDigit, get_digit_value

\* What is added for the i-th digit.
Added(digits, base, ret, i) ==
  (ret + get_digit_value(digits[i]) * multiplier(base)[i - 1]) % Values

Places(s) == [i \in DOMAIN s |-> i]

IsSum(f, digits, base) ==
  f = [t \in SUBSET DOMAIN Places(digits) |->
         IF t = {} THEN 0 ELSE Added(digits, base, f[t \ {Max(t)}], Places(digits)[Max(t)])]

LEMMA SumDef ==
  ASSUME NEW digits, NEW base
  PROVE  Sum(digits, base) = (CHOOSE f : IsSum(f, digits, base))[DOMAIN Places(digits)]
BY DEF Sum, FoldLeftDomain, FoldLeft, MapThenFoldSet, IsSum, Added, Places

LEMMA SumRuns ==
  ASSUME NEW C, NEW digits \in Seq(C), NEW base \in Nat, \A i \in 1 .. Len(digits) : IsDigit(digits[i])
  PROVE  \E r \in [0 .. Len(digits) -> Int] :
           /\ r[0] = 0 /\ \A k \in 1 .. Len(digits) : r[k] = Added(digits, base, r[k - 1], k)
           /\ Sum(digits, base) = r[Len(digits)]
<1>1. PICK n \in Nat : n = Len(digits) /\ DOMAIN digits = 1 .. n
  BY LenProperties
<1>2. DOMAIN Places(digits) = 1 .. n /\ \A i \in 1 .. n : Places(digits)[i] = i
  BY <1>1 DEF Places
<1>3. ASSUME NEW x \in Int, NEW i \in 1 .. n
      PROVE  Added(digits, base, x, i) \in Int
  <2>1. get_digit_value(digits[i]) \in Int
    BY <1>1, DigitValue
  <2>2. i - 1 \in Nat
    OBVIOUS
  <2>3. multiplier(base)[i - 1] \in Nat
    BY <2>2, MultiplierIs
  <2>4. PICK y \in Int : y = x + get_digit_value(digits[i]) * multiplier(base)[i - 1]
    BY <2>1, <2>3
  <2>5. y % Values \in Int
    BY TextAssumption, Division
  <2> QED BY <2>4, <2>5 DEF Added
<1> DEFINE op == [p \in Int \X (1 .. n) |-> Added(digits, base, p[1], p[2])]
<1>4. op \in [Int \X (1 .. n) -> Int] /\ 0 \in Int
  BY <1>3
<1>5. \A x \in Int, i \in 1 .. n : op[<<x, i>>] = Added(digits, base, x, i)
  OBVIOUS
<1> HIDE DEF op
<1>6. PICK g \in [SUBSET (1 .. n) -> Int] : IsFold(g, n, 0, op)
  BY <1>4, FoldExists
<1>7. ASSUME NEW t \in SUBSET (1 .. n), t # {}
      PROVE  op[<<g[t \ {Max(t)}], Max(t)>>]
               = Added(digits, base, g[t \ {Max(t)}], Places(digits)[Max(t)])
  <2>1. Max(t) \in 1 .. n
    BY <1>7, GreatestOne
  <2>2. g[t \ {Max(t)}] \in Int
    OBVIOUS
  <2> QED BY <1>2, <1>5, <2>1, <2>2
<1>8. IsSum(g, digits, base)
  BY <1>2, <1>6, <1>7 DEF IsSum, IsFold
<1>9. PICK f : IsSum(f, digits, base) /\ Sum(digits, base) = f[1 .. n]
  BY <1>2, <1>8, SumDef
<1> DEFINE r == [k \in 0 .. n |-> f[1 .. k]]
<1>10. \A k \in 0 .. n : r[k] = f[1 .. k]
  OBVIOUS
<1>11. r[0] = 0
  <2>1. 1 .. 0 = {} /\ {} \in SUBSET (1 .. n) /\ 0 \in 0 .. n
    OBVIOUS
  <2>2. f[{}] = 0
    BY <1>2, <1>9, <2>1 DEF IsSum
  <2> QED BY <1>10, <2>1, <2>2
<1>12. ASSUME NEW k \in 1 .. n
       PROVE  r[k] = Added(digits, base, r[k - 1], k)
  <2>1. k \in 0 .. n /\ k - 1 \in 0 .. n /\ k \in Nat /\ k # 0
    OBVIOUS
  <2>2. Max(1 .. k) = k /\ (1 .. k) \ {k} = 1 .. k - 1 /\ 1 .. k # {}
    BY <2>1, Initial
  <2>3. 1 .. k \in SUBSET (1 .. n)
    OBVIOUS
  <2>4. f[1 .. k] = Added(digits, base, f[(1 .. k) \ {Max(1 .. k)}], Places(digits)[Max(1 .. k)])
    BY <1>2, <1>9, <2>2, <2>3 DEF IsSum
  <2> HIDE DEF r
  <2> QED BY <1>2, <1>10, <2>1, <2>2, <2>4
<1>13. r = [k \in 0 .. n |-> r[k]]
  OBVIOUS
<1> HIDE DEF r
<1> DEFINE T == {k \in 0 .. n : r[k] \in Int}
<1>14. 0 \in T
  BY <1>11
<1>15. ASSUME NEW k \in 1 .. n, k - 1 \in T
       PROVE  k \in T
  <2>1. r[k - 1] \in Int /\ k \in 0 .. n
    BY <1>15
  <2>2. r[k] \in Int
    BY <1>3, <1>12, <2>1
  <2> QED BY <2>1, <2>2
<1> HIDE DEF T
<1>16. 0 .. n \subseteq T
  BY <1>14, <1>15, BoundedInduction
<1>17. r \in [0 .. n -> Int]
  BY <1>13, <1>16 DEF T
<1>18. Sum(digits, base) = r[n]
  BY <1>9, <1>10
<1> QED BY <1>1, <1>11, <1>12, <1>17, <1>18

\* Reading digit by digit.
Read(s, base, n, i) == n * base + get_digit_value(s[i])
Reading(s, base) == FoldLeft(LAMBDA n, c : n * base + get_digit_value(c), 0, s)

IsReading(f, s, base) ==
  f = [t \in SUBSET DOMAIN s |-> IF t = {} THEN 0 ELSE Read(s, base, f[t \ {Max(t)}], Max(t))]

LEMMA ReadingDef ==
  ASSUME NEW s, NEW base
  PROVE  Reading(s, base) = (CHOOSE f : IsReading(f, s, base))[DOMAIN s]
BY DEF Reading, FoldLeft, MapThenFoldSet, IsReading, Read

LEMMA ReadingRuns ==
  ASSUME NEW C, NEW s \in Seq(C), NEW base \in Nat, \A i \in 1 .. Len(s) : IsDigit(s[i])
  PROVE  \E r \in [0 .. Len(s) -> Int] :
           /\ r[0] = 0 /\ \A k \in 1 .. Len(s) : r[k] = Read(s, base, r[k - 1], k)
           /\ Reading(s, base) = r[Len(s)]
<1>1. PICK n \in Nat : n = Len(s) /\ DOMAIN s = 1 .. n
  BY LenProperties
<1>2. ASSUME NEW x \in Int, NEW i \in 1 .. n
      PROVE  Read(s, base, x, i) \in Int
  <2>1. get_digit_value(s[i]) \in Int
    BY <1>1, DigitValue
  <2> QED BY <2>1 DEF Read
<1> DEFINE op == [p \in Int \X (1 .. n) |-> Read(s, base, p[1], p[2])]
<1>3. op \in [Int \X (1 .. n) -> Int] /\ 0 \in Int
  BY <1>2
<1>4. \A x \in Int, i \in 1 .. n : op[<<x, i>>] = Read(s, base, x, i)
  OBVIOUS
<1> HIDE DEF op
<1>5. PICK g \in [SUBSET (1 .. n) -> Int] : IsFold(g, n, 0, op)
  BY <1>3, FoldExists
<1>6. ASSUME NEW t \in SUBSET (1 .. n), t # {}
      PROVE  op[<<g[t \ {Max(t)}], Max(t)>>] = Read(s, base, g[t \ {Max(t)}], Max(t))
  <2>1. Max(t) \in 1 .. n
    BY <1>6, GreatestOne
  <2>2. g[t \ {Max(t)}] \in Int
    OBVIOUS
  <2> QED BY <1>4, <2>1, <2>2
<1>7. IsReading(g, s, base)
  BY <1>1, <1>5, <1>6 DEF IsReading, IsFold
<1>8. PICK f : IsReading(f, s, base) /\ Reading(s, base) = f[1 .. n]
  BY <1>1, <1>7, ReadingDef
<1> DEFINE r == [k \in 0 .. n |-> f[1 .. k]]
<1>9. \A k \in 0 .. n : r[k] = f[1 .. k]
  OBVIOUS
<1>10. r[0] = 0
  <2>1. 1 .. 0 = {} /\ {} \in SUBSET (1 .. n) /\ 0 \in 0 .. n
    OBVIOUS
  <2>2. f[{}] = 0
    BY <1>1, <1>8, <2>1 DEF IsReading
  <2> QED BY <1>9, <2>1, <2>2
<1>11. ASSUME NEW k \in 1 .. n
       PROVE  r[k] = Read(s, base, r[k - 1], k)
  <2>1. k \in 0 .. n /\ k - 1 \in 0 .. n /\ k \in Nat /\ k # 0
    OBVIOUS
  <2>2. Max(1 .. k) = k /\ (1 .. k) \ {k} = 1 .. k - 1 /\ 1 .. k # {}
    BY <2>1, Initial
  <2>3. 1 .. k \in SUBSET (1 .. n)
    OBVIOUS
  <2>4. f[1 .. k] = Read(s, base, f[(1 .. k) \ {Max(1 .. k)}], Max(1 .. k))
    BY <1>1, <1>8, <2>2, <2>3 DEF IsReading
  <2> HIDE DEF r
  <2> QED BY <1>9, <2>1, <2>2, <2>4
<1>12. r = [k \in 0 .. n |-> r[k]]
  OBVIOUS
<1> HIDE DEF r
<1> DEFINE T == {k \in 0 .. n : r[k] \in Int}
<1>13. 0 \in T
  BY <1>10
<1>14. ASSUME NEW k \in 1 .. n, k - 1 \in T
       PROVE  k \in T
  <2>1. r[k - 1] \in Int /\ k \in 0 .. n
    BY <1>14
  <2>2. r[k] \in Int
    BY <1>2, <1>11, <2>1
  <2> QED BY <2>1, <2>2
<1> HIDE DEF T
<1>15. 0 .. n \subseteq T
  BY <1>13, <1>14, BoundedInduction
<1>16. r \in [0 .. n -> Int]
  BY <1>12, <1>15 DEF T
<1>17. Reading(s, base) = r[n]
  BY <1>8, <1>9
<1> QED BY <1>1, <1>10, <1>11, <1>16, <1>17

\* The sum of the digits, each with its power, is what reading them gives.
LEMMA SumIsReading ==
  ASSUME NEW C, NEW s \in Seq(C), NEW base \in Nat, \A i \in 1 .. Len(s) : IsDigit(s[i])
  PROVE  /\ Reading(s, base) \in Int
         /\ Sum(Reverse(s), base) = Reading(s, base) % Values
<1>1. PICK n \in Nat : n = Len(s)
  BY LenProperties
<1>2. PICK d : d = Reverse(s)
  OBVIOUS
<1>3. d \in Seq(C) /\ Len(d) = n /\ \A i \in 1 .. n : d[i] = s[n - i + 1]
  BY <1>1, <1>2, ReverseIs
<1>4. \A i \in 1 .. n : IsDigit(d[i])
  <2>1. \A i \in 1 .. n : n - i + 1 \in 1 .. n
    OBVIOUS
  <2> QED BY <1>1, <1>3, <2>1
<1>5. PICK r \in [0 .. n -> Int] :
        /\ r[0] = 0 /\ \A k \in 1 .. n : r[k] = Added(d, base, r[k - 1], k)
        /\ Sum(d, base) = r[n]
  BY <1>3, <1>4, SumRuns
<1>6. PICK g \in [0 .. n -> Int] :
        /\ g[0] = 0 /\ \A k \in 1 .. n : g[k] = Read(s, base, g[k - 1], k)
        /\ Reading(s, base) = g[n]
  BY <1>1, ReadingRuns
<1>7. PICK M : M = multiplier(base)
  OBVIOUS
<1>8. M \in [Nat -> Nat] /\ M[0] = 1 /\ \A k \in Nat : M[k + 1] = (M[k] * base) % Values
  BY <1>7, MultiplierIs
<1>9. Values \in Nat \ {0} /\ Values \in Int
  BY TextAssumption
<1> DEFINE Agree(k) == \E q \in Int : g[n - k] * M[k] + r[k] = g[n] + Values * q
           T == {k \in 0 .. n : Agree(k)}
<1>10. 0 \in T
  <2>1. g[n] \in Int /\ n - 0 = n /\ 0 \in 0 .. n
    OBVIOUS
  <2>2. g[n] * 1 + 0 = g[n] + Values * 0
    BY <1>9, <2>1
  <2> QED BY <1>5, <1>8, <2>1, <2>2
<1>11. ASSUME NEW k \in 1 .. n, k - 1 \in T
       PROVE  k \in T /\ r[k] \in 0 .. Values - 1
  <2>1. PICK q \in Int : g[n - (k - 1)] * M[k - 1] + r[k - 1] = g[n] + Values * q
    BY <1>11
  <2>2. PICK j \in 1 .. n : j = n - k + 1 /\ n - (k - 1) = j /\ j - 1 = n - k
    OBVIOUS
  <2>3. PICK v \in Int : v = get_digit_value(s[j])
    <3>1. get_digit_value(s[j]) \in 0 .. 15
      BY <1>1, DigitValue
    <3> QED BY <3>1
  <2>4. g[j] = g[n - k] * base + v
    BY <1>6, <2>2, <2>3 DEF Read
  <2>5. d[k] = s[j]
    BY <1>3, <2>2
  <2>6. r[k] = (r[k - 1] + v * M[k - 1]) % Values
    BY <1>5, <1>7, <2>3, <2>5 DEF Added
  <2>7. k - 1 \in Nat /\ (k - 1) + 1 = k /\ k \in 0 .. n /\ n - k \in 0 .. n /\ k - 1 \in 0 .. n
    OBVIOUS
  <2>8. PICK m \in Int : m = M[k - 1] /\ M[k] = (m * base) % Values
    <3>1. PICK h \in Nat : h = k - 1 /\ h + 1 = k
      BY <2>7
    <3>2. M[h] \in Nat /\ M[h + 1] = (M[h] * base) % Values
      BY <1>8
    <3> QED BY <3>1, <3>2
  <2>9. PICK G \in Int : G = g[n - k]
    BY <2>7
  <2>10. PICK o \in Int : o = r[k - 1]
    BY <2>7
  <2>11. PICK x \in Int : x = m * base
    OBVIOUS
  <2>12. PICK p \in Int : x = Values * p + M[k]
    <3>1. x \div Values \in Int /\ x = Values * (x \div Values) + (x % Values)
      BY <1>9, Division
    <3> QED BY <2>8, <2>11, <3>1
  <2>13. PICK y \in Int : y = o + v * m
    OBVIOUS
  <2>14. r[k] = y % Values
    BY <2>6, <2>8, <2>10, <2>13
  <2>15. PICK t \in Int : y = Values * t + r[k] /\ r[k] \in 0 .. Values - 1
    <3>1. /\ y \div Values \in Int /\ y = Values * (y \div Values) + (y % Values)
          /\ y % Values \in 0 .. Values - 1
      BY <1>9, Division
    <3> QED BY <2>14, <3>1
  <2>16. (G * base + v) * m + o = g[n] + Values * q
    BY <2>1, <2>2, <2>4, <2>8, <2>9, <2>10
  <2>17. PICK rr \in Int, mm \in Int, z \in Int : rr = r[k] /\ mm = M[k] /\ z = g[n]
    <3>1. k \in Nat /\ n \in 0 .. n
      OBVIOUS
    <3>2. M[k] \in Nat
      BY <1>8, <3>1
    <3>3. r[k] \in Int /\ g[n] \in Int
      BY <2>7, <3>1
    <3> QED BY <3>2, <3>3
  <2>18. base \in Int
    OBVIOUS
  <2>19. /\ (G * base + v) * m + o = z + Values * q /\ m * base = Values * p + mm
          /\ o + v * m = Values * t + rr
    BY <2>11, <2>12, <2>13, <2>15, <2>16, <2>17
  <2>20. G * mm + rr = z + Values * (q - G * p - t)
    <3>1. PICK W \in Int : W = Values
      BY <1>9
    <3>2. /\ (G * base + v) * m + o = z + W * q /\ m * base = W * p + mm
          /\ o + v * m = W * t + rr
      BY <2>19, <3>1
    <3>3. G * (m * base) = G * (W * p) + G * mm
      <4>1. PICK c \in Int : c = W * p
        OBVIOUS
      <4> QED BY <3>2, <4>1
    <3>4. (G * base + v) * m = G * (m * base) + v * m
      BY <2>18
    <3>5. G * (W * p) = W * (G * p)
      OBVIOUS
    <3>6. W * (q - G * p - t) = W * q - W * (G * p) - W * t
      OBVIOUS
    <3>7. PICK a \in Int, b \in Int, c \in Int, e \in Int, f \in Int, h \in Int, l \in Int :
            /\ a = G * (m * base) /\ b = v * m /\ c = W * (G * p) /\ e = W * q /\ f = W * t
            /\ h = G * mm /\ l = W * (q - G * p - t)
      BY <2>18
    <3>8. a = c + h /\ l = e - c - f /\ (a + b) + o = z + e /\ o + b = f + rr
      BY <3>2, <3>3, <3>4, <3>5, <3>6, <3>7
    <3>9. h + rr = z + l
      BY <3>8
    <3> QED BY <3>1, <3>7, <3>9
  <2>21. PICK u \in Int : u = q - G * p - t
    OBVIOUS
  <2>22. Agree(k)
    BY <2>9, <2>17, <2>20, <2>21
  <2> QED BY <2>7, <2>15, <2>22
<1> HIDE DEF T
<1>12. 0 .. n \subseteq T
  BY <1>10, <1>11, BoundedInduction
<1>13. r[n] \in 0 .. Values - 1
  <2>1. CASE n = 0
    BY <1>5, <1>9, <2>1
  <2>2. CASE n # 0
    <3>1. n \in 1 .. n /\ n - 1 \in T
      BY <1>12, <2>2
    <3> QED BY <1>11, <3>1
  <2> QED BY <2>1, <2>2
<1>14. PICK q \in Int : g[n - n] * M[n] + r[n] = g[n] + Values * q
  <2>1. n \in T
    BY <1>12
  <2> QED BY <2>1 DEF T
<1>15. g[n] \in Int /\ r[n] \in Int
  OBVIOUS
<1>16. r[n] = g[n] + Values * q
  <2>1. n - n = 0 /\ M[n] \in Int /\ 0 * M[n] = 0
    BY <1>8
  <2> QED BY <1>6, <1>14, <1>15, <2>1
<1>17. r[n] % Values = g[n] % Values
  BY <1>9, <1>15, <1>16, Congruence
<1>18. r[n] % Values = r[n]
  <2>1. PICK x \in 0 .. Values - 1 : x = r[n]
    BY <1>13
  <2>2. PICK zero \in Int : zero = 0
    OBVIOUS
  <2>3. (Values * zero + x) % Values = x
    BY <1>9, <2>1, DivisionUnique
  <2>4. Values * zero + x = x
    BY <1>9, <2>2
  <2> QED BY <2>1, <2>3, <2>4
<1> QED BY <1>2, <1>5, <1>6, <1>15, <1>17, <1>18

LEMMA PrefixTaken ==
  ASSUME NEW C, NEW s \in Seq(C), NEW D, NEW p \in Seq(D)
  PROVE  has_prefix(s, p) \in Seq(C)
<1>1. PICK n \in Nat : n = Len(s)
  BY LenProperties
<1>2. PICK m \in Nat : m = Len(p)
  BY LenProperties
<1>3. CASE m < n
  <2>1. m + 1 \in 1 .. n + 1 /\ n \in m + 1 - 1 .. n
    BY <1>3
  <2>2. SubSeq(s, m + 1, n) \in Seq(C)
    BY <1>1, <2>1, SubSeqProperties
  <2> QED BY <1>1, <1>2, <2>2 DEF has_prefix
<1>4. CASE ~ m < n
  BY <1>1, <1>2, <1>4 DEF has_prefix
<1> QED BY <1>3, <1>4

LEMMA NumberParts ==
  ASSUME NEW C, NEW s \in Seq(C), s # <<>>
  PROVE  Base(s) \in {8, 10, 16} /\ Magnitude(s) \in Seq(C)
<1>1. Base(s) \in {8, 10, 16}
  BY DEF Base
<1>2. has_prefix(s, <<"0", "x">>) \in Seq(C) /\ has_prefix(s, <<"o">>) \in Seq(C)
  <2>1. <<"0", "x">> \in Seq({"0", "o", "x"}) /\ <<"o">> \in Seq({"0", "o", "x"})
    OBVIOUS
  <2> QED BY <2>1, PrefixTaken
<1>3. Unprefixed(s) \in Seq(C) /\ Unprefixed(s) # <<>>
  <2>1. CASE Base(s) = 16
    BY <1>2, <2>1 DEF Base, Unprefixed
  <2>2. CASE Base(s) = 8
    BY <1>2, <2>2 DEF Base, Unprefixed
  <2>3. CASE Base(s) = 10
    BY <1>2, <2>3 DEF Unprefixed
  <2> QED BY <1>1, <2>1, <2>2, <2>3
<1>4. Magnitude(s) \in Seq(C)
  <2>1. PICK u : u = Unprefixed(s)
    OBVIOUS
  <2>2. Tail(u) \in Seq(C)
    BY <1>3, <2>1
  <2> QED BY <1>3, <2>1, <2>2 DEF Magnitude
<1> QED BY <1>1, <1>4

LEMMA NumericHolds ==
  TypedInv => NumericExact
<1>1. SUFFICES ASSUME typed \in Seq(Alphabet), ~ BadImm(typed)
               PROVE  numeric_interpret(typed) =
                        (IF Negative(typed) THEN - Reading(Magnitude(typed), Base(typed))
                                            ELSE Reading(Magnitude(typed), Base(typed))) % Values
  BY Zenon DEF TypedInv, NumericExact, Reading
<1>2. typed # <<>>
  BY <1>1 DEF BadImm
<1>3. PICK m : m = Magnitude(typed)
  OBVIOUS
<1>4. PICK b : b = Base(typed)
  OBVIOUS
<1>5. m \in Seq(Alphabet) /\ b \in Nat
  BY <1>1, <1>2, <1>3, <1>4, NumberParts
<1>6. \A i \in 1 .. Len(m) : IsDigit(m[i])
  <2>1. DOMAIN m = 1 .. Len(m)
    BY <1>5, LenProperties
  <2> QED BY <1>1, <1>3, <2>1, Zenon DEF BadImm
<1>7. PICK w \in Nat \ {0} : w = Values
  BY TextAssumption
<1>8. PICK v \in Int : v = Reading(m, b) /\ Sum(Reverse(m), b) = v % w
  BY <1>5, <1>6, <1>7, SumIsReading
<1>9. CASE ~ Negative(typed)
  BY <1>3, <1>4, <1>7, <1>8, <1>9 DEF numeric_interpret
<1>10. CASE Negative(typed)
  <2>1. v \div w \in Int /\ v % w \in 0 .. w - 1 /\ v = w * (v \div w) + (v % w)
    BY Division
  <2>2. PICK q \in Int, r \in Int : q = v \div w /\ r = v % w
    BY <2>1
  <2>3. - r = - v + w * q /\ - r \in Int /\ - v \in Int
    BY <2>1, <2>2
  <2>4. (- r) % w = (- v) % w
    BY <2>3, Congruence
  <2> QED BY <1>3, <1>4, <1>7, <1>8, <1>10, <2>2, <2>4 DEF numeric_interpret
<1> QED BY <1>9, <1>10

\* What the fold of Inked does with the i-th character.
Ink(s, t, i) == IF s[i] \in White THEN t ELSE Append(t, s[i])

IsInked(f, s) ==
  f = [t \in SUBSET DOMAIN s |-> IF t = {} THEN <<>> ELSE Ink(s, f[t \ {Max(t)}], Max(t))]

LEMMA InkedDef ==
  ASSUME NEW s
  PROVE  Inked(s) = (CHOOSE f : IsInked(f, s))[DOMAIN s]
BY DEF Inked, FoldLeft, MapThenFoldSet, IsInked, Ink

LEMMA InkedType ==
  ASSUME NEW C, NEW s \in Seq(C)
  PROVE  Inked(s) \in Seq(C)
<1>1. PICK n \in Nat : n = Len(s) /\ DOMAIN s = 1 .. n
  BY LenProperties
<1>2. ASSUME NEW t \in Seq(C), NEW i \in 1 .. n
      PROVE  Ink(s, t, i) \in Seq(C)
  <2>1. s[i] \in C
    BY <1>1
  <2>2. PICK c \in C : c = s[i]
    BY <2>1
  <2>3. Append(t, c) \in Seq(C)
    OBVIOUS
  <2> QED BY <2>2, <2>3 DEF Ink
<1> DEFINE op == [p \in Seq(C) \X (1 .. n) |-> Ink(s, p[1], p[2])]
<1>3. op \in [Seq(C) \X (1 .. n) -> Seq(C)] /\ <<>> \in Seq(C)
  <2>1. ASSUME NEW p \in Seq(C) \X (1 .. n)
        PROVE  Ink(s, p[1], p[2]) \in Seq(C)
    <3>1. p[1] \in Seq(C) /\ p[2] \in 1 .. n
      OBVIOUS
    <3> QED BY <1>2, <3>1
  <2> QED BY <2>1
<1>4. \A t \in Seq(C), i \in 1 .. n : op[<<t, i>>] = Ink(s, t, i)
  OBVIOUS
<1> HIDE DEF op
<1>5. PICK g \in [SUBSET (1 .. n) -> Seq(C)] : IsFold(g, n, <<>>, op)
  BY <1>3, FoldExists
<1>6. ASSUME NEW t \in SUBSET (1 .. n), t # {}
      PROVE  op[<<g[t \ {Max(t)}], Max(t)>>] = Ink(s, g[t \ {Max(t)}], Max(t))
  <2>1. Max(t) \in 1 .. n
    BY <1>6, GreatestOne
  <2>2. g[t \ {Max(t)}] \in Seq(C)
    OBVIOUS
  <2> QED BY <1>4, <2>1, <2>2
<1>7. IsInked(g, s)
  BY <1>1, <1>5, <1>6 DEF IsInked, IsFold
<1>8. PICK f : IsInked(f, s) /\ Inked(s) = f[1 .. n]
  BY <1>1, <1>7, InkedDef
<1> DEFINE T == {k \in 0 .. n : f[1 .. k] \in Seq(C)}
<1>9. 0 \in T
  <2>1. 1 .. 0 = {} /\ {} \in SUBSET (1 .. n) /\ 0 \in 0 .. n
    OBVIOUS
  <2>2. f[{}] = <<>>
    BY <1>1, <1>8, <2>1 DEF IsInked
  <2> QED BY <1>3, <2>1, <2>2
<1>10. ASSUME NEW k \in 1 .. n, k - 1 \in T
       PROVE  k \in T
  <2>1. k \in 0 .. n /\ k \in Nat /\ k # 0 /\ 1 .. k \in SUBSET (1 .. n)
    OBVIOUS
  <2>2. Max(1 .. k) = k /\ (1 .. k) \ {k} = 1 .. k - 1 /\ 1 .. k # {}
    BY <2>1, Initial
  <2>3. f[1 .. k] = Ink(s, f[1 .. k - 1], k)
    BY <1>1, <1>8, <2>1, <2>2 DEF IsInked
  <2>4. f[1 .. k] \in Seq(C)
    BY <1>2, <1>10, <2>3
  <2> QED BY <2>1, <2>4
<1> HIDE DEF T
<1>11. 0 .. n \subseteq T
  BY <1>9, <1>10, BoundedInduction
<1>12. n \in T
  BY <1>11
<1> QED BY <1>8, <1>12 DEF T

\* A lower case digit is its own value's digit.
LEMMA HexDigit ==
  ASSUME NEW c, isHex(c)
  PROVE  get_digit_value(c) \in 0 .. 15 /\ Digits[get_digit_value(c) + 1] = c
<1>1. Lower(c) = c
  <2>1. PICK n \in 0 .. 15 : Digits[n + 1] = c
    BY DEF isHex
  <2>2. n = 0 \/ n = 1 \/ n = 2 \/ n = 3 \/ n = 4 \/ n = 5 \/ n = 6 \/ n = 7
        \/ n = 8 \/ n = 9 \/ n = 10 \/ n = 11 \/ n = 12 \/ n = 13 \/ n = 14 \/ n = 15
    OBVIOUS
  <2>3. c \in {"0", "1", "2", "3", "4", "5", "6", "7", "8", "9", "a", "b", "c", "d", "e", "f"}
    BY <2>1, <2>2 DEF Digits
  <2> QED BY <2>3 DEF Lower, Capitals
<1>2. IsDigit(c)
  BY <1>1 DEF isHex, IsDigit
<1> QED BY <1>1, <1>2, DigitValue

\* What the hex builder puts before the text for the i-th byte.
Built(bytes, text, i) ==
  <<Digits[bytes[i] \div 16 + 1], Digits[(bytes[i] % 16) + 1]>> \o text

IsBuilt(f, bytes) ==
  f = [t \in SUBSET DOMAIN bytes |->
         IF t = {} THEN <<>> ELSE Built(bytes, f[t \ {Max(t)}], Max(t))]

LEMMA BuiltDef ==
  ASSUME NEW bytes
  PROVE  dynamicHexBuilder(bytes) = (CHOOSE f : IsBuilt(f, bytes))[DOMAIN bytes]
BY DEF dynamicHexBuilder, FoldLeft, MapThenFoldSet, IsBuilt, Built

\* Builder and x2b: from the last pair of digits to the first.
LEMMA HexBuilds ==
  ASSUME NEW C, NEW t \in Seq(C), NEW m \in Nat, Len(t) = 2 * m,
         NEW bytes, DOMAIN bytes = 1 .. m,
         \A j \in 1 .. m : /\ Digits[bytes[j] \div 16 + 1] = t[2 * (m - j) + 1]
                           /\ Digits[(bytes[j] % 16) + 1] = t[2 * (m - j) + 2]
  PROVE  dynamicHexBuilder(bytes) = t
<1>1. \A j \in 1 .. m : 2 * (m - j) + 1 \in 1 .. 2 * m /\ 2 * (m - j) + 2 \in 1 .. 2 * m
  OBVIOUS
<1>2. ASSUME NEW x \in Seq(C), NEW i \in 1 .. m
      PROVE  Built(bytes, x, i) = <<t[2 * (m - i) + 1], t[2 * (m - i) + 2]>> \o x
             /\ Built(bytes, x, i) \in Seq(C)
  <2>1. PICK a \in C, b \in C : a = t[2 * (m - i) + 1] /\ b = t[2 * (m - i) + 2]
    BY <1>1
  <2>2. Built(bytes, x, i) = <<a, b>> \o x
    BY <2>1 DEF Built
  <2>3. <<a, b>> \in Seq(C)
    OBVIOUS
  <2>4. <<a, b>> \o x \in Seq(C)
    BY <2>3
  <2> QED BY <2>1, <2>2, <2>4
<1> DEFINE op == [p \in Seq(C) \X (1 .. m) |-> Built(bytes, p[1], p[2])]
<1>3. op \in [Seq(C) \X (1 .. m) -> Seq(C)] /\ <<>> \in Seq(C)
  <2>1. ASSUME NEW p \in Seq(C) \X (1 .. m)
        PROVE  Built(bytes, p[1], p[2]) \in Seq(C)
    <3>1. p[1] \in Seq(C) /\ p[2] \in 1 .. m
      OBVIOUS
    <3> QED BY <1>2, <3>1
  <2> QED BY <2>1
<1>4. \A x \in Seq(C), i \in 1 .. m : op[<<x, i>>] = Built(bytes, x, i)
  OBVIOUS
<1> HIDE DEF op
<1>5. PICK g \in [SUBSET (1 .. m) -> Seq(C)] : IsFold(g, m, <<>>, op)
  BY <1>3, FoldExists
<1>6. ASSUME NEW u \in SUBSET (1 .. m), u # {}
      PROVE  op[<<g[u \ {Max(u)}], Max(u)>>] = Built(bytes, g[u \ {Max(u)}], Max(u))
  <2>1. Max(u) \in 1 .. m
    BY <1>6, GreatestOne
  <2>2. g[u \ {Max(u)}] \in Seq(C)
    OBVIOUS
  <2> QED BY <1>4, <2>1, <2>2
<1>7. IsBuilt(g, bytes)
  BY <1>5, <1>6 DEF IsBuilt, IsFold
<1>8. PICK f : IsBuilt(f, bytes) /\ dynamicHexBuilder(bytes) = f[1 .. m]
  BY <1>7, BuiltDef
<1>8a. \A u \in SUBSET (1 .. m) :
        f[u] = IF u = {} THEN <<>> ELSE Built(bytes, f[u \ {Max(u)}], Max(u))
  BY <1>8 DEF IsBuilt
<1> DEFINE T == {k \in 0 .. m : f[1 .. k] = SubSeq(t, 2 * (m - k) + 1, 2 * m)}
<1>9. 0 \in T
  <2>1. 1 .. 0 = {} /\ {} \in SUBSET (1 .. m) /\ 0 \in 0 .. m
    OBVIOUS
  <2>2. f[{}] = <<>>
    BY <1>8a, <2>1
  <2>3. PICK p \in Nat : p = 2 * m /\ 2 * (m - 0) + 1 = p + 1
    OBVIOUS
  <2>4. SubSeq(t, p + 1, p) = <<>>
    OBVIOUS
  <2> QED BY <2>1, <2>2, <2>3, <2>4
<1>10. ASSUME NEW k \in 1 .. m, k - 1 \in T
       PROVE  k \in T
  <2>1. k \in 0 .. m /\ k \in Nat /\ k # 0 /\ 1 .. k \in SUBSET (1 .. m)
    OBVIOUS
  <2>2. Max(1 .. k) = k /\ (1 .. k) \ {k} = 1 .. k - 1 /\ 1 .. k # {}
    BY <2>1, Initial
  <2>3. f[1 .. k] = Built(bytes, f[1 .. k - 1], k)
    <3>1. f[1 .. k] = Built(bytes, f[(1 .. k) \ {Max(1 .. k)}], Max(1 .. k))
      BY <1>8a, <2>1, <2>2
    <3> QED BY <2>2, <3>1, Zenon
  <2>4. PICK e \in 1 .. 2 * m : e = 2 * (m - k) + 1 /\ e + 1 = 2 * (m - k) + 2 /\ e + 1 \in 1 .. 2 * m
                                /\ 2 * (m - (k - 1)) + 1 = e + 2
    BY <1>1
  <2>5. PICK x : x = SubSeq(t, e + 2, 2 * m)
    OBVIOUS
  <2>6. f[1 .. k - 1] = x
    BY <1>10, <2>4, <2>5
  <2>7. x \in Seq(C) /\ Len(x) = 2 * m - e - 1 /\ \A i \in 1 .. 2 * m - e - 1 : x[i] = t[e + 1 + i]
    <3>1. e + 2 \in 1 .. Len(t) + 1 /\ 2 * m \in (e + 2) - 1 .. Len(t)
      BY <2>4
    <3>2. PICK p \in 1 .. Len(t) + 1, q \in Int : p = e + 2 /\ q = 2 * m /\ q \in p - 1 .. Len(t)
      BY <3>1
    <3>3. x \in Seq(C) /\ Len(x) = q - p + 1 /\ \A i \in 1 .. q - p + 1 : x[i] = t[p + i - 1]
      BY <2>5, <3>2, Part
    <3> QED BY <3>2, <3>3
  <2>8. PICK y : y = SubSeq(t, e, 2 * m)
    OBVIOUS
  <2>9. y \in Seq(C) /\ Len(y) = 2 * m - e + 1 /\ \A i \in 1 .. 2 * m - e + 1 : y[i] = t[e + i - 1]
    <3>1. e \in 1 .. Len(t) + 1 /\ 2 * m \in e - 1 .. Len(t)
      BY <2>4
    <3>2. PICK q \in Int : q = 2 * m /\ q \in e - 1 .. Len(t)
      BY <3>1
    <3>3. y \in Seq(C) /\ Len(y) = q - e + 1 /\ \A i \in 1 .. q - e + 1 : y[i] = t[e + i - 1]
      BY <2>8, <3>1, <3>2, Part
    <3> QED BY <3>2, <3>3
  <2>10. PICK a \in C, b \in C : a = t[e] /\ b = t[e + 1]
    BY <2>4
  <2>11. Built(bytes, x, k) = <<a, b>> \o x
    BY <1>2, <2>4, <2>7, <2>10
  <2>12. PICK z : z = <<a, b>> \o x
    OBVIOUS
  <2>13. /\ z \in Seq(C) /\ Len(z) = 2 * m - e + 1
         /\ z[1] = a /\ z[2] = b /\ \A i \in 3 .. 2 * m - e + 1 : z[i] = x[i - 2]
    BY <2>7, <2>12
  <2>14. ASSUME NEW i \in 1 .. Len(z)
         PROVE  z[i] = y[i]
    <3>1. CASE i = 1
      BY <2>4, <2>9, <2>10, <2>13, <3>1
    <3>2. CASE i = 2
      BY <2>4, <2>9, <2>10, <2>13, <3>2
    <3>3. CASE i > 2
      <4>1. i \in 3 .. 2 * m - e + 1 /\ i - 2 \in 1 .. 2 * m - e - 1 /\ i \in 1 .. 2 * m - e + 1
        BY <2>13, <3>3
      <4>2. e + 1 + (i - 2) = e + i - 1
        OBVIOUS
      <4> QED BY <2>7, <2>9, <2>13, <4>1, <4>2
    <3> QED BY <3>1, <3>2, <3>3
  <2>15. z = y
    BY <2>9, <2>13, <2>14, SeqEqual
  <2>16. f[1 .. k] = SubSeq(t, 2 * (m - k) + 1, 2 * m)
    BY <2>3, <2>4, <2>6, <2>8, <2>11, <2>12, <2>15
  <2> QED BY <2>1, <2>16
<1> HIDE DEF T
<1>11. 0 .. m \subseteq T
  BY <1>9, <1>10, BoundedInduction
<1>12. m \in T
  BY <1>11
<1>13. f[1 .. m] = SubSeq(t, 1, Len(t))
  <2>1. 2 * (m - m) + 1 = 1
    OBVIOUS
  <2> QED BY <1>12, <2>1 DEF T
<1>14. SubSeq(t, 1, Len(t)) = t
  BY SubSeqFull
<1> QED BY <1>8, <1>13, <1>14

LEMMA HexHolds ==
  TypedInv => HexRoundTrip
<1>1. SUFFICES ASSUME typed \in Seq(Alphabet), ~ X2bFails(typed)
               PROVE  dynamicHexBuilder(x2b(typed)) = Inked(typed)
  BY Zenon DEF TypedInv, HexRoundTrip
<1>2. PICK t : t = Inked(typed)
  OBVIOUS
<1>3. t \in Seq(Alphabet)
  BY <1>1, <1>2, InkedType
<1>4. PICK n \in Nat : n = Len(t) /\ DOMAIN t = 1 .. n
  BY <1>3, LenProperties
<1>5. (\A i \in 1 .. n : isHex(t[i])) /\ n % 2 # 1
  BY <1>1, <1>2, <1>4, Zenon DEF X2bFails
<1>6. PICK m \in Nat : n = 2 * m /\ n \div 2 = m
  <2>1. n = 2 * (n \div 2) /\ n \div 2 \in Nat
    BY <1>5
  <2> QED BY <2>1
<1>7. PICK v : v = [i \in 1 .. m |-> 16 * get_digit_value(t[2 * i - 1]) + get_digit_value(t[2 * i])]
  OBVIOUS
<1>8. v \in Seq(Int) /\ Len(v) = m
  <2>1. ASSUME NEW i \in 1 .. m
        PROVE  16 * get_digit_value(t[2 * i - 1]) + get_digit_value(t[2 * i]) \in Int
    <3>1. 2 * i - 1 \in 1 .. n /\ 2 * i \in 1 .. n
      BY <1>6
    <3>2. get_digit_value(t[2 * i - 1]) \in Int /\ get_digit_value(t[2 * i]) \in Int
      BY <1>5, <3>1, HexDigit
    <3> QED BY <3>2
  <2>2. v \in [1 .. m -> Int]
    BY <1>7, <2>1
  <2> QED BY <2>2, SeqDef, LenProperties
<1>9. PICK b : b = Reverse(v)
  OBVIOUS
<1>10. b = x2b(typed)
  BY <1>2, <1>4, <1>6, <1>7, <1>9, Zenon DEF x2b
<1>11. /\ b \in Seq(Int) /\ DOMAIN b = 1 .. m
       /\ \A i \in 1 .. m : b[i] = v[m - i + 1]
  <2>1. b \in Seq(Int) /\ Len(b) = m /\ \A i \in 1 .. m : b[i] = v[m - i + 1]
    BY <1>8, <1>9, ReverseIs
  <2> QED BY <2>1, LenProperties
<1>12. ASSUME NEW j \in 1 .. m
       PROVE  /\ Digits[b[j] \div 16 + 1] = t[2 * (m - j) + 1]
              /\ Digits[(b[j] % 16) + 1] = t[2 * (m - j) + 2]
  <2>1. PICK i \in 1 .. m : i = m - j + 1 /\ 2 * i - 1 = 2 * (m - j) + 1 /\ 2 * i = 2 * (m - j) + 2
    OBVIOUS
  <2>2. 2 * i - 1 \in 1 .. n /\ 2 * i \in 1 .. n
    BY <1>6
  <2>3. PICK x \in 0 .. 15 : x = get_digit_value(t[2 * i - 1]) /\ Digits[x + 1] = t[2 * i - 1]
    BY <1>5, <2>2, HexDigit
  <2>4. PICK y \in 0 .. 15 : y = get_digit_value(t[2 * i]) /\ Digits[y + 1] = t[2 * i]
    BY <1>5, <2>2, HexDigit
  <2>5. b[j] = 16 * x + y
    BY <1>7, <1>11, <2>1, <2>3, <2>4
  <2>6. b[j] \div 16 = x /\ b[j] % 16 = y
    BY <2>5
  <2> QED BY <2>1, <2>3, <2>4, <2>6
<1>13. dynamicHexBuilder(b) = t
  BY <1>3, <1>4, <1>6, <1>11, <1>12, HexBuilds
<1> QED BY <1>2, <1>10, <1>13

\* numeric_interpret, x2b and dynamicHexBuilder: however long, a number has the
\* value its digits give it modulo the size of the type, and text x2b accepts
\* is what the hex builder makes of the bytes.
THEOREM NumbersAreRight ==
  Spec => []NumbersRight
<1>1. TypedInv => NumbersRight
  BY NumericHolds, HexHolds DEF NumbersRight
<1> QED BY <1>1, TypedHolds, PTL
=============================================================================
