-------------------------- MODULE FlashcalwProofs --------------------------
(***************************************************************************)
(* Proofs about Flashcalw for every flash, page size, pattern and source.  *)
(*                                                                         *)
(* A copy works on one page at a time: CopyInv says where it is, what the  *)
(* buffer holds and how the flash looks, and is kept by every step.        *)
(* FuseInv relates the fuses and the status to the last function; that the *)
(* functions of the fuses keep it is what FlashFusesProofs shows.          *)
(***************************************************************************)
EXTENDS FlashcalwProps, FlashFusesProofs, FiniteSetTheorems

(* Multiples and the numbers between them *)
LEMMA SumOfMultiples ==
    ASSUME NEW q \in Int, NEW r \in Int, NEW n \in Positive, q % n = 0, r % n = 0
    PROVE  (q + r) % n = 0
<1> DEFINE k == q \div n
           m == r \div n
<1>1. k \in Int /\ m \in Int /\ q = k * n /\ r = m * n
  BY MultipleOf
<1> HIDE DEF k, m
<1>2. q + r = (k + m) * n /\ k + m \in Int
  BY <1>1 DEF Positive
<1> QED BY <1>2, Multiple

(* A number between two multiples *)
LEMMA Between ==
    ASSUME NEW q \in Int, NEW a \in Int, NEW n \in Positive,
           q % n = 0, q <= a, a < q + n
    PROVE  a % n = a - q /\ a \div n = q \div n /\ AlignDown(a, n) = q
<1> DEFINE k == q \div n
<1>1. k \in Int /\ q = k * n
  BY MultipleOf
<1> HIDE DEF k
<1>2. a - q \in 0 .. n - 1 /\ a = (k * n) + (a - q)
  BY <1>1 DEF Positive
<1>3. a % n = a - q /\ a \div n = k
  BY <1>1, <1>2, Quotient
<1> QED BY <1>3 DEF AlignDown, k

LEMMA AlignedDown ==
    ASSUME NEW a \in Int, NEW n \in Positive
    PROVE  /\ AlignDown(a, n) \in Int /\ AlignDown(a, n) % n = 0
           /\ AlignDown(a, n) <= a /\ a < AlignDown(a, n) + n
           /\ a % n = a - AlignDown(a, n)
<1>1. a % n \in 0 .. n - 1 /\ a \div n \in Int /\ a = ((a \div n) * n) + (a % n)
  BY Division
<1>2. AlignDown(a, n) = (a \div n) * n
  BY <1>1 DEF AlignDown, Positive
<1>3. AlignDown(a, n) % n = 0
  BY <1>1, <1>2, Multiple
<1> QED BY <1>1, <1>3 DEF AlignDown, Positive

LEMMA Coarser ==
    ASSUME NEW q \in Int, NEW m \in Positive, NEW n \in Positive, q % m = 0, m % n = 0
    PROVE  q % n = 0
<1> DEFINE k == q \div m
           l == m \div n
<1>1. k \in Int /\ q = k * m /\ l \in Int /\ m = l * n
  BY MultipleOf DEF Positive
<1> HIDE DEF k, l
<1>2. q = (k * l) * n /\ k * l \in Int
  BY <1>1 DEF Positive
<1> QED BY <1>2, Multiple

(* The flash: pages that are multiples of the page size, and a gap of a page at least *)
LEMMA Layout ==
    /\ PageSize \in Positive /\ DWord \in Positive /\ PageSize % DWord = 0
    /\ ArrayEnd \in Int /\ ArrayEnd % PageSize = 0 /\ PageSize <= ArrayEnd
    /\ UserPage \in Int /\ UserPage % PageSize = 0 /\ ArrayEnd + PageSize <= UserPage
    /\ UserEnd = UserPage + PageSize
    /\ Array = 0 .. ArrayEnd - 1 /\ User = UserPage .. UserEnd - 1
    /\ 0 % PageSize = 0
<1>1. PageSize \in Positive /\ DWord \in Positive /\ PageSize % DWord = 0
  BY FlashAssumption DEF Positive
<1>2. Pages \in Nat \ {0} /\ UserPage \in Nat /\ UserPage > ArrayEnd /\ UserPage % PageSize = 0
  BY FlashAssumption
<1>3. ArrayEnd \in Int /\ ArrayEnd % PageSize = 0 /\ PageSize <= ArrayEnd /\ 0 % PageSize = 0
  <2>1. (Pages * PageSize) % PageSize = 0 /\ (0 * PageSize) % PageSize = 0
    BY <1>1, <1>2, Multiple
  <2>2. 0 * PageSize = 0 /\ (0 * PageSize) + PageSize <= Pages * PageSize
    BY <1>1, <1>2, Times DEF Positive
  <2> QED BY <1>1, <1>2, <2>1, <2>2 DEF ArrayEnd, Positive
<1>4. ArrayEnd + PageSize <= UserPage
  BY <1>1, <1>2, <1>3, NextMultiple
<1> QED BY <1>1, <1>2, <1>3, <1>4 DEF UserEnd, Array, User

LEMMA PageIs ==
    ASSUME NEW q \in Int, q % PageSize = 0
    PROVE  Page(q) = q .. q + PageSize - 1
<1>1. AlignDown(q, PageSize) = q
  BY DEF AlignDown
<1>2. PageSize \in Nat \ {0}
  BY Layout DEF Positive
<1>3. ASSUME NEW a \in q .. q + PageSize - 1 PROVE a \in {q + i : i \in 0 .. PageSize - 1}
  <2>1. a - q \in 0 .. PageSize - 1 /\ a = q + (a - q)
    BY <1>2
  <2> QED BY <2>1
<1>4. ASSUME NEW i \in 0 .. PageSize - 1 PROVE q + i \in q .. q + PageSize - 1
  BY <1>2
<1> QED BY <1>1, <1>3, <1>4 DEF Page

LEMMA UserIs == User = Page(UserPage)
<1>1. UserPage \in Int /\ UserPage % PageSize = 0
  BY Layout
<1>2. Page(UserPage) = UserPage .. UserPage + PageSize - 1
  BY <1>1, PageIs
<1>3. UserPage .. UserEnd - 1 = UserPage .. UserPage + PageSize - 1
  BY Layout DEF UserEnd, Positive
<1> QED BY <1>2, <1>3 DEF User

(* A page of the array has the number by which the controller knows it. *)
LEMMA ArrayPageIs ==
    ASSUME NEW q \in Array, q % PageSize = 0
    PROVE  /\ q \div PageSize \in PageNumbers /\ ArrayPage(q \div PageSize) = Page(q)
           /\ Page(q) \subseteq Array
<1> DEFINE k == q \div PageSize
<1>1. k \in Int /\ q = k * PageSize
  BY Layout, MultipleOf
<1>2. ArrayPage(k) = Page(q)
  BY <1>1 DEF ArrayPage
<1>3. k \in PageNumbers
  <2> HIDE DEF k
  <2>1. Pages \in Nat
    BY FlashAssumption
  <2>2. k < Pages
    BY <1>1, <2>1, Layout, Cancel DEF ArrayEnd
  <2>3. -1 < k
    <3>1. -1 \in Int /\ (-1) * PageSize < k * PageSize
      BY <1>1, Layout DEF Positive
    <3> QED BY <1>1, <3>1, Layout, Cancel
  <2> QED BY <1>1, <2>1, <2>2, <2>3 DEF PageNumbers
<1>4. Page(q) \subseteq Array
  <2>1. q + PageSize <= ArrayEnd
    BY Layout, NextMultiple
  <2>2. q \in Int /\ 0 <= q
    BY Layout
  <2> QED BY <2>1, <2>2, Layout, PageIs DEF Positive
<1> QED BY <1>2, <1>3, <1>4

(* Every byte of the flash is in a page of the array, or in the User page. *)
LEMMA PageOf ==
    ASSUME NEW a \in Array \cup User
    PROVE  LET q == AlignDown(a, PageSize)
           IN  /\ q \in Int /\ q % PageSize = 0 /\ q <= a /\ a < q + PageSize
               /\ a \in Page(q)
               /\ a \in Array => q \in Array /\ Page(q) \subseteq Array
               /\ a \in User => q = UserPage
<1> DEFINE q == AlignDown(a, PageSize)
<1>1. a \in Int
  BY Layout DEF Positive
<1>2. q \in Int /\ q % PageSize = 0 /\ q <= a /\ a < q + PageSize
  BY <1>1, Layout, AlignedDown
<1>3. a \in Page(q)
  BY <1>1, <1>2, PageIs, Layout DEF Positive
<1>4. a \in User => q = UserPage
  <2>1. a \in User => UserPage <= a /\ a < UserPage + PageSize
    BY <1>1, Layout
  <2> QED BY <1>1, <2>1, Layout, Between
<1>5. a \in Array => q \in Array
  <2> HIDE DEF q
  <2>1. q < 0 => q + PageSize <= 0
    BY <1>2, Layout, NextMultiple
  <2>2. a \in Array => 0 <= a /\ a < ArrayEnd
    BY <1>1, Layout
  <2> QED BY <1>1, <1>2, <2>1, <2>2, Layout DEF Positive
<1>6. a \in Array => Page(q) \subseteq Array
  BY <1>2, <1>5, ArrayPageIs
<1> QED BY <1>2, <1>3, <1>4, <1>5, <1>6

LEMMA RegionIs ==
    ASSUME NEW p \in PageNumbers
    PROVE  Region(p) \in 0 .. Regions - 1
<1> DEFINE n == Pages \div Regions
<1>1. Pages \in Positive /\ Regions \in Positive /\ Pages = n * Regions /\ n \in Int
  BY FlashAssumption, MultipleOf DEF Positive
<1> HIDE DEF n
<1>2. n \in Positive
  <2>1. 0 * Regions < n * Regions
    BY <1>1 DEF Positive
  <2> QED BY <1>1, <2>1, Cancel DEF Positive
<1>3. p \in Int /\ p \div n \in Int /\ p = ((p \div n) * n) + (p % n) /\ p % n \in 0 .. n - 1
  BY <1>2, Division DEF PageNumbers
<1>4. p \div n < Regions
  <2>1. (p \div n) * n < Regions * n
    BY <1>1, <1>2, <1>3 DEF PageNumbers, Positive
  <2> QED BY <1>1, <1>2, <1>3, <2>1, Cancel DEF Positive
<1>5. -1 < p \div n
  <2>1. (-1) * n < (p \div n) * n
    BY <1>2, <1>3 DEF PageNumbers, Positive
  <2> QED BY <1>2, <1>3, <2>1, Cancel
<1> QED BY <1>1, <1>3, <1>4, <1>5 DEF Region, n, Positive

Memory == [Array \cup User -> SUBSET Bits]
Buffer == [0 .. PageSize - 1 -> SUBSET Bits]

(* Filling a clear page buffer with a page: it holds the page's bytes at their places. *)
LEMMA BufferFilled ==
    ASSUME buffer = Erased, NEW q \in Int, q % PageSize = 0,
           NEW value \in [Page(q) -> SUBSET Bits]
    PROVE  /\ BufferWritten(value) \in Buffer
           /\ \A a \in Page(q) : BufferWritten(value)[a % PageSize] = value[a]
<1>1. PageSize \in Nat \ {0} /\ Page(q) = q .. q + PageSize - 1
  BY Layout, PageIs DEF Positive
<1>2. ASSUME NEW a \in Page(q)
      PROVE  a % PageSize = a - q /\ a % PageSize \in 0 .. PageSize - 1
  <2>1. a \in Int /\ q <= a /\ a < q + PageSize
    BY <1>1
  <2>2. a % PageSize = a - q
    BY <2>1, Layout, Between
  <2> QED BY <1>1, <2>1, <2>2
<1>3. ASSUME NEW a \in Page(q)
      PROVE  {b \in DOMAIN value : b % PageSize = a % PageSize} = {a}
  <2>1. \A b \in Page(q) : b % PageSize = b - q
    BY <1>2
  <2>2. \A b \in Page(q) : b - q = a - q => b = a
    BY <1>1
  <2>3. DOMAIN value = Page(q)
    OBVIOUS
  <2> QED BY <2>1, <2>2, <2>3
<1>4. ASSUME NEW i \in 0 .. PageSize - 1
      PROVE  q + i \in Page(q) /\ (q + i) % PageSize = i
  <2>1. q + i \in Page(q) /\ (q + i) - q = i
    BY <1>1
  <2> QED BY <1>2, <2>1
<1>5. ASSUME NEW a \in Page(q)
      PROVE  BufferWritten(value)[a % PageSize] = value[a]
  <2>1. BufferWritten(value)[a % PageSize] = buffer[a % PageSize] \cap value[CHOOSE b \in {a} : TRUE]
    BY <1>2, <1>3 DEF BufferWritten
  <2>2. (CHOOSE b \in {a} : TRUE) = a
    OBVIOUS
  <2>3. buffer[a % PageSize] = Bits
    BY <1>2 DEF Erased
  <2>4. value[a] \subseteq Bits
    OBVIOUS
  <2> QED BY <2>1, <2>2, <2>3, <2>4
<1>6. ASSUME NEW i \in 0 .. PageSize - 1 PROVE BufferWritten(value)[i] \in SUBSET Bits
  <2>1. BufferWritten(value)[i] = value[q + i]
    BY <1>4, <1>5
  <2> QED BY <1>4, <2>1
<1>7. BufferWritten(value) \in Buffer
  <2>1. BufferWritten(value) = [i \in 0 .. PageSize - 1 |-> BufferWritten(value)[i]]
    BY DEF BufferWritten
  <2> QED BY <1>6, <2>1 DEF Buffer
<1> QED BY <1>5, <1>7

(* The controller takes the page number of a write to the array. *)
LEMMA PageTaken ==
    ASSUME NEW q \in Array \cup User, q % PageSize = 0, pagen \in 0 .. Pages, PageWritten(Page(q))
    PROVE  /\ pagen' \in 0 .. Pages
           /\ q \in Array => pagen' = q \div PageSize
<1>1. q \in Int /\ PageSize \in Nat \ {0} /\ Page(q) = q .. q + PageSize - 1
  BY Layout, PageIs DEF Positive
<1>2. q \in Page(q)
  BY <1>1
<1>3. CASE q \in Array
  <2>1. Page(q) # {} /\ Page(q) \subseteq Array
    BY <1>2, <1>3, ArrayPageIs
  <2>2. pagen' = (CHOOSE a \in Page(q) : TRUE) \div PageSize
    BY <2>1 DEF PageWritten
  <2>3. PICK a \in Page(q) : a = (CHOOSE b \in Page(q) : TRUE)
    BY <1>2
  <2>4. a \div PageSize = q \div PageSize
    <3>1. a \in Int /\ q <= a /\ a < q + PageSize
      BY <1>1
    <3> QED BY <1>1, <3>1, Layout, Between
  <2>5. q \div PageSize \in PageNumbers
    BY <1>3, ArrayPageIs
  <2>6. q \div PageSize \in 0 .. Pages
    BY <2>5, FlashAssumption DEF PageNumbers
  <2> QED BY <2>2, <2>3, <2>4, <2>6
<1>4. CASE q \notin Array
  <2>1. ~(Page(q) \subseteq Array)
    BY <1>2, <1>4
  <2> QED BY <2>1, <1>4 DEF PageWritten
<1> QED BY <1>3, <1>4

(* What memset writes to the buffer for the page of d, the end being e: the whole page, and
   the flash where it is before d or not before e. *)
LEMMA MemsetPage ==
    ASSUME NEW d \in Int, NEW e \in Int, d < e
    PROVE
    LET page  == AlignDown(d, PageSize)
        first == AlignDown(d, DWord)
        last  == AlignDown(e, DWord)
        incomplete == page >= AlignDown(e, PageSize)
        begun == d % DWord # 0 /\ first < last
        start == IF begun THEN first + DWord ELSE first
        stop  == IF last < page + PageSize THEN last ELSE page + PageSize
        ended == incomplete /\ e % DWord # 0
        rest  == IF ended THEN last + DWord ELSE e
        before == page .. first - 1
        begin == IF begun THEN DWordAt(first) ELSE {}
        end   == IF ended THEN DWordAt(stop) ELSE {}
        after == IF incomplete THEN rest .. page + PageSize - 1 ELSE {}
        kept(a) ==
            \/ a \in before \cup after
            \/ a \in begin /\ a % DWord < d % DWord
            \/ a \in end /\ a % DWord >= e % DWord
            \/ a \in end /\ ~begun /\ a % DWord < d % DWord
        next == IF ended THEN stop + DWord ELSE stop
    IN  /\ before \cup begin \cup (start .. stop - 1) \cup end \cup after = Page(page)
        /\ \A a \in Page(page) : kept(a) <=> a < d \/ e <= a
        /\ next \in Int /\ page < next /\ next <= page + PageSize
        /\ next = page + PageSize \/ e <= next
<1> DEFINE page  == AlignDown(d, PageSize)
           first == AlignDown(d, DWord)
           last  == AlignDown(e, DWord)
           top   == AlignDown(e, PageSize)
           incomplete == page >= top
           begun == d % DWord # 0 /\ first < last
           start == IF begun THEN first + DWord ELSE first
           stop  == IF last < page + PageSize THEN last ELSE page + PageSize
           ended == incomplete /\ e % DWord # 0
           rest  == IF ended THEN last + DWord ELSE e
           before == page .. first - 1
           begin == IF begun THEN DWordAt(first) ELSE {}
           end   == IF ended THEN DWordAt(stop) ELSE {}
           after == IF incomplete THEN rest .. page + PageSize - 1 ELSE {}
           kept(a) ==
               \/ a \in before \cup after
               \/ a \in begin /\ a % DWord < d % DWord
               \/ a \in end /\ a % DWord >= e % DWord
               \/ a \in end /\ ~begun /\ a % DWord < d % DWord
           next == IF ended THEN stop + DWord ELSE stop
           bytes == before \cup begin \cup (start .. stop - 1) \cup end \cup after
<1>1. PageSize \in Nat \ {0} /\ DWord \in Nat \ {0}
  BY Layout DEF Positive
<1>2. page \in Int /\ page % PageSize = 0 /\ page <= d /\ d < page + PageSize
  BY Layout, AlignedDown
<1>3. first \in Int /\ first % DWord = 0 /\ first <= d /\ d < first + DWord /\ d % DWord = d - first
  BY Layout, AlignedDown
<1>4. last \in Int /\ last % DWord = 0 /\ last <= e /\ e < last + DWord /\ e % DWord = e - last
  BY Layout, AlignedDown
<1>5. top \in Int /\ top % PageSize = 0 /\ top <= e /\ e < top + PageSize
  BY Layout, AlignedDown
<1> HIDE DEF page, first, last, top
<1>6. page + PageSize \in Int /\ page % DWord = 0 /\ (page + PageSize) % DWord = 0
  <2>1. page % DWord = 0
    BY <1>2, Layout, Coarser
  <2>2. PageSize \in Int /\ PageSize % DWord = 0 /\ DWord \in Positive
    BY Layout DEF Positive
  <2> QED BY <1>2, <2>1, <2>2, SumOfMultiples
<1>7. page <= first /\ first + DWord <= page + PageSize
  <2>1. first < page => first + DWord <= page
    BY <1>2, <1>3, <1>6, Layout, NextMultiple
  <2>2. first < page + PageSize => first + DWord <= page + PageSize
    BY <1>3, <1>6, Layout, NextMultiple
  <2> QED BY <1>1, <1>2, <1>3, <2>1, <2>2
<1>8. first <= last
  <2>1. last < first => last + DWord <= first
    BY <1>3, <1>4, Layout, NextMultiple
  <2> QED BY <1>1, <1>3, <1>4, <2>1
<1>9. ~incomplete => page + PageSize <= last
  <2>1. page < top => page + PageSize <= top
    BY <1>2, <1>5, Layout, NextMultiple
  <2>2. last < page + PageSize => last + DWord <= page + PageSize
    BY <1>4, <1>6, Layout, NextMultiple
  <2> QED BY <1>1, <1>2, <1>4, <1>5, <2>1, <2>2
<1>10. incomplete => e < page + PageSize /\ last + DWord <= page + PageSize
  <2>1. incomplete => e < page + PageSize
    BY <1>1, <1>2, <1>5
  <2>2. last < page + PageSize => last + DWord <= page + PageSize
    BY <1>4, <1>6, Layout, NextMultiple
  <2> QED BY <1>1, <1>2, <1>4, <2>1, <2>2
<1>11. Page(page) = page .. page + PageSize - 1
  BY <1>2, PageIs
<1>12. begin \subseteq first .. first + DWord - 1 /\ \A a \in begin : a % DWord = a - first
  <2>1. ASSUME NEW a \in first .. first + DWord - 1 PROVE a % DWord = a - first
    <3>1. a \in Int /\ first <= a /\ a < first + DWord
      BY <1>1, <1>3
    <3> QED BY <1>3, <3>1, Layout, Between
  <2> QED BY <2>1 DEF DWordAt
<1>13. ended => stop = last /\ end = last .. last + DWord - 1 /\ \A a \in end : a % DWord = a - last
  <2>1. ASSUME NEW a \in last .. last + DWord - 1 PROVE a % DWord = a - last
    <3>1. a \in Int /\ last <= a /\ a < last + DWord
      BY <1>1, <1>4
    <3> QED BY <1>4, <3>1, Layout, Between
  <2>2. ended => stop = last
    BY <1>1, <1>2, <1>4, <1>10
  <2> QED BY <2>1, <2>2 DEF DWordAt
<1>14. bytes = Page(page)
  <2>1. ASSUME NEW a PROVE a \in bytes <=> a \in page .. page + PageSize - 1
    <3>1. a \in begin <=> begun /\ a \in first .. first + DWord - 1
      BY DEF DWordAt
    <3>2. a \in end <=> ended /\ a \in stop .. stop + DWord - 1
      BY DEF DWordAt
    <3>3. a \in after <=> incomplete /\ a \in rest .. page + PageSize - 1
      OBVIOUS
    <3>4. a \in bytes <=> \/ a \in page .. first - 1 \/ a \in begin
                         \/ a \in start .. stop - 1 \/ a \in end \/ a \in after
      OBVIOUS
    <3> HIDE DEF begin, end, after, before, bytes
    <3>5. begun => start = first + DWord /\ first + DWord <= last
      <4>1. first < last => first + DWord <= last
        BY <1>3, <1>4, Layout, NextMultiple
      <4> QED BY <4>1
    <3>6. ~begun => start = first
      OBVIOUS
    <3> HIDE DEF begun, start
    <3>7. CASE incomplete
      <4>1. stop = last
        BY <1>1, <1>2, <1>4, <1>10, <3>7
      <4>2. CASE ended
        <5>1. rest = last + DWord
          BY <4>2
        <5> HIDE DEF rest, stop, ended, incomplete
        <5> QED BY <1>1, <1>2, <1>3, <1>4, <1>7, <1>8, <1>10, <3>1, <3>2, <3>3, <3>4, <3>5, <3>6, <3>7, <4>1, <4>2, <5>1
      <4>3. CASE ~ended
        <5>1. rest = e /\ e = last
          BY <1>1, <1>4, <3>7, <4>3
        <5> HIDE DEF rest, stop, ended, incomplete
        <5> QED BY <1>1, <1>2, <1>3, <1>4, <1>7, <1>8, <1>10, <3>1, <3>2, <3>3, <3>4, <3>5, <3>6, <3>7, <4>1, <4>3, <5>1
      <4> QED BY <4>2, <4>3
    <3>8. CASE ~incomplete
      <4>1. ~ended /\ stop = page + PageSize
        BY <1>1, <1>2, <1>4, <1>9, <3>8
      <4> HIDE DEF rest, stop, ended, incomplete
      <4> QED BY <1>1, <1>2, <1>3, <1>4, <1>7, <1>8, <1>9, <3>1, <3>2, <3>3, <3>4, <3>5, <3>6, <3>8, <4>1
    <3> QED BY <3>7, <3>8
  <2> HIDE DEF bytes
  <2> QED BY <1>11, <2>1
<1>15. ASSUME NEW a \in Page(page) PROVE kept(a) <=> a < d \/ e <= a
  <2>1. a \in Int /\ page <= a /\ a < page + PageSize
    BY <1>1, <1>2, <1>11
  <2>2. CASE ended
    <3>1. stop = last /\ end = last .. last + DWord - 1
      BY <1>13, <2>2
    <3>2. a \in end => a % DWord = a - last
      BY <1>13, <2>2
    <3>3. a \in begin => a % DWord = a - first
      BY <1>12
    <3> QED BY <1>1, <1>2, <1>3, <1>4, <1>7, <1>8, <1>10, <2>1, <2>2, <3>1, <3>2, <3>3 DEF DWordAt
  <2>3. CASE ~ended
    <3>3. a \in begin => a % DWord = a - first
      BY <1>12
    <3>4. end = {}
      BY <2>3
    <3> QED BY <1>1, <1>2, <1>3, <1>4, <1>7, <1>8, <1>9, <1>10, <2>1, <2>3, <3>3, <3>4 DEF DWordAt
  <2> QED BY <2>2, <2>3
<1>16. next \in Int /\ page < next /\ next <= page + PageSize /\ (next = page + PageSize \/ e <= next)
  BY <1>1, <1>2, <1>3, <1>4, <1>7, <1>8, <1>9, <1>10
<1> HIDE DEF incomplete, begun, start, stop, ended, rest, before, begin, end, after, kept, next, bytes
<1> QED
  BY <1>14, <1>15, <1>16
  DEF page, first, last, top, incomplete, begun, start, stop, ended, rest, before, begin, end, after,
      kept, next, bytes

(* The place in a pattern depends on the distance to the destination only. *)
LEMMA Congruent ==
    ASSUME NEW u \in Int, NEW v \in Int, NEW n \in Positive, (u - v) % n = 0
    PROVE  u % n = v % n
<1> DEFINE k == (u - v) \div n
           m == v \div n
<1>1. u - v \in Int /\ k \in Int /\ u - v = k * n
  BY MultipleOf
<1>2. v % n \in 0 .. n - 1 /\ m \in Int /\ v = (m * n) + (v % n)
  BY Division
<1> HIDE DEF k, m
<1>3. u = ((k + m) * n) + (v % n) /\ k + m \in Int
  BY <1>1, <1>2 DEF Positive
<1> QED BY <1>2, <1>3, Quotient

LEMMA DifferenceOfMultiples ==
    ASSUME NEW q \in Int, NEW r \in Int, NEW n \in Positive, q % n = 0, r % n = 0
    PROVE  (q - r) % n = 0
<1> DEFINE k == q \div n
           m == r \div n
<1>1. k \in Int /\ m \in Int /\ q = k * n /\ r = m * n
  BY MultipleOf
<1> HIDE DEF k, m
<1>2. q - r = (k - m) * n /\ k - m \in Int
  BY <1>1 DEF Positive
<1> QED BY <1>2, Multiple

(* The double-word of a memset has at each place the byte of the pattern that goes there, the
   high byte being the first. *)
LEMMA SourceByte ==
    ASSUME NEW p \in Patterns, NEW dst \in Int, NEW a \in Int
    PROVE  LET n == Cardinality(DOMAIN p)
           IN  /\ SourceDword(p, dst)[a % DWord] = p[n - 1 - ((a - dst) % n)]
               /\ p[n - 1 - ((a - dst) % n)] \in SUBSET Bits
<1>1. PICK n \in 1 .. DWord : DWord % n = 0 /\ p \in [0 .. n - 1 -> SUBSET Bits]
  BY FlashAssumption
<1>2. DWord \in Positive /\ n \in Positive /\ n \in Int
  BY Layout, <1>1 DEF Positive
<1>3. Cardinality(DOMAIN p) = n
  <2>1. DOMAIN p = 0 .. n - 1 /\ 0 \in Int /\ n - 1 \in Int /\ ~(0 > n - 1) /\ (n - 1) - 0 + 1 = n
    BY <1>1
  <2>2. Cardinality(0 .. n - 1) = IF 0 > n - 1 THEN 0 ELSE (n - 1) - 0 + 1
    BY <2>1, FS_Interval
  <2> QED BY <2>1, <2>2
<1> DEFINE i == a % DWord
           j == dst % DWord
           x == j - 1 - i
           y == x % DWord
           r == (a - dst) % n
<1>4. i \in 0 .. DWord - 1 /\ i \in Int /\ j \in Int /\ x \in Int
  <2>1. i \in 0 .. DWord - 1 /\ j \in 0 .. DWord - 1
    BY <1>2, Division
  <2> QED BY <2>1
<1>5. y \in Int /\ (y - (dst - 1 - a)) % n = 0
  <2>1. /\ AlignDown(a, DWord) \in Int /\ AlignDown(a, DWord) % DWord = 0
        /\ i = a - AlignDown(a, DWord)
    BY <1>2, AlignedDown
  <2>2. /\ AlignDown(dst, DWord) \in Int /\ AlignDown(dst, DWord) % DWord = 0
        /\ j = dst - AlignDown(dst, DWord)
    BY <1>2, AlignedDown
  <2>3. /\ AlignDown(x, DWord) \in Int /\ AlignDown(x, DWord) % DWord = 0
        /\ y = x - AlignDown(x, DWord)
    BY <1>2, <1>4, AlignedDown
  <2> DEFINE A == AlignDown(a, DWord)
             B == AlignDown(dst, DWord)
             C == AlignDown(x, DWord)
             E == (A - B) - C
  <2>4. E \in Int /\ E % DWord = 0
    <3>1. A - B \in Int /\ (A - B) % DWord = 0
      BY <1>2, <2>1, <2>2, DifferenceOfMultiples
    <3> QED BY <1>2, <2>3, <3>1, DifferenceOfMultiples
  <2>5. y \in Int /\ y - (dst - 1 - a) = E
    <3> HIDE DEF A, B, C, i, j, y
    <3> QED BY <1>4, <2>1, <2>2, <2>3 DEF A, B, C
  <2>6. E % n = 0
    <3> HIDE DEF E
    <3> QED BY <1>1, <1>2, <2>4, Coarser
  <2> QED BY <2>5, <2>6
<1>6. r \in 0 .. n - 1 /\ (dst - 1 - a) % n = n - 1 - r
  <2> DEFINE m == (a - dst) \div n
  <2>1. r \in 0 .. n - 1 /\ m \in Int /\ a - dst = (m * n) + r
    <3>1. a - dst \in Int
      OBVIOUS
    <3> QED BY <1>2, <3>1, Division
  <2> HIDE DEF m, r
  <2>2. dst - 1 - a = (((-m) - 1) * n) + (n - 1 - r) /\ (-m) - 1 \in Int
    BY <1>2, <2>1 DEF Positive
  <2>3. n - 1 - r \in 0 .. n - 1
    BY <1>2, <2>1
  <2>4. ((((-m) - 1) * n) + (n - 1 - r)) % n = n - 1 - r
    BY <1>2, <2>2, <2>3, Quotient
  <2>5. (dst - 1 - a) % n = n - 1 - r
    BY <2>2, <2>4, Zenon
  <2> QED BY <2>1, <2>5
<1>7. y % n = n - 1 - r
  <2>1. dst - 1 - a \in Int
    OBVIOUS
  <2> HIDE DEF y, r
  <2> QED BY <1>2, <1>5, <1>6, <2>1, Congruent
<1>8. SourceDword(p, dst)[i] = p[y % n]
  BY <1>3, <1>4 DEF SourceDword
<1>9. n - 1 - r \in 0 .. n - 1
  <2> HIDE DEF r
  <2> QED BY <1>2, <1>6
<1> QED BY <1>1, <1>3, <1>7, <1>8, <1>9

(* The variables of the copies have their types. *)
Typed ==
    /\ flash \in Memory /\ buffer \in Buffer /\ old.flash \in Memory
    /\ pagen \in 0 .. Pages /\ locked \in SUBSET (0 .. Regions - 1)
    /\ errors \in BOOLEAN /\ calls \in 0 .. MaxCall

(* The page a copy works on: dest is in it until the buffer is filled, and then behind it. *)
Working == AlignDown(IF pc \in {"clear", "fill"} THEN dest ELSE dest - 1, PageSize)
Area    == IF Working \in User THEN User ELSE Array

Memset ==
    /\ call.op = "memset"
    /\ call.dst \in 0 .. UserEnd - 1 /\ call.n \in Nat /\ call.erase \in BOOLEAN
    /\ call.pattern \in Patterns
    /\ call.end = EndClipped(call.dst + call.n)
    /\ call.source = SourceDword(call.pattern, call.dst)

Memcpy ==
    /\ call.op = "memcpy"
    /\ call.dst \in Array \cup User /\ call.n \in Nat /\ call.erase \in BOOLEAN
    /\ call.dst \in Array => call.dst + call.n <= ArrayEnd
    /\ call.dst \in User => call.dst + call.n <= UserEnd

(* Where a copy is: each page is filled from its beginning, except the first one of a memset. *)
MemsetPlace ==
    /\ Working < call.end
    /\ pc \in {"clear", "fill"} =>
        /\ call.dst <= dest /\ dest < call.end
        /\ dest = call.dst \/ dest = Working
    /\ pc \in {"erase", "write"} =>
        /\ call.dst < Working + PageSize
        /\ dest = Working + PageSize \/ call.end <= dest

MemcpyPlace ==
    /\ call.dst \in Area
    /\ Working < call.dst + call.n
    /\ pc \in {"clear", "fill"} => dest = Working
    /\ pc \in {"erase", "write"} => dest = Working + PageSize

Place ==
    /\ pc \in {"clear", "fill", "erase", "write"}
    /\ dest \in Int /\ Working \in Array \cup User
    /\ \/ Memset /\ MemsetPlace
       \/ Memcpy /\ MemcpyPlace
    /\ pc \in {"erase", "write"} /\ Working \in Array => pagen = Working \div PageSize
    /\ pc = "erase" => call.erase

(* The buffer holds the page as it is to be. *)
Buffered ==
    /\ pc = "fill" => buffer = Erased
    /\ pc \in {"erase", "write"} =>
        \A a \in Page(Working) :
            buffer[a % PageSize] = IF a \in Copied THEN NewByte(a) ELSE old.flash[a]

(* The pages before it are as they are to be, those behind it as they were. *)
Progress ==
    \A a \in Array \cup User :
        flash[a] = IF a < Working THEN Target(a)
                   ELSE IF a \in Page(Working) /\ pc = "write" /\ call.erase /\ Allowed(a) THEN Bits
                   ELSE old.flash[a]

Finished == \A a \in Array \cup User : flash[a] = Target(a)

CopyInv ==
    \/ pc # "idle" /\ Place /\ Buffered /\ Progress
    \/ pc = "idle" /\ (IsCopy => Finished)

----------------------------------------------------------------------------
(* The page of a copy *)

LEMMA WorkingIs ==
    ASSUME Place
    PROVE  /\ Working \in Int /\ Working % PageSize = 0
           /\ pc \in {"clear", "fill"} => Working <= dest /\ dest < Working + PageSize
           /\ pc \in {"erase", "write"} => Working < dest /\ dest <= Working + PageSize
           /\ Page(Working) = Working .. Working + PageSize - 1
           /\ Page(Working) \subseteq Array \cup User
           /\ Working \in Array => Page(Working) \subseteq Array /\ Working + PageSize <= ArrayEnd
           /\ Working \in User => Working = UserPage /\ Page(Working) = User
<1> DEFINE d == IF pc \in {"clear", "fill"} THEN dest ELSE dest - 1
<1>1. d \in Int /\ Working = AlignDown(d, PageSize)
  BY DEF Place, Working
<1>2. PageSize \in Nat \ {0} /\ ArrayEnd \in Int /\ UserPage \in Int
  BY Layout DEF Positive
<1>3. /\ Working \in Int /\ Working % PageSize = 0
      /\ Working <= d /\ d < Working + PageSize
  BY <1>1, Layout, AlignedDown
<1>4. Page(Working) = Working .. Working + PageSize - 1
  BY <1>3, PageIs
<1>5. Working \in Array => Page(Working) \subseteq Array
  BY <1>3, ArrayPageIs
<1>6. Working \in Array => Working + PageSize <= ArrayEnd
  BY <1>3, Layout, NextMultiple
<1>7. Working \in User => Working = UserPage
  <2>1. Working \in User => AlignDown(Working, PageSize) = UserPage
    BY PageOf
  <2> QED BY <1>3, <2>1, <1>2 DEF AlignDown
<1>8. /\ pc \in {"clear", "fill"} => d = dest
      /\ pc \in {"erase", "write"} => d = dest - 1
  OBVIOUS
<1>9. dest \in Int
  BY DEF Place
<1> HIDE DEF d
<1>10. /\ pc \in {"clear", "fill"} => Working <= dest /\ dest < Working + PageSize
       /\ pc \in {"erase", "write"} => Working < dest /\ dest <= Working + PageSize
  BY <1>2, <1>3, <1>8, <1>9
<1>11. Working \in Array \cup User
  BY DEF Place
<1> QED BY <1>3, <1>4, <1>5, <1>6, <1>7, <1>10, <1>11, UserIs

(* The page the controller is to erase or write is that one, and it is refused if it must not
   change. *)
LEMMA CurrentIs ==
    ASSUME Typed, Place, pc \in {"erase", "write"}
    PROVE  /\ Current = Page(Working)
           /\ Working \in User <=> InUser
           /\ \A a \in Page(Working) : Allowed(a) <=> ~(Current \subseteq Array /\ Refuses(pagen))
<1>1. /\ Working \in Int /\ Working % PageSize = 0 /\ Working < dest /\ dest <= Working + PageSize
      /\ Page(Working) = Working .. Working + PageSize - 1
      /\ Working \in Array => Page(Working) \subseteq Array /\ Working + PageSize <= ArrayEnd
      /\ Working \in User => Working = UserPage /\ Page(Working) = User
  BY WorkingIs
<1>2. /\ PageSize \in Nat \ {0} /\ ArrayEnd \in Int /\ UserPage \in Int /\ UserEnd \in Int
      /\ ArrayEnd + PageSize <= UserPage
      /\ Array = 0 .. ArrayEnd - 1 /\ User = UserPage .. UserEnd - 1
  BY Layout DEF Positive
<1>3. dest \in Int /\ Working \in Array \cup User
  BY DEF Place
<1>4. Working \in User <=> InUser
  <2>1. CASE Memset
    <3>1. InUser <=> dest > UserPage
      BY <2>1 DEF InUser, Copying, Memset
    <3> QED BY <1>1, <1>2, <1>3, <3>1
  <2>2. CASE Memcpy /\ MemcpyPlace
    <3>1. InUser <=> call.dst >= UserPage
      BY <2>2 DEF InUser, Copying, Memcpy
    <3>2. call.dst \in Area
      BY <2>2 DEF MemcpyPlace
    <3> QED BY <1>1, <1>2, <1>3, <3>1, <3>2 DEF Area
  <2> QED BY <2>1, <2>2 DEF Place
<1>5. CASE Working \in User
  <2>1. Current = User /\ Page(Working) = User
    BY <1>1, <1>4, <1>5 DEF Current
  <2>2. ~(User \subseteq Array)
    BY <1>1, <1>2, <1>5
  <2>3. \A a \in User : Allowed(a)
    BY DEF Allowed
  <2> QED BY <1>4, <2>1, <2>2, <2>3
<1>6. CASE Working \in Array
  <2>1. Working \notin User
    BY <1>1, <1>2, <1>6
  <2>2. pagen = Working \div PageSize
    BY <1>6 DEF Place
  <2>3. Current = Page(Working)
    BY <1>1, <1>4, <1>6, <2>1, <2>2, ArrayPageIs DEF Current
  <2>4. ASSUME NEW a \in Page(Working)
        PROVE  a \notin User /\ a \div PageSize = pagen
    <3>1. a \in Int /\ Working <= a /\ a < Working + PageSize
      BY <1>1, <1>2
    <3>2. a \div PageSize = Working \div PageSize
      BY <1>1, <3>1, Layout, Between
    <3> QED BY <1>1, <1>2, <1>6, <2>2, <3>1, <3>2
  <2> QED BY <1>1, <1>4, <1>6, <2>1, <2>3, <2>4 DEF Allowed, Refuses
<1> QED BY <1>3, <1>5, <1>6

(* The destination of a memset as the clipped end tells it *)
LEMMA EndIs ==
    ASSUME NEW e \in Int
    PROVE  /\ EndClipped(e) \in Int
           /\ \A a \in Array \cup User : a < EndClipped(e) <=> a < e
           /\ EndClipped(e) <= UserEnd
           /\ EndClipped(e) <= ArrayEnd \/ UserPage < EndClipped(e)
<1>1. /\ PageSize \in Nat \ {0} /\ ArrayEnd \in Int /\ UserPage \in Int /\ UserEnd \in Int
      /\ ArrayEnd + PageSize <= UserPage /\ UserEnd = UserPage + PageSize
      /\ Array = 0 .. ArrayEnd - 1 /\ User = UserPage .. UserEnd - 1
  BY Layout DEF Positive
<1> QED BY <1>1 DEF EndClipped

(* The bytes a copy is for, by the end that the code computes *)
LEMMA CopiedIs ==
    ASSUME NEW a \in Array \cup User
    PROVE  /\ Memset => (a \in Copied <=> call.dst <= a /\ a < call.end)
           /\ Memcpy => (a \in Copied <=> call.dst <= a /\ a < call.dst + call.n)
<1>1. /\ PageSize \in Nat \ {0} /\ ArrayEnd \in Int /\ UserPage \in Int /\ UserEnd \in Int
      /\ Array = 0 .. ArrayEnd - 1 /\ User = UserPage .. UserEnd - 1 /\ UserPage >= ArrayEnd
  BY Layout DEF Positive
<1>2. a \in Int
  BY <1>1
<1>3. CASE Memset
  <2>1. call.dst \in Int /\ call.n \in Int /\ call.op = "memset" /\ call.end = EndClipped(call.dst + call.n)
    BY <1>1, <1>3 DEF Memset
  <2>2. a < call.end <=> a < call.dst + call.n
    BY <2>1, EndIs
  <2> QED BY <1>2, <2>1, <2>2 DEF Copied, Memcpy
<1>4. CASE Memcpy
  <2>1. call.dst \in Int /\ call.n \in Int /\ call.op = "memcpy"
    BY <1>1, <1>4 DEF Memcpy
  <2> QED BY <1>2, <2>1 DEF Copied, Memset
<1> QED BY <1>3, <1>4

(* The bytes of a copy are bytes. *)
LEMMA NewByteIs ==
    ASSUME Typed, Memset \/ Memcpy, NEW a \in Copied
    PROVE  /\ NewByte(a) \in SUBSET Bits
           /\ Memset => NewByte(a) = call.source[a % DWord]
           /\ Memcpy => NewByte(a) = Source[a - call.dst]
<1>1. /\ PageSize \in Nat \ {0} /\ ArrayEnd \in Int /\ UserPage \in Int /\ UserEnd \in Int
      /\ Array = 0 .. ArrayEnd - 1 /\ User = UserPage .. UserEnd - 1 /\ UserPage >= ArrayEnd
      /\ UserEnd = UserPage + PageSize /\ PageSize <= ArrayEnd
  BY Layout DEF Positive
<1>2. a \in Array \cup User /\ a \in Int
  BY <1>1 DEF Copied
<1>3. CASE Memset
  <2>1. /\ call.dst \in Int /\ call.op = "memset" /\ call.pattern \in Patterns
        /\ call.source = SourceDword(call.pattern, call.dst)
    BY <1>1, <1>3 DEF Memset
  <2>2. NewByte(a) = LET n == Cardinality(DOMAIN call.pattern)
                     IN  call.pattern[n - 1 - ((a - call.dst) % n)]
    BY <2>1 DEF NewByte
  <2>3. ~Memcpy
    BY <2>1 DEF Memcpy
  <2> QED BY <1>2, <2>1, <2>2, <2>3, SourceByte
<1>4. CASE Memcpy
  <2>1. NewByte(a) = Source[a - call.dst] /\ ~Memset
    BY <1>4 DEF NewByte, Memcpy, Memset
  <2>2. call.dst <= a /\ a < call.dst + call.n
    BY <1>2, <1>4, CopiedIs
  <2>3. a - call.dst \in 0 .. ArrayEnd - 1
    BY <1>1, <1>2, <1>4, <2>2 DEF Memcpy
  <2>4. Source \in [0 .. ArrayEnd - 1 -> SUBSET Bits]
    BY FlashAssumption DEF ArrayEnd
  <2> QED BY <2>1, <2>3, <2>4
<1> QED BY <1>3, <1>4

LEMMA LastByte ==
    ASSUME NEW q \in Int, q % PageSize = 0, NEW d \in Int, q < d, d <= q + PageSize
    PROVE  AlignDown(d - 1, PageSize) = q
<1>1. PageSize \in Positive /\ PageSize \in Int
  BY Layout DEF Positive
<1>2. d - 1 \in Int /\ q <= d - 1 /\ d - 1 < q + PageSize
  BY <1>1
<1> QED BY <1>1, <1>2, Between

(* What a copy is to store does not change in its steps. *)
LEMMA SameCall ==
    ASSUME Keep
    PROVE  /\ Memset' <=> Memset
           /\ Memcpy' <=> Memcpy
           /\ Copied' = Copied
           /\ call' = call /\ old' = old /\ locked' = locked /\ calls' = calls
           /\ \A a : /\ Target(a)' = Target(a)
                     /\ NewByte(a)' = NewByte(a)
                     /\ Allowed(a)' <=> Allowed(a)
BY DEF Keep, Memset, Memcpy, Copied, Target, NewByte, Allowed

(* The buffer is cleared. *)
LEMMA ClearCopies ==
    ASSUME Typed, CopyInv, ClearPageBuffer
    PROVE  Typed' /\ CopyInv'
<1>1. /\ pc = "clear" /\ pc' = "fill" /\ buffer' = Erased /\ Keep
      /\ flash' = flash /\ pagen' = pagen /\ dest' = dest /\ errors' = errors
  BY DEF ClearPageBuffer
<1>2. Place /\ Progress
  BY <1>1 DEF CopyInv
<1>3. Working' = Working
  BY <1>1 DEF Working
<1>4. Place'
  <2>1. MemsetPlace => MemsetPlace'
    BY <1>1, <1>3, SameCall DEF MemsetPlace
  <2>2. MemcpyPlace => MemcpyPlace'
    BY <1>1, <1>3, SameCall DEF MemcpyPlace, Area
  <2> QED BY <1>1, <1>2, <1>3, <2>1, <2>2, SameCall DEF Place
<1>5. Progress'
  BY <1>1, <1>2, <1>3, SameCall DEF Progress
<1>6. Erased \in Buffer
  BY DEF Erased, Buffer
<1> QED BY <1>1, <1>4, <1>5, <1>6, SameCall DEF CopyInv, Buffered, Typed

(* The buffer is filled by memset. *)
LEMMA FillMemsetCopies ==
    ASSUME Typed, CopyInv, FillMemset
    PROVE  Typed' /\ CopyInv'
<1>1. /\ pc = "fill" /\ call.op = "memset" /\ Keep
      /\ flash' = flash /\ errors' = errors
      /\ pc' \in {"erase", "write"} /\ (pc' = "erase" <=> call.erase)
  <2>1. pc = "fill" /\ Copying("memset") /\ UNCHANGED <<flash, f, errors>> /\ Keep
        /\ pc' = IF call.erase THEN "erase" ELSE "write"
    BY DEF FillMemset
  <2> QED BY <2>1 DEF Copying
<1>2. Place /\ Buffered /\ Progress
  BY <1>1 DEF CopyInv
<1>3. Memset /\ MemsetPlace
  BY <1>1, <1>2 DEF Place, Memcpy
<1>4. /\ dest \in Int /\ call.end \in Int /\ dest < call.end /\ call.dst <= dest
      /\ dest = call.dst \/ dest = Working
      /\ call.dst \in Int
  <2>1. call.dst \in 0 .. UserEnd - 1 /\ call.n \in Nat /\ call.end = EndClipped(call.dst + call.n)
    BY <1>3 DEF Memset
  <2>2. call.dst \in Int /\ call.dst + call.n \in Int
    BY <2>1, Layout
  <2>3. call.end \in Int
    BY <2>1, <2>2, EndIs
  <2> QED BY <1>1, <1>2, <1>3, <2>2, <2>3 DEF Place, MemsetPlace
<1>5. Working = AlignDown(dest, PageSize)
  BY <1>1 DEF Working
<1>6. PICK kept \in [Page(Working) -> BOOLEAN] :
        /\ \A a \in Page(Working) : kept[a] <=> a < dest \/ call.end <= a
        /\ buffer' = BufferWritten([a \in Page(Working) |->
                        IF kept[a] THEN flash[a] ELSE call.source[a % DWord]])
        /\ PageWritten(Page(Working))
        /\ dest' \in Int /\ Working < dest' /\ dest' <= Working + PageSize
        /\ dest' = Working + PageSize \/ call.end <= dest'
  <2> DEFINE page  == AlignDown(dest, PageSize)
             first == AlignDown(dest, DWord)
             last  == AlignDown(call.end, DWord)
             incomplete == page >= AlignDown(call.end, PageSize)
             begun == dest % DWord # 0 /\ first < last
             start == IF begun THEN first + DWord ELSE first
             stop  == IF last < page + PageSize THEN last ELSE page + PageSize
             ended == incomplete /\ call.end % DWord # 0
             rest  == IF ended THEN last + DWord ELSE call.end
             before == page .. first - 1
             begin == IF begun THEN DWordAt(first) ELSE {}
             end   == IF ended THEN DWordAt(stop) ELSE {}
             after == IF incomplete THEN rest .. page + PageSize - 1 ELSE {}
             kept(a) ==
                 \/ a \in before \cup after
                 \/ a \in begin /\ a % DWord < dest % DWord
                 \/ a \in end /\ a % DWord >= call.end % DWord
                 \/ a \in end /\ ~begun /\ a % DWord < dest % DWord
             next == IF ended THEN stop + DWord ELSE stop
             bytes == before \cup begin \cup (start .. stop - 1) \cup end \cup after
  <2>1. /\ bytes = Page(page)
        /\ \A a \in Page(page) : kept(a) <=> a < dest \/ call.end <= a
        /\ next \in Int /\ page < next /\ next <= page + PageSize
        /\ next = page + PageSize \/ call.end <= next
    BY <1>4, MemsetPage
  <2>2. /\ buffer' = BufferWritten([a \in bytes |-> IF kept(a) THEN flash[a] ELSE call.source[a % DWord]])
        /\ PageWritten(bytes)
        /\ dest' = next
    BY DEF FillMemset
  <2> HIDE DEF bytes, kept, next
  <2> DEFINE k == [a \in Page(page) |-> kept(a)]
  <2>3. k \in [Page(page) -> BOOLEAN]
    <3>1. \A a \in Page(page) : kept(a) \in BOOLEAN
      BY DEF kept
    <3> QED BY <3>1
  <2>4. [a \in bytes |-> IF kept(a) THEN flash[a] ELSE call.source[a % DWord]]
        = [a \in Page(page) |-> IF k[a] THEN flash[a] ELSE call.source[a % DWord]]
    BY <2>1
  <2>5. \A a \in Page(page) : k[a] <=> a < dest \/ call.end <= a
    BY <2>1
  <2> HIDE DEF k, page
  <2>6. Working = page
    BY <1>5 DEF page
  <2> QED BY <2>1, <2>2, <2>3, <2>4, <2>5, <2>6
<1> DEFINE value == [a \in Page(Working) |-> IF kept[a] THEN flash[a] ELSE call.source[a % DWord]]
<1>7. /\ Working \in Int /\ Working % PageSize = 0
      /\ Page(Working) = Working .. Working + PageSize - 1
      /\ Page(Working) \subseteq Array \cup User
  BY <1>2, WorkingIs
<1>8. ASSUME NEW a \in Page(Working)
      PROVE  /\ value[a] \in SUBSET Bits
             /\ value[a] = IF a \in Copied THEN NewByte(a) ELSE old.flash[a]
  <2>1. a \in Array \cup User /\ a \in Int /\ Working <= a
    BY <1>7
  <2>2. kept[a] <=> a \notin Copied
    BY <1>3, <1>4, <1>6, <2>1, CopiedIs
  <2>3. value[a] = IF a \in Copied THEN call.source[a % DWord] ELSE flash[a]
    BY <2>2
  <2>4. flash[a] = old.flash[a] /\ flash[a] \in SUBSET Bits
    BY <1>1, <1>2, <1>7, <2>1 DEF Progress, Typed, Memory
  <2>5. a \in Copied => NewByte(a) = call.source[a % DWord] /\ NewByte(a) \in SUBSET Bits
    BY <1>3, NewByteIs
  <2> HIDE DEF value
  <2> QED BY <2>3, <2>4, <2>5
<1>9. value \in [Page(Working) -> SUBSET Bits]
  BY <1>8
<1>10. buffer' \in Buffer /\ \A a \in Page(Working) : buffer'[a % PageSize] = value[a]
  <2>1. buffer = Erased /\ buffer' = BufferWritten(value)
    BY <1>1, <1>2, <1>6 DEF Buffered
  <2> HIDE DEF value
  <2> QED BY <1>7, <1>9, <2>1, BufferFilled
<1> HIDE DEF value
<1>11. Working' = Working
  <2>1. Working' = AlignDown(dest' - 1, PageSize)
    BY <1>1 DEF Working
  <2>2. dest' \in Int /\ Working < dest' /\ dest' <= Working + PageSize
    BY <1>6, Zenon
  <2> QED BY <1>7, <2>1, <2>2, LastByte
<1>12. pagen' \in 0 .. Pages /\ (Working \in Array => pagen' = Working \div PageSize)
  BY <1>2, <1>6, <1>7, PageTaken DEF Typed, Place
<1>13. Place'
  <2>1. call.dst < Working + PageSize
    BY <1>1, <1>2, <1>4, <1>7, WorkingIs, Layout DEF Positive
  <2>2. MemsetPlace'
    BY <1>1, <1>3, <1>6, <1>11, <2>1, SameCall DEF MemsetPlace
  <2> QED BY <1>1, <1>2, <1>3, <1>6, <1>11, <1>12, <2>2, SameCall DEF Place
<1>14. Buffered'
  BY <1>1, <1>8, <1>10, <1>11, SameCall DEF Buffered
<1>15. Progress'
  BY <1>1, <1>2, <1>11, SameCall DEF Progress
<1>16. Typed'
  BY <1>1, <1>10, <1>12, SameCall DEF Typed
<1> QED BY <1>1, <1>13, <1>14, <1>15, <1>16 DEF CopyInv

(* The buffer is filled by memcpy. *)
LEMMA FillMemcpyCopies ==
    ASSUME Typed, CopyInv, FillMemcpy
    PROVE  Typed' /\ CopyInv'
<1>1. /\ pc = "fill" /\ call.op = "memcpy" /\ Keep
      /\ flash' = flash /\ errors' = errors /\ dest' = dest + PageSize
      /\ pc' \in {"erase", "write"} /\ (pc' = "erase" <=> call.erase)
  <2>1. pc = "fill" /\ Copying("memcpy") /\ UNCHANGED <<flash, f, errors>> /\ Keep
        /\ pc' = (IF call.erase THEN "erase" ELSE "write") /\ dest' = dest + PageSize
    BY DEF FillMemcpy
  <2> QED BY <2>1 DEF Copying
<1>2. Place /\ Buffered /\ Progress
  BY <1>1 DEF CopyInv
<1>3. Memcpy /\ MemcpyPlace
  BY <1>1, <1>2 DEF Place, Memset
<1>4. dest = Working /\ call.dst \in Int /\ call.n \in Nat
  BY <1>1, <1>3, Layout DEF MemcpyPlace, Memcpy
<1>7. /\ Working \in Int /\ Working % PageSize = 0
      /\ Page(Working) = Working .. Working + PageSize - 1
      /\ Page(Working) \subseteq Array \cup User
  BY <1>2, WorkingIs
<1> DEFINE copied(a) == a \in call.dst .. call.dst + call.n - 1
           value == [a \in Page(Working) |-> IF copied(a) THEN Source[a - call.dst] ELSE flash[a]]
<1>6. buffer' = BufferWritten(value) /\ PageWritten(Page(Working))
  <2>1. /\ buffer' = BufferWritten([a \in dest .. dest + PageSize - 1 |->
                        IF copied(a) THEN Source[a - call.dst] ELSE flash[a]])
        /\ PageWritten(dest .. dest + PageSize - 1)
    BY DEF FillMemcpy
  <2>2. dest .. dest + PageSize - 1 = Page(Working)
    BY <1>4, <1>7
  <2> QED BY <2>1, <2>2
<1>8. ASSUME NEW a \in Page(Working)
      PROVE  /\ value[a] \in SUBSET Bits
             /\ value[a] = IF a \in Copied THEN NewByte(a) ELSE old.flash[a]
  <2>1. a \in Array \cup User /\ a \in Int
    BY <1>7
  <2>2. copied(a) <=> a \in Copied
    BY <1>3, <1>4, <2>1, CopiedIs
  <2>3. value[a] = IF a \in Copied THEN Source[a - call.dst] ELSE flash[a]
    BY <2>2
  <2>4. flash[a] = old.flash[a] /\ flash[a] \in SUBSET Bits
    BY <1>1, <1>2, <1>7, <2>1 DEF Progress, Typed, Memory
  <2>5. a \in Copied => NewByte(a) = Source[a - call.dst] /\ NewByte(a) \in SUBSET Bits
    BY <1>3, NewByteIs
  <2> HIDE DEF value
  <2> QED BY <2>3, <2>4, <2>5
<1>9. value \in [Page(Working) -> SUBSET Bits]
  BY <1>8
<1>10. buffer' \in Buffer /\ \A a \in Page(Working) : buffer'[a % PageSize] = value[a]
  <2>1. buffer = Erased /\ buffer' = BufferWritten(value)
    BY <1>1, <1>2, <1>6 DEF Buffered
  <2> HIDE DEF value
  <2> QED BY <1>7, <1>9, <2>1, BufferFilled
<1> HIDE DEF value
<1>5. dest' \in Int /\ dest' = Working + PageSize
  BY <1>1, <1>4, <1>7, Layout DEF Positive
<1>11. Working' = Working
  <2>1. Working' = AlignDown(dest' - 1, PageSize)
    BY <1>1 DEF Working
  <2>2. dest' \in Int /\ Working < dest' /\ dest' <= Working + PageSize
    BY <1>5, <1>7, Layout DEF Positive
  <2> QED BY <1>7, <2>1, <2>2, LastByte
<1>12. pagen' \in 0 .. Pages /\ (Working \in Array => pagen' = Working \div PageSize)
  BY <1>2, <1>6, <1>7, PageTaken DEF Typed, Place
<1>13. Place'
  <2>1. MemcpyPlace'
    BY <1>1, <1>3, <1>5, <1>11, SameCall DEF MemcpyPlace, Area
  <2> QED BY <1>1, <1>2, <1>3, <1>5, <1>11, <1>12, <2>1, SameCall DEF Place
<1>14. Buffered'
  BY <1>1, <1>8, <1>10, <1>11, SameCall DEF Buffered
<1>15. Progress'
  BY <1>1, <1>2, <1>11, SameCall DEF Progress
<1>16. Typed'
  BY <1>1, <1>10, <1>12, SameCall DEF Typed
<1> QED BY <1>1, <1>13, <1>14, <1>15, <1>16 DEF CopyInv

(* The page is erased, unless it is refused. *)
LEMMA EraseCopies ==
    ASSUME Typed, CopyInv, ErasePage
    PROVE  Typed' /\ CopyInv'
<1> DEFINE refuse == Current \subseteq Array /\ Refuses(pagen)
<1>1. /\ pc = "erase" /\ pc' = "write" /\ Keep
      /\ flash' = (IF refuse THEN flash ELSE EraseIn(flash, Current))
      /\ errors' = (errors \/ refuse)
      /\ buffer' = buffer /\ pagen' = pagen /\ dest' = dest
  BY DEF ErasePage, PageCommand
<1>2. Place /\ Buffered /\ Progress
  BY <1>1 DEF CopyInv
<1>3. /\ Current = Page(Working) /\ Page(Working) \subseteq Array \cup User
      /\ \A a \in Page(Working) : Allowed(a) <=> ~refuse
      /\ Working \in Int /\ Page(Working) = Working .. Working + PageSize - 1
  BY <1>1, <1>2, CurrentIs, WorkingIs
<1> HIDE DEF refuse
<1>4. Working' = Working
  BY <1>1 DEF Working
<1>5. flash' \in Memory
  <2>1. EraseIn(flash, Current) \in Memory
    BY DEF EraseIn, Typed, Memory
  <2> QED BY <1>1, <2>1 DEF Typed
<1>6. Place'
  <2>1. MemsetPlace => MemsetPlace'
    BY <1>1, <1>4, SameCall DEF MemsetPlace
  <2>2. MemcpyPlace => MemcpyPlace'
    BY <1>1, <1>4, SameCall DEF MemcpyPlace, Area
  <2> QED BY <1>1, <1>2, <1>4, <2>1, <2>2, SameCall DEF Place
<1>7. Buffered'
  BY <1>1, <1>2, <1>4, SameCall DEF Buffered
<1>8. call.erase /\ call'.erase
  BY <1>1, <1>2, SameCall DEF Place
<1>9. Progress'
  <2> SUFFICES ASSUME NEW a \in Array \cup User
               PROVE  flash'[a] = IF a < Working THEN Target(a)
                                  ELSE IF a \in Page(Working) /\ Allowed(a) THEN Bits
                                  ELSE old.flash[a]
    BY <1>1, <1>4, <1>8, SameCall DEF Progress
  <2>1. flash[a] = IF a < Working THEN Target(a) ELSE old.flash[a]
    BY <1>1, <1>2 DEF Progress
  <2>2. a < Working => a \notin Page(Working)
    BY <1>3, Layout DEF Positive
  <2>3. flash'[a] = IF ~refuse /\ a \in Page(Working) THEN Bits ELSE flash[a]
    BY <1>1, <1>3 DEF EraseIn, Typed, Memory
  <2> QED BY <1>3, <2>1, <2>2, <2>3
<1>10. Typed'
  BY <1>1, <1>5, SameCall DEF Typed, refuse
<1> QED BY <1>1, <1>6, <1>7, <1>9, <1>10 DEF CopyInv

(* What a page holds when it is written *)
LEMMA PageWrittenIs ==
    ASSUME Typed, Place, Buffered, Progress, pc = "write",
           flash' = (IF Current \subseteq Array /\ Refuses(pagen) THEN flash
                     ELSE WriteIn(flash, Current))
    PROVE  /\ flash' \in Memory
           /\ \A a \in Array \cup User :
                flash'[a] = IF a < Working + PageSize THEN Target(a) ELSE old.flash[a]
<1> DEFINE refuse == Current \subseteq Array /\ Refuses(pagen)
<1>1. /\ Current = Page(Working) /\ Page(Working) \subseteq Array \cup User
      /\ \A a \in Page(Working) : Allowed(a) <=> ~refuse
      /\ Working \in Int /\ Page(Working) = Working .. Working + PageSize - 1
      /\ Working % PageSize = 0
  BY CurrentIs, WorkingIs
<1>2. flash' = IF refuse THEN flash ELSE WriteIn(flash, Current)
  OBVIOUS
<1> HIDE DEF refuse
<1>3. PageSize \in Nat \ {0} /\ Array \cup User \subseteq Int
  BY Layout DEF Positive
<1>4. DOMAIN flash = Array \cup User
  BY DEF Typed, Memory
<1>5. ASSUME NEW a \in Array \cup User, a \notin Page(Working)
      PROVE  flash'[a] = flash[a]
  BY <1>1, <1>2, <1>4, <1>5 DEF WriteIn
<1>6. ASSUME NEW a \in Page(Working)
      PROVE  flash'[a] = Target(a) /\ Target(a) \in SUBSET Bits
  <2>1. a \in Array \cup User /\ a >= Working
    BY <1>1
  <2>2. flash[a] = IF call.erase /\ Allowed(a) THEN Bits ELSE old.flash[a]
    BY <2>1, <1>1, <1>3 DEF Progress
  <2>3. buffer[a % PageSize] = IF a \in Copied THEN NewByte(a) ELSE old.flash[a]
    BY DEF Buffered
  <2>4. old.flash[a] \in SUBSET Bits
    BY <2>1 DEF Typed, Memory
  <2>5. a \in Copied => NewByte(a) \in SUBSET Bits
    BY NewByteIs DEF Place
  <2>6. Target(a) = IF a \in Copied /\ Allowed(a)
                    THEN IF call.erase THEN NewByte(a) ELSE NewByte(a) \cap old.flash[a]
                    ELSE old.flash[a]
    BY DEF Target
  <2>7. CASE refuse
    <3>1. flash'[a] = flash[a] /\ ~Allowed(a)
      BY <1>1, <1>2, <2>7
    <3> QED BY <2>2, <2>4, <2>6, <3>1
  <2>8. CASE ~refuse
    <3>1. flash'[a] = flash[a] \cap buffer[a % PageSize] /\ Allowed(a)
      BY <1>1, <1>2, <1>4, <2>1, <2>8 DEF WriteIn
    <3>2. CASE a \in Copied
      BY <2>2, <2>3, <2>4, <2>5, <2>6, <3>1, <3>2
    <3>3. CASE a \notin Copied
      BY <2>2, <2>3, <2>4, <2>6, <3>1, <3>3
    <3> QED BY <3>2, <3>3
  <2> QED BY <2>7, <2>8
<1>7. flash' \in Memory
  <2>1. flash' = [a \in Array \cup User |-> flash'[a]]
    BY <1>2, <1>4 DEF WriteIn, Typed, Memory
  <2>2. ASSUME NEW a \in Array \cup User PROVE flash'[a] \in SUBSET Bits
    <3>1. CASE a \in Page(Working)  BY <1>6, <3>1
    <3>2. CASE a \notin Page(Working)  BY <1>5, <3>2 DEF Typed, Memory
    <3> QED BY <3>1, <3>2
  <2> QED BY <2>1, <2>2 DEF Memory
<1>8. ASSUME NEW a \in Array \cup User
      PROVE  flash'[a] = IF a < Working + PageSize THEN Target(a) ELSE old.flash[a]
  <2>1. CASE a \in Page(Working)
    <3>1. a < Working + PageSize
      BY <1>1, <1>3, <2>1
    <3> QED BY <1>6, <2>1, <3>1
  <2>2. CASE a \notin Page(Working)
    <3>1. a < Working <=> a < Working + PageSize
      BY <1>1, <1>3, <2>2
    <3>2. flash'[a] = flash[a]
      BY <1>5, <2>2
    <3>3. flash[a] = IF a < Working THEN Target(a) ELSE old.flash[a]
      BY <2>2 DEF Progress
    <3> QED BY <3>1, <3>2, <3>3
  <2> QED BY <2>1, <2>2
<1> QED BY <1>7, <1>8

LEMMA MultipleAfter ==
    ASSUME NEW q \in Int, q % PageSize = 0
    PROVE  (q + PageSize) % PageSize = 0
<1>1. PageSize \in Positive /\ PageSize \in Int
  BY Layout DEF Positive
<1>2. PageSize % PageSize = 0
  BY <1>1, Itself
<1> QED BY <1>1, <1>2, SumOfMultiples

(* A copy goes on with the page after the one it has written ... *)
LEMMA NextPage ==
    ASSUME Typed, Place, NEW w \in Array \cup User, Working < w, w % PageSize = 0,
           w = Working + PageSize \/ (Working + PageSize = ArrayEnd /\ w = UserPage),
           flash' \in Memory, Keep, pc' = "clear", dest' = w,
           \A a \in Array \cup User :
                flash'[a] = IF a < Working + PageSize THEN Target(a) ELSE old.flash[a]
    PROVE  Working' = w /\ Progress'
<1>1. /\ PageSize \in Nat \ {0} /\ ArrayEnd \in Int /\ UserPage \in Int /\ UserEnd \in Int
      /\ Array = 0 .. ArrayEnd - 1 /\ User = UserPage .. UserEnd - 1 /\ Working \in Int
      /\ ArrayEnd + PageSize <= UserPage
  BY Layout, WorkingIs DEF Positive
<1>2. w \in Int
  BY <1>1
<1>3. Working' = w
  <2>1. Working' = AlignDown(w, PageSize)
    BY DEF Working
  <2> QED BY <2>1, <1>1, <1>2 DEF AlignDown
<1>4. ASSUME NEW a \in Array \cup User
      PROVE  a < Working + PageSize <=> a < w
  <2>1. a \in Int
    BY <1>1
  <2> QED BY <1>1, <1>2, <2>1
<1>5. ASSUME NEW a \in Array \cup User
      PROVE  flash'[a] = IF a < w THEN Target(a) ELSE old.flash[a]
  BY <1>4
<1>6. Progress'
  <2>1. pc' # "write"
    OBVIOUS
  <2> QED BY <1>3, <1>5, <2>1, SameCall DEF Progress
<1> QED BY <1>3, <1>6

(* ... or is finished, when nothing behind that page is to be written. *)
LEMMA LastPage ==
    ASSUME Typed, Place, Keep,
           \A a \in Array \cup User : a >= Working + PageSize => a \notin Copied,
           \A a \in Array \cup User :
                flash'[a] = IF a < Working + PageSize THEN Target(a) ELSE old.flash[a]
    PROVE  Finished'
<1>1. PageSize \in Nat \ {0} /\ Working \in Int /\ Array \cup User \subseteq Int
  BY Layout, WorkingIs DEF Positive
<1>2. ASSUME NEW a \in Array \cup User PROVE flash'[a] = Target(a)
  <2>1. CASE a < Working + PageSize
    BY <2>1
  <2>2. CASE a >= Working + PageSize
    <3>1. Target(a) = old.flash[a]
      BY <2>2 DEF Target
    <3> QED BY <1>1, <2>2, <3>1
  <2> QED BY <1>1, <2>1, <2>2
<1> QED BY <1>2, SameCall DEF Finished

(* memset writes a page, and passes the gap behind the last page of the array. *)
LEMMA WriteMemsetCopies ==
    ASSUME Typed, CopyInv, WriteMemset
    PROVE  Typed' /\ CopyInv'
<1> DEFINE refuse == Current \subseteq Array /\ Refuses(pagen)
<1>1. /\ pc = "write" /\ call.op = "memset" /\ Keep
      /\ pc' = (IF dest' < call.end THEN "clear" ELSE "idle")
      /\ dest' = (IF ~InUser /\ dest >= ArrayEnd THEN UserPage ELSE dest)
      /\ flash' = (IF refuse THEN flash ELSE WriteIn(flash, Current))
      /\ errors' = (errors \/ refuse)
      /\ buffer' = buffer /\ pagen' = pagen
  BY DEF WriteMemset, PageCommand, Copying
<1>2. Place /\ Buffered /\ Progress
  BY <1>1 DEF CopyInv
<1>3. Memset /\ MemsetPlace
  BY <1>1, <1>2 DEF Place, Memcpy
<1>4. /\ flash' \in Memory
      /\ \A a \in Array \cup User :
            flash'[a] = IF a < Working + PageSize THEN Target(a) ELSE old.flash[a]
  <2>1. flash' = (IF Current \subseteq Array /\ Refuses(pagen) THEN flash
                  ELSE WriteIn(flash, Current))
    BY <1>1
  <2> QED BY <1>1, <1>2, <2>1, PageWrittenIs
<1>5. Typed'
  BY <1>1, <1>4, SameCall DEF Typed
<1> HIDE DEF refuse
<1>6. /\ PageSize \in Nat \ {0} /\ ArrayEnd \in Int /\ UserPage \in Int /\ UserEnd \in Int
      /\ Array = 0 .. ArrayEnd - 1 /\ User = UserPage .. UserEnd - 1
      /\ ArrayEnd + PageSize <= UserPage /\ UserEnd = UserPage + PageSize
      /\ UserPage % PageSize = 0
  BY Layout DEF Positive
<1>7. /\ Working \in Int /\ Working % PageSize = 0 /\ Working \in Array \cup User
      /\ Working < dest /\ dest <= Working + PageSize
      /\ Working \in Array => Working + PageSize <= ArrayEnd
      /\ Working \in User => Working = UserPage
      /\ InUser <=> Working \in User
  BY <1>1, <1>2, WorkingIs, CurrentIs DEF Place
<1>8. /\ call.dst \in Int /\ call.end \in Int /\ dest \in Int
      /\ call.end <= UserEnd /\ (call.end <= ArrayEnd \/ UserPage < call.end)
      /\ dest = Working + PageSize \/ call.end <= dest
  <2>1. call.dst \in 0 .. UserEnd - 1 /\ call.n \in Nat /\ call.end = EndClipped(call.dst + call.n)
    BY <1>3 DEF Memset
  <2>2. call.dst \in Int /\ call.dst + call.n \in Int
    BY <1>6, <2>1
  <2>3. /\ call.end \in Int /\ call.end <= UserEnd
        /\ call.end <= ArrayEnd \/ UserPage < call.end
    BY <2>1, <2>2, EndIs
  <2> QED BY <1>1, <1>2, <1>3, <2>2, <2>3 DEF Place, MemsetPlace
<1>9. CASE dest' < call.end
  <2>1. /\ dest' \in Array \cup User /\ Working < dest'
        /\ dest' = Working + PageSize \/ (Working + PageSize = ArrayEnd /\ dest' = UserPage)
    BY <1>1, <1>6, <1>7, <1>8, <1>9
  <2>2. dest' % PageSize = 0
    <3>1. (Working + PageSize) % PageSize = 0
      BY <1>7, MultipleAfter
    <3> QED BY <1>6, <2>1, <3>1
  <2>3. pc' = "clear"
    BY <1>1, <1>9
  <2>4. Working' = dest' /\ Progress'
    <3> DEFINE w == dest'
    <3>1. w \in Array \cup User /\ Working < w /\ w % PageSize = 0 /\ dest' = w
          /\ (w = Working + PageSize \/ (Working + PageSize = ArrayEnd /\ w = UserPage))
      BY <2>1, <2>2
    <3> HIDE DEF w
    <3>2. Working' = w /\ Progress'
      BY <1>1, <1>2, <1>4, <2>3, <3>1, NextPage
    <3> QED BY <3>1, <3>2
  <2>5. call.dst <= dest'
    <3>1. call.dst < Working + PageSize
      BY <1>1, <1>3 DEF MemsetPlace
    <3> QED BY <1>6, <1>7, <1>8, <2>1, <3>1
  <2>6. MemsetPlace'
    BY <1>1, <1>3, <1>9, <2>3, <2>4, <2>5, SameCall DEF MemsetPlace
  <2>7. Place'
    BY <1>1, <1>3, <1>6, <2>1, <2>3, <2>4, <2>6, SameCall DEF Place
  <2>8. Buffered'
    BY <2>3 DEF Buffered
  <2> QED BY <1>5, <2>3, <2>4, <2>7, <2>8 DEF CopyInv
<1>10. CASE ~(dest' < call.end)
  <2>1. pc' = "idle"
    BY <1>1, <1>10
  <2>2. ASSUME NEW a \in Array \cup User, a >= Working + PageSize
        PROVE  a \notin Copied
    <3>1. a \in Int
      BY <1>6
    <3>2. a >= call.end
      BY <1>1, <1>6, <1>7, <1>8, <1>10, <2>2, <3>1
    <3> QED BY <1>3, <1>8, <3>1, <3>2, CopiedIs
  <2>3. Finished'
    BY <1>1, <1>2, <1>4, <2>2, LastPage
  <2> QED BY <1>5, <2>1, <2>3 DEF CopyInv
<1> QED BY <1>9, <1>10

(* memcpy writes a page. *)
LEMMA WriteMemcpyCopies ==
    ASSUME Typed, CopyInv, WriteMemcpy
    PROVE  Typed' /\ CopyInv'
<1> DEFINE refuse == Current \subseteq Array /\ Refuses(pagen)
<1>1. /\ pc = "write" /\ call.op = "memcpy" /\ Keep
      /\ pc' = (IF dest < call.dst + call.n THEN "clear" ELSE "idle")
      /\ dest' = dest
      /\ flash' = (IF refuse THEN flash ELSE WriteIn(flash, Current))
      /\ errors' = (errors \/ refuse)
      /\ buffer' = buffer /\ pagen' = pagen
  BY DEF WriteMemcpy, PageCommand, Copying
<1>2. Place /\ Buffered /\ Progress
  BY <1>1 DEF CopyInv
<1>3. Memcpy /\ MemcpyPlace
  BY <1>1, <1>2 DEF Place, Memset
<1>4. /\ flash' \in Memory
      /\ \A a \in Array \cup User :
            flash'[a] = IF a < Working + PageSize THEN Target(a) ELSE old.flash[a]
  <2>1. flash' = (IF Current \subseteq Array /\ Refuses(pagen) THEN flash
                  ELSE WriteIn(flash, Current))
    BY <1>1
  <2> QED BY <1>1, <1>2, <2>1, PageWrittenIs
<1>5. Typed'
  BY <1>1, <1>4, SameCall DEF Typed
<1> HIDE DEF refuse
<1>6. /\ PageSize \in Nat \ {0} /\ ArrayEnd \in Int /\ UserPage \in Int /\ UserEnd \in Int
      /\ Array = 0 .. ArrayEnd - 1 /\ User = UserPage .. UserEnd - 1
      /\ ArrayEnd + PageSize <= UserPage /\ UserEnd = UserPage + PageSize
  BY Layout DEF Positive
<1>7. /\ Working \in Int /\ Working % PageSize = 0 /\ Working \in Array \cup User
      /\ Working \in Array => Working + PageSize <= ArrayEnd
      /\ Working \in User => Working = UserPage
  BY <1>1, <1>2, WorkingIs DEF Place
<1>8. /\ call.dst \in Int /\ call.n \in Nat /\ dest = Working + PageSize
      /\ Working \in Array => call.dst + call.n <= ArrayEnd /\ call.dst \in Array
      /\ Working \in User => call.dst + call.n <= UserEnd /\ call.dst \in User
  BY <1>1, <1>3, <1>6, <1>7 DEF Memcpy, MemcpyPlace, Area
<1>9. CASE dest < call.dst + call.n
  <2>1. dest \in Array
    BY <1>6, <1>7, <1>8, <1>9
  <2>2. dest % PageSize = 0
    <3>1. (Working + PageSize) % PageSize = 0
      BY <1>7, MultipleAfter
    <3> QED BY <1>8, <3>1
  <2>3. pc' = "clear"
    BY <1>1, <1>9
  <2>4. Working' = dest /\ Progress'
    <3>1. Working < dest /\ dest \in Array \cup User
      BY <1>6, <1>7, <1>8, <2>1
    <3> QED BY <1>1, <1>2, <1>4, <1>8, <2>2, <2>3, <3>1, NextPage
  <2>5. Working \in Array /\ dest \notin User
    BY <1>6, <1>7, <1>8, <1>9, <2>1
  <2>6. MemcpyPlace'
    <3>1. Area' = Array
      BY <2>4, <2>5 DEF Area
    <3> QED BY <1>1, <1>8, <1>9, <2>3, <2>4, <2>5, <3>1, SameCall DEF MemcpyPlace
  <2>7. Place'
    BY <1>1, <1>3, <1>6, <2>1, <2>3, <2>4, <2>6, SameCall DEF Place
  <2>8. Buffered'
    BY <2>3 DEF Buffered
  <2> QED BY <1>5, <2>3, <2>4, <2>7, <2>8 DEF CopyInv
<1>10. CASE ~(dest < call.dst + call.n)
  <2>1. pc' = "idle"
    BY <1>1, <1>10
  <2>2. ASSUME NEW a \in Array \cup User, a >= Working + PageSize
        PROVE  a \notin Copied
    <3>1. a \in Int
      BY <1>6
    <3>2. a >= call.dst + call.n
      BY <1>6, <1>7, <1>8, <1>10, <2>2, <3>1
    <3> QED BY <1>3, <1>8, <3>1, <3>2, CopiedIs
  <2>3. Finished'
    BY <1>1, <1>2, <1>4, <2>2, LastPage
  <2> QED BY <1>5, <2>1, <2>3 DEF CopyInv
<1> QED BY <1>9, <1>10

(* A memset begins, or has nothing to do. *)
LEMMA MemsetCopies ==
    ASSUME Typed, CopyInv, NEW dst \in 0 .. UserEnd - 1, NEW n \in Nat, NEW p \in Patterns,
           NEW erase \in BOOLEAN, memset(dst, n, p, erase)
    PROVE  Typed' /\ CopyInv'
<1> DEFINE end == EndClipped(dst + n)
           from == Clipped(dst)
           c == [op |-> "memset", dst |-> dst, n |-> n, erase |-> erase, pattern |-> p,
                 end |-> end, source |-> SourceDword(p, dst)]
<1>1. /\ calls' = MaxCall /\ call' = c
      /\ old' = [flash |-> flash, fuses |-> f.fuses]
      /\ dest' = from /\ errors' = FALSE
      /\ pc' = (IF from < end THEN "clear" ELSE "idle")
      /\ flash' = flash /\ buffer' = buffer /\ pagen' = pagen /\ locked' = locked
  BY DEF memset, Begin
<1>2. Typed'
  <2>1. old'.flash = flash
    BY <1>1
  <2> HIDE DEF c
  <2>2. calls' \in 0 .. MaxCall
    BY <1>1, FlashAssumption
  <2> QED BY <1>1, <2>1, <2>2 DEF Typed
<1>3. /\ PageSize \in Nat \ {0} /\ ArrayEnd \in Int /\ UserPage \in Int /\ UserEnd \in Int
      /\ Array = 0 .. ArrayEnd - 1 /\ User = UserPage .. UserEnd - 1
      /\ ArrayEnd + PageSize <= UserPage /\ UserEnd = UserPage + PageSize
  BY Layout DEF Positive
<1>4. dst \in Int /\ dst + n \in Int
  BY <1>3
<1>5. /\ end \in Int /\ end <= UserEnd
      /\ \A a \in Array \cup User : a < end <=> a < dst + n
  BY <1>4, EndIs
<1>6. /\ from \in Array \cup User /\ from \in Int /\ dst <= from
      /\ from = dst \/ from = UserPage
      /\ \A a \in Array \cup User : dst <= a <=> from <= a
  BY <1>3, <1>4 DEF Clipped
<1>7. Copied' = (dst .. dst + n - 1) \cap (Array \cup User)
  BY <1>1 DEF Copied
<1>8. ASSUME NEW a \in Array \cup User
      PROVE  a \in Copied' <=> from <= a /\ a < end
  <2>1. a \in Int
    BY <1>3
  <2> HIDE DEF end, from
  <2> QED BY <1>4, <1>5, <1>6, <1>7, <2>1
<1>9. ASSUME NEW a \in Array \cup User, a \notin Copied'
      PROVE  flash'[a] = Target(a)' /\ Target(a)' = old'.flash[a]
  BY <1>1, <1>9 DEF Target
<1>10. c.op = "memset" /\ call'.op = "memset" /\ call'.dst = dst /\ call'.n = n /\ call'.end = end
       /\ call'.erase = erase /\ call'.pattern = p /\ call'.source = SourceDword(p, dst)
  BY <1>1
<1> HIDE DEF c
<1>11. CASE from < end
  <2>1. pc' = "clear"
    BY <1>1, <1>11
  <2> DEFINE w == AlignDown(from, PageSize)
  <2>2. Working' = w
    BY <1>1, <2>1 DEF Working
  <2>3. /\ w \in Int /\ w <= from /\ from < w + PageSize /\ w \in Array \cup User
        /\ from = UserPage => w = UserPage
    <3>1. /\ w \in Int /\ w <= from
          /\ from \in Array => w \in Array
          /\ from \in User => w = UserPage
      BY <1>6, PageOf
    <3>2. from < w + PageSize
      BY <1>6, PageOf
    <3> HIDE DEF w, from
    <3>3. UserPage \in User
      BY <1>3
    <3> QED BY <1>6, <3>1, <3>2, <3>3
  <2> HIDE DEF w, from, end
  <2>4. Memset'
    <3>1. call'.end = EndClipped(call'.dst + call'.n)
      BY <1>10 DEF end
    <3> QED BY <1>10, <3>1 DEF Memset
  <2>5. MemsetPlace'
    <3>1. /\ w < end /\ dst <= from /\ from < end
          /\ from = dst \/ from = w
      BY <1>5, <1>6, <1>11, <2>3
    <3> QED BY <1>1, <1>10, <2>1, <2>2, <3>1 DEF MemsetPlace
  <2>6. Place'
    BY <1>1, <1>6, <2>1, <2>2, <2>3, <2>4, <2>5 DEF Place
  <2>7. Progress'
    <3>1. ASSUME NEW a \in Array \cup User
          PROVE  flash'[a] = IF a < w THEN Target(a)' ELSE old'.flash[a]
      <4>1. CASE a < w
        <5>1. a \notin Copied'
          BY <1>3, <1>6, <1>8, <2>3, <4>1
        <5> QED BY <1>9, <4>1, <5>1
      <4>2. CASE ~(a < w)
        BY <1>1, <4>2
      <4> QED BY <4>1, <4>2
    <3> QED BY <2>1, <2>2, <3>1 DEF Progress
  <2>8. Buffered'
    BY <2>1 DEF Buffered
  <2> QED BY <1>2, <2>1, <2>6, <2>7, <2>8 DEF CopyInv
<1>12. CASE ~(from < end)
  <2>1. pc' = "idle"
    BY <1>1, <1>12
  <2>2. ASSUME NEW a \in Array \cup User PROVE a \notin Copied'
    <3>1. a \in Int
      BY <1>3
    <3> HIDE DEF from, end
    <3> QED BY <1>5, <1>6, <1>8, <1>12, <3>1
  <2>3. Finished'
    BY <1>9, <2>2 DEF Finished
  <2> QED BY <1>2, <2>1, <2>3 DEF CopyInv
<1> QED BY <1>11, <1>12

(* A memcpy begins, or has nothing to do. *)
LEMMA MemcpyCopies ==
    ASSUME Typed, CopyInv, NEW dst \in Array \cup User, NEW n \in Nat,
           dst \in Array => dst + n <= ArrayEnd, dst \in User => dst + n <= UserEnd,
           NEW erase \in BOOLEAN, memcpy(dst, n, erase)
    PROVE  Typed' /\ CopyInv'
<1> DEFINE w == AlignDown(dst, PageSize)
           c == [op |-> "memcpy", dst |-> dst, n |-> n, erase |-> erase]
<1>1. /\ calls' = MaxCall /\ call' = c
      /\ old' = [flash |-> flash, fuses |-> f.fuses]
      /\ dest' = w /\ errors' = FALSE
      /\ pc' = (IF n # 0 THEN "clear" ELSE "idle")
      /\ flash' = flash /\ buffer' = buffer /\ pagen' = pagen /\ locked' = locked
  BY DEF memcpy, Begin
<1>2. Typed'
  <2>1. old'.flash = flash
    BY <1>1
  <2> HIDE DEF c
  <2>2. calls' \in 0 .. MaxCall
    BY <1>1, FlashAssumption
  <2> QED BY <1>1, <2>1, <2>2 DEF Typed
<1>3. /\ PageSize \in Nat \ {0} /\ ArrayEnd \in Int /\ UserPage \in Int /\ UserEnd \in Int
      /\ Array = 0 .. ArrayEnd - 1 /\ User = UserPage .. UserEnd - 1
      /\ ArrayEnd + PageSize <= UserPage /\ UserEnd = UserPage + PageSize
  BY Layout DEF Positive
<1>4. dst \in Int
  BY <1>3
<1>5. /\ w \in Int /\ w % PageSize = 0 /\ w <= dst
      /\ dst \in Array => w \in Array
      /\ dst \in User => w = UserPage
  BY PageOf
<1>7. Copied' = (dst .. dst + n - 1) \cap (Array \cup User)
  BY <1>1 DEF Copied
<1>9. ASSUME NEW a \in Array \cup User, a \notin Copied'
      PROVE  flash'[a] = Target(a)' /\ Target(a)' = old'.flash[a]
  BY <1>1, <1>9 DEF Target
<1>10. call'.op = "memcpy" /\ call'.dst = dst /\ call'.n = n /\ call'.erase = erase
  BY <1>1
<1> HIDE DEF c
<1>11. CASE n # 0
  <2>1. pc' = "clear"
    BY <1>1, <1>11
  <2>2. Working' = w
    <3>1. Working' = AlignDown(w, PageSize)
      BY <1>1, <2>1 DEF Working
    <3> HIDE DEF w
    <3> QED BY <1>5, <3>1 DEF AlignDown
  <2> HIDE DEF w
  <2>4. Memcpy'
    BY <1>10 DEF Memcpy
  <2>5. MemcpyPlace'
    <3>1. w < dst + n
      BY <1>4, <1>5, <1>11
    <3>2. dst \in (IF w \in User THEN User ELSE Array)
      BY <1>3, <1>4, <1>5
    <3>3. Area' = IF w \in User THEN User ELSE Array
      BY <2>2 DEF Area
    <3> QED BY <1>1, <1>10, <2>1, <2>2, <3>1, <3>2, <3>3 DEF MemcpyPlace
  <2>6. Place'
    <3>1. w \in Array \cup User
      BY <1>3, <1>5
    <3> QED BY <1>1, <1>5, <2>1, <2>2, <2>4, <2>5, <3>1 DEF Place
  <2>7. Progress'
    <3>1. ASSUME NEW a \in Array \cup User
          PROVE  flash'[a] = IF a < w THEN Target(a)' ELSE old'.flash[a]
      <4>1. CASE a < w
        <5>1. a \notin Copied'
          BY <1>3, <1>4, <1>5, <1>7, <4>1
        <5> QED BY <1>9, <4>1, <5>1
      <4>2. CASE ~(a < w)
        BY <1>1, <4>2
      <4> QED BY <4>1, <4>2
    <3> QED BY <2>1, <2>2, <3>1 DEF Progress
  <2>8. Buffered'
    BY <2>1 DEF Buffered
  <2> QED BY <1>2, <2>1, <2>6, <2>7, <2>8 DEF CopyInv
<1>12. CASE n = 0
  <2>1. pc' = "idle"
    BY <1>1, <1>12
  <2>2. Copied' = {}
    BY <1>4, <1>7, <1>12
  <2>3. Finished'
    BY <1>9, <2>2 DEF Finished
  <2> QED BY <1>2, <2>1, <2>3 DEF CopyInv
<1> QED BY <1>11, <1>12

LEMMA EraseInMemory ==
    ASSUME NEW m \in Memory, NEW bytes
    PROVE  EraseIn(m, bytes) \in Memory
BY DEF EraseIn, Memory

(* A command on pages, regions or fuses keeps the types, and is not a copy. *)
LEMMA FunctionsCopies ==
    ASSUME Typed, Functions
    PROVE  Typed' /\ CopyInv'
<1> DEFINE Other == pc' = "idle" /\ call'.op \notin {"memset", "memcpy"}
<1>1. ASSUME Function
      PROVE  /\ calls' \in 0 .. MaxCall /\ old'.flash \in Memory
             /\ pc' = "idle" /\ errors' \in BOOLEAN
  BY <1>1, FlashAssumption DEF Function, Typed
<1>2. 0 \in 0 .. Pages /\ Pages \in 0 .. Pages /\ PageNumbers \subseteq 0 .. Pages
  BY FlashAssumption DEF PageNumbers
<1>3. ASSUME NEW lock \in BOOLEAN, lock_all_regions(lock)
      PROVE  Typed' /\ Other
  BY <1>1, <1>2, <1>3 DEF lock_all_regions, Typed
<1>4. ASSUME NEW p \in PageNumbers, NEW lock \in BOOLEAN, lock_page_region(p, lock)
      PROVE  Typed' /\ Other
  BY <1>1, <1>2, <1>4, RegionIs DEF lock_page_region, Typed
<1>5. ASSUME NEW p \in PageNumbers, NEW check \in BOOLEAN, erase_page(p, check)
      PROVE  Typed' /\ Other
  BY <1>1, <1>2, <1>5, EraseInMemory DEF erase_page, Typed
<1>6. ASSUME erase_all_pages
      PROVE  Typed' /\ Other
  BY <1>1, <1>2, <1>6, EraseInMemory DEF erase_all_pages, Typed
<1>7. ASSUME erase_user_page
      PROVE  Typed' /\ Other
  BY <1>1, <1>2, <1>7, EraseInMemory DEF erase_user_page, Typed
<1>8. ASSUME set_security_bit
      PROVE  Typed' /\ Other
  BY <1>1, <1>2, <1>8 DEF set_security_bit, Typed
<1>9. ASSUME NEW g, FuseCommand(g)
      PROVE  Typed'
  BY <1>1, <1>2, <1>9 DEF FuseCommand, Typed
<1>10. ASSUME erase_fuses \/ write_fuses \/ set_fuses
       PROVE  Typed' /\ Other
  <2> DEFINE Given  == \E g : FuseCommand(g)
             Called == call'.op \notin {"memset", "memcpy"}
  <2>1. ASSUME erase_fuses PROVE Given /\ Called
    BY <2>1 DEF erase_fuses
  <2>2. ASSUME write_fuses PROVE Given /\ Called
    BY <2>2 DEF write_fuses
  <2>3. ASSUME set_fuses PROVE Given /\ Called
    BY <2>3 DEF set_fuses
  <2>4. PICK g : FuseCommand(g)
    BY <1>10, <2>1, <2>2, <2>3
  <2>5. Called
    BY <1>10, <2>1, <2>2, <2>3
  <2> QED BY <1>1, <1>9, <2>4, <2>5 DEF FuseCommand
<1>11. Typed' /\ Other
  BY <1>3, <1>4, <1>5, <1>6, <1>7, <1>8, <1>10, Zenon DEF Functions
<1> QED BY <1>11 DEF CopyInv, IsCopy

LEMMA CopiesStart == Init => Typed /\ CopyInv
<1> SUFFICES ASSUME Init PROVE Typed /\ CopyInv
  OBVIOUS
<1>1. flash \in Memory /\ old.flash = flash
  BY FlashAssumption DEF Init, Memory
<1>2. buffer \in Buffer
  BY DEF Init, Erased, Buffer
<1>3. 0 \in 0 .. Pages /\ 0 \in 0 .. MaxCall
  BY FlashAssumption
<1>4. Typed
  BY <1>1, <1>2, <1>3 DEF Init, Typed
<1>5. CopyInv
  BY DEF Init, CopyInv, IsCopy, Nothing
<1> QED BY <1>4, <1>5

(* A copy of any kind begins. *)
LEMMA CopiesBegin ==
    ASSUME Typed, CopyInv, Copies
    PROVE  Typed' /\ CopyInv'
<1>1. /\ PageSize \in Nat \ {0} /\ DWord \in Nat \ {0} /\ ArrayEnd \in Int /\ UserPage \in Int
      /\ UserEnd \in Int /\ Array = 0 .. ArrayEnd - 1 /\ User = UserPage .. UserEnd - 1
      /\ ArrayEnd + PageSize <= UserPage
  BY Layout DEF Positive
<1>2. ASSUME NEW erase \in BOOLEAN, NEW dst \in 0 .. UserEnd - 1,
             NEW n \in 0 .. UserEnd + DWord - dst, NEW p \in Patterns, memset(dst, n, p, erase)
      PROVE  Typed' /\ CopyInv'
  <2>1. n \in Nat
    BY <1>1
  <2> QED BY <1>2, <2>1, MemsetCopies
<1>3. ASSUME NEW erase \in BOOLEAN, NEW area \in {Array, User}, NEW dst \in area, NEW end \in area,
             dst <= end, memcpy(dst, end + 1 - dst, erase) \/ memcpy(dst, 0, erase)
      PROVE  Typed' /\ CopyInv'
  <2>1. dst \in Array \cup User /\ dst \in Int /\ end \in Int
    BY <1>1
  <2>2. /\ dst \in Array => end < ArrayEnd
        /\ dst \in User => end < UserEnd
    BY <1>1
  <2> DEFINE n == end + 1 - dst
  <2>3. n \in Nat /\ dst + n = end + 1
    BY <1>3, <2>1
  <2>4. /\ dst \in Array => dst + n <= ArrayEnd /\ dst + 0 <= ArrayEnd
        /\ dst \in User => dst + n <= UserEnd /\ dst + 0 <= UserEnd
    BY <1>1, <1>3, <2>1, <2>2, <2>3
  <2> HIDE DEF n
  <2>5. memcpy(dst, n, erase) \/ memcpy(dst, 0, erase)
    BY <1>3 DEF n
  <2> QED BY <2>1, <2>3, <2>4, <2>5, MemcpyCopies
<1> QED BY <1>2, <1>3 DEF Copies

(* Every step keeps the invariant of the copies. *)
LEMMA CopiesKept == Typed /\ CopyInv /\ [Next]_vars => Typed' /\ CopyInv'
<1> SUFFICES ASSUME Typed, CopyInv, [Next]_vars PROVE Typed' /\ CopyInv'
  OBVIOUS
<1>1. CASE Functions        BY <1>1, FunctionsCopies
<1>2. CASE Copies           BY <1>2, CopiesBegin
<1>3. CASE ClearPageBuffer  BY <1>3, ClearCopies
<1>4. CASE FillMemset       BY <1>4, FillMemsetCopies
<1>5. CASE FillMemcpy       BY <1>5, FillMemcpyCopies
<1>6. CASE ErasePage        BY <1>6, EraseCopies
<1>7. CASE WriteMemset      BY <1>7, WriteMemsetCopies
<1>8. CASE WriteMemcpy      BY <1>8, WriteMemcpyCopies
<1>9. CASE UNCHANGED vars
  <2>1. /\ Keep
        /\ UNCHANGED <<flash, buffer, pagen, locked, old, dest, errors, calls, pc>>
    BY <1>9 DEF vars, Keep
  <2>2. Typed'
    BY <2>1 DEF Typed
  <2>3. /\ Memset' <=> Memset
        /\ Memcpy' <=> Memcpy
        /\ Copied' = Copied /\ call' = call
        /\ \A a : Target(a)' = Target(a) /\ NewByte(a)' = NewByte(a) /\ (Allowed(a)' <=> Allowed(a))
    BY <2>1, SameCall
  <2>4. Working' = Working
    BY <2>1 DEF Working
  <2>5. CASE pc # "idle"
    <3>1. Place'
      <4>1. Area' = Area
        BY <2>4 DEF Area
      <4>2. /\ MemsetPlace' <=> MemsetPlace
            /\ MemcpyPlace' <=> MemcpyPlace
        BY <2>1, <2>3, <2>4, <4>1 DEF MemsetPlace, MemcpyPlace
      <4> QED BY <2>1, <2>3, <2>4, <2>5, <4>2 DEF CopyInv, Place
    <3>2. Buffered'
      BY <2>1, <2>3, <2>4, <2>5 DEF CopyInv, Buffered
    <3>3. Progress'
      BY <2>1, <2>3, <2>4, <2>5 DEF CopyInv, Progress
    <3> QED BY <2>1, <2>2, <2>5, <3>1, <3>2, <3>3 DEF CopyInv
  <2>6. CASE pc = "idle"
    <3>1. IsCopy' => Finished'
      BY <2>1, <2>3, <2>6 DEF CopyInv, Finished, IsCopy
    <3> QED BY <2>1, <2>2, <2>6, <3>1 DEF CopyInv
  <2> QED BY <2>5, <2>6
<1> QED BY <1>1, <1>2, <1>3, <1>4, <1>5, <1>6, <1>7, <1>8, <1>9 DEF Next

LEMMA CopiesInvariant == Spec => [](Typed /\ CopyInv)
<1>1. Init => Typed /\ CopyInv
  BY CopiesStart
<1>2. (Typed /\ CopyInv) /\ [Next]_vars => (Typed /\ CopyInv)'
  BY CopiesKept
<1> QED BY <1>1, <1>2, PTL DEF Spec

(* flashcalw_memset8() ... memset64() and flashcalw_memcpy() store their bytes at their
   addresses and change nothing else, for every size of the flash, of pages and double-words,
   every pattern, alignment and length, and whatever regions are locked. *)
THEOREM StoresBytes == Spec => []Stored
<1>1. Typed /\ CopyInv => Stored
  BY DEF Typed, Memory, CopyInv, Finished, Stored
<1> QED BY <1>1, CopiesInvariant, PTL

(* At every step of a copy, all pages before one of them hold what they should and all behind
   it what they held: a reset between erase and write loses no more than that page. *)
THEOREM ResetCostsOnePage == Spec => []OnePageAtRisk
<1>1. Typed /\ CopyInv => OnePageAtRisk
  <2> SUFFICES ASSUME Typed, CopyInv, IsCopy
               PROVE  \E q \in {AlignDown(a, PageSize) : a \in DOMAIN flash} :
                        \A a \in DOMAIN flash \ Page(q) :
                            flash[a] = IF a < q THEN Target(a) ELSE old.flash[a]
    BY DEF OnePageAtRisk
  <2>1. DOMAIN flash = Array \cup User
    BY DEF Typed, Memory
  <2>2. CASE pc # "idle"
    <3>1. Place /\ Progress
      BY <2>2 DEF CopyInv
    <3>2. Working \in Array \cup User /\ Working \in Int /\ Working % PageSize = 0
      BY <3>1, WorkingIs DEF Place
    <3>3. AlignDown(Working, PageSize) = Working
      BY <3>2 DEF AlignDown
    <3>4. Working \in {AlignDown(a, PageSize) : a \in DOMAIN flash}
      BY <2>1, <3>2, <3>3
    <3>5. \A a \in DOMAIN flash \ Page(Working) :
            flash[a] = IF a < Working THEN Target(a) ELSE old.flash[a]
      BY <2>1, <3>1 DEF Progress
    <3> QED BY <3>4, <3>5
  <2>3. CASE pc = "idle"
    <3>1. /\ ArrayEnd \in Int /\ UserPage \in Int /\ UserPage % PageSize = 0
          /\ UserPage \in User /\ ArrayEnd <= UserPage
          /\ Array = 0 .. ArrayEnd - 1 /\ User = Page(UserPage)
      BY Layout, UserIs DEF Positive
    <3>2. AlignDown(UserPage, PageSize) = UserPage
      BY <3>1 DEF AlignDown
    <3>3. UserPage \in {AlignDown(a, PageSize) : a \in DOMAIN flash}
      BY <2>1, <3>1, <3>2
    <3>4. ASSUME NEW a \in DOMAIN flash \ Page(UserPage)
          PROVE  flash[a] = IF a < UserPage THEN Target(a) ELSE old.flash[a]
      <4>1. a \in Array /\ a < UserPage
        BY <2>1, <3>1
      <4> QED BY <2>3, <4>1 DEF CopyInv, Finished
    <3> QED BY <3>3, <3>4
  <2> QED BY <2>2, <2>3
<1> QED BY <1>1, CopiesInvariant, PTL

(* Fuses and status: where nothing is copied, the status is that of the last function's
   commands, and its fuses are as FusesKept says; in a copy, errors cumulates it. *)
FuseInv ==
    /\ f \in FuseStates /\ Fixed \subseteq f.fuses
    /\ pc # "idle" => IsCopy /\ (errors <=> f.refused)
    /\ pc = "idle" /\ call.op # "write_bitfield" => (f.status <=> f.refused)
    /\ FusesKept

LEMMA BegunIs ==
    ASSUME NEW g \in FuseStates
    PROVE  /\ Begun(g) \in FuseStates /\ Begun(g).fuses = g.fuses /\ Begun(g).status = g.status
           /\ Begun(g).security = g.security /\ Begun(g).refused = FALSE
BY DEF Begun, FuseStates

(* A command that changes no fuses *)
LEMMA IssueIs ==
    ASSUME NEW g \in FuseStates, Fixed \subseteq g.fuses, NEW refuse \in BOOLEAN
    PROVE  Commanded(g, refuse, g.fuses, Issue(g, refuse)) /\ Issue(g, refuse).fuses = g.fuses
<1>1. g.fuses \in SUBSET FuseBits
  BY DEF FuseStates
<1>2. Commanded(g, refuse, g.fuses, Issue(g, refuse))
  BY <1>1, CommandIs DEF Issue
<1>3. Issue(g, refuse).fuses = g.fuses
  BY <1>2 DEF Commanded, Fixed
<1> QED BY <1>2, <1>3

(* A function of the driver other than a copy *)
LEMMA FunctionFuses ==
    ASSUME Function, f' \in FuseStates, Fixed \subseteq f'.fuses,
           call'.op # "write_bitfield" => (f'.status <=> f'.refused),
           call'.op \notin {"set", "erase"}
    PROVE  FuseInv'
<1>1. pc' = "idle"
  BY DEF Function
<1> QED BY <1>1 DEF FuseInv, FusesKept

(* One that sets or erases fuses *)
LEMMA EffectFuses ==
    ASSUME FuseInv, Function, NEW bits, NEW value, Effect(Begun(f), f', bits, value),
           \/ call' = [op |-> "erase", bits |-> bits] /\ value = FuseBits
           \/ call' = [op |-> "set", bits |-> bits, value |-> value]
    PROVE  FuseInv'
<1>1. pc' = "idle" /\ old'.fuses = f.fuses
  BY DEF Function
<1>2. Begun(f).fuses = f.fuses /\ Begun(f).refused = FALSE
  BY BegunIs DEF FuseInv
<1>3. /\ f' \in FuseStates /\ Fixed \subseteq f'.fuses
      /\ f'.refused <=> f'.status
  BY <1>2 DEF Effect, Safe, Kept
<1>4. call'.bits = bits /\ call'.op \in {"set", "erase"} /\ call'.op # "write_bitfield"
  OBVIOUS
<1>5. FusesKept'
  <2> SUFFICES ASSUME NEW b \in 0 .. FuseCount - 1
               PROVE  IF b \notin bits THEN b \in f'.fuses <=> b \in f.fuses
                      ELSE f'.refused \/ (b \in f'.fuses <=> call'.op = "erase" \/ b \in call'.value)
    BY <1>1, <1>4 DEF FusesKept
  <2>1. b \in Free /\ b \in FuseBits
    BY FuseAssumption, FuseNumberIs DEF Free, FuseBits
  <2>2. CASE b \notin bits
    BY <1>2, <2>1, <2>2 DEF Effect, Others
  <2>3. CASE b \in bits
    <3>1. f'.status \/ (b \in f'.fuses <=> b \in value)
      BY <2>1, <2>3 DEF Effect, Holds
    <3>2. b \in value <=> call'.op = "erase" \/ b \in call'.value
      BY <2>1
    <3> QED BY <1>3, <2>3, <3>1, <3>2, Zenon
  <2> QED BY <2>2, <2>3
<1> QED BY <1>1, <1>3, <1>4, <1>5 DEF FuseInv

LEMMA FieldIs == ASSUME NEW pos, NEW width PROVE Field(pos, width) = FieldBits(pos, width)
BY DEF Field, FieldBits

LEMMA AtIs == ASSUME NEW value, NEW pos PROVE At(value, pos) = FieldValue(value, pos)
BY DEF At, FieldValue

(* The functions of the fuses *)
LEMMA EraseFuses ==
    ASSUME FuseInv, erase_fuses
    PROVE  FuseInv'
<1>1. PICK g : g = Begun(f)
  OBVIOUS
<1>2. g \in FuseStates /\ Fixed \subseteq g.fuses
  BY <1>1, BegunIs DEF FuseInv
<1>3. ASSUME NEW b \in FuseBits, FuseCommand(erase_gp_fuse_bit(g, b)),
             call' = [op |-> "erase", bits |-> {b}]
      PROVE  FuseInv'
  <2>1. Effect(g, erase_gp_fuse_bit(g, b), {b}, FuseBits)
    BY <1>2, EraseBitEffect
  <2>2. Function /\ f' = erase_gp_fuse_bit(g, b)
    BY <1>3 DEF FuseCommand
  <2> QED BY <1>1, <1>3, <2>1, <2>2, EffectFuses
<1>4. ASSUME NEW pos \in FuseBits, NEW width \in 0 .. FuseNumber,
             FuseCommand(erase_gp_fuse_bitfield(g, pos, width)),
             call' = [op |-> "erase", bits |-> Field(pos, width)]
      PROVE  FuseInv'
  <2>1. pos \in Int /\ width \in Nat
    BY FuseNumberIs
  <2>2. Effect(g, erase_gp_fuse_bitfield(g, pos, width), FieldBits(pos, width), FuseBits)
    BY <1>2, <2>1, EraseFieldEffect
  <2>3. Function /\ f' = erase_gp_fuse_bitfield(g, pos, width)
    BY <1>4 DEF FuseCommand
  <2>4. call' = [op |-> "erase", bits |-> FieldBits(pos, width)]
    BY <1>4, FieldIs
  <2> QED BY <1>1, <2>2, <2>3, <2>4, EffectFuses
<1>5. ASSUME NEW b \in 0 .. FuseBytes - 1, FuseCommand(erase_gp_fuse_byte(g, b)),
             call' = [op |-> "erase", bits |-> ByteBits(b)]
      PROVE  FuseInv'
  <2>1. Effect(g, erase_gp_fuse_byte(g, b), ByteBits(b), FuseBits)
    BY <1>2, EraseByteEffect
  <2>2. Function /\ f' = erase_gp_fuse_byte(g, b)
    BY <1>5 DEF FuseCommand
  <2> QED BY <1>1, <1>5, <2>1, <2>2, EffectFuses
<1>6. ASSUME FuseCommand(erase_all_gp_fuses(g)), call' = [op |-> "erase", bits |-> FuseBits]
      PROVE  FuseInv'
  <2>1. Effect(g, erase_all_gp_fuses(g), FuseBits, FuseBits)
    BY <1>2, EraseAllEffect
  <2>2. Function /\ f' = erase_all_gp_fuses(g)
    BY <1>6 DEF FuseCommand
  <2> QED BY <1>1, <1>6, <2>1, <2>2, EffectFuses
<1> QED BY <1>1, <1>3, <1>4, <1>5, <1>6 DEF erase_fuses

LEMMA SetFuses ==
    ASSUME FuseInv, set_fuses
    PROVE  FuseInv'
<1>1. PICK g : g = Begun(f)
  OBVIOUS
<1>2. g \in FuseStates /\ Fixed \subseteq g.fuses
  BY <1>1, BegunIs DEF FuseInv
<1>3. PICK v \in FuseValues :
        \/ \E pos \in FuseBits : \E width \in 0 .. FuseNumber :
            /\ FuseCommand(set_gp_fuse_bitfield(g, pos, width, v))
            /\ call' = [op |-> "set", bits |-> Field(pos, width), value |-> At(v, pos)]
        \/ \E b \in 0 .. FuseBytes - 1 :
            /\ FuseCommand(set_gp_fuse_byte(g, b, v \cap (0 .. FuseByte - 1)))
            /\ call' = [op |-> "set", bits |-> ByteBits(b),
                        value |-> At(v \cap (0 .. FuseByte - 1), b * FuseByte)]
        \/ /\ FuseCommand(set_all_gp_fuses(g, v))
           /\ call' = [op |-> "set", bits |-> FuseBits, value |-> v]
  BY <1>1 DEF set_fuses
<1>4. v \in SUBSET FuseBits
  BY FlashAssumption
<1>5. ASSUME NEW pos \in FuseBits, NEW width \in 0 .. FuseNumber,
             FuseCommand(set_gp_fuse_bitfield(g, pos, width, v)),
             call' = [op |-> "set", bits |-> Field(pos, width), value |-> At(v, pos)]
      PROVE  FuseInv'
  <2>1. pos \in Int /\ width \in Nat /\ width <= FuseNumber
    BY FuseNumberIs
  <2>2. Effect(g, set_gp_fuse_bitfield(g, pos, width, v), FieldBits(pos, width), FieldValue(v, pos))
    BY <1>2, <1>4, <2>1, SetFieldEffect
  <2>3. Function /\ f' = set_gp_fuse_bitfield(g, pos, width, v)
    BY <1>5 DEF FuseCommand
  <2>4. call' = [op |-> "set", bits |-> FieldBits(pos, width), value |-> FieldValue(v, pos)]
    BY <1>5, FieldIs, AtIs
  <2> QED BY <1>1, <2>2, <2>3, <2>4, EffectFuses
<1>6. ASSUME NEW b \in 0 .. FuseBytes - 1, NEW byte, byte = v \cap (0 .. FuseByte - 1),
             FuseCommand(set_gp_fuse_byte(g, b, byte)),
             call' = [op |-> "set", bits |-> ByteBits(b), value |-> At(byte, b * FuseByte)]
      PROVE  FuseInv'
  <2>1. byte \in SUBSET (0 .. FuseByte - 1)
    BY <1>6
  <2>2. Effect(g, set_gp_fuse_byte(g, b, byte), ByteBits(b), FieldValue(byte, b * FuseByte))
    BY <1>2, <2>1, SetByteEffect
  <2>3. Function /\ f' = set_gp_fuse_byte(g, b, byte)
    BY <1>6 DEF FuseCommand
  <2>4. call' = [op |-> "set", bits |-> ByteBits(b), value |-> FieldValue(byte, b * FuseByte)]
    BY <1>6, AtIs
  <2> QED BY <1>1, <2>2, <2>3, <2>4, EffectFuses
<1>7. ASSUME FuseCommand(set_all_gp_fuses(g, v)), call' = [op |-> "set", bits |-> FuseBits, value |-> v]
      PROVE  FuseInv'
  <2>1. Effect(g, set_all_gp_fuses(g, v), FuseBits, v)
    BY <1>2, <1>4, SetAllEffect
  <2>2. Function /\ f' = set_all_gp_fuses(g, v)
    BY <1>7 DEF FuseCommand
  <2> QED BY <1>1, <1>7, <2>1, <2>2, EffectFuses
<1> QED BY <1>3, <1>5, <1>6, <1>7

LEMMA WriteFuses ==
    ASSUME FuseInv, write_fuses
    PROVE  FuseInv'
<1>1. PICK g : g = Begun(f)
  OBVIOUS
<1>2. g \in FuseStates /\ Fixed \subseteq g.fuses /\ g.refused = FALSE
  BY <1>1, BegunIs DEF FuseInv
<1>3. PICK v \in FuseValues :
        \/ FuseCommand(write_all_gp_fuses(g, v)) /\ call' = [op |-> "write"]
        \/ \E pos \in FuseBits : \E width \in 0 .. FuseNumber :
            /\ FuseCommand(write_gp_fuse_bitfield(g, pos, width, v))
            /\ call' = [op |-> "write_bitfield"]
  BY <1>1 DEF write_fuses
<1>4. ASSUME FuseCommand(write_all_gp_fuses(g, v)), call' = [op |-> "write"]
      PROVE  FuseInv'
  <2>1. PICK h : h = write_all_gp_fuses(g, v)
    OBVIOUS
  <2>2. Safe(g, h)
    BY <1>2, <2>1, WriteAllEffect
  <2>3. Function /\ f' = h
    BY <1>4, <2>1 DEF FuseCommand
  <2>4. f' \in FuseStates /\ Fixed \subseteq f'.fuses /\ (f'.status <=> f'.refused)
    BY <1>2, <2>2, <2>3 DEF Safe, Kept
  <2>5. call'.op \notin {"set", "erase"}
    BY <1>4
  <2> QED BY <2>3, <2>4, <2>5, FunctionFuses
<1>5. ASSUME NEW pos \in FuseBits, NEW width \in 0 .. FuseNumber,
             FuseCommand(write_gp_fuse_bitfield(g, pos, width, v)), call' = [op |-> "write_bitfield"]
      PROVE  FuseInv'
  <2>1. PICK h : h = write_gp_fuse_bitfield(g, pos, width, v)
    OBVIOUS
  <2>2. Kept(g, h)
    <3>1. pos \in Int /\ width \in Nat
      BY FuseNumberIs
    <3> QED BY <1>2, <2>1, <3>1, WriteFieldEffect
  <2>3. Function /\ f' = h
    BY <1>5, <2>1 DEF FuseCommand
  <2>4. f' \in FuseStates /\ Fixed \subseteq f'.fuses
    BY <2>2, <2>3 DEF Kept
  <2>5. call'.op = "write_bitfield" /\ call'.op \notin {"set", "erase"}
    BY <1>5
  <2> QED BY <2>3, <2>4, <2>5, FunctionFuses
<1> QED BY <1>3, <1>4, <1>5

(* A command on pages or regions *)
LEMMA IssueFuses ==
    ASSUME FuseInv, Function, NEW refuse \in BOOLEAN, f' = Issue(Begun(f), refuse),
           call'.op \notin {"write_bitfield", "set", "erase"}
    PROVE  FuseInv'
<1>1. PICK g : g = Begun(f)
  OBVIOUS
<1>2. g \in FuseStates /\ Fixed \subseteq g.fuses /\ g.refused = FALSE
  BY <1>1, BegunIs DEF FuseInv
<1>3. PICK h : h = Issue(g, refuse)
  OBVIOUS
<1>4. Commanded(g, refuse, g.fuses, h) /\ h.fuses = g.fuses
  BY <1>2, <1>3, IssueIs
<1>5. h \in FuseStates /\ Fixed \subseteq h.fuses /\ (h.status <=> h.refused)
  BY <1>2, <1>4 DEF Commanded
<1>6. f' = h
  BY <1>1, <1>3
<1> QED BY <1>5, <1>6, FunctionFuses

LEMMA SecurityFuses ==
    ASSUME FuseInv, set_security_bit
    PROVE  FuseInv'
<1>1. PICK g : g = Begun(f)
  OBVIOUS
<1>2. g \in FuseStates /\ Fixed \subseteq g.fuses /\ g.refused = FALSE
  BY <1>1, BegunIs DEF FuseInv
<1>3. PICK h : h = Issue(g, FALSE)
  OBVIOUS
<1>4. Commanded(g, FALSE, g.fuses, h) /\ h.fuses = g.fuses
  BY <1>2, <1>3, IssueIs
<1>5. h \in FuseStates /\ Fixed \subseteq h.fuses /\ (h.status <=> h.refused)
  BY <1>2, <1>4 DEF Commanded
<1>6. f' = [h EXCEPT !.security = TRUE] /\ Function /\ call' = [op |-> "security"]
  BY <1>1, <1>3 DEF set_security_bit
<1>7. f' \in FuseStates /\ Fixed \subseteq f'.fuses /\ (f'.status <=> f'.refused)
  BY <1>5, <1>6 DEF FuseStates
<1>8. call'.op \notin {"set", "erase"}
  BY <1>6
<1> QED BY <1>6, <1>7, <1>8, FunctionFuses

LEMMA FunctionsFuses ==
    ASSUME FuseInv, Functions
    PROVE  FuseInv'
<1>1. ASSUME NEW lock \in BOOLEAN, lock_all_regions(lock) PROVE FuseInv'
  <2>1. Function /\ f' = Issue(Begun(f), FALSE) /\ call' = [op |-> "lock_all"]
    BY <1>1 DEF lock_all_regions
  <2> QED BY <2>1, IssueFuses
<1>2. ASSUME NEW lock \in BOOLEAN, NEW p \in PageNumbers, lock_page_region(p, lock) PROVE FuseInv'
  <2>1. Function /\ f' = Issue(Begun(f), FALSE) /\ call' = [op |-> "lock"]
    BY <1>2 DEF lock_page_region
  <2> QED BY <2>1, IssueFuses
<1>3. ASSUME NEW check \in BOOLEAN, NEW p \in PageNumbers, erase_page(p, check) PROVE FuseInv'
  <2>1. PICK refuse \in BOOLEAN : refuse = Refuses(p)
    <3>1. (Region(p) \in locked) \in BOOLEAN
      BY SMT
    <3> QED BY <3>1, Zenon DEF Refuses
  <2>2. Function /\ f' = Issue(Begun(f), refuse) /\ call' = [op |-> "erase_page"]
    BY <1>3, <2>1, Zenon DEF erase_page
  <2> QED BY <2>2, IssueFuses
<1>4. ASSUME erase_all_pages PROVE FuseInv'
  <2> DEFINE free == {p \in PageNumbers : ~Refuses(p)}
  <2>1. PICK refuse \in BOOLEAN : refuse = (free # PageNumbers)
    BY Zenon
  <2>2. Function /\ f' = Issue(Begun(f), refuse) /\ call' = [op |-> "erase_all_pages"]
    BY <1>4, <2>1, Zenon DEF erase_all_pages
  <2> QED BY <2>2, IssueFuses
<1>5. ASSUME erase_user_page PROVE FuseInv'
  <2>1. Function /\ f' = Issue(Begun(f), FALSE) /\ call' = [op |-> "erase_user"]
    BY <1>5 DEF erase_user_page
  <2> QED BY <2>1, IssueFuses
<1> QED BY <1>1, <1>2, <1>3, <1>4, <1>5, SecurityFuses, EraseFuses, WriteFuses, SetFuses DEF Functions

(* A copy begins: with no page to write, it ends with no error. *)
LEMMA BeginFuses ==
    ASSUME FuseInv, NEW from, NEW more \in BOOLEAN, Begin(from, more),
           call'.op \in {"memset", "memcpy"}
    PROVE  FuseInv'
<1>1. PICK g : g = Begun(f)
  OBVIOUS
<1>2. g \in FuseStates /\ Fixed \subseteq g.fuses /\ g.refused = FALSE
  BY <1>1, BegunIs DEF FuseInv
<1>3. PICK status \in BOOLEAN : status = (more /\ g.status)
  BY Zenon
<1>4. /\ f' = [g EXCEPT !.status = status]
      /\ pc' = IF more THEN "clear" ELSE "idle"
      /\ errors' = FALSE
  BY <1>1, <1>3, Zenon DEF Begin
<1>5. f' \in FuseStates /\ Fixed \subseteq f'.fuses /\ f'.refused = FALSE /\ f'.status = status
  BY <1>2, <1>4 DEF FuseStates
<1>6. pc' = "idle" => ~f'.status
  BY <1>3, <1>4, <1>5
<1>7. IsCopy' /\ call'.op \notin {"set", "erase"}
  BY DEF IsCopy
<1> QED BY <1>4, <1>5, <1>6, <1>7 DEF FuseInv, FusesKept

LEMMA CopiesFuses ==
    ASSUME FuseInv, Copies
    PROVE  FuseInv'
<1>1. ASSUME NEW dst, NEW n, NEW p, NEW erase, memset(dst, n, p, erase) PROVE FuseInv'
  <2>1. PICK more \in BOOLEAN : more = (Clipped(dst) < EndClipped(dst + n))
    <3>1. (Clipped(dst) < EndClipped(dst + n)) \in BOOLEAN
      BY SMT
    <3> QED BY <3>1, Zenon
  <2>2. Begin(Clipped(dst), more) /\ call'.op = "memset"
    BY <1>1, <2>1 DEF memset
  <2> QED BY <2>2, BeginFuses
<1>2. ASSUME NEW dst, NEW n, NEW erase, memcpy(dst, n, erase) PROVE FuseInv'
  <2>1. PICK more \in BOOLEAN : more = (n # 0)
    BY Zenon
  <2>2. Begin(AlignDown(dst, PageSize), more) /\ call'.op = "memcpy"
    BY <1>2, <2>1 DEF memcpy
  <2> QED BY <2>2, BeginFuses
<1> QED BY <1>1, <1>2 DEF Copies

(* In a copy *)
LEMMA ClearFuses ==
    ASSUME FuseInv, ClearPageBuffer
    PROVE  FuseInv'
<1>1. PICK h : h = Issue(f, FALSE)
  OBVIOUS
<1>2. Commanded(f, FALSE, f.fuses, h) /\ h.fuses = f.fuses
  BY <1>1, IssueIs DEF FuseInv
<1>3. /\ pc = "clear" /\ pc' = "fill" /\ f' = h /\ errors' = errors /\ call' = call
  BY <1>1 DEF ClearPageBuffer, Keep
<1>4. h \in FuseStates /\ Fixed \subseteq h.fuses /\ (h.refused <=> f.refused)
  BY <1>2 DEF Commanded, FuseInv
<1> QED BY <1>3, <1>4 DEF FuseInv, IsCopy, FusesKept

(* Erasing or writing a page of a copy: errors cumulates, and is the status at the end. *)
LEMMA CommandFuses ==
    ASSUME FuseInv, pc # "idle", NEW next, NEW bytes, NEW memory, PageCommand(next, bytes, memory)
    PROVE  FuseInv'
<1>1. PICK refuse \in BOOLEAN : refuse = (bytes \subseteq Array /\ Refuses(pagen))
  BY Zenon
<1>2. PICK h : h = Issue(f, refuse)
  OBVIOUS
<1>3. Commanded(f, refuse, f.fuses, h) /\ h.fuses = f.fuses
  BY <1>2, IssueIs DEF FuseInv
<1>4. /\ errors' = (errors \/ refuse)
      /\ f' = [h EXCEPT !.status = IF next = "idle" THEN errors' ELSE @]
      /\ pc' = next /\ call' = call
  BY <1>1, <1>2, Zenon DEF PageCommand, Keep
<1>5. h \in FuseStates /\ Fixed \subseteq h.fuses /\ (h.refused <=> f.refused \/ refuse)
  BY <1>3 DEF Commanded, FuseInv
<1>6. errors' \in BOOLEAN
  BY <1>4, Zenon
<1>7. f' \in FuseStates /\ Fixed \subseteq f'.fuses /\ (f'.refused <=> f.refused \/ refuse)
  BY <1>4, <1>5, <1>6 DEF FuseStates
<1>8. next = "idle" => f'.status = errors'
  BY <1>4, <1>5 DEF FuseStates
<1>9. IsCopy /\ (errors <=> f.refused)
  BY DEF FuseInv
<1>10. errors' <=> f'.refused
  BY <1>4, <1>7, <1>9, Zenon
<1>11. call'.op \notin {"set", "erase"} /\ IsCopy'
  BY <1>4, <1>9 DEF IsCopy
<1> QED BY <1>4, <1>7, <1>8, <1>10, <1>11 DEF FuseInv, FusesKept

LEMMA FusesStart ==
    Init => FuseInv
<1> SUFFICES ASSUME Init PROVE FuseInv
  OBVIOUS
<1>1. f = [fuses |-> FuseBits, security |-> FALSE, status |-> FALSE, refused |-> FALSE, issued |-> FALSE]
  BY DEF Init
<1>2. Fixed \subseteq FuseBits
  BY FuseAssumption, FuseNumberIs DEF Fixed, FuseBits
<1>3. pc = "idle" /\ call.op = "none"
  BY DEF Init, Nothing
<1> QED BY <1>1, <1>2, <1>3 DEF FuseInv, FuseStates, FusesKept

(* Every step keeps it. *)
LEMMA FusesStep == FuseInv /\ [Next]_vars => FuseInv'
<1> SUFFICES ASSUME FuseInv, [Next]_vars PROVE FuseInv'
  OBVIOUS
<1>1. CASE FillMemset
  <2>1. /\ pc = "fill" /\ pc' \in {"erase", "write"}
        /\ f' = f /\ errors' = errors /\ call' = call
    BY <1>1 DEF FillMemset, Keep
  <2> QED BY <2>1 DEF FuseInv, IsCopy, FusesKept
<1>2. CASE FillMemcpy
  <2>1. /\ pc = "fill" /\ pc' \in {"erase", "write"}
        /\ f' = f /\ errors' = errors /\ call' = call
    BY <1>2 DEF FillMemcpy, Keep
  <2> QED BY <2>1 DEF FuseInv, IsCopy, FusesKept
<1>3. CASE ErasePage
  <2>1. pc # "idle" /\ PageCommand("write", Current, EraseIn(flash, Current))
    BY <1>3 DEF ErasePage
  <2> QED BY <2>1, CommandFuses
<1>4. CASE WriteMemset
  <2>1. pc # "idle" /\ \E next : PageCommand(next, Current, WriteIn(flash, Current))
    BY <1>4 DEF WriteMemset
  <2> QED BY <2>1, CommandFuses
<1>5. CASE WriteMemcpy
  <2>1. pc # "idle" /\ \E next : PageCommand(next, Current, WriteIn(flash, Current))
    BY <1>5 DEF WriteMemcpy
  <2> QED BY <2>1, CommandFuses
<1>6. CASE UNCHANGED vars
  BY <1>6 DEF vars, FuseInv, IsCopy, FusesKept
<1> QED BY <1>1, <1>2, <1>3, <1>4, <1>5, <1>6, FunctionsFuses, CopiesFuses, ClearFuses DEF Next

LEMMA FusesInvariant == Spec => []FuseInv
BY FusesStart, FusesStep, PTL DEF Spec

(* flashcalw_is_lock_error() tells whether the controller refused a command of the last
   function, loops over fuses and copies of many pages included, but for
   flashcalw_write_gp_fuse_bitfield(); for all sizes of the flash and the fuses. *)
THEOREM StatusTells == Spec => []StatusIsTrue
<1>1. FuseInv => StatusIsTrue
  <2> SUFFICES ASSUME FuseInv, pc = "idle", call.op # "write_bitfield" PROVE f.status = f.refused
    BY DEF StatusIsTrue
  <2>1. f.status \in BOOLEAN /\ f.refused \in BOOLEAN /\ (f.status <=> f.refused)
    BY DEF FuseInv, FuseStates
  <2> QED BY <2>1
<1> QED BY <1>1, FusesInvariant, PTL

(* The functions that set or erase fuses leave all others as they were and give their own the
   value, unless a command was refused, for every number of fuses, field and value. *)
THEOREM OtherFusesStay == Spec => []FusesKept
<1>1. FuseInv => FusesKept
  BY DEF FuseInv
<1> QED BY <1>1, FusesInvariant, PTL

(* The variables keep their types: no copy leaves the flash, whatever it is given. *)
THEOREM TypeCorrect == Spec => []TypeOK
<1>1. Typed /\ CopyInv /\ FuseInv => TypeOK
  <2> SUFFICES ASSUME Typed, CopyInv, FuseInv PROVE TypeOK
    OBVIOUS
  <2>1. /\ flash \in [Array \cup User -> SUBSET Bits] /\ buffer \in [0 .. PageSize - 1 -> SUBSET Bits]
        /\ pagen \in 0 .. Pages /\ locked \subseteq 0 .. Regions - 1
        /\ errors \in BOOLEAN /\ calls \in 0 .. MaxCall
    BY DEF Typed, Memory, Buffer
  <2>2. f.fuses \subseteq FuseBits /\ FuseCount .. FuseNumber - 1 \subseteq f.fuses
    BY DEF FuseInv, FuseStates, Fixed
  <2>3. pc \in {"idle", "clear", "fill", "erase", "write"}
    BY DEF CopyInv, Place
  <2>4. ASSUME pc \in {"clear", "fill"} PROVE dest \in Array \cup User
    <3>1. Place
      BY <2>4 DEF CopyInv
    <3>2. /\ Working \in Int /\ Working <= dest /\ dest < Working + PageSize
          /\ Page(Working) = Working .. Working + PageSize - 1
          /\ Page(Working) \subseteq Array \cup User
      BY <2>4, <3>1, WorkingIs
    <3>3. dest \in Int /\ PageSize \in Int
      BY <3>1, Layout DEF Place, Positive
    <3>4. dest \in Page(Working)
      BY <3>2, <3>3
    <3> QED BY <3>2, <3>4
  <2> QED BY <2>1, <2>2, <2>3, <2>4 DEF TypeOK
<1> QED BY <1>1, CopiesInvariant, FusesInvariant, PTL
=============================================================================
