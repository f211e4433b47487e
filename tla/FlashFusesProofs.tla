-------------------------- MODULE FlashFusesProofs --------------------------
(***************************************************************************)
(* What the functions of the fuses do, for every number of fuses, fields   *)
(* and values.                                                             *)
(*                                                                         *)
(* Their loops are folds, and a fold chooses a function that recurs on the *)
(* sets of the numbers of its steps: FoldSolved says that there is one,    *)
(* and LoopInvariant that what all steps keep holds at the end.  Both are  *)
(* by induction over sets of numbers, so that no lemma has an operator as  *)
(* its parameter.                                                          *)
(***************************************************************************)
EXTENDS FlashFuses, WellFoundedInduction, TLAPS

(* Division, where the solver needs each fact by itself *)
Positive == Nat \ {0}

LEMMA Division ==
    ASSUME NEW a \in Int, NEW n \in Positive
    PROVE  /\ a % n \in 0 .. n - 1 /\ a \div n \in Int
           /\ a = ((a \div n) * n) + (a % n)
BY DEF Positive

LEMMA Cancel ==
    ASSUME NEW k \in Int, NEW m \in Int, NEW n \in Positive, k * n < m * n
    PROVE  k < m
BY DEF Positive

LEMMA Times ==
    ASSUME NEW k \in Int, NEW m \in Int, NEW n \in Positive, k < m
    PROVE  (k * n) + n <= m * n
BY DEF Positive

LEMMA Quotient ==
    ASSUME NEW k \in Int, NEW n \in Positive, NEW r \in 0 .. n - 1
    PROVE  /\ ((k * n) + r) % n = r
           /\ ((k * n) + r) \div n = k
BY DEF Positive

LEMMA Multiple ==
    ASSUME NEW k \in Int, NEW n \in Positive
    PROVE  (k * n) % n = 0 /\ (k * n) \div n = k
<1>1. 0 \in 0 .. n - 1 /\ k * n \in Int /\ (k * n) + 0 = k * n
  BY DEF Positive
<1> QED BY <1>1, Quotient

LEMMA MultipleOf ==
    ASSUME NEW q \in Int, NEW n \in Positive, q % n = 0
    PROVE  (q \div n) \in Int /\ q = (q \div n) * n
<1>1. q = ((q \div n) * n) + (q % n) /\ (q \div n) \in Int
  BY Division
<1>2. (q \div n) * n \in Int
  BY <1>1 DEF Positive
<1> QED BY <1>1, <1>2

LEMMA Itself == ASSUME NEW n \in Positive PROVE n % n = 0
BY DEF Positive

(* Two multiples of n are n apart or more. *)
LEMMA NextMultiple ==
    ASSUME NEW q \in Int, NEW r \in Int, NEW n \in Positive,
           q % n = 0, r % n = 0, q < r
    PROVE  q + n <= r
<1> DEFINE k == q \div n
           m == r \div n
<1>1. k \in Int /\ m \in Int /\ q = k * n /\ r = m * n
  BY MultipleOf
<1> HIDE DEF k, m
<1>2. k < m
  BY <1>1, Cancel
<1> QED BY <1>1, <1>2, Times

(* Induction over the naturals, of sets *)
LEMMA Least ==
    ASSUME NEW T \in SUBSET Nat, T # {}
    PROVE  \E m \in T : \A k \in T : m <= k
<1> DEFINE R == OpToRel(<, Nat)
<1>1. IsWellFoundedOn(R, Nat)
  BY NatLessThanWellFounded
<1>2. PICK m \in T : \A k \in T : ~(<<k, m>> \in R)
  <2> HIDE DEF R
  <2> QED BY <1>1, WFMin
<1>3. \A k \in T : ~(k < m)
  BY <1>2 DEF OpToRel
<1> QED BY <1>3

(* A set of naturals that has 0, and with each number the next, has them all. *)
LEMMA Induction ==
    ASSUME NEW T \in SUBSET Nat, 0 \in T, \A n \in T : n + 1 \in T
    PROVE  T = Nat
<1> SUFFICES ASSUME T # Nat PROVE FALSE
  OBVIOUS
<1>1. PICK m \in Nat \ T : \A k \in Nat \ T : m <= k
  <2>1. Nat \ T \in SUBSET Nat /\ Nat \ T # {}
    OBVIOUS
  <2> QED BY <2>1, Least
<1>2. m # 0 /\ m - 1 \in T
  BY <1>1
<1> QED BY <1>1, <1>2

----------------------------------------------------------------------------
(* Loops.  A fold over the numbers 1 .. n is a function of the sets of those numbers; the step
   for a number, from a set S to itself, is written as a function. *)

Solves(iter, S, n, step, base) ==
    /\ iter \in [SUBSET (1 .. n) -> S]
    /\ \A s \in SUBSET (1 .. n) :
        iter[s] = IF s = {} THEN base ELSE step[iter[s \ {Max(s)}]][Max(s)]

LEMMA MaxOf ==
    ASSUME NEW n \in Nat, NEW s \in SUBSET (1 .. n + 1), n + 1 \in s
    PROVE  Max(s) = n + 1
<1>1. \A y \in s : n + 1 >= y
  OBVIOUS
<1>2. Max(s) \in s /\ \A y \in s : Max(s) >= y
  BY <1>1 DEF Max
<1>3. Max(s) \in 1 .. n + 1 /\ Max(s) >= n + 1
  BY <1>2
<1> QED BY <1>3

(* A set of numbers that is not empty has a maximum. *)
LEMMA MaxIn ==
    ASSUME NEW n \in Nat, NEW s \in SUBSET (1 .. n), s # {}
    PROVE  Max(s) \in s
<1> DEFINE T == {n - x : x \in s}
<1>1. T \in SUBSET Nat /\ T # {}
  <2>1. ASSUME NEW x \in s PROVE x \in 1 .. n
    OBVIOUS
  <2>2. ASSUME NEW x \in s PROVE n - x \in Nat
    BY <2>1
  <2>3. T \in SUBSET Nat
    BY <2>2
  <2> QED BY <2>3
<1>2. PICK m \in T : \A k \in T : m <= k
  <2> HIDE DEF T
  <2> QED BY <1>1, Least
<1>3. PICK x \in s : m = n - x
  OBVIOUS
<1>4. ASSUME NEW y \in s PROVE x >= y
  <2>1. n - y \in T
    OBVIOUS
  <2>2. m <= n - y
    <3> HIDE DEF T
    <3> QED BY <1>2, <2>1
  <2>3. x \in 1 .. n /\ y \in 1 .. n
    OBVIOUS
  <2> QED BY <1>3, <2>2, <2>3
<1> QED BY <1>4 DEF Max

(* The recursion of a fold has a solution. *)
LEMMA FoldSolved ==
    ASSUME NEW S, NEW N \in Nat, NEW step \in [S -> [1 .. N -> S]], NEW base \in S
    PROVE  \E iter : Solves(iter, S, N, step, base)
<1> DEFINE T == {n \in Nat : n <= N => \E iter : Solves(iter, S, n, step, base)}
<1>1. 0 \in T
  <2>1. Solves([s \in {{}} |-> base], S, 0, step, base)
    <3>1. SUBSET (1 .. 0) = {{}}
      OBVIOUS
    <3> QED BY <3>1 DEF Solves
  <2> QED BY <2>1
<1>2. ASSUME NEW n \in T PROVE n + 1 \in T
  <2> SUFFICES ASSUME n + 1 <= N
               PROVE  \E iter : Solves(iter, S, n + 1, step, base)
    OBVIOUS
  <2>1. PICK g : Solves(g, S, n, step, base)
    OBVIOUS
  <2> DEFINE h == [s \in SUBSET (1 .. n + 1) |->
                    IF n + 1 \in s THEN step[g[s \ {n + 1}]][n + 1] ELSE g[s]]
  <2>2. ASSUME NEW s \in SUBSET (1 .. n + 1)
        PROVE  /\ h[s] \in S
               /\ h[s] = IF s = {} THEN base ELSE step[h[s \ {Max(s)}]][Max(s)]
    <3>1. CASE n + 1 \in s
      <4>1. Max(s) = n + 1
        BY <3>1, MaxOf
      <4>2. s \ {n + 1} \in SUBSET (1 .. n) /\ n + 1 \notin s \ {n + 1} /\ s # {}
        BY <3>1
      <4>3. h[s \ {n + 1}] = g[s \ {n + 1}] /\ g[s \ {n + 1}] \in S
        BY <4>2, <2>1 DEF Solves
      <4>4. h[s] = step[g[s \ {n + 1}]][n + 1]
        BY <3>1
      <4> HIDE DEF h
      <4>5. n + 1 \in 1 .. N
        OBVIOUS
      <4> QED BY <4>1, <4>2, <4>3, <4>4, <4>5
    <3>2. CASE n + 1 \notin s
      <4>1. s \in SUBSET (1 .. n)
        BY <3>2
      <4>2. h[s] = g[s]
        BY <3>2
      <4>3. s # {} => h[s \ {Max(s)}] = g[s \ {Max(s)}]
        BY <3>2, <4>1
      <4> HIDE DEF h
      <4> QED BY <4>1, <4>2, <4>3, <2>1 DEF Solves
    <3> QED BY <3>1, <3>2
  <2>3. Solves(h, S, n + 1, step, base)
    <3>1. h = [s \in SUBSET (1 .. n + 1) |-> h[s]]
      OBVIOUS
    <3> HIDE DEF h
    <3>2. h \in [SUBSET (1 .. n + 1) -> S]
      BY <2>2, <3>1
    <3> QED BY <2>2, <3>2 DEF Solves
  <2> HIDE DEF h
  <2> QED BY <2>3
<1>3. T = Nat
  <2> HIDE DEF T
  <2>1. T \in SUBSET Nat
    BY DEF T
  <2> QED BY <1>1, <1>2, <2>1, Induction
<1>4. N \in T
  BY <1>3
<1> QED BY <1>4

(* What holds before the first step, and is brought by each step from one set of states into the
   next, holds at the end. *)
LEMMA LoopInvariant ==
    ASSUME NEW n \in Nat, NEW J, NEW I,
           J[{}] \in I[0],
           \A k \in 0 .. n - 1 : J[1 .. k] \in I[k] => J[1 .. k + 1] \in I[k + 1]
    PROVE  J[1 .. n] \in I[n]
<1> DEFINE T == {k \in Nat : k <= n => J[1 .. k] \in I[k]}
<1>1. 0 \in T
  <2>1. 1 .. 0 = {}
    OBVIOUS
  <2> QED BY <2>1
<1>2. ASSUME NEW k \in T PROVE k + 1 \in T
  <2>1. k \in Nat
    OBVIOUS
  <2>2. CASE k + 1 <= n
    <3>1. k \in 0 .. n - 1 /\ J[1 .. k] \in I[k]
      BY <2>1, <2>2
    <3> QED BY <2>1, <3>1
  <2>3. CASE ~(k + 1 <= n)
    BY <2>1, <2>3
  <2> QED BY <2>2, <2>3
<1>3. T = Nat
  <2> HIDE DEF T
  <2>1. T \in SUBSET Nat
    BY DEF T
  <2> QED BY <1>1, <1>2, <2>1, Induction
<1>4. n \in T
  BY <1>3
<1> QED BY <1>4

(* The steps of a fold *)
LEMMA FoldSteps ==
    ASSUME NEW n \in Nat, NEW k \in 0 .. n - 1
    PROVE  /\ 1 .. k + 1 \in SUBSET (1 .. n) /\ 1 .. k + 1 # {}
           /\ Max(1 .. k + 1) = k + 1 /\ (1 .. k + 1) \ {k + 1} = 1 .. k
<1>1. 1 .. k + 1 \in SUBSET (1 .. k + 1) /\ k + 1 \in 1 .. k + 1 /\ k \in Nat
  OBVIOUS
<1>2. Max(1 .. k + 1) = k + 1
  BY <1>1, MaxOf
<1> QED BY <1>2

(* The state that the fuse functions are of, and the pairs that their loops carry *)

FuseStates == [fuses : SUBSET FuseBits, security : BOOLEAN, status : BOOLEAN,
               refused : BOOLEAN, issued : BOOLEAN]
Accs == FuseStates \X BOOLEAN

WriteStep(acc, b, pos, value) == Then(acc, write_gp_fuse_bit(acc[1], b, b - pos \in value))
SetStep(acc, b, pos, value)   == Then(acc, set_gp_fuse_bit(acc[1], b, b - pos \in value))
Cleared(f, bit) ==
    LET b == bit % FuseNumber
    IN  Command(f, f.security /\ b \in BOOTPROT, f.fuses \ {b})

LEMMA FuseNumberIs == FuseNumber \in Nat /\ FuseNumber > 0 /\ FuseBits \subseteq Nat
<1>1. FuseBytes \in Nat /\ FuseByte \in Nat /\ FuseBytes > 0 /\ FuseByte > 0
  BY FuseAssumption
<1>2. FuseBytes * FuseByte \in Nat
  BY <1>1
<1>3. FuseBytes * FuseByte > 0
  BY <1>1
<1> QED BY <1>2, <1>3 DEF FuseNumber, FuseBits

(* What a command makes of f *)
Commanded(f, refuse, fuses, g) ==
    /\ g \in FuseStates
    /\ g.fuses = IF refuse THEN f.fuses ELSE fuses \cup (FuseCount .. FuseNumber - 1)
    /\ g.security = f.security /\ g.status = refuse /\ g.issued
    /\ g.refused <=> f.refused \/ refuse

LEMMA CommandIs ==
    ASSUME NEW f \in FuseStates, NEW refuse \in BOOLEAN, NEW fuses \in SUBSET FuseBits
    PROVE  Commanded(f, refuse, fuses, Command(f, refuse, fuses))
<1>1. FuseCount .. FuseNumber - 1 \subseteq FuseBits
  BY FuseNumberIs, FuseAssumption DEF FuseBits
<1>2. (f.refused \/ refuse) \in BOOLEAN
  BY Zenon DEF FuseStates
<1> DEFINE all == IF refuse THEN f.fuses ELSE fuses \cup (FuseCount .. FuseNumber - 1)
<1>3. all \in SUBSET FuseBits
  BY <1>1 DEF FuseStates
<1> HIDE DEF all
<1>4. PICK r \in BOOLEAN : r = (f.refused \/ refuse)
  BY <1>2
<1> DEFINE g == [f EXCEPT !.status = refuse, !.issued = TRUE, !.refused = r, !.fuses = all]
<1>5. Command(f, refuse, fuses) = g
  BY <1>4, Zenon DEF Command, all
<1>6. /\ g \in FuseStates /\ g.fuses = all /\ g.security = f.security
      /\ g.status = refuse /\ g.issued /\ g.refused = r
  BY <1>3 DEF FuseStates
<1> HIDE DEF g
<1>7. Commanded(f, refuse, fuses, g)
  BY <1>4, <1>6, Zenon DEF all, Commanded
<1> QED BY <1>5, <1>7

LEMMA CommandType ==
    ASSUME NEW f \in FuseStates, NEW refuse \in BOOLEAN, NEW fuses \in SUBSET FuseBits
    PROVE  Command(f, refuse, fuses) \in FuseStates
BY CommandIs DEF Commanded

LEMMA ThenType ==
    ASSUME NEW acc \in Accs, NEW g \in FuseStates
    PROVE  Then(acc, g) \in Accs
<1>1. (acc[2] \/ g.status) \in BOOLEAN
  BY Zenon DEF FuseStates, Accs
<1> QED BY <1>1 DEF Then, Accs

LEMMA EndedType ==
    ASSUME NEW acc \in Accs
    PROVE  Ended(acc) \in FuseStates
BY DEF Ended, Accs, FuseStates

LEMMA EraseBitType ==
    ASSUME NEW f \in FuseStates, NEW bit \in Int
    PROVE  /\ bit % FuseNumber \in FuseBits
           /\ erase_gp_fuse_bit(f, bit) \in FuseStates
<1>1. bit % FuseNumber \in FuseBits
  BY FuseNumberIs DEF FuseBits
<1> DEFINE b == bit % FuseNumber
<1>2. (f.security /\ b \in BOOTPROT) \in BOOLEAN
  BY Zenon DEF FuseStates
<1>3. f.fuses \cup {b} \in SUBSET FuseBits
  BY <1>1 DEF FuseStates
<1> QED BY <1>1, <1>2, <1>3, CommandType DEF erase_gp_fuse_bit

LEMMA ClearedType ==
    ASSUME NEW f \in FuseStates, NEW bit \in Int
    PROVE  Cleared(f, bit) \in FuseStates
<1> DEFINE b == bit % FuseNumber
<1>1. (f.security /\ b \in BOOTPROT) \in BOOLEAN
  BY Zenon DEF FuseStates
<1>2. f.fuses \ {b} \in SUBSET FuseBits
  BY DEF FuseStates
<1> QED BY <1>1, <1>2, CommandType DEF Cleared

(* A step of a field, by the bit of the value *)
LEMMA WriteStepIs ==
    ASSUME NEW acc, NEW b, NEW pos, NEW value
    PROVE  WriteStep(acc, b, pos, value) = Then(acc, IF b - pos \in value THEN acc[1] ELSE Cleared(acc[1], b))
BY DEF WriteStep, write_gp_fuse_bit, Cleared

LEMMA SetStepIs ==
    ASSUME NEW acc, NEW b, NEW pos, NEW value
    PROVE  SetStep(acc, b, pos, value)
             = Then(acc, IF b - pos \in value THEN erase_gp_fuse_bit(acc[1], b) ELSE Cleared(acc[1], b))
BY DEF SetStep, set_gp_fuse_bit, write_gp_fuse_bit, Cleared

LEMMA WriteStepType ==
    ASSUME NEW acc \in Accs, NEW b \in Int, NEW pos, NEW value
    PROVE  WriteStep(acc, b, pos, value) \in Accs
<1>1. acc[1] \in FuseStates
  BY DEF Accs
<1> QED BY <1>1, ClearedType, ThenType, WriteStepIs

LEMMA SetStepType ==
    ASSUME NEW acc \in Accs, NEW b \in Int, NEW pos, NEW value
    PROVE  SetStep(acc, b, pos, value) \in Accs
<1>1. acc[1] \in FuseStates
  BY DEF Accs
<1> QED BY <1>1, ClearedType, EraseBitType, ThenType, SetStepIs

LEMMA WriteByteType ==
    ASSUME NEW f \in FuseStates, NEW byte, NEW value
    PROVE  write_gp_fuse_byte(f, byte, value) \in FuseStates
<1>1. f.security \in BOOLEAN
  BY DEF FuseStates
<1>2. f.fuses \ (ByteBits(byte) \ {byte * FuseByte + i : i \in value}) \in SUBSET FuseBits
  BY DEF FuseStates
<1> QED BY <1>1, <1>2, CommandType DEF write_gp_fuse_byte

LEMMA EraseAllType ==
    ASSUME NEW f \in FuseStates
    PROVE  erase_all_gp_fuses(f) \in FuseStates
<1>1. f.security \in BOOLEAN
  BY DEF FuseStates
<1> QED BY <1>1, CommandType DEF erase_all_gp_fuses

----------------------------------------------------------------------------
(* The loops *)

EraseBitfieldRuns(J, f, pos, width) ==
    /\ J[{}] = <<f, FALSE>>
    /\ \A k \in 0 .. width - 1 :
        J[1 .. k + 1] = Then(J[1 .. k], erase_gp_fuse_bit(J[1 .. k][1], pos + k))
    /\ erase_gp_fuse_bitfield(f, pos, width) = Ended(J[1 .. width])

(* Each loop is what FoldLeft chooses: J[1 .. k] is the pair after the first k steps. *)
LEMMA EraseBitfieldLoop ==
    ASSUME NEW f \in FuseStates, NEW pos \in Int, NEW width \in Nat
    PROVE  \E J : EraseBitfieldRuns(J, f, pos, width)
<1> DEFINE Step(acc, b) == Then(acc, erase_gp_fuse_bit(acc[1], b))
           base == <<f, FALSE>>
           seq  == From(pos, width)
           Is(iter) == iter = [s \in SUBSET DOMAIN seq |->
                                IF s = {} THEN base ELSE Step(iter[s \ {Max(s)}], seq[Max(s)])]
           step == [acc \in Accs |-> [i \in 1 .. width |-> Step(acc, pos + i - 1)]]
<1>1. width \in Nat /\ DOMAIN seq = 1 .. width /\ \A i \in 1 .. width : seq[i] = pos + i - 1
  BY FuseAssumption DEF From
<1>2. step \in [Accs -> [1 .. width -> Accs]]
  <2>1. ASSUME NEW acc \in Accs, NEW i \in 1 .. width PROVE Step(acc, pos + i - 1) \in Accs
    <3>1. acc[1] \in FuseStates /\ pos + i - 1 \in Int
      BY <1>1 DEF Accs
    <3> QED BY <3>1, EraseBitType, ThenType
  <2> HIDE DEF Step
  <2> QED BY <2>1
<1>3. base \in Accs
  BY DEF Accs
<1>4. erase_gp_fuse_bitfield(f, pos, width) = Ended((CHOOSE iter : Is(iter))[DOMAIN seq])
  BY DEF erase_gp_fuse_bitfield, FoldLeft, MapThenFoldSet
<1> HIDE DEF Step, base, seq
<1>5. \E iter : Is(iter)
  <2>1. PICK iter : Solves(iter, Accs, width, step, base)
    <3> HIDE DEF step
    <3> QED BY <1>1, <1>2, <1>3, FoldSolved
  <2>2. ASSUME NEW s \in SUBSET (1 .. width)
        PROVE  iter[s] = IF s = {} THEN base ELSE Step(iter[s \ {Max(s)}], seq[Max(s)])
    <3>1. CASE s = {}
      BY <2>1, <3>1 DEF Solves
    <3>2. CASE s # {}
      <4>1. Max(s) \in 1 .. width /\ iter[s \ {Max(s)}] \in Accs
        BY <1>1, <2>1, <3>2, MaxIn DEF Solves
      <4>2. iter[s] = step[iter[s \ {Max(s)}]][Max(s)]
        BY <2>1, <3>2 DEF Solves
      <4> QED BY <1>1, <3>2, <4>1, <4>2
    <3> QED BY <3>1, <3>2
  <2>3. iter = [s \in SUBSET (1 .. width) |-> iter[s]]
    BY <2>1 DEF Solves
  <2>4. Is(iter)
    BY <1>1, <2>2, <2>3
  <2> QED BY <2>4
<1>6. PICK J : J = (CHOOSE iter : Is(iter))
  OBVIOUS
<1>7. Is(J)
  BY <1>5, <1>6
<1>8. J[{}] = base
  BY <1>7
<1>9. ASSUME NEW k \in 0 .. width - 1
      PROVE  J[1 .. k + 1] = Step(J[1 .. k], pos + k)
  <2>1. /\ 1 .. k + 1 \in SUBSET (1 .. width) /\ 1 .. k + 1 # {}
        /\ Max(1 .. k + 1) = k + 1 /\ (1 .. k + 1) \ {k + 1} = 1 .. k
    BY <1>1, FoldSteps
  <2>2. k + 1 \in 1 .. width /\ seq[k + 1] = pos + k
    BY <1>1
  <2> QED BY <1>1, <1>7, <2>1, <2>2
<1>10. erase_gp_fuse_bitfield(f, pos, width) = Ended(J[1 .. width])
  BY <1>1, <1>4, <1>6
<1>11. EraseBitfieldRuns(J, f, pos, width)
  BY <1>8, <1>9, <1>10 DEF base, Step, EraseBitfieldRuns
<1> QED BY <1>11

WriteBitfieldRuns(J, f, pos, width, value) ==
    /\ J[{}] = <<f, FALSE>>
    /\ \A k \in 0 .. width - 1 :
        J[1 .. k + 1] = WriteStep(J[1 .. k], pos + k, pos, value)
    /\ write_gp_fuse_bitfield(f, pos, width, value) = Ended(J[1 .. width])

LEMMA WriteBitfieldLoop ==
    ASSUME NEW f \in FuseStates, NEW pos \in Int, NEW width \in Nat, NEW value
    PROVE  \E J : WriteBitfieldRuns(J, f, pos, width, value)
<1> DEFINE Step(acc, b) == WriteStep(acc, b, pos, value)
           base == <<f, FALSE>>
           seq  == From(pos, width)
           Is(iter) == iter = [s \in SUBSET DOMAIN seq |->
                                IF s = {} THEN base ELSE Step(iter[s \ {Max(s)}], seq[Max(s)])]
           step == [acc \in Accs |-> [i \in 1 .. width |-> Step(acc, pos + i - 1)]]
<1>1. width \in Nat /\ DOMAIN seq = 1 .. width /\ \A i \in 1 .. width : seq[i] = pos + i - 1
  BY FuseAssumption DEF From
<1>2. step \in [Accs -> [1 .. width -> Accs]]
  <2>1. ASSUME NEW acc \in Accs, NEW i \in 1 .. width PROVE Step(acc, pos + i - 1) \in Accs
    <3>1. acc[1] \in FuseStates /\ pos + i - 1 \in Int
      BY <1>1 DEF Accs
    <3> QED BY <3>1, WriteStepType
  <2> HIDE DEF Step
  <2> QED BY <2>1
<1>3. base \in Accs
  BY DEF Accs
<1>4. write_gp_fuse_bitfield(f, pos, width, value) = Ended((CHOOSE iter : Is(iter))[DOMAIN seq])
  BY DEF write_gp_fuse_bitfield, WriteStep, FoldLeft, MapThenFoldSet
<1> HIDE DEF Step, base, seq
<1>5. \E iter : Is(iter)
  <2>1. PICK iter : Solves(iter, Accs, width, step, base)
    <3> HIDE DEF step
    <3> QED BY <1>1, <1>2, <1>3, FoldSolved
  <2>2. ASSUME NEW s \in SUBSET (1 .. width)
        PROVE  iter[s] = IF s = {} THEN base ELSE Step(iter[s \ {Max(s)}], seq[Max(s)])
    <3>1. CASE s = {}
      BY <2>1, <3>1 DEF Solves
    <3>2. CASE s # {}
      <4>1. Max(s) \in 1 .. width /\ iter[s \ {Max(s)}] \in Accs
        BY <1>1, <2>1, <3>2, MaxIn DEF Solves
      <4>2. iter[s] = step[iter[s \ {Max(s)}]][Max(s)]
        BY <2>1, <3>2 DEF Solves
      <4> QED BY <1>1, <3>2, <4>1, <4>2
    <3> QED BY <3>1, <3>2
  <2>3. iter = [s \in SUBSET (1 .. width) |-> iter[s]]
    BY <2>1 DEF Solves
  <2>4. Is(iter)
    BY <1>1, <2>2, <2>3
  <2> QED BY <2>4
<1>6. PICK J : J = (CHOOSE iter : Is(iter))
  OBVIOUS
<1>7. Is(J)
  BY <1>5, <1>6
<1>8. J[{}] = base
  BY <1>7
<1>9. ASSUME NEW k \in 0 .. width - 1
      PROVE  J[1 .. k + 1] = Step(J[1 .. k], pos + k)
  <2>1. /\ 1 .. k + 1 \in SUBSET (1 .. width) /\ 1 .. k + 1 # {}
        /\ Max(1 .. k + 1) = k + 1 /\ (1 .. k + 1) \ {k + 1} = 1 .. k
    BY <1>1, FoldSteps
  <2>2. k + 1 \in 1 .. width /\ seq[k + 1] = pos + k
    BY <1>1
  <2> QED BY <1>1, <1>7, <2>1, <2>2
<1>10. write_gp_fuse_bitfield(f, pos, width, value) = Ended(J[1 .. width])
  BY <1>1, <1>4, <1>6
<1>11. WriteBitfieldRuns(J, f, pos, width, value)
  BY <1>8, <1>9, <1>10 DEF base, Step, WriteBitfieldRuns
<1> QED BY <1>11

SetBitfieldRuns(J, f, pos, width, value) ==
    /\ J[{}] = <<f, FALSE>>
    /\ \A k \in 0 .. width - 1 :
        J[1 .. k + 1] = SetStep(J[1 .. k], pos + k, pos, value)
    /\ set_gp_fuse_bitfield(f, pos, width, value) = Ended(J[1 .. width])

LEMMA SetBitfieldLoop ==
    ASSUME NEW f \in FuseStates, NEW pos \in Int, NEW width \in Nat, NEW value
    PROVE  \E J : SetBitfieldRuns(J, f, pos, width, value)
<1> DEFINE Step(acc, b) == SetStep(acc, b, pos, value)
           base == <<f, FALSE>>
           seq  == From(pos, width)
           Is(iter) == iter = [s \in SUBSET DOMAIN seq |->
                                IF s = {} THEN base ELSE Step(iter[s \ {Max(s)}], seq[Max(s)])]
           step == [acc \in Accs |-> [i \in 1 .. width |-> Step(acc, pos + i - 1)]]
<1>1. width \in Nat /\ DOMAIN seq = 1 .. width /\ \A i \in 1 .. width : seq[i] = pos + i - 1
  BY FuseAssumption DEF From
<1>2. step \in [Accs -> [1 .. width -> Accs]]
  <2>1. ASSUME NEW acc \in Accs, NEW i \in 1 .. width PROVE Step(acc, pos + i - 1) \in Accs
    <3>1. acc[1] \in FuseStates /\ pos + i - 1 \in Int
      BY <1>1 DEF Accs
    <3> QED BY <3>1, SetStepType
  <2> HIDE DEF Step
  <2> QED BY <2>1
<1>3. base \in Accs
  BY DEF Accs
<1>4. set_gp_fuse_bitfield(f, pos, width, value) = Ended((CHOOSE iter : Is(iter))[DOMAIN seq])
  BY DEF set_gp_fuse_bitfield, SetStep, FoldLeft, MapThenFoldSet
<1> HIDE DEF Step, base, seq
<1>5. \E iter : Is(iter)
  <2>1. PICK iter : Solves(iter, Accs, width, step, base)
    <3> HIDE DEF step
    <3> QED BY <1>1, <1>2, <1>3, FoldSolved
  <2>2. ASSUME NEW s \in SUBSET (1 .. width)
        PROVE  iter[s] = IF s = {} THEN base ELSE Step(iter[s \ {Max(s)}], seq[Max(s)])
    <3>1. CASE s = {}
      BY <2>1, <3>1 DEF Solves
    <3>2. CASE s # {}
      <4>1. Max(s) \in 1 .. width /\ iter[s \ {Max(s)}] \in Accs
        BY <1>1, <2>1, <3>2, MaxIn DEF Solves
      <4>2. iter[s] = step[iter[s \ {Max(s)}]][Max(s)]
        BY <2>1, <3>2 DEF Solves
      <4> QED BY <1>1, <3>2, <4>1, <4>2
    <3> QED BY <3>1, <3>2
  <2>3. iter = [s \in SUBSET (1 .. width) |-> iter[s]]
    BY <2>1 DEF Solves
  <2>4. Is(iter)
    BY <1>1, <2>2, <2>3
  <2> QED BY <2>4
<1>6. PICK J : J = (CHOOSE iter : Is(iter))
  OBVIOUS
<1>7. Is(J)
  BY <1>5, <1>6
<1>8. J[{}] = base
  BY <1>7
<1>9. ASSUME NEW k \in 0 .. width - 1
      PROVE  J[1 .. k + 1] = Step(J[1 .. k], pos + k)
  <2>1. /\ 1 .. k + 1 \in SUBSET (1 .. width) /\ 1 .. k + 1 # {}
        /\ Max(1 .. k + 1) = k + 1 /\ (1 .. k + 1) \ {k + 1} = 1 .. k
    BY <1>1, FoldSteps
  <2>2. k + 1 \in 1 .. width /\ seq[k + 1] = pos + k
    BY <1>1
  <2> QED BY <1>1, <1>7, <2>1, <2>2
<1>10. set_gp_fuse_bitfield(f, pos, width, value) = Ended(J[1 .. width])
  BY <1>1, <1>4, <1>6
<1>11. SetBitfieldRuns(J, f, pos, width, value)
  BY <1>8, <1>9, <1>10 DEF base, Step, SetBitfieldRuns
<1> QED BY <1>11

WriteAllRuns(J, f, value) ==
    /\ J[{}] = <<f, FALSE>>
    /\ \A k \in 0 .. FuseBytes - 1 :
        J[1 .. k + 1] = Then(J[1 .. k], write_gp_fuse_byte(J[1 .. k][1], 0 + k, ByteOf(value, 0 + k)))
    /\ write_all_gp_fuses(f, value) = Ended(J[1 .. FuseBytes])

LEMMA WriteAllLoop ==
    ASSUME NEW f \in FuseStates, NEW value
    PROVE  \E J : WriteAllRuns(J, f, value)
<1> DEFINE Step(acc, b) == Then(acc, write_gp_fuse_byte(acc[1], b, ByteOf(value, b)))
           base == <<f, FALSE>>
           seq  == From(0, FuseBytes)
           Is(iter) == iter = [s \in SUBSET DOMAIN seq |->
                                IF s = {} THEN base ELSE Step(iter[s \ {Max(s)}], seq[Max(s)])]
           step == [acc \in Accs |-> [i \in 1 .. FuseBytes |-> Step(acc, 0 + i - 1)]]
<1>1. FuseBytes \in Nat /\ DOMAIN seq = 1 .. FuseBytes /\ \A i \in 1 .. FuseBytes : seq[i] = 0 + i - 1
  BY FuseAssumption DEF From
<1>2. step \in [Accs -> [1 .. FuseBytes -> Accs]]
  <2>1. ASSUME NEW acc \in Accs, NEW i \in 1 .. FuseBytes PROVE Step(acc, 0 + i - 1) \in Accs
    <3>1. acc[1] \in FuseStates /\ 0 + i - 1 \in Int
      BY <1>1 DEF Accs
    <3> QED BY <3>1, WriteByteType, ThenType
  <2> HIDE DEF Step
  <2> QED BY <2>1
<1>3. base \in Accs
  BY DEF Accs
<1>4. write_all_gp_fuses(f, value) = Ended((CHOOSE iter : Is(iter))[DOMAIN seq])
  BY DEF write_all_gp_fuses, FoldLeft, MapThenFoldSet
<1> HIDE DEF Step, base, seq
<1>5. \E iter : Is(iter)
  <2>1. PICK iter : Solves(iter, Accs, FuseBytes, step, base)
    <3> HIDE DEF step
    <3> QED BY <1>1, <1>2, <1>3, FoldSolved
  <2>2. ASSUME NEW s \in SUBSET (1 .. FuseBytes)
        PROVE  iter[s] = IF s = {} THEN base ELSE Step(iter[s \ {Max(s)}], seq[Max(s)])
    <3>1. CASE s = {}
      BY <2>1, <3>1 DEF Solves
    <3>2. CASE s # {}
      <4>1. Max(s) \in 1 .. FuseBytes /\ iter[s \ {Max(s)}] \in Accs
        BY <1>1, <2>1, <3>2, MaxIn DEF Solves
      <4>2. iter[s] = step[iter[s \ {Max(s)}]][Max(s)]
        BY <2>1, <3>2 DEF Solves
      <4> QED BY <1>1, <3>2, <4>1, <4>2
    <3> QED BY <3>1, <3>2
  <2>3. iter = [s \in SUBSET (1 .. FuseBytes) |-> iter[s]]
    BY <2>1 DEF Solves
  <2>4. Is(iter)
    BY <1>1, <2>2, <2>3
  <2> QED BY <2>4
<1>6. PICK J : J = (CHOOSE iter : Is(iter))
  OBVIOUS
<1>7. Is(J)
  BY <1>5, <1>6
<1>8. J[{}] = base
  BY <1>7
<1>9. ASSUME NEW k \in 0 .. FuseBytes - 1
      PROVE  J[1 .. k + 1] = Step(J[1 .. k], 0 + k)
  <2>1. /\ 1 .. k + 1 \in SUBSET (1 .. FuseBytes) /\ 1 .. k + 1 # {}
        /\ Max(1 .. k + 1) = k + 1 /\ (1 .. k + 1) \ {k + 1} = 1 .. k
    BY <1>1, FoldSteps
  <2>2. k + 1 \in 1 .. FuseBytes /\ seq[k + 1] = 0 + k
    BY <1>1
  <2> QED BY <1>1, <1>7, <2>1, <2>2
<1>10. write_all_gp_fuses(f, value) = Ended(J[1 .. FuseBytes])
  BY <1>1, <1>4, <1>6
<1>11. WriteAllRuns(J, f, value)
  BY <1>8, <1>9, <1>10 DEF base, Step, WriteAllRuns
<1> QED BY <1>11

EraseByteRuns(J, f, byte) ==
    /\ J[{}] = <<erase_all_gp_fuses(f), erase_all_gp_fuses(f).status>>
    /\ \A k \in 0 .. FuseBytes - 1 :
        J[1 .. k + 1] = IF 0 + k # byte
                        THEN Then(J[1 .. k], write_gp_fuse_byte(J[1 .. k][1], 0 + k, ByteOf(f.fuses, 0 + k)))
                        ELSE J[1 .. k]
    /\ erase_gp_fuse_byte(f, byte) = Ended(J[1 .. FuseBytes])

LEMMA EraseByteLoop ==
    ASSUME NEW f \in FuseStates, NEW byte
    PROVE  \E J : EraseByteRuns(J, f, byte)
<1> DEFINE Step(acc, b) == IF b # byte
                           THEN Then(acc, write_gp_fuse_byte(acc[1], b, ByteOf(f.fuses, b))) ELSE acc
           base == <<erase_all_gp_fuses(f), erase_all_gp_fuses(f).status>>
           seq  == From(0, FuseBytes)
           Is(iter) == iter = [s \in SUBSET DOMAIN seq |->
                                IF s = {} THEN base ELSE Step(iter[s \ {Max(s)}], seq[Max(s)])]
           step == [acc \in Accs |-> [i \in 1 .. FuseBytes |-> Step(acc, 0 + i - 1)]]
<1>1. FuseBytes \in Nat /\ DOMAIN seq = 1 .. FuseBytes /\ \A i \in 1 .. FuseBytes : seq[i] = 0 + i - 1
  BY FuseAssumption DEF From
<1>2. step \in [Accs -> [1 .. FuseBytes -> Accs]]
  <2>1. ASSUME NEW acc \in Accs, NEW i \in 1 .. FuseBytes PROVE Step(acc, 0 + i - 1) \in Accs
    <3>1. acc[1] \in FuseStates /\ 0 + i - 1 \in Int
      BY <1>1 DEF Accs
    <3> QED BY <3>1, WriteByteType, ThenType
  <2> HIDE DEF Step
  <2> QED BY <2>1
<1>3. base \in Accs
  BY EraseAllType DEF Accs, FuseStates
<1>4. erase_gp_fuse_byte(f, byte) = Ended((CHOOSE iter : Is(iter))[DOMAIN seq])
  BY DEF erase_gp_fuse_byte, FoldLeft, MapThenFoldSet
<1> HIDE DEF Step, base, seq
<1>5. \E iter : Is(iter)
  <2>1. PICK iter : Solves(iter, Accs, FuseBytes, step, base)
    <3> HIDE DEF step
    <3> QED BY <1>1, <1>2, <1>3, FoldSolved
  <2>2. ASSUME NEW s \in SUBSET (1 .. FuseBytes)
        PROVE  iter[s] = IF s = {} THEN base ELSE Step(iter[s \ {Max(s)}], seq[Max(s)])
    <3>1. CASE s = {}
      BY <2>1, <3>1 DEF Solves
    <3>2. CASE s # {}
      <4>1. Max(s) \in 1 .. FuseBytes /\ iter[s \ {Max(s)}] \in Accs
        BY <1>1, <2>1, <3>2, MaxIn DEF Solves
      <4>2. iter[s] = step[iter[s \ {Max(s)}]][Max(s)]
        BY <2>1, <3>2 DEF Solves
      <4> QED BY <1>1, <3>2, <4>1, <4>2
    <3> QED BY <3>1, <3>2
  <2>3. iter = [s \in SUBSET (1 .. FuseBytes) |-> iter[s]]
    BY <2>1 DEF Solves
  <2>4. Is(iter)
    BY <1>1, <2>2, <2>3
  <2> QED BY <2>4
<1>6. PICK J : J = (CHOOSE iter : Is(iter))
  OBVIOUS
<1>7. Is(J)
  BY <1>5, <1>6
<1>8. J[{}] = base
  BY <1>7
<1>9. ASSUME NEW k \in 0 .. FuseBytes - 1
      PROVE  J[1 .. k + 1] = Step(J[1 .. k], 0 + k)
  <2>1. /\ 1 .. k + 1 \in SUBSET (1 .. FuseBytes) /\ 1 .. k + 1 # {}
        /\ Max(1 .. k + 1) = k + 1 /\ (1 .. k + 1) \ {k + 1} = 1 .. k
    BY <1>1, FoldSteps
  <2>2. k + 1 \in 1 .. FuseBytes /\ seq[k + 1] = 0 + k
    BY <1>1
  <2> QED BY <1>1, <1>7, <2>1, <2>2
<1>10. erase_gp_fuse_byte(f, byte) = Ended(J[1 .. FuseBytes])
  BY <1>1, <1>4, <1>6
<1>11. EraseByteRuns(J, f, byte)
  BY <1>8, <1>9, <1>10 DEF base, Step, EraseByteRuns
<1> QED BY <1>11

Fixed == FuseCount .. FuseNumber - 1
Free  == 0 .. FuseCount - 1

(* What a loop that begins in f carries on *)
Carry(f, acc) ==
    /\ acc \in Accs /\ acc[1].security = f.security /\ Fixed \subseteq acc[1].fuses
    /\ acc[1].refused <=> f.refused \/ acc[2]

(* What a function that takes f to g never changes, what it tells, and what it is for *)
Kept(f, g) == g \in FuseStates /\ g.security = f.security /\ Fixed \subseteq g.fuses
Safe(f, g) == Kept(f, g) /\ (g.refused <=> f.refused \/ g.status)

Others(f, g, bits) == \A b \in Free \ bits : b \in g.fuses <=> b \in f.fuses
Holds(g, bits, value) == \A b \in Free \cap bits : b \in g.fuses <=> b \in value
Masked(f, g, value) == \A b \in Free : b \in g.fuses <=> b \in f.fuses /\ b \in value

(* What a command makes of a pair *)
Stepped(f, acc, refuse, fuses, next) ==
    /\ Carry(f, next)
    /\ next[1].fuses = IF refuse THEN acc[1].fuses ELSE fuses \cup Fixed
    /\ next[2] <=> acc[2] \/ refuse

(* A command in a loop: error_status cumulates what was refused. *)
LEMMA CommandStep ==
    ASSUME NEW f \in FuseStates, NEW acc, Carry(f, acc),
           NEW refuse \in BOOLEAN, NEW fuses \in SUBSET FuseBits
    PROVE  Stepped(f, acc, refuse, fuses, Then(acc, Command(acc[1], refuse, fuses)))
<1>1. acc \in Accs /\ acc[1] \in FuseStates /\ acc[2] \in BOOLEAN
  BY DEF Carry, Accs
<1>2. PICK g : g = Command(acc[1], refuse, fuses)
  OBVIOUS
<1>3. /\ g \in FuseStates
      /\ g.fuses = IF refuse THEN acc[1].fuses ELSE fuses \cup Fixed
      /\ g.security = acc[1].security /\ g.status = refuse
      /\ g.refused <=> acc[1].refused \/ refuse
  <2>1. Commanded(acc[1], refuse, fuses, g)
    BY <1>1, <1>2, CommandIs
  <2> QED BY <2>1 DEF Commanded, Fixed
<1>4. PICK next : next = Then(acc, g)
  OBVIOUS
<1>5. next \in Accs /\ next[1] = g
  BY <1>1, <1>3, <1>4, ThenType DEF Then
<1>6. next[2] <=> acc[2] \/ refuse
  <2>1. next[2] = (acc[2] \/ g.status)
    BY <1>4 DEF Then
  <2> QED BY <1>3, <2>1, Zenon
<1>7. Fixed \subseteq g.fuses
  BY <1>3 DEF Carry
<1>8. next[1].refused <=> f.refused \/ next[2]
  BY <1>3, <1>5, <1>6, Zenon DEF Carry
<1>9. Carry(f, next)
  BY <1>3, <1>5, <1>7, <1>8 DEF Carry
<1>10. Stepped(f, acc, refuse, fuses, next)
  BY <1>3, <1>5, <1>6, <1>9 DEF Stepped
<1> QED BY <1>2, <1>4, <1>10

(* The status assigned at the end tells whether a command of the loop was refused. *)
LEMMA EndedIs ==
    ASSUME NEW f \in FuseStates, NEW acc, Carry(f, acc)
    PROVE  /\ Safe(f, Ended(acc))
           /\ Ended(acc).fuses = acc[1].fuses /\ Ended(acc).status = acc[2]
<1>1. acc \in Accs /\ acc[1] \in FuseStates /\ acc[2] \in BOOLEAN
  BY DEF Carry, Accs
<1>2. PICK g : g = Ended(acc)
  OBVIOUS
<1>3. /\ g \in FuseStates /\ g.fuses = acc[1].fuses /\ g.security = acc[1].security
      /\ g.status = acc[2] /\ g.refused = acc[1].refused
  BY <1>1, <1>2 DEF Ended, FuseStates
<1>4. g.refused <=> f.refused \/ g.status
  BY <1>3, Zenon DEF Carry
<1>5. Safe(f, g)
  BY <1>3, <1>4 DEF Carry, Safe, Kept
<1> QED BY <1>2, <1>3, <1>5

LEMMA Started ==
    ASSUME NEW f \in FuseStates, Fixed \subseteq f.fuses
    PROVE  Carry(f, <<f, FALSE>>)
BY DEF Carry, Accs

----------------------------------------------------------------------------
(* Fields: the bits of the first k steps *)

FieldBits(pos, k) == {(pos + i) % FuseNumber : i \in 0 .. k - 1}

LEMMA FieldGrows ==
    ASSUME NEW pos \in Int, NEW k \in Nat
    PROVE  FieldBits(pos, k + 1) = FieldBits(pos, k) \cup {(pos + k) % FuseNumber}
<1>1. ASSUME NEW i \in Int
      PROVE  i \in 0 .. k + 1 - 1 <=> i \in 0 .. k - 1 \/ i = k
  OBVIOUS
<1>2. k \in 0 .. k + 1 - 1
  OBVIOUS
<1>3. ASSUME NEW b
      PROVE  b \in FieldBits(pos, k + 1) <=> b \in FieldBits(pos, k) \/ b = (pos + k) % FuseNumber
  <2>1. ASSUME b \in FieldBits(pos, k + 1)
        PROVE  b \in FieldBits(pos, k) \/ b = (pos + k) % FuseNumber
    <3>1. PICK i \in 0 .. k + 1 - 1 : b = (pos + i) % FuseNumber
      BY <2>1 DEF FieldBits
    <3>2. i \in 0 .. k - 1 \/ i = k
      BY <1>1
    <3> QED BY <3>1, <3>2 DEF FieldBits
  <2>2. ASSUME b \in FieldBits(pos, k)
        PROVE  b \in FieldBits(pos, k + 1)
    <3>1. PICK i \in 0 .. k - 1 : b = (pos + i) % FuseNumber
      BY <2>2 DEF FieldBits
    <3>2. i \in 0 .. k + 1 - 1
      BY <1>1
    <3> QED BY <3>1, <3>2 DEF FieldBits
  <2>3. (pos + k) % FuseNumber \in FieldBits(pos, k + 1)
    BY <1>2 DEF FieldBits
  <2> QED BY <2>1, <2>2, <2>3
<1> QED BY <1>3

(* What a function that sets or erases bits does *)
Effect(f, g, bits, value) == Safe(f, g) /\ Others(f, g, bits) /\ (g.status \/ Holds(g, bits, value))

(* What a loop over a field has brought about *)
Done(f, acc, bits, value) ==
    Carry(f, acc) /\ Others(f, acc[1], bits) /\ (acc[2] \/ Holds(acc[1], bits, value))

(* A step of a loop over a field gives one more bit its value. *)
LEMMA BitStep ==
    ASSUME NEW f \in FuseStates, NEW acc, NEW bits, NEW value, Done(f, acc, bits, value),
           NEW b \in FuseBits, NEW refuse \in BOOLEAN,
           NEW fuses \in SUBSET FuseBits,
           fuses \ {b} = acc[1].fuses \ {b}, b \in fuses <=> b \in value,
           NEW next, next = Then(acc, Command(acc[1], refuse, fuses))
    PROVE  Done(f, next, bits \cup {b}, value)
<1>1. Carry(f, acc) /\ Others(f, acc[1], bits) /\ (acc[2] \/ Holds(acc[1], bits, value))
  BY DEF Done
<1>3. /\ Carry(f, next)
      /\ next[1].fuses = IF refuse THEN acc[1].fuses ELSE fuses \cup Fixed
      /\ next[2] <=> acc[2] \/ refuse
  BY <1>1, CommandStep DEF Stepped
<1>4. Free \cap Fixed = {}
  BY FuseAssumption, FuseNumberIs DEF Free, Fixed
<1>5. Others(f, next[1], bits \cup {b})
  BY <1>1, <1>3, <1>4 DEF Others
<1>6. next[2] \/ Holds(next[1], bits \cup {b}, value)
  BY <1>1, <1>3, <1>4 DEF Holds
<1> QED BY <1>3, <1>5, <1>6 DEF Done

LEMMA FieldBegins ==
    ASSUME NEW f \in FuseStates, Fixed \subseteq f.fuses, NEW pos, NEW value
    PROVE  Done(f, <<f, FALSE>>, FieldBits(pos, 0), value)
<1>1. FieldBits(pos, 0) = {}
  BY DEF FieldBits
<1> QED BY <1>1, Started DEF Done, Others, Holds

LEMMA FieldEnds ==
    ASSUME NEW f \in FuseStates, NEW acc, NEW bits, NEW value, Done(f, acc, bits, value)
    PROVE  Effect(f, Ended(acc), bits, value)
<1>1. PICK g : g = Ended(acc)
  OBVIOUS
<1>2. Safe(f, g) /\ g.fuses = acc[1].fuses /\ g.status = acc[2]
  BY <1>1, EndedIs DEF Done
<1>3. Others(f, g, bits)
  BY <1>2 DEF Done, Others
<1>4. g.status \/ Holds(g, bits, value)
  BY <1>2 DEF Done, Holds
<1>5. Effect(f, g, bits, value)
  BY <1>2, <1>3, <1>4 DEF Effect
<1> QED BY <1>1, <1>5

(* erase_gp_fuse_bitfield() sets the bits of its field, round the end too, and no other;
   its status tells whether one was refused. *)
LEMMA EraseFieldEffect ==
    ASSUME NEW f \in FuseStates, Fixed \subseteq f.fuses, NEW pos \in Int, NEW width \in Nat
    PROVE  Effect(f, erase_gp_fuse_bitfield(f, pos, width), FieldBits(pos, width), FuseBits)
<1> DEFINE target == FuseBits
<1> PICK J : EraseBitfieldRuns(J, f, pos, width)
  <2> HIDE DEF target
  <2> QED BY EraseBitfieldLoop
<1>1. /\ J[{}] = <<f, FALSE>>
      /\ \A k \in 0 .. width - 1 :
            J[1 .. k + 1] = Then(J[1 .. k], erase_gp_fuse_bit(J[1 .. k][1], pos + k))
      /\ erase_gp_fuse_bitfield(f, pos, width) = Ended(J[1 .. width])
  BY DEF EraseBitfieldRuns
<1> DEFINE I == [k \in 0 .. width |-> {acc \in Accs : Done(f, acc, FieldBits(pos, k), target)}]
<1>2. J[{}] \in I[0]
  <2>1. Done(f, <<f, FALSE>>, FieldBits(pos, 0), target)
    BY FieldBegins
  <2>2. <<f, FALSE>> \in Accs
    BY DEF Accs
  <2> HIDE DEF target
  <2> QED BY <1>1, <2>1, <2>2
<1>3. ASSUME NEW k \in 0 .. width - 1, J[1 .. k] \in I[k]
      PROVE  J[1 .. k + 1] \in I[k + 1]
  <2>1. PICK acc : acc = J[1 .. k]
    OBVIOUS
  <2>2. acc \in Accs /\ Done(f, acc, FieldBits(pos, k), target)
    BY <1>3, <2>1
  <2>3. PICK b : b = (pos + k) % FuseNumber
    OBVIOUS
  <2>4. b \in FuseBits /\ acc[1] \in FuseStates /\ pos + k \in Int /\ k \in Nat
    BY <2>2, <2>3, FuseNumberIs DEF FuseBits, Accs
  <2>5. PICK refuse \in BOOLEAN : refuse = (acc[1].security /\ b \in BOOTPROT)
    <3>1. acc[1].security \in BOOLEAN
      BY <2>4 DEF FuseStates
    <3> QED BY <3>1, Zenon
  <2>6. PICK fuses : fuses = IF b \in target THEN acc[1].fuses \cup {b} ELSE acc[1].fuses \ {b}
    OBVIOUS
  <2>7. fuses = acc[1].fuses \cup {b}
    BY <2>4, <2>6
  <2>8. J[1 .. k + 1] = Then(acc, Command(acc[1], refuse, fuses))
    BY <1>1, <2>1, <2>3, <2>5, <2>7, Zenon DEF erase_gp_fuse_bit
  <2>9. Done(f, J[1 .. k + 1], FieldBits(pos, k) \cup {b}, target)
    <3> HIDE DEF target
    <3>1. fuses \in SUBSET FuseBits
      BY <2>4, <2>6 DEF FuseStates
    <3>2. fuses \ {b} = acc[1].fuses \ {b} /\ (b \in fuses <=> b \in target)
      BY <2>6
    <3> QED BY <2>2, <2>4, <2>8, <3>1, <3>2, BitStep
  <2>10. FieldBits(pos, k + 1) = FieldBits(pos, k) \cup {b}
    BY <2>3, <2>4, FieldGrows
  <2>11. J[1 .. k + 1] \in Accs
    BY <2>9 DEF Done, Carry
  <2>12. k + 1 \in 0 .. width
    BY FuseNumberIs
  <2> HIDE DEF target
  <2> QED BY <2>9, <2>10, <2>11, <2>12
<1>4. J[1 .. width] \in I[width]
  <2> HIDE DEF I
  <2>1. width \in Nat
    BY FuseNumberIs
  <2> QED BY <1>2, <1>3, <2>1, LoopInvariant
<1>5. Done(f, J[1 .. width], FieldBits(pos, width), target)
  <2>1. width \in Nat
    BY FuseNumberIs
  <2> HIDE DEF target
  <2> QED BY <1>4, <2>1
<1>6. Effect(f, Ended(J[1 .. width]), FieldBits(pos, width), target)
  <2> HIDE DEF target
  <2> QED BY <1>5, FieldEnds
<1> QED BY <1>1, <1>6

FieldValue(value, pos) == {(i + pos) % FuseNumber : i \in value}

(* The bits of a field are different ones: none is written twice. *)
LEMMA Distinct ==
    ASSUME NEW pos \in Int, NEW i \in FuseBits, NEW k \in FuseBits,
           (pos + i) % FuseNumber = (pos + k) % FuseNumber
    PROVE  i = k
<1>1. FuseNumber \in Positive /\ i \in Int /\ k \in Int
  BY FuseNumberIs DEF Positive, FuseBits
<1> DEFINE n == FuseNumber
           p == (pos + i) \div n
           q == (pos + k) \div n
           r == (pos + i) % n
<1>2. pos + i = (p * n) + r /\ pos + k = (q * n) + r /\ p \in Int /\ q \in Int /\ r \in Int
  BY <1>1, Division
<1> HIDE DEF p, q, r
<1>3. p * n \in Int /\ q * n \in Int /\ i < n /\ k < n /\ 0 <= i /\ 0 <= k /\ n \in Int
  BY <1>1, <1>2 DEF FuseBits, Positive
<1>4. ASSUME p < q PROVE FALSE
  <2>1. (p * n) + n <= q * n
    BY <1>1, <1>2, <1>4, Times
  <2> QED BY <1>1, <1>2, <1>3, <2>1
<1>5. ASSUME q < p PROVE FALSE
  <2>1. (q * n) + n <= p * n
    BY <1>1, <1>2, <1>5, Times
  <2> QED BY <1>1, <1>2, <1>3, <2>1
<1>6. p = q
  BY <1>2, <1>4, <1>5
<1> QED BY <1>1, <1>2, <1>3, <1>6

(* set_gp_fuse_bitfield() gives each bit of its field, round the end too, its bit of the
   value, and no other fuse a new one, unless a command was refused; of its many commands
   the status tells whether one was. *)
THEOREM SetFieldEffect ==
    ASSUME NEW f \in FuseStates, Fixed \subseteq f.fuses, NEW pos \in Int,
           NEW width \in Nat, width <= FuseNumber, NEW value \in SUBSET FuseBits
    PROVE  Effect(f, set_gp_fuse_bitfield(f, pos, width, value),
                  FieldBits(pos, width), FieldValue(value, pos))
<1> DEFINE target == FieldValue(value, pos)
<1> PICK J : SetBitfieldRuns(J, f, pos, width, value)
  <2> HIDE DEF target
  <2> QED BY SetBitfieldLoop
<1>1. /\ J[{}] = <<f, FALSE>>
      /\ \A k \in 0 .. width - 1 :
            J[1 .. k + 1] = SetStep(J[1 .. k], pos + k, pos, value)
      /\ set_gp_fuse_bitfield(f, pos, width, value) = Ended(J[1 .. width])
  BY DEF SetBitfieldRuns
<1> DEFINE I == [k \in 0 .. width |-> {acc \in Accs : Done(f, acc, FieldBits(pos, k), target)}]
<1>2. J[{}] \in I[0]
  <2>1. Done(f, <<f, FALSE>>, FieldBits(pos, 0), target)
    BY FieldBegins
  <2>2. <<f, FALSE>> \in Accs
    BY DEF Accs
  <2> HIDE DEF target
  <2> QED BY <1>1, <2>1, <2>2
<1>3. ASSUME NEW k \in 0 .. width - 1, J[1 .. k] \in I[k]
      PROVE  J[1 .. k + 1] \in I[k + 1]
  <2>1. PICK acc : acc = J[1 .. k]
    OBVIOUS
  <2>2. acc \in Accs /\ Done(f, acc, FieldBits(pos, k), target)
    BY <1>3, <2>1
  <2>3. PICK b : b = (pos + k) % FuseNumber
    OBVIOUS
  <2>4. b \in FuseBits /\ acc[1] \in FuseStates /\ pos + k \in Int /\ k \in Nat
    BY <2>2, <2>3, FuseNumberIs DEF FuseBits, Accs
  <2>5. PICK refuse \in BOOLEAN : refuse = (acc[1].security /\ b \in BOOTPROT)
    <3>1. acc[1].security \in BOOLEAN
      BY <2>4 DEF FuseStates
    <3> QED BY <3>1, Zenon
  <2>6. PICK fuses : fuses = IF b \in target THEN acc[1].fuses \cup {b} ELSE acc[1].fuses \ {b}
    OBVIOUS
  <2>7. b \in target <=> k \in value
    <3>1. k \in FuseBits
      BY FuseNumberIs DEF FuseBits
    <3>2. ASSUME NEW i \in value
          PROVE  (i + pos) % FuseNumber = b <=> i = k
      <4>1. i \in FuseBits /\ i \in Int /\ i + pos = pos + i
        BY FuseNumberIs
      <4> QED BY <2>3, <3>1, <4>1, Distinct
    <3> QED BY <3>2 DEF FieldValue
  <2>8. J[1 .. k + 1] = Then(acc, Command(acc[1], refuse, fuses))
    <3>1. pos + k - pos = k
      BY <2>4
    <3>2. J[1 .. k + 1] = Then(acc, IF k \in value THEN erase_gp_fuse_bit(acc[1], pos + k)
                                    ELSE Cleared(acc[1], pos + k))
      BY <1>1, <2>1, <3>1, SetStepIs
    <3>3. erase_gp_fuse_bit(acc[1], pos + k) = Command(acc[1], refuse, acc[1].fuses \cup {b})
      BY <2>3, <2>5, Zenon DEF erase_gp_fuse_bit
    <3>4. Cleared(acc[1], pos + k) = Command(acc[1], refuse, acc[1].fuses \ {b})
      BY <2>3, <2>5, Zenon DEF Cleared
    <3> HIDE DEF target
    <3> QED BY <2>6, <2>7, <3>2, <3>3, <3>4
  <2>9. Done(f, J[1 .. k + 1], FieldBits(pos, k) \cup {b}, target)
    <3> HIDE DEF target
    <3>1. fuses \in SUBSET FuseBits
      BY <2>4, <2>6 DEF FuseStates
    <3>2. fuses \ {b} = acc[1].fuses \ {b} /\ (b \in fuses <=> b \in target)
      BY <2>6
    <3> QED BY <2>2, <2>4, <2>8, <3>1, <3>2, BitStep
  <2>10. FieldBits(pos, k + 1) = FieldBits(pos, k) \cup {b}
    BY <2>3, <2>4, FieldGrows
  <2>11. J[1 .. k + 1] \in Accs
    BY <2>9 DEF Done, Carry
  <2>12. k + 1 \in 0 .. width
    BY FuseNumberIs
  <2> HIDE DEF target
  <2> QED BY <2>9, <2>10, <2>11, <2>12
<1>4. J[1 .. width] \in I[width]
  <2> HIDE DEF I
  <2>1. width \in Nat
    BY FuseNumberIs
  <2> QED BY <1>2, <1>3, <2>1, LoopInvariant
<1>5. Done(f, J[1 .. width], FieldBits(pos, width), target)
  <2>1. width \in Nat
    BY FuseNumberIs
  <2> HIDE DEF target
  <2> QED BY <1>4, <2>1
<1>6. Effect(f, Ended(J[1 .. width]), FieldBits(pos, width), target)
  <2> HIDE DEF target
  <2> QED BY <1>5, FieldEnds
<1> QED BY <1>1, <1>6

(* write_gp_fuse_bitfield() leaves the Security bit and the fixed fuses. *)
LEMMA ClearedKept ==
    ASSUME NEW f, NEW h \in FuseStates, Kept(f, h), NEW bit \in Int
    PROVE  Kept(f, Cleared(h, bit))
<1>1. PICK b : b = bit % FuseNumber
  OBVIOUS
<1>2. PICK refuse \in BOOLEAN : refuse = (h.security /\ b \in BOOTPROT)
  <2>1. h.security \in BOOLEAN
    BY DEF FuseStates
  <2> QED BY <2>1, Zenon
<1>3. PICK g : g = Cleared(h, bit)
  OBVIOUS
<1>4. g = Command(h, refuse, h.fuses \ {b})
  BY <1>1, <1>2, <1>3, Zenon DEF Cleared
<1>5. PICK s \in SUBSET FuseBits : s = h.fuses \ {b}
  BY DEF FuseStates
<1>6. g = Command(h, refuse, s)
  BY <1>4, <1>5
<1>7. Commanded(h, refuse, s, g)
  BY <1>6, CommandIs
<1> QED BY <1>3, <1>5, <1>7 DEF Kept, Commanded, Fixed

LEMMA WriteFieldEffect ==
    ASSUME NEW f \in FuseStates, Fixed \subseteq f.fuses, NEW pos \in Int, NEW width \in Nat, NEW value
    PROVE  Kept(f, write_gp_fuse_bitfield(f, pos, width, value))
<1> PICK J : WriteBitfieldRuns(J, f, pos, width, value)
  BY WriteBitfieldLoop
<1>1. /\ J[{}] = <<f, FALSE>>
      /\ \A k \in 0 .. width - 1 :
            J[1 .. k + 1] = WriteStep(J[1 .. k], pos + k, pos, value)
      /\ write_gp_fuse_bitfield(f, pos, width, value) = Ended(J[1 .. width])
  BY DEF WriteBitfieldRuns
<1> DEFINE I == [k \in 0 .. width |-> {acc \in Accs : Kept(f, acc[1])}]
<1>2. J[{}] \in I[0]
  <2>1. <<f, FALSE>> \in Accs /\ <<f, FALSE>>[1] = f
    BY DEF Accs
  <2>2. Kept(f, f)
    BY DEF Kept
  <2> QED BY <1>1, <2>1, <2>2
<1>3. ASSUME NEW k \in 0 .. width - 1, J[1 .. k] \in I[k]
      PROVE  J[1 .. k + 1] \in I[k + 1]
  <2>1. PICK acc : acc = J[1 .. k]
    OBVIOUS
  <2>2. acc \in Accs /\ Kept(f, acc[1]) /\ acc[1] \in FuseStates /\ pos + k \in Int
    BY <1>3, <2>1 DEF Accs
  <2>5. Kept(f, Cleared(acc[1], pos + k))
    BY <2>2, ClearedKept
  <2>6. PICK g : g = IF pos + k - pos \in value THEN acc[1] ELSE Cleared(acc[1], pos + k)
    OBVIOUS
  <2>7. Kept(f, g) /\ g \in FuseStates
    BY <2>2, <2>5, <2>6 DEF Kept
  <2>8. J[1 .. k + 1] = Then(acc, g)
    BY <1>1, <2>1, <2>6, WriteStepIs
  <2>9. Then(acc, g) \in Accs /\ Then(acc, g)[1] = g
    BY <2>2, <2>7, ThenType DEF Then
  <2>10. k + 1 \in 0 .. width
    OBVIOUS
  <2> QED BY <2>7, <2>8, <2>9, <2>10
<1>4. J[1 .. width] \in I[width]
  <2> HIDE DEF I
  <2> QED BY <1>2, <1>3, LoopInvariant
<1>5. PICK acc : acc = J[1 .. width]
  OBVIOUS
<1>6. acc \in Accs /\ Kept(f, acc[1])
  BY <1>4, <1>5
<1>7. Kept(f, Ended(acc))
  <2>1. acc[1] \in FuseStates /\ acc[2] \in BOOLEAN
    BY <1>6 DEF Accs
  <2>2. PICK g : g = Ended(acc)
    OBVIOUS
  <2>3. g \in FuseStates /\ g.fuses = acc[1].fuses /\ g.security = acc[1].security
    BY <2>1, <2>2 DEF Ended, FuseStates
  <2> QED BY <1>6, <2>2, <2>3 DEF Kept
<1> QED BY <1>1, <1>5, <1>7

----------------------------------------------------------------------------
(* Bytes *)

(* Bytes: where their bits are, and which of a value *)
LEMMA ByteIs ==
    ASSUME NEW k \in 0 .. FuseBytes - 1
    PROVE  /\ k * FuseByte \in Nat /\ (k + 1) * FuseByte = k * FuseByte + FuseByte
           /\ k * FuseByte + FuseByte <= FuseNumber /\ FuseByte \in Positive
           /\ \A b \in Int : b \in ByteBits(k) <=> k * FuseByte <= b /\ b < k * FuseByte + FuseByte
           /\ \A value : \A b \in ByteBits(k) : b - k * FuseByte \in ByteOf(value, k) <=> b \in value
<1>1. FuseBytes \in Nat /\ FuseByte \in Nat /\ FuseByte > 0 /\ k \in Int /\ k < FuseBytes
  BY FuseAssumption
<1> DEFINE m == k * FuseByte
<1>2. m \in Nat
  BY <1>1
<1>3. (k + 1) * FuseByte = m + FuseByte
  BY <1>1
<1>4. m + FuseByte <= FuseNumber
  BY <1>1, Times DEF FuseNumber, Positive
<1> HIDE DEF m
<1>5. ASSUME NEW b \in Int PROVE b \in ByteBits(k) <=> m <= b /\ b < m + FuseByte
  <2>1. b \in ByteBits(k) <=> \E i \in 0 .. FuseByte - 1 : b = m + i
    BY DEF ByteBits, m
  <2>2. ASSUME m <= b, b < m + FuseByte PROVE b \in ByteBits(k)
    <3>1. b - m \in 0 .. FuseByte - 1 /\ b = m + (b - m)
      BY <1>1, <1>2, <2>2
    <3> QED BY <2>1, <3>1
  <2>3. ASSUME b \in ByteBits(k) PROVE m <= b /\ b < m + FuseByte
    BY <1>1, <1>2, <2>1, <2>3
  <2> QED BY <2>2, <2>3
<1>6. ASSUME NEW value, NEW b \in ByteBits(k)
      PROVE  b - m \in ByteOf(value, k) <=> b \in value
  <2>1. PICK i \in 0 .. FuseByte - 1 : b = m + i
    BY DEF ByteBits, m
  <2>2. b - m = i
    BY <1>2, <2>1
  <2> QED BY <2>1, <2>2 DEF ByteOf, m
<1> QED BY <1>1, <1>2, <1>3, <1>4, <1>5, <1>6 DEF m, Positive

LEMMA BytesApart ==
    ASSUME NEW k \in 0 .. FuseBytes - 1, NEW l \in 0 .. FuseBytes - 1, k # l
    PROVE  ByteBits(k) \cap ByteBits(l) = {}
<1>1. /\ k * FuseByte \in Nat /\ l * FuseByte \in Nat /\ FuseByte \in Positive
      /\ \A b \in Int : b \in ByteBits(k) <=> k * FuseByte <= b /\ b < k * FuseByte + FuseByte
      /\ \A b \in Int : b \in ByteBits(l) <=> l * FuseByte <= b /\ b < l * FuseByte + FuseByte
  BY ByteIs
<1>2. k \in Int /\ l \in Int /\ FuseByte \in Nat
  BY FuseAssumption
<1>3. k * FuseByte + FuseByte <= l * FuseByte \/ l * FuseByte + FuseByte <= k * FuseByte
  <2>1. CASE k < l
    BY <1>1, <1>2, <2>1, Times
  <2>2. CASE l < k
    BY <1>1, <1>2, <2>2, Times
  <2> QED BY <1>2, <2>1, <2>2
<1>4. ASSUME NEW b \in ByteBits(k) PROVE b \in Int
  BY <1>1, <1>2 DEF ByteBits
<1>5. ASSUME NEW b \in ByteBits(k), b \in ByteBits(l) PROVE FALSE
  <2> DEFINE m == k * FuseByte
             n == l * FuseByte
  <2>1. m <= b /\ b < m + FuseByte /\ n <= b /\ b < n + FuseByte /\ b \in Int
    BY <1>1, <1>4, <1>5
  <2>2. m \in Int /\ n \in Int /\ (m + FuseByte <= n \/ n + FuseByte <= m)
    BY <1>1, <1>3
  <2> HIDE DEF m, n
  <2> QED BY <1>2, <2>1, <2>2
<1> QED BY <1>5

(* One byte of a value is written, after others. *)
ByteWritten(f, acc, k, value, next) ==
    /\ Carry(f, next)
    /\ next[2] <=> acc[2] \/ f.security
    /\ f.security => next[1].fuses = acc[1].fuses
    /\ ~f.security =>
         \A b \in Free : b \in next[1].fuses
                          <=> b \in acc[1].fuses /\ (b \in ByteBits(k) => b - k * FuseByte \in value)

(* A step of write_all_gp_fuses() clears the zeroes of one byte. *)
LEMMA ByteStep ==
    ASSUME NEW f \in FuseStates, NEW acc, Carry(f, acc), NEW k \in 0 .. FuseBytes - 1,
           NEW value \in SUBSET Int
    PROVE  ByteWritten(f, acc, k, value, Then(acc, write_gp_fuse_byte(acc[1], k, value)))
<1>0. PICK next : next = Then(acc, write_gp_fuse_byte(acc[1], k, value))
  OBVIOUS
<1>1. acc[1] \in FuseStates /\ f.security \in BOOLEAN /\ acc[1].security = f.security
  BY DEF Carry, Accs, FuseStates
<1> DEFINE fuses == acc[1].fuses \ (ByteBits(k) \ {k * FuseByte + i : i \in value})
<1>2. fuses \in SUBSET FuseBits
  BY <1>1 DEF FuseStates
<1>8. PICK refuse \in BOOLEAN : refuse = f.security
  BY <1>1
<1>3. next = Then(acc, Command(acc[1], refuse, fuses))
  BY <1>0, <1>1, <1>8 DEF write_gp_fuse_byte
<1>4. Free \cap Fixed = {} /\ Free \subseteq Int
  BY FuseAssumption, FuseNumberIs DEF Free, Fixed
<1>5. ASSUME NEW b \in Free
      PROVE  b \in fuses <=> b \in acc[1].fuses /\ (b \in ByteBits(k) => b - k * FuseByte \in value)
  <2>1. ASSUME b \in ByteBits(k)
        PROVE  b \in {k * FuseByte + i : i \in value} <=> b - k * FuseByte \in value
    <3>1. k * FuseByte \in Int /\ b \in Int
      BY <1>4, ByteIs
    <3>2. ASSUME b - k * FuseByte \in value PROVE b \in {k * FuseByte + i : i \in value}
      <4>1. b = k * FuseByte + (b - k * FuseByte)
        BY <3>1
      <4> QED BY <3>2, <4>1
    <3>3. ASSUME NEW i \in value, b = k * FuseByte + i PROVE b - k * FuseByte \in value
      <4>1. b - k * FuseByte = i
        BY <3>1, <3>3
      <4> QED BY <4>1
    <3> QED BY <3>2, <3>3
  <2> QED BY <2>1
<1> HIDE DEF fuses
<1>6. /\ Carry(f, next)
      /\ next[1].fuses = IF refuse THEN acc[1].fuses ELSE fuses \cup Fixed
      /\ next[2] <=> acc[2] \/ refuse
  <2>1. Stepped(f, acc, refuse, fuses, next)
    BY <1>2, <1>3, CommandStep
  <2> QED BY <2>1 DEF Stepped
<1>7. ByteWritten(f, acc, k, value, next)
  BY <1>4, <1>5, <1>6, <1>8 DEF ByteWritten
<1> QED BY <1>0, <1>7

(* write_all_gp_fuses() clears the zeroes of all bytes, unless one was refused. *)
LEMMA WriteAllEffect ==
    ASSUME NEW f \in FuseStates, Fixed \subseteq f.fuses, NEW value
    PROVE  LET g == write_all_gp_fuses(f, value)
           IN  Safe(f, g) /\ (g.status \/ Masked(f, g, value))
<1> PICK J : WriteAllRuns(J, f, value)
  BY WriteAllLoop
<1>1. /\ J[{}] = <<f, FALSE>>
      /\ \A k \in 0 .. FuseBytes - 1 :
            J[1 .. k + 1] = Then(J[1 .. k], write_gp_fuse_byte(J[1 .. k][1], 0 + k, ByteOf(value, 0 + k)))
      /\ write_all_gp_fuses(f, value) = Ended(J[1 .. FuseBytes])
  BY DEF WriteAllRuns
<1> DEFINE Written(acc, n) ==
             acc[2] \/ \A b \in Free : b \in acc[1].fuses <=> b \in f.fuses /\ (b < n => b \in value)
           I == [k \in 0 .. FuseBytes |-> {acc \in Accs : Carry(f, acc) /\ Written(acc, k * FuseByte)}]
<1>2. FuseBytes \in Nat /\ FuseByte \in Nat /\ Free \subseteq Nat /\ FuseNumber \in Nat
      /\ \A b \in Free : b < FuseNumber
  BY FuseAssumption, FuseNumberIs DEF Free
<1>3. J[{}] \in I[0]
  <2>1. 0 * FuseByte = 0 /\ 0 \in 0 .. FuseBytes
    BY <1>2
  <2>2. PICK acc : acc = <<f, FALSE>>
    OBVIOUS
  <2>3. acc[1] = f /\ acc \in Accs /\ Carry(f, acc)
    BY <2>2, Started DEF Accs
  <2>4. Written(acc, 0)
    BY <1>2, <2>3
  <2> HIDE DEF Written
  <2> QED BY <1>1, <2>1, <2>2, <2>3, <2>4
<1>4. ASSUME NEW k \in 0 .. FuseBytes - 1, J[1 .. k] \in I[k]
      PROVE  J[1 .. k + 1] \in I[k + 1]
  <2>1. PICK acc : acc = J[1 .. k]
    OBVIOUS
  <2>2. Carry(f, acc) /\ Written(acc, k * FuseByte)
    <3>1. k \in 0 .. FuseBytes
      BY <1>2
    <3> HIDE DEF Written
    <3> QED BY <1>4, <2>1, <3>1
  <2>3. PICK next : next = Then(acc, write_gp_fuse_byte(acc[1], k, ByteOf(value, k)))
    OBVIOUS
  <2>4. J[1 .. k + 1] = next
    <3>1. 0 + k = k
      BY <1>2
    <3> QED BY <1>1, <2>1, <2>3, <3>1
  <2>5. ByteOf(value, k) \in SUBSET Int
    BY DEF ByteOf
  <2>6. /\ Carry(f, next)
        /\ next[2] <=> acc[2] \/ f.security
        /\ ~f.security =>
             \A b \in Free : b \in next[1].fuses
                              <=> b \in acc[1].fuses /\ (b \in ByteBits(k) => b - k * FuseByte \in ByteOf(value, k))
    <3>1. ByteWritten(f, acc, k, ByteOf(value, k), next)
      BY <2>2, <2>3, <2>5, ByteStep
    <3> QED BY <3>1 DEF ByteWritten
  <2> DEFINE m == k * FuseByte
  <2>7. /\ m \in Nat /\ (k + 1) * FuseByte = m + FuseByte
        /\ \A b \in Int : b \in ByteBits(k) <=> m <= b /\ b < m + FuseByte
        /\ \A b \in ByteBits(k) : b - m \in ByteOf(value, k) <=> b \in value
    BY ByteIs
  <2>8. Written(next, m + FuseByte)
    <3>1. CASE next[2]
      BY <3>1
    <3>2. CASE ~next[2]
      <4>1. ~f.security /\ ~acc[2]
        BY <2>6, <3>2
      <4>2. ASSUME NEW b \in Free
            PROVE  b \in next[1].fuses <=> b \in f.fuses /\ (b < m + FuseByte => b \in value)
        <5>1. b \in acc[1].fuses <=> b \in f.fuses /\ (b < m => b \in value)
          BY <2>2, <4>1
        <5>2. b \in next[1].fuses <=> b \in acc[1].fuses /\ (b \in ByteBits(k) => b - m \in ByteOf(value, k))
          BY <2>6, <4>1
        <5>3. b \in ByteBits(k) => (b - m \in ByteOf(value, k) <=> b \in value)
          BY <2>7
        <5>4. b \in Int /\ (b \in ByteBits(k) <=> m <= b /\ b < m + FuseByte)
          BY <1>2, <2>7
        <5>5. b < m + FuseByte <=> b < m \/ b \in ByteBits(k)
          <6> HIDE DEF m
          <6> QED BY <1>2, <2>7, <5>4
        <5> HIDE DEF m
        <5> QED BY <5>1, <5>2, <5>3, <5>5
      <4> QED BY <4>2
    <3> QED BY <3>1, <3>2
  <2>9. k + 1 \in 0 .. FuseBytes /\ next \in Accs
    BY <1>2, <2>6 DEF Carry
  <2> HIDE DEF Written, m
  <2> QED BY <2>4, <2>6, <2>7, <2>8, <2>9
<1>5. J[1 .. FuseBytes] \in I[FuseBytes]
  <2> HIDE DEF I
  <2> QED BY <1>2, <1>3, <1>4, LoopInvariant
<1>6. PICK acc : acc = J[1 .. FuseBytes]
  OBVIOUS
<1>7. Carry(f, acc) /\ Written(acc, FuseNumber)
  <2>1. FuseBytes \in 0 .. FuseBytes
    BY <1>2
  <2> HIDE DEF Written
  <2> QED BY <1>5, <1>6, <2>1 DEF FuseNumber
<1>8. PICK g : g = Ended(acc)
  OBVIOUS
<1>9. Safe(f, g) /\ g.fuses = acc[1].fuses /\ g.status = acc[2]
  BY <1>7, <1>8, EndedIs
<1>10. g.status \/ Masked(f, g, value)
  BY <1>2, <1>7, <1>9 DEF Masked
<1> QED BY <1>1, <1>6, <1>8, <1>9, <1>10

(* Erasing is refused when the Security bit is set, and else sets all fuses. *)
LEMMA EraseAllIs ==
    ASSUME NEW f \in FuseStates, Fixed \subseteq f.fuses
    PROVE  LET g == erase_all_gp_fuses(f)
           IN  /\ Safe(f, g) /\ g.status = f.security
               /\ g.fuses = IF f.security THEN f.fuses ELSE FuseBits
<1>1. PICK refuse \in BOOLEAN : refuse = f.security
  BY DEF FuseStates
<1>2. PICK g : g = erase_all_gp_fuses(f)
  OBVIOUS
<1>3. g = Command(f, refuse, FuseBits)
  BY <1>1, <1>2 DEF erase_all_gp_fuses
<1>4. Commanded(f, refuse, FuseBits, g)
  BY <1>3, CommandIs
<1>5. FuseBits \cup (FuseCount .. FuseNumber - 1) = FuseBits
  BY FuseAssumption, FuseNumberIs DEF FuseBits
<1>6. g.fuses = IF refuse THEN f.fuses ELSE FuseBits
  BY <1>4, <1>5 DEF Commanded
<1>7. Fixed \subseteq FuseBits
  BY FuseAssumption, FuseNumberIs DEF FuseBits, Fixed
<1>8. g.refused <=> f.refused \/ g.status
  BY <1>4, Zenon DEF Commanded
<1>9. g.status = f.security
  BY <1>1, <1>4 DEF Commanded
<1>10. Kept(f, g)
  BY <1>4, <1>6, <1>7 DEF Commanded, Kept
<1>11. Safe(f, g)
  BY <1>8, <1>10 DEF Safe
<1> QED BY <1>1, <1>2, <1>6, <1>9, <1>11

LEMMA EraseBitEffect ==
    ASSUME NEW f \in FuseStates, Fixed \subseteq f.fuses, NEW b \in FuseBits
    PROVE  Effect(f, erase_gp_fuse_bit(f, b), {b}, FuseBits)
<1>1. b % FuseNumber = b
  BY FuseNumberIs DEF FuseBits
<1>2. PICK refuse \in BOOLEAN : refuse = (f.security /\ b \in BOOTPROT)
  <2>1. f.security \in BOOLEAN
    BY DEF FuseStates
  <2> QED BY <2>1, Zenon
<1>3. PICK g : g = erase_gp_fuse_bit(f, b)
  OBVIOUS
<1>4. PICK fuses \in SUBSET FuseBits : fuses = f.fuses \cup {b}
  BY DEF FuseStates
<1>5. g = Command(f, refuse, fuses)
  BY <1>1, <1>2, <1>3, <1>4, Zenon DEF erase_gp_fuse_bit
<1>6. Commanded(f, refuse, fuses, g)
  BY <1>5, CommandIs
<1>7. Free \cap Fixed = {}
  BY FuseAssumption, FuseNumberIs DEF Free, Fixed
<1>8. Kept(f, g)
  BY <1>6 DEF Commanded, Kept, Fixed
<1>9. g.refused <=> f.refused \/ g.status
  BY <1>6, Zenon DEF Commanded
<1>10. g.fuses = IF refuse THEN f.fuses ELSE fuses \cup Fixed
  BY <1>6 DEF Commanded, Fixed
<1>11. Others(f, g, {b})
  BY <1>4, <1>7, <1>10 DEF Others
<1>12. g.status \/ Holds(g, {b}, FuseBits)
  <2>1. CASE refuse
    BY <2>1, <1>6 DEF Commanded
  <2>2. CASE ~refuse
    BY <2>2, <1>4, <1>10 DEF Holds
  <2> QED BY <2>1, <2>2
<1>13. Effect(f, g, {b}, FuseBits)
  BY <1>8, <1>9, <1>11, <1>12 DEF Effect, Safe
<1> QED BY <1>3, <1>13

LEMMA EraseAllEffect ==
    ASSUME NEW f \in FuseStates, Fixed \subseteq f.fuses
    PROVE  Effect(f, erase_all_gp_fuses(f), FuseBits, FuseBits)
<1>1. PICK g : g = erase_all_gp_fuses(f)
  OBVIOUS
<1>2. Safe(f, g) /\ g.status = f.security /\ g.fuses = IF f.security THEN f.fuses ELSE FuseBits
  BY <1>1, EraseAllIs
<1>3. Free \subseteq FuseBits
  BY FuseAssumption, FuseNumberIs DEF Free, FuseBits
<1>4. Others(f, g, FuseBits)
  BY <1>3 DEF Others
<1>5. g.status \/ Holds(g, FuseBits, FuseBits)
  BY <1>2, <1>3 DEF Holds
<1>6. Effect(f, g, FuseBits, FuseBits)
  BY <1>2, <1>4, <1>5 DEF Effect
<1> QED BY <1>1, <1>6

(* erase_gp_fuse_byte() erases all fuses and writes the other bytes again (flashcalw.c:760):
   these are as before, whatever their bytes, and if nothing was refused its own byte is
   erased. *)
THEOREM EraseByteEffect ==
    ASSUME NEW f \in FuseStates, Fixed \subseteq f.fuses, NEW byte \in 0 .. FuseBytes - 1
    PROVE  Effect(f, erase_gp_fuse_byte(f, byte), ByteBits(byte), FuseBits)
<1> PICK J : EraseByteRuns(J, f, byte)
  BY EraseByteLoop
<1>0. PICK erased : erased = erase_all_gp_fuses(f)
  OBVIOUS
<1>1. /\ J[{}] = <<erased, erased.status>>
      /\ \A k \in 0 .. FuseBytes - 1 :
            J[1 .. k + 1] = IF 0 + k # byte
                            THEN Then(J[1 .. k], write_gp_fuse_byte(J[1 .. k][1], 0 + k, ByteOf(f.fuses, 0 + k)))
                            ELSE J[1 .. k]
      /\ erase_gp_fuse_byte(f, byte) = Ended(J[1 .. FuseBytes])
  BY <1>0 DEF EraseByteRuns
<1> DEFINE Again(acc, n) ==
             \A b \in Free : b \in acc[1].fuses <=> (b < n /\ b \notin ByteBits(byte) => b \in f.fuses)
           Inv(acc, n) ==
             /\ Carry(f, acc)
             /\ f.security => acc[2] /\ acc[1].fuses = f.fuses
             /\ ~f.security => Again(acc, n)
           I == [k \in 0 .. FuseBytes |-> {acc \in Accs : Inv(acc, k * FuseByte)}]
<1>2. FuseBytes \in Nat /\ FuseByte \in Nat /\ Free \subseteq Nat /\ FuseNumber \in Nat
      /\ Free \subseteq FuseBits /\ \A b \in Free : b < FuseNumber
  BY FuseAssumption, FuseNumberIs DEF Free, FuseBits
<1>3. J[{}] \in I[0]
  <2>1. 0 * FuseByte = 0 /\ 0 \in 0 .. FuseBytes
    BY <1>2
  <2>2. PICK acc : acc = <<erased, erased.status>>
    OBVIOUS
  <2>3. Safe(f, erased) /\ erased.status = f.security
        /\ erased.fuses = IF f.security THEN f.fuses ELSE FuseBits
    BY <1>0, EraseAllIs
  <2>4. acc[1] = erased /\ acc[2] = erased.status /\ acc \in Accs /\ Carry(f, acc)
    BY <2>2, <2>3 DEF Accs, FuseStates, Safe, Kept, Carry
  <2>5. Inv(acc, 0)
    BY <1>2, <2>3, <2>4
  <2> HIDE DEF Inv
  <2> QED BY <1>1, <2>1, <2>2, <2>4, <2>5
<1>4. ASSUME NEW k \in 0 .. FuseBytes - 1, J[1 .. k] \in I[k]
      PROVE  J[1 .. k + 1] \in I[k + 1]
  <2>1. PICK acc : acc = J[1 .. k]
    OBVIOUS
  <2>2. acc \in Accs /\ Inv(acc, k * FuseByte)
    <3>1. k \in 0 .. FuseBytes
      BY <1>2
    <3> HIDE DEF Inv
    <3> QED BY <1>4, <2>1, <3>1
  <2>3. PICK next : next = IF k # byte
                           THEN Then(acc, write_gp_fuse_byte(acc[1], k, ByteOf(f.fuses, k))) ELSE acc
    OBVIOUS
  <2>4. J[1 .. k + 1] = next
    <3>1. 0 + k = k
      BY <1>2
    <3> QED BY <1>1, <2>1, <2>3, <3>1
  <2> DEFINE m == k * FuseByte
  <2>5. /\ m \in Nat /\ (k + 1) * FuseByte = m + FuseByte
        /\ \A b \in Int : b \in ByteBits(k) <=> m <= b /\ b < m + FuseByte
        /\ \A b \in ByteBits(k) : b - m \in ByteOf(f.fuses, k) <=> b \in f.fuses
    BY ByteIs
  <2>6. ASSUME NEW b \in Free PROVE b < m + FuseByte <=> b < m \/ b \in ByteBits(k)
    <3>1. b \in Int /\ (b \in ByteBits(k) <=> m <= b /\ b < m + FuseByte)
      BY <1>2, <2>5
    <3> HIDE DEF m
    <3> QED BY <1>2, <2>5, <3>1
  <2>7. Inv(next, m + FuseByte)
    <3>1. CASE k = byte
      <4>1. next = acc
        BY <2>3, <3>1
      <4>2. ~f.security => Again(next, m + FuseByte)
        <5> HIDE DEF m
        <5> QED BY <2>2, <2>6, <3>1, <4>1 DEF m
      <4> QED BY <2>2, <4>1, <4>2
    <3>2. CASE k # byte
      <4>1. ByteOf(f.fuses, k) \in SUBSET Int
        BY DEF ByteOf
      <4>2. next = Then(acc, write_gp_fuse_byte(acc[1], k, ByteOf(f.fuses, k)))
        BY <2>3, <3>2
      <4>3. ByteWritten(f, acc, k, ByteOf(f.fuses, k), next)
        BY <2>2, <4>1, <4>2, ByteStep
      <4>4. ASSUME ~f.security PROVE Again(next, m + FuseByte)
        <5>1. ASSUME NEW b \in Free
              PROVE  b \in next[1].fuses <=> (b < m + FuseByte /\ b \notin ByteBits(byte) => b \in f.fuses)
          <6>1. b \in acc[1].fuses <=> (b < m /\ b \notin ByteBits(byte) => b \in f.fuses)
            BY <2>2, <4>4
          <6>2. b \in next[1].fuses <=> b \in acc[1].fuses /\ (b \in ByteBits(k) => b - m \in ByteOf(f.fuses, k))
            BY <4>3, <4>4 DEF ByteWritten
          <6>3. b \in ByteBits(k) => (b - m \in ByteOf(f.fuses, k) <=> b \in f.fuses)
            BY <2>5
          <6>4. b \in ByteBits(k) => b \notin ByteBits(byte)
            BY <3>2, BytesApart
          <6>5. b < m + FuseByte <=> b < m \/ b \in ByteBits(k)
            BY <2>6
          <6> HIDE DEF m
          <6> QED BY <6>1, <6>2, <6>3, <6>4, <6>5
        <5> QED BY <5>1
      <4>5. f.security => next[2] /\ next[1].fuses = f.fuses
        BY <2>2, <4>3 DEF ByteWritten
      <4>6. Carry(f, next)
        BY <4>3 DEF ByteWritten
      <4> HIDE DEF Again
      <4> QED BY <4>4, <4>5, <4>6
    <3> QED BY <3>1, <3>2
  <2>8. k + 1 \in 0 .. FuseBytes
    BY <1>2
  <2>9. next \in Accs
    BY <2>7 DEF Carry
  <2> HIDE DEF Inv, m
  <2> QED BY <2>4, <2>5, <2>7, <2>8, <2>9
<1>5. J[1 .. FuseBytes] \in I[FuseBytes]
  <2> HIDE DEF I
  <2> QED BY <1>2, <1>3, <1>4, LoopInvariant
<1>6. PICK acc : acc = J[1 .. FuseBytes]
  OBVIOUS
<1>7. Inv(acc, FuseNumber)
  <2>1. FuseBytes \in 0 .. FuseBytes
    BY <1>2
  <2> HIDE DEF Inv
  <2> QED BY <1>5, <1>6, <2>1 DEF FuseNumber
<1>8. PICK g : g = Ended(acc)
  OBVIOUS
<1>9. Safe(f, g) /\ g.fuses = acc[1].fuses /\ g.status = acc[2]
  BY <1>7, <1>8, EndedIs
<1>10. Others(f, g, ByteBits(byte))
  BY <1>2, <1>7, <1>9 DEF Others
<1>11. g.status \/ Holds(g, ByteBits(byte), FuseBits)
  BY <1>2, <1>7, <1>9 DEF Holds
<1>12. Effect(f, g, ByteBits(byte), FuseBits)
  BY <1>9, <1>10, <1>11 DEF Effect
<1> QED BY <1>1, <1>6, <1>8, <1>12

(* A byte is written. *)
Wrote(f, k, value, g) ==
    /\ Safe(f, g) /\ g.status = f.security
    /\ ~f.security =>
         \A b \in Free : b \in g.fuses <=> b \in f.fuses /\ (b \in ByteBits(k) => b - k * FuseByte \in value)
    /\ f.security => g.fuses = f.fuses

(* A byte is written as a whole, which clears its zeroes. *)
LEMMA WriteByteIs ==
    ASSUME NEW f \in FuseStates, Fixed \subseteq f.fuses, NEW k \in 0 .. FuseBytes - 1,
           NEW value \in SUBSET Int
    PROVE  Wrote(f, k, value, write_gp_fuse_byte(f, k, value))
<1>1. PICK acc : acc = <<f, FALSE>>
  OBVIOUS
<1>2. Carry(f, acc) /\ acc[1] = f /\ acc[2] = FALSE
  BY <1>1, Started
<1>3. PICK g : g = write_gp_fuse_byte(f, k, value)
  OBVIOUS
<1>4. PICK next : next = Then(acc, g)
  OBVIOUS
<1>5. ByteWritten(f, acc, k, value, next)
  <2>1. next = Then(acc, write_gp_fuse_byte(acc[1], k, value))
    BY <1>2, <1>3, <1>4
  <2> QED BY <1>2, <2>1, ByteStep
<1>6. g \in FuseStates /\ g.status = f.security
  <2>1. PICK refuse \in BOOLEAN : refuse = f.security
    BY DEF FuseStates
  <2>2. PICK fuses \in SUBSET FuseBits : fuses = f.fuses \ (ByteBits(k) \ {k * FuseByte + i : i \in value})
    BY DEF FuseStates
  <2>3. g = Command(f, refuse, fuses)
    BY <1>3, <2>1, <2>2 DEF write_gp_fuse_byte
  <2>4. Commanded(f, refuse, fuses, g)
    BY <2>3, CommandIs
  <2> QED BY <2>1, <2>4 DEF Commanded
<1>7. next[1] = g
  BY <1>4 DEF Then
<1>8. next[2] <=> g.status
  <2>1. next[2] = (acc[2] \/ g.status)
    BY <1>4 DEF Then
  <2> QED BY <1>2, <2>1, Zenon
<1>9. Kept(f, g)
  BY <1>5, <1>6, <1>7 DEF ByteWritten, Carry, Kept
<1>10. g.refused <=> f.refused \/ g.status
  <2>1. next[1].refused <=> f.refused \/ next[2]
    BY <1>5 DEF ByteWritten, Carry
  <2> QED BY <1>7, <1>8, <2>1, Zenon
<1>11. Safe(f, g)
  BY <1>9, <1>10 DEF Safe
<1>12. Wrote(f, k, value, g)
  BY <1>2, <1>5, <1>6, <1>7, <1>11 DEF Wrote, ByteWritten
<1> QED BY <1>3, <1>12

LEMMA ByteAt ==
    ASSUME NEW k \in 0 .. FuseBytes - 1, NEW value \in SUBSET (0 .. FuseByte - 1), NEW b \in ByteBits(k)
    PROVE  /\ b - k * FuseByte \in 0 .. FuseByte - 1
           /\ b \in FieldValue(value, k * FuseByte) <=> b - k * FuseByte \in value
<1> DEFINE m == k * FuseByte
<1>1. m \in Nat /\ m + FuseByte <= FuseNumber /\ FuseByte \in Positive
  BY ByteIs
<1>2. PICK i \in 0 .. FuseByte - 1 : b = m + i
  BY DEF ByteBits
<1>3. FuseNumber \in Nat /\ FuseNumber > 0 /\ FuseByte \in Nat
  BY <1>1, FuseNumberIs DEF Positive
<1> HIDE DEF m
<1>4. ASSUME NEW j \in value PROVE (j + m) % FuseNumber = j + m
  BY <1>1, <1>3
<1>5. b - m = i
  BY <1>1, <1>2
<1>6. ASSUME NEW j \in value PROVE (j + m) % FuseNumber = b <=> j = i
  BY <1>1, <1>2, <1>3, <1>4
<1>7. b \in FieldValue(value, m) <=> i \in value
  BY <1>6 DEF FieldValue
<1> QED BY <1>5, <1>7 DEF m

(* The status of a second function takes in the one of the first. *)
With(w, e) == [w EXCEPT !.status = @ \/ e.status]

Cumulated(f, e, w, g) == Safe(f, g) /\ g.fuses = w.fuses /\ (g.status <=> w.status \/ e.status)

(* Two functions one after the other, their status cumulated *)
LEMMA Both ==
    ASSUME NEW f \in FuseStates, NEW e, Safe(f, e), NEW w, Safe(e, w)
    PROVE  Cumulated(f, e, w, With(w, e))
<1>0. PICK g : g = With(w, e)
  OBVIOUS
<1>1. e \in FuseStates /\ w \in FuseStates
  BY DEF Safe, Kept
<1>2. PICK s \in BOOLEAN : s = (w.status \/ e.status)
  <2>1. (w.status \/ e.status) \in BOOLEAN
    BY <1>1, Zenon DEF FuseStates
  <2> QED BY <2>1
<1>3. g = [w EXCEPT !.status = s]
  BY <1>0, <1>2, Zenon DEF With
<1>4. /\ g \in FuseStates /\ g.fuses = w.fuses /\ g.security = w.security
      /\ g.refused = w.refused /\ g.status = s
  BY <1>1, <1>3 DEF FuseStates
<1>5. g.status <=> w.status \/ e.status
  BY <1>2, <1>4, Zenon
<1>6. Kept(f, g)
  BY <1>4 DEF Safe, Kept
<1>7. g.refused <=> f.refused \/ g.status
  BY <1>4, <1>5, Zenon DEF Safe
<1>8. Cumulated(f, e, w, g)
  BY <1>4, <1>5, <1>6, <1>7 DEF Safe, Cumulated
<1> QED BY <1>0, <1>8

(* set_gp_fuse_byte() gives one byte its value, by an erase, a write or both, and keeps the
   others, unless a command was refused. *)
THEOREM SetByteEffect ==
    ASSUME NEW f \in FuseStates, Fixed \subseteq f.fuses, NEW byte \in 0 .. FuseBytes - 1,
           NEW value \in SUBSET (0 .. FuseByte - 1)
    PROVE  Effect(f, set_gp_fuse_byte(f, byte, value), ByteBits(byte), FieldValue(value, byte * FuseByte))
<1> DEFINE bits == ByteBits(byte)
           target == FieldValue(value, byte * FuseByte)
<1>1. PICK e : e = erase_gp_fuse_byte(f, byte)
  OBVIOUS
<1>2. PICK w : w = write_gp_fuse_byte(e, byte, value)
  OBVIOUS
<1>3. PICK g : g = set_gp_fuse_byte(f, byte, value)
  OBVIOUS
<1>4. Effect(f, e, bits, FuseBits)
  BY <1>1, EraseByteEffect
<1>5. e \in FuseStates /\ Fixed \subseteq e.fuses /\ e.security = f.security /\ value \in SUBSET Int
  BY <1>4, FuseAssumption DEF Effect, Safe, Kept
<1>6. Wrote(e, byte, value, w)
  BY <1>2, <1>5, WriteByteIs
<1>7. Free \subseteq FuseBits /\ FuseByte \in Nat /\ FuseByte > 0
  BY FuseAssumption, FuseNumberIs DEF Free, FuseBits
<1>8. CASE value = 0 .. FuseByte - 1
  <2>1. g = e
    BY <1>1, <1>3, <1>7, <1>8 DEF set_gp_fuse_byte
  <2>2. ASSUME NEW b \in bits PROVE b \in target
    BY <1>8, ByteAt
  <2>3. e.status \/ Holds(e, bits, target)
    <3> HIDE DEF bits, target
    <3> QED BY <1>4, <1>7, <2>2 DEF Effect, Holds
  <2>4. Effect(f, e, bits, target)
    <3> HIDE DEF bits, target
    <3> QED BY <1>4, <2>3 DEF Effect
  <2> QED BY <1>3, <2>1, <2>4
<1>9. CASE value = {}
  <2>1. 0 \in 0 .. FuseByte - 1
    BY <1>7
  <2>2. PICK u : u = write_gp_fuse_byte(f, byte, {})
    OBVIOUS
  <2>3. g = u
    BY <1>3, <1>9, <2>1, <2>2 DEF set_gp_fuse_byte
  <2>4. Wrote(f, byte, {}, u)
    BY <2>2, WriteByteIs
  <2>5. ASSUME NEW b \in bits PROVE b \notin target
    BY <1>9, ByteAt
  <2>6. Others(f, u, bits)
    BY <2>4 DEF Wrote, Others
  <2>7. u.status \/ Holds(u, bits, target)
    <3>1. CASE f.security
      BY <3>1, <2>4 DEF Wrote
    <3>2. CASE ~f.security
      <4> HIDE DEF target
      <4> QED BY <3>2, <2>4, <2>5 DEF Wrote, Holds
    <3> QED BY <3>1, <3>2
  <2>8. Effect(f, u, bits, target)
    <3> HIDE DEF bits, target
    <3> QED BY <2>4, <2>6, <2>7 DEF Wrote, Effect
  <2> QED BY <1>3, <2>3, <2>8
<1>10. CASE value # {} /\ value # 0 .. FuseByte - 1
  <2>1. g = With(w, e)
    BY <1>1, <1>2, <1>3, <1>10, Zenon DEF set_gp_fuse_byte, With
  <2>2. Safe(f, g) /\ g.fuses = w.fuses /\ (g.status <=> w.status \/ e.status)
    <3>1. Safe(f, e) /\ Safe(e, w)
      BY <1>4, <1>6 DEF Effect, Wrote
    <3>2. Cumulated(f, e, w, g)
      BY <2>1, <3>1, Both
    <3> QED BY <3>2 DEF Cumulated
  <2>3. Others(f, g, bits)
    <3>1. Others(e, w, bits)
      BY <1>6 DEF Wrote, Others
    <3>2. Others(f, e, bits)
      BY <1>4 DEF Effect
    <3> HIDE DEF bits
    <3> QED BY <2>2, <3>1, <3>2 DEF Others
  <2>4. ASSUME ~g.status PROVE Holds(g, bits, target)
    <3>1. ~e.status /\ ~w.status /\ ~e.security
      BY <1>6, <2>2, <2>4 DEF Wrote
    <3>2. ASSUME NEW b \in Free \cap bits
          PROVE  b \in g.fuses <=> b \in target
      <4>1. b \in e.fuses
        BY <1>4, <1>7, <3>1 DEF Effect, Holds
      <4>2. b \in w.fuses <=> b - byte * FuseByte \in value
        BY <1>6, <3>1, <4>1 DEF Wrote
      <4>3. b \in target <=> b - byte * FuseByte \in value
        BY ByteAt
      <4> QED BY <2>2, <4>2, <4>3
    <3> QED BY <3>2 DEF Holds
  <2>5. Effect(f, g, bits, target)
    <3> HIDE DEF bits, target
    <3> QED BY <2>2, <2>3, <2>4 DEF Effect
  <2> QED BY <1>3, <2>5
<1> QED BY <1>8, <1>9, <1>10

(* set_all_gp_fuses() gives all fuses their value, unless a command was refused. *)
LEMMA SetAllEffect ==
    ASSUME NEW f \in FuseStates, Fixed \subseteq f.fuses, NEW value \in SUBSET FuseBits
    PROVE  Effect(f, set_all_gp_fuses(f, value), FuseBits, value)
<1>1. PICK e : e = erase_all_gp_fuses(f)
  OBVIOUS
<1>2. PICK w : w = write_all_gp_fuses(e, value)
  OBVIOUS
<1>3. PICK g : g = set_all_gp_fuses(f, value)
  OBVIOUS
<1>4. Effect(f, e, FuseBits, FuseBits)
  BY <1>1, EraseAllEffect
<1>5. e \in FuseStates /\ Fixed \subseteq e.fuses
  BY <1>4 DEF Effect, Safe, Kept
<1>6. Safe(e, w) /\ (w.status \/ Masked(e, w, value))
  BY <1>2, <1>5, WriteAllEffect
<1>7. Free \subseteq FuseBits /\ 0 \in FuseBits
  BY FuseAssumption, FuseNumberIs DEF Free, FuseBits
<1>8. ASSUME NEW h PROVE Others(f, h, FuseBits)
  BY <1>7 DEF Others
<1>9. CASE value = FuseBits
  <2>1. g = e
    BY <1>1, <1>3, <1>7, <1>9 DEF set_all_gp_fuses
  <2> QED BY <1>3, <1>4, <1>9, <2>1
<1>10. CASE value = {}
  <2>1. PICK u : u = write_all_gp_fuses(f, {})
    OBVIOUS
  <2>2. g = u
    BY <1>3, <1>7, <1>10, <2>1 DEF set_all_gp_fuses
  <2>3. Safe(f, u) /\ (u.status \/ Masked(f, u, {}))
    BY <2>1, WriteAllEffect
  <2>4. u.status \/ Holds(u, FuseBits, value)
    BY <1>10, <2>3 DEF Masked, Holds
  <2>5. Effect(f, u, FuseBits, value)
    BY <1>8, <2>3, <2>4 DEF Effect
  <2> QED BY <1>3, <2>2, <2>5
<1>11. CASE value # {} /\ value # FuseBits
  <2>1. g = With(w, e)
    BY <1>1, <1>2, <1>3, <1>11, Zenon DEF set_all_gp_fuses, With
  <2>2. Safe(f, g) /\ g.fuses = w.fuses /\ (g.status <=> w.status \/ e.status)
    <3>1. Safe(f, e) /\ Safe(e, w)
      BY <1>4, <1>6 DEF Effect
    <3>2. Cumulated(f, e, w, g)
      BY <2>1, <3>1, Both
    <3> QED BY <3>2 DEF Cumulated
  <2>3. g.status \/ Holds(g, FuseBits, value)
    <3>1. ASSUME ~g.status PROVE Holds(g, FuseBits, value)
      <4>1. Masked(e, w, value) /\ Holds(e, FuseBits, FuseBits)
        BY <1>4, <1>6, <2>2, <3>1 DEF Effect
      <4> QED BY <1>7, <2>2, <4>1 DEF Masked, Holds
    <3> QED BY <3>1
  <2>4. Effect(f, g, FuseBits, value)
    BY <1>8, <2>2, <2>3 DEF Effect
  <2> QED BY <1>3, <2>4
<1> QED BY <1>9, <1>10, <1>11
=============================================================================
