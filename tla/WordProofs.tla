---------------------------- MODULE WordProofs -------------------------------
(***************************************************************************)
(* What IntCodec and MaskedBits compute, for every width of a byte, of an  *)
(* integer type and of a word: encode_int() and encode_dint() are undone   *)
(* by their decoders, condense() by expand(), and the sign of a field      *)
(* extends.  No state is in it, so that any module may instantiate it.     *)
(*                                                                         *)
(* The provers know no law of powers.  Those of two come from counting     *)
(* subsets, and with them what shifting a word right twice, or back, does. *)
(* The loops of the code are recursive functions; each is shown to hold,   *)
(* after every turn, the groups, bytes or bits that the loop has passed.   *)
(***************************************************************************)
EXTENDS IntCodec, MaskedBits, TLAPS, FiniteSetTheorems, FunctionTheorems

-----------------------------------------------------------------------------
(* Powers of two.                                                          *)

\* The subsets of an interval of n numbers: there are 2^n.
LEMMA PowerCounts ==
  ASSUME NEW a \in Nat, NEW n \in Nat
  PROVE  LET S == a + 1 .. a + n
         IN  /\ IsFiniteSet(SUBSET S) /\ Cardinality(SUBSET S) = 2^n
  <1> DEFINE S == a + 1 .. a + n
  <1>1. IsFiniteSet(S) /\ Cardinality(S) = n
    BY FS_Interval
  <1> QED BY <1>1, FS_SUBSET

\* Exponents add: a subset of m + n numbers is one of the first m and one of the rest.
LEMMA PowerOfSum ==
  ASSUME NEW m \in Nat, NEW n \in Nat
  PROVE  2^(m + n) = 2^m * 2^n
  <1> DEFINE S == 0 + 1 .. 0 + m
             T == m + 1 .. m + n
             U == 0 + 1 .. 0 + (m + n)
             f == [x \in SUBSET U |-> <<x \cap S, x \cap T>>]
  <1>1. U = S \cup T /\ S \cap T = {}
    OBVIOUS
  <1>2. /\ IsFiniteSet(SUBSET S) /\ Cardinality(SUBSET S) = 2^m
        /\ IsFiniteSet(SUBSET T) /\ Cardinality(SUBSET T) = 2^n
        /\ IsFiniteSet(SUBSET U) /\ Cardinality(SUBSET U) = 2^(m + n)
    BY PowerCounts, m + n \in Nat
  <1>3. f \in Bijection(SUBSET U, (SUBSET S) \X (SUBSET T))
    <2> HIDE DEF S, T, U
    <2>1. f \in [SUBSET U -> (SUBSET S) \X (SUBSET T)]
      OBVIOUS
    <2>2. \A x, y \in SUBSET U : f[x] = f[y] => x = y
      <3> SUFFICES ASSUME NEW x \in SUBSET U, NEW y \in SUBSET U, f[x] = f[y] PROVE x = y
        OBVIOUS
      <3>1. x \cap S = y \cap S /\ x \cap T = y \cap T
        OBVIOUS
      <3> QED BY <1>1, <3>1
    <2>3. \A z \in (SUBSET S) \X (SUBSET T) : \E x \in SUBSET U : f[x] = z
      <3> SUFFICES ASSUME NEW z \in (SUBSET S) \X (SUBSET T)
                   PROVE  \E x \in SUBSET U : f[x] = z
        OBVIOUS
      <3> DEFINE s == z[1]
                 t == z[2]
      <3>0. z = <<s, t>> /\ s \in SUBSET S /\ t \in SUBSET T
        OBVIOUS
      <3> HIDE DEF s, t
      <3>1. s \cup t \in SUBSET U /\ (s \cup t) \cap S = s /\ (s \cup t) \cap T = t
        BY <1>1, <3>0
      <3>2. f[s \cup t] = <<(s \cup t) \cap S, (s \cup t) \cap T>>
        BY <3>1
      <3> QED BY <3>0, <3>1, <3>2
    <2> HIDE DEF f
    <2> QED BY <2>1, <2>2, <2>3, Fun_IsBij, Zenon
  <1>4. Cardinality((SUBSET S) \X (SUBSET T)) = 2^(m + n)
    <2> HIDE DEF S, T, U, f
    <2>1. ExistsBijection(SUBSET U, (SUBSET S) \X (SUBSET T))
      BY <1>3, Zenon DEF ExistsBijection
    <2> QED BY <1>2, <2>1, FS_Bijection
  <1>5. Cardinality((SUBSET S) \X (SUBSET T)) = 2^m * 2^n
    <2> HIDE DEF S, T
    <2> DEFINE A == SUBSET S
               B == SUBSET T
    <2>1. /\ IsFiniteSet(A) /\ Cardinality(A) = 2^m
          /\ IsFiniteSet(B) /\ Cardinality(B) = 2^n
      BY <1>2
    <2> HIDE DEF A, B
    <2>2. Cardinality(A \X B) = Cardinality(A) * Cardinality(B)
      BY <2>1, FS_Product
    <2>3. Cardinality(A \X B) = 2^m * 2^n
      BY <2>1, <2>2
    <2> QED BY <2>3 DEF A, B
  <1> QED BY <1>4, <1>5

\* A power of two is positive, and the first two are 1 and 2.
LEMMA PowerIsPositive ==
  ASSUME NEW n \in Nat PROVE 2^n \in Nat \ {0} /\ 2^0 = 1 /\ 2^1 = 2
  <1> DEFINE S == 0 + 1 .. 0 + n
  <1>1. IsFiniteSet(SUBSET S) /\ Cardinality(SUBSET S) = 2^n
    BY PowerCounts
  <1> HIDE DEF S
  <1>2. SUBSET S # {}
    OBVIOUS
  <1>3. 2^n \in Nat \ {0}
    BY <1>1, <1>2, FS_EmptySet, FS_CardinalityType
  <1>4. 2^0 = 1 /\ 2^1 = 2
    OBVIOUS
  <1> QED BY <1>3, <1>4

\* The product of positive numbers is one, and not less than either.
LEMMA Product ==
  ASSUME NEW a \in Nat \ {0}, NEW b \in Nat \ {0}
  PROVE  a * b \in Nat \ {0} /\ a <= a * b /\ b <= a * b
  OBVIOUS

\* A greater exponent gives a multiple, and a greater power.
LEMMA PowerGrows ==
  ASSUME NEW m \in Nat, NEW n \in Nat, m <= n
  PROVE  2^n = 2^m * 2^(n - m) /\ 2^m <= 2^n
  <1>1. n - m \in Nat /\ m + (n - m) = n
    OBVIOUS
  <1>2. 2^n = 2^m * 2^(n - m)
    BY <1>1, PowerOfSum
  <1>3. 2^m \in Nat \ {0} /\ 2^(n - m) \in Nat \ {0}
    BY <1>1, PowerIsPositive
  <1> QED BY <1>2, <1>3, Product

\* One more doubles, so that powers tell exponents apart.
LEMMA PowerDoubles ==
  ASSUME NEW m \in Nat PROVE 2^(m + 1) = 2 * 2^m
  <1>1. 2^(m + 1) = 2^m * 2^1
    BY PowerOfSum
  <1>2. 2^m \in Nat /\ 2^1 = 2
    BY PowerIsPositive
  <1> QED BY <1>1, <1>2

\* Powers of two are in the order of their exponents.
LEMMA PowerOrder ==
  ASSUME NEW m \in Nat, NEW n \in Nat PROVE 2^m < 2^n <=> m < n
  <1>1. ASSUME m < n PROVE 2^m < 2^n
    <2>1. 2^(m + 1) <= 2^n /\ 2^(m + 1) = 2 * 2^m /\ 2^m \in Nat \ {0} /\ 2^n \in Nat
      BY <1>1, PowerGrows, PowerDoubles, PowerIsPositive
    <2> QED BY <2>1
  <1>2. ASSUME n <= m PROVE 2^n <= 2^m
    BY <1>2, PowerGrows
  <1>3. 2^m \in Nat /\ 2^n \in Nat
    BY PowerIsPositive
  <1> QED BY <1>1, <1>2, <1>3

-----------------------------------------------------------------------------
(* Division.                                                               *)

\* A number is its quotient times the divisor, and the remainder.
LEMMA Division ==
  ASSUME NEW a \in Int, NEW d \in Nat \ {0}
  PROVE  /\ a \div d \in Int /\ a % d \in Nat /\ a % d < d
         /\ a = d * (a \div d) + (a % d)
         /\ a \in Nat => a \div d \in Nat /\ a \div d <= a
  OBVIOUS

\* There is no other such quotient and remainder.
LEMMA DivisionIsUnique ==
  ASSUME NEW d \in Nat \ {0}, NEW q \in Int, NEW r \in Nat, r < d
  PROVE  (d * q + r) \div d = q /\ (d * q + r) % d = r
  <1> DEFINE a == d * q + r
             p == a \div d
             s == a % d
  <1>1. a \in Int
    OBVIOUS
  <1>2. p \in Int /\ s \in Nat /\ s < d /\ a = d * p + s
    BY <1>1, Division
  <1> HIDE DEF p, s
  <1>3. ASSUME NEW x \in Int, NEW y \in Int, x < y PROVE d * x + d <= d * y
    <2>1. PICK z \in Nat : y = x + 1 + z
      BY <1>3, y - x - 1 \in Nat, y = x + 1 + (y - x - 1)
    <2>2. d * y = d * x + d + d * z /\ d * z \in Nat
      BY <2>1
    <2> QED BY <2>2
  <1>4. p = q
    <2>1. d * p \in Int /\ d * q \in Int
      BY <1>2
    <2>2. ~(p < q)
      <3> SUFFICES ASSUME p < q PROVE FALSE
        OBVIOUS
      <3>1. d * p + d <= d * q
        BY <1>2, <1>3
      <3> QED BY <1>2, <2>1, <3>1
    <2>3. ~(q < p)
      <3> SUFFICES ASSUME q < p PROVE FALSE
        OBVIOUS
      <3>1. d * q + d <= d * p
        BY <1>2, <1>3
      <3> QED BY <1>2, <2>1, <3>1
    <2> QED BY <1>2, <2>2, <2>3
  <1>5. s = r
    BY <1>2, <1>4
  <1> QED BY <1>4, <1>5 DEF p, s

\* Dividing twice is dividing by the product; what remains comes in two parts.
LEMMA DivisionTwice ==
  ASSUME NEW a \in Int, NEW m \in Nat \ {0}, NEW n \in Nat \ {0}
  PROVE  /\ a \div (m * n) = (a \div m) \div n
         /\ a % (m * n) = m * ((a \div m) % n) + (a % m)
  <1> DEFINE q == a \div m
             p == q \div n
             s == q % n
             r == a % m
  <1>1. q \in Int /\ r \in Nat /\ r < m /\ a = m * q + r
    BY Division
  <1>2. p \in Int /\ s \in Nat /\ s < n /\ q = n * p + s
    BY <1>1, Division
  <1> HIDE DEF q, p, s, r
  <1>3. m * n \in Nat \ {0}
    BY Product
  <1>4. m * s + r \in Nat /\ m * s + r < m * n
    <2>1. m * s + m <= m * n /\ m * s \in Nat
      <3>1. PICK z \in Nat : n = s + 1 + z
        BY <1>2, n - s - 1 \in Nat, n = s + 1 + (n - s - 1)
      <3>2. m * n = m * s + m + m * z /\ m * z \in Nat /\ m * s \in Nat
        BY <1>2, <3>1
      <3> QED BY <3>2
    <2> QED BY <1>1, <2>1
  <1>5. a = (m * n) * p + (m * s + r)
    <2>1. m * q = m * (n * p) + m * s
      BY <1>2
    <2>2. m * (n * p) = (m * n) * p
      BY <1>2
    <2> QED BY <1>1, <1>2, <2>1, <2>2
  <1>6. a \div (m * n) = p /\ a % (m * n) = m * s + r
    BY <1>2, <1>3, <1>4, <1>5, DivisionIsUnique
  <1> QED BY <1>6 DEF q, p, s, r

-----------------------------------------------------------------------------
(* Induction over the natural numbers.                                     *)

\* A set of naturals has a least element.
LEMMA LeastNatural ==
  ASSUME NEW T \in SUBSET Nat, T # {}
  PROVE  \E m \in T : \A n \in T : m <= n
  <1> DEFINE R == OpToRel(<, Nat)
  <1>1. IsWellFoundedOn(R, Nat)
    BY NatLessThanWellFounded
  <1>2. \A n, m \in Nat : n < m => <<n, m>> \in R
    BY DEF OpToRel
  <1> HIDE DEF R
  <1>3. PICK m \in T : \A n \in T : <<n, m>> \notin R
    BY <1>1, WFMin
  <1>4. \A n \in T : ~(n < m) /\ n \in Nat /\ m \in Nat
    BY <1>2, <1>3
  <1> QED BY <1>4

\* What holds of 0, and of n + 1 if of n, holds of every natural.
LEMMA Induction ==
  ASSUME NEW T \in SUBSET Nat, 0 \in T, \A n \in T : n + 1 \in T
  PROVE  T = Nat
  <1> SUFFICES ASSUME Nat \ T # {} PROVE FALSE
    OBVIOUS
  <1>1. PICK m \in Nat \ T : \A n \in Nat \ T : m <= n
    BY LeastNatural
  <1>2. m # 0 /\ m - 1 \in Nat /\ (m - 1) + 1 = m
    BY <1>1
  <1>3. m - 1 \in T
    BY <1>1, <1>2
  <1> QED BY <1>1, <1>2, <1>3

-----------------------------------------------------------------------------
(* Words, groups and bytes.                                                *)

\* What the parameters say: the width of a type is a number of whole bytes.
LEMMA Widths ==
  ASSUME NEW t, IsIntType(t)
  PROVE  /\ Payload \in Nat /\ Payload >= 2
         /\ t.digits \in Nat \ {0} /\ SizeOf(t) \in Nat \ {0}
         /\ t.digits = (Payload + 1) * SizeOf(t) /\ t.digits >= Payload + 1
         /\ ValueBits(t) \in Nat /\ ValueBits(t) >= Payload
         /\ t.signed => ValueBits(t) = t.digits - 1
         /\ ~t.signed => ValueBits(t) = t.digits
  <1>1. Payload \in Nat /\ Payload >= 2 /\ t.digits \in Nat \ {0} /\ t.signed \in BOOLEAN
    BY PayloadAssumption DEF IsIntType
  <1> DEFINE b == Payload + 1
             n == t.digits \div b
  <1>2. b \in Nat \ {0} /\ t.digits % b = 0 /\ SizeOf(t) = n
    BY <1>1 DEF IsIntType, SizeOf
  <1> HIDE DEF b
  <1>3. n \in Nat /\ t.digits = b * n
    <2>1. n \in Nat /\ t.digits = b * n + (t.digits % b)
      BY <1>1, <1>2, t.digits \in Int, Division, Zenon
    <2> QED BY <1>2, <2>1
  <1> HIDE DEF n
  <1>4. n # 0 /\ t.digits >= b
    <2>1. n # 0
      BY <1>1, <1>2, <1>3
    <2>2. b <= b * n
      BY <1>2, <1>3, <2>1, Product
    <2> QED BY <1>1, <1>2, <1>3, <2>1, <2>2
  <1> QED BY <1>1, <1>2, <1>3, <1>4 DEF ValueBits, b

\* The values of a group, and of a byte, which is one bit wider.
LEMMA GroupValues ==
  /\ Payload \in Nat /\ Payload - 1 \in Nat
  /\ SignBit \in Nat \ {0} /\ Group = 2 * SignBit /\ ByteValues = 2 * Group
  /\ Group = 2^Payload /\ SignBit = 2^(Payload - 1) /\ ByteValues = 2^(Payload + 1)
  <1>1. Payload \in Nat /\ Payload - 1 \in Nat /\ (Payload - 1) + 1 = Payload
    BY PayloadAssumption
  <1>2. 2^Payload = 2 * 2^(Payload - 1) /\ 2^(Payload + 1) = 2 * 2^Payload
    BY <1>1, PowerDoubles
  <1>3. 2^(Payload - 1) \in Nat \ {0}
    BY <1>1, PowerIsPositive
  <1> QED BY <1>1, <1>2, <1>3 DEF Group, SignBit, ByteValues

\* A word shifted by m has at most j bits if the word has at most m + j.
LEMMA ShiftedBits ==
  ASSUME NEW w \in Nat, NEW m \in Nat, NEW j \in Nat
  PROVE  w \div 2^m < 2^j <=> w < 2^(m + j)
  <1> DEFINE d == 2^m
             e == 2^j
             q == w \div d
             r == w % d
  <1>1. d \in Nat \ {0} /\ e \in Nat \ {0} /\ 2^(m + j) = d * e
    BY PowerIsPositive, PowerOfSum
  <1> HIDE DEF d, e
  <1>2. q \in Nat /\ r \in Nat /\ r < d /\ w = d * q + r
    BY <1>1, Division
  <1> HIDE DEF q, r
  <1>3. ASSUME q < e PROVE w < d * e
    <2>1. PICK z \in Nat : e = q + 1 + z
      BY <1>1, <1>2, <1>3, e - q - 1 \in Nat, e = q + 1 + (e - q - 1)
    <2>2. d * e = d * q + d + d * z /\ d * z \in Nat /\ d * q \in Nat
      BY <1>1, <1>2, <2>1
    <2> QED BY <1>1, <1>2, <2>2
  <1>4. ASSUME ~(q < e) PROVE ~(w < d * e)
    <2>1. PICK z \in Nat : q = e + z
      BY <1>1, <1>2, <1>4, q - e \in Nat, q = e + (q - e)
    <2>2. d * q = d * e + d * z /\ d * z \in Nat /\ d * e \in Nat
      BY <1>1, <1>2, <2>1
    <2> QED BY <1>1, <1>2, <2>2
  <1>5. w \div 2^m < 2^j <=> q < e
    BY DEF q, d, e
  <1> QED BY <1>1, <1>3, <1>4, <1>5

\* The least significant group or byte is the whole word, and dropping one
\* more is one more division.
LEMMA GroupByGroup ==
  ASSUME NEW w \in Nat, NEW k \in Nat \ {0}
  PROVE  /\ FromGroup(w, 1) = w /\ FromGroup(w, k) \in Nat /\ FromGroup(w, k) <= w
         /\ FromGroup(w, k + 1) = FromGroup(w, k) \div Group
  <1> DEFINE m == Payload * (k - 1)
             d == 2^m
  <1>1. m \in Nat /\ Payload * ((k + 1) - 1) = m + Payload /\ Payload * (1 - 1) = 0
    BY GroupValues
  <1> HIDE DEF m
  <1>2. d \in Nat \ {0} /\ Group \in Nat \ {0} /\ 2^0 = 1
    BY <1>1, PowerIsPositive, GroupValues
  <1>3. 2^(m + Payload) = d * Group
    <2>1. 2^(m + Payload) = 2^m * 2^Payload
      BY <1>1, PowerOfSum, GroupValues
    <2> QED BY <2>1, GroupValues, Zenon
  <1> HIDE DEF d
  <1>4. w \div (d * Group) = (w \div d) \div Group /\ w \div d \in Nat /\ w \div d <= w
    <2>1. w \in Int
      OBVIOUS
    <2>2. w \div (d * Group) = (w \div d) \div Group
      BY <1>2, <2>1, DivisionTwice, Zenon
    <2>3. w \div d \in Nat /\ w \div d <= w
      BY <1>2, <2>1, Division, Zenon
    <2> QED BY <2>2, <2>3
  <1>5. w \div 1 = w
    OBVIOUS
  <1>6. FromGroup(w, k) = w \div d /\ FromGroup(w, k + 1) = w \div 2^(m + Payload)
    BY <1>1 DEF FromGroup, m, d
  <1>7. FromGroup(w, 1) = w
    BY <1>1, <1>2, <1>5 DEF FromGroup
  <1> QED BY <1>2, <1>3, <1>4, <1>6, <1>7

-----------------------------------------------------------------------------
(* Integers of fixed width.                                                *)

\* The loop of decode_int(): the word after k bytes.
WordLoop(f, bytes, from, n) ==
  f = [k \in 0 .. n |-> IF k = 0 THEN 0
                        ELSE f[k - 1] + bytes[from + k - 1] * 2^((Payload + 1) * (k - 1))]

\* The bytes of a word, from `from' on.
HoldsWord(bytes, from, w, n) ==
  \A k \in 1 .. n : bytes[from + k - 1] = FromByte(w, k) % ByteValues

\* The next byte adds its bits on top of those that were read.
LEMMA NextByte ==
  ASSUME NEW w \in Nat, NEW k \in Nat
  PROVE  w % 2^((Payload + 1) * (k + 1))
           = (w % 2^((Payload + 1) * k)) + (FromByte(w, k + 1) % ByteValues) * 2^((Payload + 1) * k)
  <1> DEFINE b == Payload + 1
             m == b * k
             d == 2^m
             x == FromByte(w, k + 1) % ByteValues
  <1>1. m \in Nat /\ b * (k + 1) = m + b /\ b * ((k + 1) - 1) = m /\ b \in Nat
        /\ ByteValues = 2^b /\ ByteValues \in Nat \ {0}
    BY GroupValues
  <1>2. FromByte(w, k + 1) = w \div d
    BY <1>1 DEF FromByte
  <1> HIDE DEF b, m
  <1>3. d \in Nat \ {0} /\ 2^(m + b) = d * ByteValues
    BY <1>1, PowerIsPositive, PowerOfSum
  <1> HIDE DEF d
  <1>4. w % (d * ByteValues) = d * ((w \div d) % ByteValues) + (w % d)
    BY <1>1, <1>3, w \in Int, DivisionTwice, Zenon
  <1>5. w % (d * ByteValues) = d * x + (w % d)
    BY <1>2, <1>4
  <1>6. x \in Nat /\ w % d \in Nat
    <2>1. w \div d \in Int /\ w % d \in Nat
      BY <1>3, w \in Int, Division, Zenon
    <2> QED BY <1>1, <1>2, <2>1, Division, Zenon
  <1> HIDE DEF x
  <1>7. d * x + (w % d) = (w % d) + x * d
    BY <1>3, <1>6
  <1>8. w % 2^(b * (k + 1)) = (w % d) + x * d
    BY <1>1, <1>3, <1>5, <1>7
  <1> QED BY <1>8 DEF b, m, d, x

\* After k bytes the loop has the low k bytes of the word.
LEMMA WordIsRead ==
  ASSUME NEW w \in Nat, NEW bytes, NEW from \in Nat, NEW n \in Nat, HoldsWord(bytes, from, w, n)
  PROVE  /\ WordLoop([k \in 0 .. n |-> w % 2^((Payload + 1) * k)], bytes, from, n)
         /\ \A f : WordLoop(f, bytes, from, n) => f[n] = w % 2^((Payload + 1) * n)
  <1> DEFINE L(k) == w % 2^((Payload + 1) * k)
             g == [k \in 0 .. n |-> L(k)]
             Add(k) == bytes[from + k - 1] * 2^((Payload + 1) * (k - 1))
  <1>1. L(0) = 0
    <2>1. (Payload + 1) * 0 = 0 /\ 2^0 = 1 /\ w % 1 = 0
      BY GroupValues, PowerIsPositive
    <2> QED BY <2>1
  <1>2. ASSUME NEW k \in Nat, k < n PROVE L(k + 1) = L(k) + Add(k + 1)
    <2>1. k + 1 \in 1 .. n /\ (k + 1) - 1 = k
      BY <1>2
    <2>2. bytes[from + (k + 1) - 1] = FromByte(w, k + 1) % ByteValues
      BY <2>1 DEF HoldsWord
    <2>3. Add(k + 1) = (FromByte(w, k + 1) % ByteValues) * 2^((Payload + 1) * k)
      BY <2>1, <2>2
    <2>4. L(k + 1) = L(k) + (FromByte(w, k + 1) % ByteValues) * 2^((Payload + 1) * k)
      BY NextByte
    <2> QED BY <2>3, <2>4, Zenon
  <1> HIDE DEF L, Add
  <1>3. g = [k \in 0 .. n |-> IF k = 0 THEN 0 ELSE g[k - 1] + Add(k)]
    <2>1. ASSUME NEW k \in 0 .. n PROVE g[k] = IF k = 0 THEN 0 ELSE g[k - 1] + Add(k)
      <3>1. CASE k = 0
        BY <1>1, <3>1
      <3>2. CASE k # 0
        <4>1. PICK j \in Nat : k = j + 1 /\ j < n /\ j = k - 1
          BY <3>2, k - 1 \in Nat, k = (k - 1) + 1
        <4>2. g[j] = L(j) /\ g[k] = L(j + 1)
          BY <4>1
        <4> QED BY <1>2, <3>2, <4>1, <4>2
      <3> QED BY <3>1, <3>2
    <2> QED BY <2>1
  <1>4. ASSUME NEW f, f = [k \in 0 .. n |-> IF k = 0 THEN 0 ELSE f[k - 1] + Add(k)]
        PROVE  f[n] = L(n)
    <2> DEFINE T == {k \in Nat : k <= n => f[k] = L(k)}
    <2>1. \A k \in 0 .. n : f[k] = IF k = 0 THEN 0 ELSE f[k - 1] + Add(k)
      BY <1>4
    <2>2. 0 \in T
      BY <1>1, <2>1
    <2>3. ASSUME NEW k \in T PROVE k + 1 \in T
      <3> SUFFICES ASSUME k + 1 <= n PROVE f[k + 1] = L(k + 1)
        OBVIOUS
      <3>1. PICK j : j = k + 1
        OBVIOUS
      <3>2. k \in Nat /\ f[k] = L(k) /\ k < n /\ j \in 0 .. n /\ j # 0 /\ j - 1 = k
        BY <3>1
      <3>3. f[j] = f[j - 1] + Add(j)
        BY <2>1, <3>2
      <3>4. L(k + 1) = L(k) + Add(k + 1)
        BY <1>2, <3>2
      <3> QED BY <3>1, <3>2, <3>3, <3>4
    <2>4. T \in SUBSET Nat
      OBVIOUS
    <2> HIDE DEF T
    <2>5. n \in T
      BY <2>2, <2>3, <2>4, Induction
    <2> QED BY <2>5 DEF T
  <1> QED BY <1>3, <1>4 DEF WordLoop, L, Add

\* The word that decode_int()'s loop ends with is the one whose bytes were there.
LEMMA WordAfterLoop ==
  ASSUME NEW w \in Nat, NEW bytes, NEW from \in Nat, NEW n \in Nat, HoldsWord(bytes, from, w, n),
         NEW f, WordLoop(f, bytes, from, n)
  PROVE  f[n] = w % 2^((Payload + 1) * n)
  <1>1. \A h : WordLoop(h, bytes, from, n) => h[n] = w % 2^((Payload + 1) * n)
    BY WordIsRead
  <1> QED BY <1>1

\* The value that a word stands for: two's complement if the type has a sign.
LEMMA WordOfValue ==
  ASSUME NEW t, IsIntType(t), NEW v \in Values(t)
  PROVE  /\ Narrow(t, v) \in Nat /\ Narrow(t, v) < 2^t.digits
         /\ FromWord(t, Narrow(t, v)) = v /\ v \in Int
  <1> DEFINE d == 2^t.digits
             e == 2^ValueBits(t)
  <1>1. d \in Nat \ {0} /\ e \in Nat \ {0} /\ (t.signed => d = 2 * e) /\ (~t.signed => d = e)
    <2>1. t.digits \in Nat /\ ValueBits(t) \in Nat
      BY Widths
    <2>2. d \in Nat \ {0} /\ e \in Nat \ {0}
      BY <2>1, PowerIsPositive
    <2>3. ASSUME t.signed PROVE d = 2 * e
      <3>1. t.digits = ValueBits(t) + 1
        BY <2>1, <2>3, Widths
      <3> QED BY <2>1, <3>1, PowerDoubles
    <2>4. ASSUME ~t.signed PROVE d = e
      BY <2>4, Widths
    <2> QED BY <2>2, <2>3, <2>4
  <1>2. Narrow(t, v) = v % d
    BY DEF Narrow
  <1>3. /\ t.signed => v \in Int /\ -e <= v /\ v < e
        /\ ~t.signed => v \in Int /\ 0 <= v /\ v < d
    <2>1. /\ t.signed => v \in -e .. e - 1
          /\ ~t.signed => v \in 0 .. d - 1
      BY DEF Values, UnsignedMax
    <2> HIDE DEF d, e
    <2> QED BY <1>1, <2>1
  <1>4. \A w : FromWord(t, w) = IF t.signed /\ w >= e THEN w - d ELSE w
    BY DEF FromWord
  <1> HIDE DEF d, e
  <1>5. v \in Int
    BY <1>3
  <1>6. ASSUME v >= 0 PROVE v % d = v
    <2>1. v \in Nat /\ v < d /\ d * 0 + v = v
      BY <1>1, <1>3, <1>6
    <2>2. (d * 0 + v) % d = v
      BY <1>1, <2>1, 0 \in Int, DivisionIsUnique, Zenon
    <2> QED BY <2>1, <2>2
  <1>7. ASSUME v < 0 PROVE v % d = v + d
    <2>1. v + d \in Nat /\ v + d < d /\ d * (-1) + (v + d) = v
      BY <1>1, <1>3, <1>7
    <2>2. (d * (-1) + (v + d)) % d = v + d
      BY <1>1, <2>1, -1 \in Int, DivisionIsUnique, Zenon
    <2> QED BY <2>1, <2>2
  <1>8. v % d \in Nat /\ v % d < d
    BY <1>1, <1>5, Division, Zenon
  <1>9. FromWord(t, v % d) = v
    <2>1. CASE v >= 0
      BY <1>1, <1>3, <1>4, <1>6, <2>1
    <2>2. CASE v < 0
      BY <1>1, <1>3, <1>4, <1>7, <2>2
    <2> QED BY <1>5, <2>1, <2>2
  <1> QED BY <1>2, <1>5, <1>8, <1>9 DEF d

\* What encode_int() wrote, decode_int() reads, wherever it is.
LEMMA FixedWidthReadsBack ==
  ASSUME NEW t, IsIntType(t), NEW v \in Values(t), NEW bytes, NEW from \in Nat,
         \A k \in 1 .. SizeOf(t) : bytes[from + k - 1] = EncodeInt(t, v)[k]
  PROVE  DecodeInt(t, bytes, from) = v
  <1> DEFINE n == SizeOf(t)
             w == Narrow(t, v)
             word[k \in 0 .. n] ==
               IF k = 0 THEN 0 ELSE word[k - 1] + bytes[from + k - 1] * 2^((Payload + 1) * (k - 1))
             g == [k \in 0 .. n |-> w % 2^((Payload + 1) * k)]
  <1>1. n \in Nat /\ w \in Nat /\ w < 2^t.digits /\ FromWord(t, w) = v /\ t.digits \in Nat
        /\ (Payload + 1) * n = t.digits
    BY Widths, WordOfValue
  <1>2. HoldsWord(bytes, from, w, n)
    <2>1. \A k \in 1 .. n : EncodeInt(t, v)[k] = FromByte(w, k) % ByteValues
      BY DEF EncodeInt
    <2> QED BY <2>1 DEF HoldsWord
  <1>3. DecodeInt(t, bytes, from) = FromWord(t, word[n])
    BY DEF DecodeInt
  <1> HIDE DEF w, n
  <1>4. g = [k \in 0 .. n |-> IF k = 0 THEN 0
                              ELSE g[k - 1] + bytes[from + k - 1] * 2^((Payload + 1) * (k - 1))]
    <2>1. WordLoop(g, bytes, from, n)
      BY <1>1, <1>2, WordIsRead
    <2> HIDE DEF g
    <2> QED BY <2>1 DEF WordLoop
  <1> HIDE DEF g
  <1>5. word = [k \in 0 .. n |-> IF k = 0 THEN 0
                  ELSE word[k - 1] + bytes[from + k - 1] * 2^((Payload + 1) * (k - 1))]
    BY <1>4
  <1> HIDE DEF word
  <1>6. word[n] = w % 2^((Payload + 1) * n)
    <2>1. WordLoop(word, bytes, from, n)
      BY <1>5 DEF WordLoop
    <2> QED BY <1>1, <1>2, <2>1, WordAfterLoop
  <1>7. w % 2^t.digits = w
    <2> DEFINE d == 2^t.digits
    <2>1. d \in Nat \ {0} /\ w < d
      BY <1>1, PowerIsPositive
    <2> HIDE DEF d
    <2>2. (d * 0 + w) % d = w
      BY <1>1, <2>1, 0 \in Int, DivisionIsUnique, Zenon
    <2>3. d * 0 + w = w
      BY <1>1, <2>1
    <2> QED BY <2>2, <2>3 DEF d
  <1> QED BY <1>1, <1>3, <1>6, <1>7

-----------------------------------------------------------------------------
(* Dints.                                                                  *)

\* What encode_dint() shifts out: the value, its bits inverted if it is negative.
Shifted(v) == IF v < 0 THEN -v - 1 ELSE v

\* It fits the bits that a value of the type has beside its sign.
LEMMA ShiftedFits ==
  ASSUME NEW t, IsIntType(t), NEW v \in Values(t)
  PROVE  /\ v \in Int /\ Shifted(v) \in Nat /\ Shifted(v) < 2^ValueBits(t)
         /\ ~t.signed => v >= 0
  <1> DEFINE e == 2^ValueBits(t)
  <1>1. e \in Nat \ {0}
    BY Widths, PowerIsPositive
  <1>2. v \in -e .. e - 1 /\ (~t.signed => v \in 0 .. e - 1)
    <2>1. /\ t.signed => v \in -e .. e - 1
          /\ ~t.signed => v \in 0 .. e - 1
      BY Widths DEF Values, UnsignedMax
    <2> HIDE DEF e
    <2> QED BY <1>1, <2>1
  <1> HIDE DEF e
  <1> QED BY <1>1, <1>2 DEF Shifted, e

\* Nothing is left from group k on if the groups before it hold the word.
LEMMA GroupsVanish ==
  ASSUME NEW w \in Nat, NEW k \in Nat \ {0}
  PROVE  FromGroup(w, k) = 0 <=> w < 2^(Payload * (k - 1))
  <1> DEFINE m == Payload * (k - 1)
  <1>1. m \in Nat /\ FromGroup(w, k) = w \div 2^m
    BY GroupValues DEF FromGroup
  <1> HIDE DEF m
  <1>2. w \div 2^m < 2^0 <=> w < 2^(m + 0)
    BY <1>1, ShiftedBits
  <1>3. 2^0 = 1 /\ m + 0 = m
    BY <1>1, PowerIsPositive
  <1>4. FromGroup(w, k) \in Nat
    BY GroupByGroup
  <1> QED BY <1>1, <1>2, <1>3, <1>4 DEF m

\* The loop writes groups up to the first behind which nothing is left.
LEMMA GroupsWritten ==
  ASSUME NEW t, IsIntType(t), NEW w \in Nat, w < 2^ValueBits(t)
  PROVE  LET n == GroupCount(t, w)
         IN  /\ n \in Nat \ {0} /\ FromGroup(w, n + 1) = 0
             /\ n = 1 \/ FromGroup(w, n) # 0
  <1> DEFINE limit == t.digits \div Payload + 1
             T == {1} \cup {n \in 1 .. limit : FromGroup(w, n) # 0}
             S == {n \in Nat \ {0} : FromGroup(w, n + 1) = 0}
  <1>1. limit \in Nat \ {0} /\ Payload * limit >= t.digits /\ Payload \in Nat /\ Payload >= 2
    <2> DEFINE q == t.digits \div Payload
    <2>1. t.digits \in Nat /\ Payload \in Nat \ {0} /\ Payload >= 2
      BY Widths
    <2>2. q \in Nat /\ t.digits % Payload < Payload /\ t.digits % Payload \in Nat
          /\ t.digits = Payload * q + (t.digits % Payload)
      BY <2>1, t.digits \in Int, Division, Zenon
    <2> HIDE DEF q
    <2>3. Payload * (q + 1) = Payload * q + Payload /\ Payload * q \in Nat
      BY <2>1, <2>2
    <2>4. Payload * (q + 1) >= t.digits
      BY <2>1, <2>2, <2>3
    <2>5. limit = q + 1
      BY DEF q
    <2> QED BY <2>1, <2>2, <2>4, <2>5
  <1> HIDE DEF limit
  <1>2. \A n \in Nat \ {0} : FromGroup(w, n + 1) = 0 <=> w < 2^(Payload * n)
    <2> SUFFICES ASSUME NEW n \in Nat \ {0}
                 PROVE  FromGroup(w, n + 1) = 0 <=> w < 2^(Payload * n)
      OBVIOUS
    <2>1. n + 1 \in Nat \ {0} /\ (n + 1) - 1 = n
      OBVIOUS
    <2> QED BY <2>1, GroupsVanish
  <1>3. limit \in S
    <2>1. ValueBits(t) \in Nat /\ ValueBits(t) <= t.digits /\ t.digits \in Nat
      BY Widths DEF ValueBits
    <2>2. Payload * limit \in Nat /\ ValueBits(t) <= Payload * limit
      BY <1>1, <2>1
    <2>3. 2^ValueBits(t) <= 2^(Payload * limit)
          /\ 2^ValueBits(t) \in Nat /\ 2^(Payload * limit) \in Nat
      BY <2>1, <2>2, PowerGrows, PowerIsPositive
    <2>4. w < 2^(Payload * limit)
      BY <2>3
    <2> QED BY <1>1, <1>2, <2>4
  <1>4. PICK n \in S : \A x \in S : n <= x
    BY <1>3, LeastNatural, S \in SUBSET Nat, S # {}
  <1>5. n \in Nat \ {0} /\ FromGroup(w, n + 1) = 0 /\ n <= limit
    BY <1>3, <1>4
  <1>6. n = 1 \/ FromGroup(w, n) # 0
    <2> SUFFICES ASSUME n # 1, FromGroup(w, n) = 0 PROVE FALSE
      OBVIOUS
    <2>1. n - 1 \in Nat \ {0} /\ (n - 1) + 1 = n
      BY <1>5
    <2>2. n - 1 \in S
      BY <2>1
    <2> QED BY <1>4, <1>5, <2>2
  <1>7. n \in T
    BY <1>1, <1>5, <1>6
  <1>8. \A x \in T : x <= n
    <2> SUFFICES ASSUME NEW x \in T, n < x PROVE FALSE
      BY <1>1, <1>5
    <2>1. x \in Nat \ {0} /\ x - 1 \in Nat \ {0} /\ (x - 1) + 1 = x /\ n <= x - 1 /\ FromGroup(w, x) # 0
      BY <1>1, <1>5
    <2>2. Payload * n \in Nat /\ Payload * (x - 1) \in Nat /\ Payload * n <= Payload * (x - 1)
      <3>1. PICK z \in Nat : x - 1 = n + z
        BY <1>5, <2>1, (x - 1) - n \in Nat, x - 1 = n + ((x - 1) - n)
      <3>2. Payload * (x - 1) = Payload * n + Payload * z /\ Payload * z \in Nat /\ Payload * n \in Nat
        BY <1>1, <1>5, <3>1
      <3> QED BY <3>2
    <2>3. w < 2^(Payload * n) /\ 2^(Payload * n) <= 2^(Payload * (x - 1))
          /\ 2^(Payload * n) \in Nat /\ 2^(Payload * (x - 1)) \in Nat
      BY <1>2, <1>5, <2>2, PowerGrows, PowerIsPositive
    <2>4. w < 2^(Payload * (x - 1))
      BY <2>3
    <2>5. FromGroup(w, (x - 1) + 1) = 0
      BY <1>2, <2>1, <2>4
    <2> QED BY <2>1, <2>5
  <1>9. GroupCount(t, w) = Max(T)
    BY DEF GroupCount, limit
  <1>10. \A x \in T : x \in Nat
    BY <1>1
  <1> HIDE DEF T
  <1>11. Max(T) = n
    <2>1. \A x \in T : n >= x
      BY <1>5, <1>8, <1>10
    <2>2. \E m \in T : \A x \in T : m >= x
      BY <1>7, <2>1
    <2>3. Max(T) \in T /\ \A x \in T : Max(T) >= x
      BY <2>2 DEF Max
    <2>4. Max(T) \in Nat /\ n \in Nat /\ n >= Max(T) /\ Max(T) >= n
      BY <1>5, <1>7, <1>10, <2>1, <2>3, Zenon
    <2> QED BY <2>4
  <1> QED BY <1>5, <1>6, <1>9, <1>11

\* What is below the divisor is its own remainder, also behind a multiple.
LEMMA SmallRemainder ==
  ASSUME NEW d \in Nat \ {0}, NEW c \in Nat, c < d
  PROVE  /\ c % d = c /\ c \div d = 0 /\ (c + d) % d = c
  <1>1. d * 0 + c = c /\ d * 1 + c = c + d
    OBVIOUS
  <1>2. (d * 0 + c) % d = c /\ (d * 0 + c) \div d = 0
    BY 0 \in Int, DivisionIsUnique, Zenon
  <1>3. (d * 1 + c) % d = c
    BY 1 \in Int, DivisionIsUnique, Zenon
  <1> QED BY <1>1, <1>2, <1>3

\* From `from' on, n bytes are the groups of v, its sign in the last one.
HoldsDint(t, bytes, from, v, n) ==
  /\ \A k \in 1 .. n - 1 : bytes[from + k - 1] = (FromGroup(Shifted(v), k) % Group) + Group
  /\ bytes[from + n - 1] = FromGroup(Shifted(v), n) + (IF v < 0 THEN SignBit ELSE 0)
  /\ FromGroup(Shifted(v), n) < IF t.signed THEN SignBit ELSE Group

\* Whether the last group has no bit to spare for the sign.
Full(t, w) == t.signed /\ FromGroup(w, GroupCount(t, w)) >= SignBit

DintLength(t, w) == IF Full(t, w) THEN GroupCount(t, w) + 1 ELSE GroupCount(t, w)

\* The dint, group by group.
LEMMA DintGroups ==
  ASSUME NEW t, IsIntType(t), NEW v \in Values(t)
  PROVE  LET w == Shifted(v)
             n == DintLength(t, w)
         IN  /\ n \in Nat \ {0} /\ Len(EncodeDint(t, v)) = n
             /\ EncodeDint(t, v) \in Seq(Int)
             /\ \A k \in 1 .. n :
                  EncodeDint(t, v)[k] = (FromGroup(w, k) % Group)
                    + (IF k < n THEN Group ELSE IF v < 0 THEN SignBit ELSE 0)
  <1> DEFINE w == Shifted(v)
             n == DintLength(t, w)
             F(k) == (FromGroup(w, k) % Group)
                       + (IF k < n THEN Group ELSE IF v < 0 THEN SignBit ELSE 0)
  <1>1. w \in Nat /\ w < 2^ValueBits(t)
    BY ShiftedFits
  <1>2. n \in Nat \ {0}
    <2> HIDE DEF w
    <2>1. GroupCount(t, w) \in Nat \ {0}
      BY <1>1, GroupsWritten
    <2> QED BY <2>1 DEF DintLength
  <1>3. EncodeDint(t, v) = [k \in 1 .. n |-> F(k)]
    BY DEF EncodeDint, Shifted, DintLength, Full
  <1>4. \A k \in 1 .. n : F(k) \in Int
    <2> SUFFICES ASSUME NEW k \in 1 .. n PROVE F(k) \in Int
      OBVIOUS
    <2> HIDE DEF w, n
    <2>1. FromGroup(w, k) \in Nat /\ Group \in Nat \ {0} /\ SignBit \in Nat
      <3>1. k \in Nat \ {0}
        BY <1>2
      <3>2. FromGroup(w, k) \in Nat
        BY <1>1, <3>1, GroupByGroup, Zenon
      <3> QED BY <3>2, GroupValues
    <2>2. FromGroup(w, k) % Group \in Nat
      BY <2>1, FromGroup(w, k) \in Int, Division, Zenon
    <2> QED BY <2>1, <2>2
  <1> HIDE DEF w, n, F
  <1>5. Len(EncodeDint(t, v)) = n /\ EncodeDint(t, v) \in Seq(Int)
    BY <1>2, <1>3, <1>4
  <1>6. \A k \in 1 .. n : EncodeDint(t, v)[k] = F(k)
    BY <1>3
  <1> QED BY <1>2, <1>5, <1>6 DEF w, n, F

\* The last group holds what is left, with a bit to spare if the type has a sign.
LEMMA DintHolds ==
  ASSUME NEW t, IsIntType(t), NEW v \in Values(t)
  PROVE  LET n == Len(EncodeDint(t, v))
         IN  n \in Nat \ {0} /\ HoldsDint(t, EncodeDint(t, v), 1, v, n)
  <1> DEFINE w == Shifted(v)
             m == GroupCount(t, w)
             n == DintLength(t, w)
             dint == EncodeDint(t, v)
  <1>1. /\ n \in Nat \ {0} /\ Len(dint) = n
        /\ \A k \in 1 .. n : dint[k] = (FromGroup(w, k) % Group)
                    + (IF k < n THEN Group ELSE IF v < 0 THEN SignBit ELSE 0)
    BY DintGroups
  <1>2. w \in Nat /\ w < 2^ValueBits(t) /\ v \in Int
    BY ShiftedFits
  <1>3. t.signed \in BOOLEAN
    BY DEF IsIntType
  <1>4. n = IF t.signed /\ FromGroup(w, m) >= SignBit THEN m + 1 ELSE m
    BY DEF DintLength, Full
  <1> HIDE DEF dint, n
  <1>5. m \in Nat \ {0} /\ FromGroup(w, m + 1) = 0
    <2> HIDE DEF w
    <2> QED BY <1>2, GroupsWritten
  <1> HIDE DEF m, w
  <1>6. FromGroup(w, m) \in Nat /\ FromGroup(w, m) < Group
    <2>1. FromGroup(w, m) \in Nat /\ FromGroup(w, m) \div Group = 0 /\ Group \in Nat \ {0}
      <3>1. FromGroup(w, m) \in Nat /\ FromGroup(w, m + 1) = FromGroup(w, m) \div Group
        BY <1>2, <1>5, GroupByGroup, Zenon
      <3> QED BY <1>5, <3>1, GroupValues
    <2>2. FromGroup(w, m) % Group < Group /\ FromGroup(w, m) % Group \in Nat
          /\ FromGroup(w, m) = Group * (FromGroup(w, m) \div Group) + (FromGroup(w, m) % Group)
      BY <2>1, FromGroup(w, m) \in Int, Division, Zenon
    <2>3. Group * 0 = 0
      BY <2>1
    <2> QED BY <2>1, <2>2, <2>3
  <1>7. FromGroup(w, n) \in Nat /\ FromGroup(w, n) < (IF t.signed THEN SignBit ELSE Group)
    <2>1. SignBit \in Nat \ {0}
      BY GroupValues
    <2>2. CASE t.signed /\ FromGroup(w, m) >= SignBit
      BY <1>4, <1>5, <2>1, <2>2
    <2>3. CASE ~(t.signed /\ FromGroup(w, m) >= SignBit)
      BY <1>3, <1>4, <1>6, <2>1, <2>3
    <2> QED BY <2>2, <2>3
  <1>8. FromGroup(w, n) % Group = FromGroup(w, n)
    <2>1. Group \in Nat \ {0} /\ FromGroup(w, n) < Group
      BY <1>3, <1>7, GroupValues
    <2> QED BY <1>7, <2>1, SmallRemainder
  <1>9. dint[n] = FromGroup(w, n) + (IF v < 0 THEN SignBit ELSE 0)
    BY <1>1, <1>8
  <1>10. \A k \in 1 .. n - 1 : dint[k] = (FromGroup(w, k) % Group) + Group
    BY <1>1
  <1>11. \A k : 1 \in Int /\ (k \in Int => 1 + k - 1 = k)
    OBVIOUS
  <1>12. HoldsDint(t, dint, 1, v, n)
    BY <1>1, <1>7, <1>9, <1>10, <1>11 DEF HoldsDint, w
  <1> QED BY <1>1, <1>12 DEF dint

\* The next group is read below those that were, and none of them is lost.
LEMMA NextGroup ==
  ASSUME NEW t, IsIntType(t), NEW w \in Nat, w < 2^ValueBits(t), NEW k \in Nat \ {0}
  PROVE  LET after == FromGroup(w, k + 1)
         IN  /\ ~Overflows(t, after)
             /\ Narrow(t, after * Group) + (FromGroup(w, k) % Group) = FromGroup(w, k)
  <1> DEFINE after == FromGroup(w, k + 1)
             before == FromGroup(w, k)
             d == 2^t.digits
  <1>1. before \in Nat /\ before <= w /\ after = before \div Group
    BY GroupByGroup, Zenon
  <1>2. Group \in Nat \ {0}
    BY GroupValues
  <1>3. t.digits \in Nat /\ Payload \in Nat /\ t.digits - Payload \in Nat /\ ValueBits(t) \in Nat
        /\ ValueBits(t) <= t.digits
    BY Widths
  <1>4. d \in Nat \ {0} /\ w < d
    <2>1. 2^ValueBits(t) <= d /\ 2^ValueBits(t) \in Nat /\ d \in Nat \ {0}
      BY <1>3, PowerGrows, PowerIsPositive
    <2> QED BY <2>1
  <1>5. ~Overflows(t, after)
    <2> DEFINE m == Payload * k
               j == t.digits - Payload
    <2>1. m \in Nat /\ j \in Nat /\ m + j \in Nat /\ t.digits <= m + j
      <3>1. Payload * k \in Nat /\ Payload <= Payload * k
        BY <1>3, Widths, Product, Payload \in Nat \ {0}
      <3> QED BY <1>3, <3>1
    <2>2. d <= 2^(m + j) /\ 2^(m + j) \in Nat
      BY <1>3, <2>1, PowerGrows, PowerIsPositive
    <2>3. w < 2^(m + j)
      BY <1>4, <2>2
    <2>4. after = w \div 2^m
      <3>1. (k + 1) - 1 = k
        OBVIOUS
      <3> QED BY <3>1 DEF FromGroup
    <2>5. Overflows(t, after) <=> after >= 2^j
      BY DEF Overflows
    <2>6. 2^j \in Nat /\ 2^m \in Nat \ {0}
      BY <2>1, PowerIsPositive
    <2> HIDE DEF m, j, after, before
    <2>7. after < 2^j
      BY <2>1, <2>3, <2>4, ShiftedBits
    <2>8. after \in Int
      BY <2>4, <2>6, w \in Int, Division, Zenon
    <2> QED BY <2>5, <2>6, <2>7, <2>8
  <1> HIDE DEF before, after, d
  <1>6. /\ after \in Nat /\ before % Group \in Nat
        /\ before = Group * after + (before % Group)
    BY <1>1, <1>2, before \in Int, Division, Zenon
  <1>7. after * Group \in Nat /\ after * Group = Group * after /\ after * Group < d
    <2>1. after * Group \in Nat /\ after * Group = Group * after
      BY <1>2, <1>6
    <2> QED BY <1>1, <1>4, <1>6, <2>1
  <1>8. Narrow(t, after * Group) = after * Group
    <2>1. Narrow(t, after * Group) = (after * Group) % d
      BY DEF Narrow, d
    <2> QED BY <1>4, <1>7, <2>1, SmallRemainder
  <1>9. Narrow(t, after * Group) + (before % Group) = before
    BY <1>6, <1>7, <1>8
  <1> QED BY <1>5, <1>9 DEF after, before

\* The loop of decode_dint(), from the last byte down to the first.
DintLoop(f, t, bytes, from, n, top) ==
  f = [k \in from .. from + n - 1 |->
         IF k = from + n - 1 THEN [ok |-> TRUE, word |-> top]
         ELSE [ok   |-> f[k + 1].ok /\ ~Overflows(t, f[k + 1].word),
               word |-> Narrow(t, f[k + 1].word * Group) + GroupOf(bytes[k])]]

\* After the byte that holds group i.
GroupsRead(w, i) == [ok |-> TRUE, word |-> FromGroup(w, i)]

\* One turn of the loop.
LEMMA DintTurn ==
  ASSUME NEW t, IsIntType(t), NEW v \in Values(t), NEW bytes, NEW from \in Nat, NEW n \in Nat \ {0},
         HoldsDint(t, bytes, from, v, n), NEW i \in 1 .. n - 1,
         NEW after, after = GroupsRead(Shifted(v), i + 1)
  PROVE  [ok   |-> after.ok /\ ~Overflows(t, after.word),
          word |-> Narrow(t, after.word * Group) + GroupOf(bytes[from + i - 1])]
           = GroupsRead(Shifted(v), i)
  <1> DEFINE w == Shifted(v)
             x == FromGroup(w, i)
             y == FromGroup(w, i + 1)
  <1>1. w \in Nat /\ w < 2^ValueBits(t)
    BY ShiftedFits
  <1>2. i \in Nat \ {0}
    OBVIOUS
  <1>3. bytes[from + i - 1] = (x % Group) + Group
    BY DEF HoldsDint
  <1>4. after.ok = TRUE /\ after.word = y
    BY DEF GroupsRead
  <1>5. GroupsRead(w, i) = [ok |-> TRUE, word |-> x]
    BY DEF GroupsRead
  <1> HIDE DEF w
  <1>6. ~Overflows(t, y) /\ Narrow(t, y * Group) + (x % Group) = x
    BY <1>1, <1>2, NextGroup
  <1>7. GroupOf(bytes[from + i - 1]) = x % Group
    <2>1. x \in Int /\ Group \in Nat \ {0}
      <3>1. x \in Nat
        BY <1>1, <1>2, GroupByGroup, Zenon
      <3> QED BY <3>1, GroupValues
    <2>2. x % Group \in Nat /\ x % Group < Group
      BY <2>1, Division, Zenon
    <2> HIDE DEF x
    <2> QED BY <1>3, <2>1, <2>2, SmallRemainder DEF GroupOf
  <1> HIDE DEF x, y
  <1>8. (after.ok /\ ~Overflows(t, after.word)) = TRUE
    BY <1>4, <1>6
  <1>9. Narrow(t, after.word * Group) + GroupOf(bytes[from + i - 1]) = x
    BY <1>4, <1>6, <1>7
  <1> QED BY <1>5, <1>8, <1>9 DEF w

\* The loop reads the groups one by one, and in the end the whole word.
LEMMA DintIsRead ==
  ASSUME NEW t, IsIntType(t), NEW v \in Values(t), NEW bytes, NEW from \in Nat, NEW n \in Nat \ {0},
         HoldsDint(t, bytes, from, v, n)
  PROVE  DintLoop([k \in from .. from + n - 1 |-> GroupsRead(Shifted(v), k - from + 1)],
                  t, bytes, from, n, FromGroup(Shifted(v), n))
  <1> DEFINE w == Shifted(v)
             last == from + n - 1
             g == [k \in from .. last |-> GroupsRead(w, k - from + 1)]
             G(k) == IF k = last THEN [ok |-> TRUE, word |-> FromGroup(w, n)]
                     ELSE [ok   |-> g[k + 1].ok /\ ~Overflows(t, g[k + 1].word),
                           word |-> Narrow(t, g[k + 1].word * Group) + GroupOf(bytes[k])]
  <1>1. ASSUME NEW k \in from .. last PROVE g[k] = G(k)
    <2>1. CASE k = last
      <3>1. k - from + 1 = n
        BY <2>1
      <3>2. g[k] = GroupsRead(w, n)
        BY <3>1
      <3> QED BY <2>1, <3>2 DEF GroupsRead
    <2>2. CASE k # last
      <3>1. PICK i : i = k - from + 1
        OBVIOUS
      <3>2. i \in 1 .. n - 1 /\ (k + 1) - from + 1 = i + 1 /\ k + 1 \in from .. last
            /\ from + i - 1 = k
        BY <2>2, <3>1
      <3>3. g[k] = GroupsRead(w, i) /\ g[k + 1] = GroupsRead(w, i + 1)
        BY <3>1, <3>2
      <3> HIDE DEF g
      <3>4. PICK after : after = g[k + 1]
        OBVIOUS
      <3>5. [ok   |-> after.ok /\ ~Overflows(t, after.word),
             word |-> Narrow(t, after.word * Group) + GroupOf(bytes[from + i - 1])]
              = GroupsRead(Shifted(v), i)
        BY <3>2, <3>3, <3>4, DintTurn
      <3> QED BY <2>2, <3>2, <3>3, <3>4, <3>5
    <2> QED BY <2>1, <2>2
  <1>2. g = [k \in from .. last |-> G(k)]
    BY <1>1, Zenon
  <1> QED BY <1>2, Zenon DEF DintLoop

\* The word that decode_dint()'s loop ends with holds all groups of the value.
LEMMA DintAfterLoop ==
  ASSUME NEW t, IsIntType(t), NEW v \in Values(t), NEW bytes, NEW from \in Nat, NEW n \in Nat \ {0},
         HoldsDint(t, bytes, from, v, n),
         NEW f, DintLoop(f, t, bytes, from, n, FromGroup(Shifted(v), n))
  PROVE  f[from] = GroupsRead(Shifted(v), 1)
  <1> DEFINE w == Shifted(v)
             last == from + n - 1
             T == {i \in Nat : i < n => f[last - i] = GroupsRead(w, n - i)}
  <1>1. \A k \in from .. last :
          f[k] = IF k = last THEN [ok |-> TRUE, word |-> FromGroup(w, n)]
                 ELSE [ok   |-> f[k + 1].ok /\ ~Overflows(t, f[k + 1].word),
                       word |-> Narrow(t, f[k + 1].word * Group) + GroupOf(bytes[k])]
    <2> HIDE DEF w
    <2>1. f = [k \in from .. last |->
                 IF k = last THEN [ok |-> TRUE, word |-> FromGroup(w, n)]
                 ELSE [ok   |-> f[k + 1].ok /\ ~Overflows(t, f[k + 1].word),
                       word |-> Narrow(t, f[k + 1].word * Group) + GroupOf(bytes[k])]]
      BY DEF DintLoop, w
    <2> QED BY <2>1, Zenon
  <1>2. 0 \in T
    <2>1. last \in from .. last /\ last - 0 = last /\ n - 0 = n
      OBVIOUS
    <2>2. f[last] = [ok |-> TRUE, word |-> FromGroup(w, n)]
      BY <1>1, <2>1
    <2> QED BY <2>1, <2>2 DEF GroupsRead
  <1>3. ASSUME NEW j \in T PROVE j + 1 \in T
    <2> SUFFICES ASSUME j + 1 < n PROVE f[last - (j + 1)] = GroupsRead(w, n - (j + 1))
      OBVIOUS
    <2>1. PICK i : i = n - (j + 1)
      OBVIOUS
    <2>2. PICK k : k = last - (j + 1)
      OBVIOUS
    <2>3. /\ i \in 1 .. n - 1 /\ from + i - 1 = k /\ k \in from .. last /\ k # last
          /\ k + 1 = last - j /\ i + 1 = n - j
      BY <2>1, <2>2
    <2>4. PICK after : after = f[k + 1]
      OBVIOUS
    <2>5. after = GroupsRead(w, i + 1)
      BY <2>3, <2>4
    <2>6. f[k] = [ok   |-> after.ok /\ ~Overflows(t, after.word),
                  word |-> Narrow(t, after.word * Group) + GroupOf(bytes[k])]
      BY <1>1, <2>3, <2>4, Zenon
    <2>7. [ok   |-> after.ok /\ ~Overflows(t, after.word),
           word |-> Narrow(t, after.word * Group) + GroupOf(bytes[from + i - 1])]
            = GroupsRead(Shifted(v), i)
      BY <2>3, <2>5, DintTurn
    <2>8. f[k] = GroupsRead(w, i)
      BY <2>3, <2>6, <2>7, Zenon
    <2> QED BY <2>1, <2>2, <2>8
  <1>4. T \in SUBSET Nat
    OBVIOUS
  <1> HIDE DEF T
  <1>5. n - 1 \in T
    <2>1. T = Nat
      BY <1>2, <1>3, <1>4, Induction
    <2> QED BY <2>1
  <1>6. n - 1 < n /\ last - (n - 1) = from /\ n - (n - 1) = 1
    OBVIOUS
  <1> QED BY <1>5, <1>6 DEF T

\* The sign says which way the word is read.
LEMMA SignedWord ==
  ASSUME NEW t, IsIntType(t), NEW v \in Values(t)
  PROVE  LET w == Shifted(v)
         IN  FromWord(t, IF t.signed /\ v < 0 THEN UnsignedMax(t) - w ELSE w) = v
  <1> DEFINE d == 2^t.digits
             e == 2^ValueBits(t)
             w == Shifted(v)
  <1>1. v \in Int /\ w \in Nat /\ w < e /\ (~t.signed => v >= 0)
    BY ShiftedFits
  <1>2. e \in Nat \ {0} /\ d \in Nat \ {0} /\ (t.signed => d = 2 * e)
    <2>1. t.digits \in Nat /\ ValueBits(t) \in Nat
      BY Widths
    <2>2. d \in Nat \ {0} /\ e \in Nat \ {0}
      BY <2>1, PowerIsPositive
    <2>3. ASSUME t.signed PROVE d = 2 * e
      <3>1. t.digits = ValueBits(t) + 1
        BY <2>1, <2>3, Widths
      <3> QED BY <2>1, <3>1, PowerDoubles
    <2> QED BY <2>2, <2>3
  <1>3. \A x : FromWord(t, x) = IF t.signed /\ x >= e THEN x - d ELSE x
    BY DEF FromWord
  <1>4. UnsignedMax(t) = d - 1
    BY DEF UnsignedMax
  <1>5. w = IF v < 0 THEN -v - 1 ELSE v
    BY DEF Shifted
  <1> HIDE DEF d, e, w
  <1>6. CASE v < 0
    <2>1. t.signed /\ (d - 1) - w = d + v /\ d + v >= e
      <3>1. t.signed
        BY <1>1, <1>6
      <3> QED BY <1>1, <1>2, <1>5, <1>6, <3>1
    <2>2. FromWord(t, d + v) = (d + v) - d
      BY <1>3, <2>1
    <2>3. (d + v) - d = v
      BY <1>1, <1>2
    <2> QED BY <1>4, <1>6, <2>1, <2>2, <2>3 DEF w
  <1>7. CASE ~(v < 0)
    <2>1. w = v /\ ~(w >= e)
      BY <1>1, <1>2, <1>5, <1>7
    <2>2. FromWord(t, w) = v
      BY <1>3, <2>1
    <2> QED BY <1>7, <2>2 DEF w
  <1> QED BY <1>6, <1>7

\* What encode_dint() wrote, decode_dint() reads, wherever it is, and it leaves
\* the cursor behind it.
LEMMA DintReadsBack ==
  ASSUME NEW t, IsIntType(t), NEW v \in Values(t), NEW bytes, NEW from \in Nat, NEW n \in Nat \ {0},
         Len(bytes) \in Nat, from + n - 1 <= Len(bytes), HoldsDint(t, bytes, from, v, n)
  PROVE  DecodeDint(t, bytes, from) = [next |-> from + n, value |-> v]
  <1> DEFINE w == Shifted(v)
             last == from + n - 1
             c == FromGroup(w, n)
             byte == bytes[last]
  <1>1. Group \in Nat \ {0} /\ SignBit \in Nat \ {0} /\ Group = 2 * SignBit
    BY GroupValues
  <1>2. w \in Nat /\ v \in Int /\ (~t.signed => v >= 0)
    BY ShiftedFits
  <1>3. c \in Nat /\ c < (IF t.signed THEN SignBit ELSE Group)
        /\ byte = c + (IF v < 0 THEN SignBit ELSE 0)
    <2>1. c \in Nat
      BY <1>2, GroupByGroup, Zenon
    <2> QED BY <2>1 DEF HoldsDint
  <1>4. t.signed \in BOOLEAN
    BY DEF IsIntType
  <1> HIDE DEF c, byte
  <1>5. byte \in Nat /\ byte < Group /\ GroupOf(byte) = byte
    <2>1. byte \in Nat /\ byte < Group
      BY <1>1, <1>2, <1>3, <1>4
    <2> QED BY <1>1, <2>1, SmallRemainder DEF GroupOf
  <1>6. t.signed => GroupOf(byte) % SignBit = c
    <2> SUFFICES ASSUME t.signed PROVE byte % SignBit = c
      BY <1>5
    <2>1. c < SignBit
      BY <1>3
    <2>2. c % SignBit = c /\ (c + SignBit) % SignBit = c
      BY <1>1, <1>3, <2>1, SmallRemainder
    <2> QED BY <1>3, <2>2
  <1>7. (t.signed /\ GroupOf(byte) >= SignBit) <=> (t.signed /\ v < 0)
    BY <1>1, <1>2, <1>3, <1>4, <1>5
  <1>8. ~t.signed => GroupOf(byte) = c
    BY <1>1, <1>2, <1>3, <1>5
  <1>9. Ends(bytes, from) # {} /\ LastByte(bytes, from) = last
    <2>1. last \in from .. Len(bytes) /\ ~Continues(bytes[last])
      BY <1>1, <1>5 DEF Continues, byte
    <2>2. \A k \in from .. Len(bytes) : k < last => Continues(bytes[k])
      <3> SUFFICES ASSUME NEW k \in from .. Len(bytes), k < last PROVE Continues(bytes[k])
        OBVIOUS
      <3>1. PICK i : i = k - from + 1
        OBVIOUS
      <3>2. i \in 1 .. n - 1 /\ from + i - 1 = k /\ i \in Nat \ {0}
        BY <3>1
      <3>3. bytes[from + i - 1] = (FromGroup(Shifted(v), i) % Group) + Group
        BY <3>2 DEF HoldsDint
      <3>4. bytes[k] = (FromGroup(w, i) % Group) + Group
        BY <3>2, <3>3
      <3> HIDE DEF w
      <3>5. FromGroup(w, i) \in Nat
        BY <1>2, <3>2, GroupByGroup, Zenon
      <3>6. FromGroup(w, i) % Group \in Nat
        BY <1>1, <3>5, FromGroup(w, i) \in Int, Division, Zenon
      <3> QED BY <1>1, <3>4, <3>6 DEF Continues
    <2> DEFINE E == Ends(bytes, from)
    <2>3. last \in E /\ \A j \in E : last <= j
      BY <2>1, <2>2 DEF Ends
    <2>4. \A j \in E : j \in Nat
      BY DEF Ends
    <2> HIDE DEF E
    <2>5. LastByte(bytes, from) = CHOOSE k \in E : \A j \in E : k <= j
      BY DEF LastByte, E
    <2>6. LastByte(bytes, from) \in E /\ \A j \in E : LastByte(bytes, from) <= j
      BY <2>3, <2>5
    <2>7. LastByte(bytes, from) \in Nat /\ last \in Nat
          /\ LastByte(bytes, from) <= last /\ last <= LastByte(bytes, from)
      BY <2>3, <2>4, <2>6, Zenon
    <2>8. LastByte(bytes, from) = last
      BY <2>7
    <2> QED BY <2>3, <2>8 DEF E
  <1> DEFINE top == IF t.signed THEN GroupOf(byte) % SignBit ELSE GroupOf(byte)
             read[k \in from .. last] ==
               IF k = last THEN [ok |-> TRUE, word |-> top]
               ELSE [ok   |-> read[k + 1].ok /\ ~Overflows(t, read[k + 1].word),
                     word |-> Narrow(t, read[k + 1].word * Group) + GroupOf(bytes[k])]
             negative == t.signed /\ GroupOf(byte) >= SignBit
             word == read[from].word
             g == [k \in from .. last |-> GroupsRead(w, k - from + 1)]
  <1>10. DecodeDint(t, bytes, from) =
           IF Ends(bytes, from) = {} \/ ~read[from].ok THEN Failed(from)
           ELSE [next |-> last + 1,
                 value |-> FromWord(t, IF negative THEN UnsignedMax(t) - word ELSE word)]
    BY <1>9 DEF DecodeDint, byte
  <1>11. top = c
    BY <1>4, <1>6, <1>8
  <1> HIDE DEF top
  <1>12. g = [k \in from .. last |->
                IF k = last THEN [ok |-> TRUE, word |-> top]
                ELSE [ok   |-> g[k + 1].ok /\ ~Overflows(t, g[k + 1].word),
                      word |-> Narrow(t, g[k + 1].word * Group) + GroupOf(bytes[k])]]
    <2>1. DintLoop(g, t, bytes, from, n, top)
      BY <1>11, DintIsRead DEF c
    <2> HIDE DEF g
    <2> QED BY <2>1 DEF DintLoop
  <1> HIDE DEF g
  <1>13. read = [k \in from .. last |->
                IF k = last THEN [ok |-> TRUE, word |-> top]
                ELSE [ok   |-> read[k + 1].ok /\ ~Overflows(t, read[k + 1].word),
                      word |-> Narrow(t, read[k + 1].word * Group) + GroupOf(bytes[k])]]
    BY <1>12
  <1> HIDE DEF read
  <1>14. read[from] = GroupsRead(w, 1)
    <2>1. DintLoop(read, t, bytes, from, n, top)
      BY <1>13 DEF DintLoop
    <2>2. DintLoop(read, t, bytes, from, n, FromGroup(Shifted(v), n))
      BY <1>11, <2>1 DEF c
    <2> HIDE DEF last, w
    <2>3. read[from] = GroupsRead(Shifted(v), 1)
      BY <2>2, DintAfterLoop
    <2> QED BY <2>3 DEF w
  <1>15. read[from].ok = TRUE /\ word = w
    <2>1. FromGroup(w, 1) = w
      BY <1>2, GroupByGroup, 1 \in Nat \ {0}, Zenon
    <2> QED BY <1>14, <2>1 DEF GroupsRead
  <1>16. FromWord(t, IF negative THEN UnsignedMax(t) - w ELSE w) = v
    BY <1>7, SignedWord
  <1>17. last + 1 = from + n
    OBVIOUS
  <1> HIDE DEF negative, word, last, w
  <1> QED BY <1>9, <1>10, <1>15, <1>16, <1>17

-----------------------------------------------------------------------------
(* How long a dint gets.                                                   *)

\* How many groups a word takes, and when its last one is full; the greatest
\* word takes all the bits there are.
LEMMA GroupsTaken ==
  ASSUME NEW t, IsIntType(t), NEW w \in Nat, w < 2^ValueBits(t)
  PROVE  LET m == GroupCount(t, w)
         IN  /\ m \in Nat \ {0} /\ Payload * (m - 1) < ValueBits(t)
             /\ Full(t, w) => Payload * m <= ValueBits(t)
             /\ w = 2^ValueBits(t) - 1 =>
                  /\ Payload * m >= ValueBits(t)
                  /\ t.signed /\ Payload * m <= ValueBits(t) => Full(t, w)
  <1> DEFINE m == GroupCount(t, w)
             b == ValueBits(t)
             x == Payload * (m - 1)
             y == Payload * m
  <1>1. m \in Nat \ {0} /\ FromGroup(w, m + 1) = 0 /\ (m = 1 \/ FromGroup(w, m) # 0)
    BY GroupsWritten
  <1>2. b \in Nat /\ Payload \in Nat /\ Payload >= 2 /\ b >= Payload
    BY Widths
  <1>3. Full(t, w) <=> t.signed /\ FromGroup(w, m) >= SignBit
    BY DEF Full
  <1> HIDE DEF m, b
  <1>4. x \in Nat /\ y \in Nat /\ y = x + Payload /\ (m = 1 => x = 0)
    BY <1>1, <1>2
  <1>5. w < 2^y
    <2>1. m + 1 \in Nat \ {0} /\ (m + 1) - 1 = m
      BY <1>1
    <2> QED BY <1>1, <2>1, GroupsVanish
  <1>6. x < b
    <2>1. CASE m = 1
      BY <1>2, <1>4, <2>1
    <2>2. CASE m # 1
      <3>1. ~(w < 2^x)
        BY <1>1, <2>2, GroupsVanish
      <3> HIDE DEF x
      <3>2. 2^x \in Nat /\ 2^b \in Nat /\ w < 2^b
        BY <1>2, <1>4, PowerIsPositive DEF b
      <3>3. 2^x < 2^b
        BY <3>1, <3>2
      <3> QED BY <1>2, <1>4, <3>3, PowerOrder
    <2> QED BY <2>1, <2>2
  <1>7. /\ FromGroup(w, m) \in Nat /\ SignBit \in Nat /\ y - 1 \in Nat
        /\ FromGroup(w, m) < SignBit <=> w < 2^(y - 1)
    <2> DEFINE j == Payload - 1
    <2>1. j \in Nat /\ SignBit = 2^j /\ SignBit \in Nat /\ x + j = y - 1
      BY <1>2, <1>4, GroupValues
    <2>2. FromGroup(w, m) = w \div 2^x
      BY DEF FromGroup
    <2>3. FromGroup(w, m) \in Nat
      BY <1>1, GroupByGroup, Zenon
    <2> HIDE DEF x, y, j
    <2>4. w \div 2^x < 2^j <=> w < 2^(x + j)
      BY <1>4, <2>1, ShiftedBits
    <2> QED BY <1>4, <2>1, <2>2, <2>3, <2>4
  <1> HIDE DEF x, y
  <1>8. 2^b \in Nat /\ 2^(y - 1) \in Nat /\ w < 2^b
    BY <1>2, <1>7, PowerIsPositive DEF b
  <1>9. 2^(y - 1) < 2^b <=> y - 1 < b
    BY <1>2, <1>7, PowerOrder
  <1>10. Full(t, w) => y <= b
    BY <1>2, <1>3, <1>4, <1>7, <1>8, <1>9
  <1>11. ASSUME w = 2^b - 1 PROVE y >= b
    <2> SUFFICES ASSUME y < b PROVE FALSE
      BY <1>2, <1>4
    <2>1. 2^y < 2^b /\ 2^y \in Nat
      BY <1>2, <1>4, PowerOrder, PowerIsPositive
    <2> QED BY <1>5, <1>8, <1>11, <2>1
  <1>12. ASSUME w = 2^b - 1, t.signed, y <= b PROVE Full(t, w)
    BY <1>2, <1>3, <1>4, <1>7, <1>8, <1>9, <1>12
  <1> QED BY <1>1, <1>6, <1>10, <1>11, <1>12 DEF m, b, x, y

\* The least number of groups that hold so many bits.
LEMMA RoundedUp ==
  ASSUME NEW b \in Nat, NEW p \in Nat \ {0}
  PROVE  LET c == (b + p - 1) \div p
         IN  /\ c \in Nat /\ p * c >= b
             /\ \A n \in Nat \ {0} : /\ p * (n - 1) < b => n <= c
                                     /\ p * n >= b => n >= c
             /\ b % p = 0 <=> p * c = b
  <1> DEFINE a == b + p - 1
             c == a \div p
             s == a % p
  <1>1. a \in Nat
    OBVIOUS
  <1>2. c \in Nat /\ s \in Nat /\ s < p /\ a = p * c + s
    BY <1>1, a \in Int, Division, Zenon
  <1> HIDE DEF c, s
  <1>3. p * c \in Nat /\ b + p - 1 = p * c + s
    BY <1>2
  <1>4. ASSUME NEW i \in Int, NEW j \in Int, i <= j PROVE p * i <= p * j /\ p * i \in Int /\ p * j \in Int
    <2>1. PICK z \in Nat : j = i + z
      BY <1>4, j - i \in Nat, j = i + (j - i)
    <2>2. p * j = p * i + p * z /\ p * z \in Nat /\ p * i \in Int
      BY <2>1
    <2> QED BY <2>2
  <1>5. ASSUME NEW n \in Nat \ {0}, p * (n - 1) < b PROVE n <= c
    <2> SUFFICES ASSUME n > c PROVE FALSE
      BY <1>2
    <2>1. p * c <= p * (n - 1)
      BY <1>2, <1>4, n - 1 \in Int, c <= n - 1
    <2>2. p * (n - 1) \in Int
      OBVIOUS
    <2> QED BY <1>2, <1>3, <1>5, <2>1, <2>2
  <1>6. ASSUME NEW n \in Nat \ {0}, p * n >= b PROVE n >= c
    <2> SUFFICES ASSUME n < c PROVE FALSE
      BY <1>2
    <2>1. p * n <= p * (c - 1) /\ p * n \in Int
      BY <1>2, <1>4, c - 1 \in Int, n <= c - 1
    <2>2. p * (c - 1) = p * c - p
      BY <1>2
    <2> QED BY <1>2, <1>3, <1>6, <2>1, <2>2
  <1>7. p * c >= b
    BY <1>2, <1>3
  <1>8. ASSUME p * c = b PROVE b % p = 0
    <2>1. (p * c + 0) % p = 0
      BY <1>2, 0 \in Nat, 0 < p, c \in Int, DivisionIsUnique, Zenon
    <2>2. p * c + 0 = b
      BY <1>8
    <2> QED BY <2>1, <2>2
  <1>9. ASSUME b % p = 0 PROVE p * c = b
    <2> DEFINE q == b \div p
    <2>1. q \in Nat /\ b = p * q + (b % p)
      BY b \in Int, Division, Zenon
    <2> HIDE DEF q
    <2>2. b = p * q /\ p * q \in Nat
      BY <1>9, <2>1
    <2>3. ~(q < c)
      <3> SUFFICES ASSUME q < c PROVE FALSE
        OBVIOUS
      <3>1. p * (q + 1) <= p * c /\ p * (q + 1) = p * q + p
        BY <1>2, <1>4, <2>1, q + 1 \in Int, q + 1 <= c
      <3> QED BY <1>2, <1>3, <2>2, <3>1
    <2>4. ~(c < q)
      <3> SUFFICES ASSUME c < q PROVE FALSE
        OBVIOUS
      <3>1. p * (c + 1) <= p * q /\ p * (c + 1) = p * c + p
        BY <1>2, <1>4, <2>1, c + 1 \in Int, c + 1 <= q
      <3> QED BY <1>2, <1>3, <2>2, <3>1
    <2>5. q = c
      BY <1>2, <2>1, <2>3, <2>4
    <2> QED BY <2>2, <2>5
  <1> QED BY <1>2, <1>5, <1>6, <1>7, <1>8, <1>9 DEF c

\* No dint is longer than max_dint_size_v, and that of the greatest word is as long.
LEMMA DintSize ==
  ASSUME NEW t, IsIntType(t), NEW w \in Nat, w < 2^ValueBits(t)
  PROVE  /\ DintLength(t, w) <= MaxDintSize(t)
         /\ w = 2^ValueBits(t) - 1 => DintLength(t, w) = MaxDintSize(t)
  <1> DEFINE m == GroupCount(t, w)
             b == ValueBits(t)
             c == (b + Payload - 1) \div Payload
             x == Payload * m
             full == Full(t, w)
             greatest == w = 2^b - 1
  <1>1. /\ m \in Nat \ {0} /\ Payload * (m - 1) < b
        /\ full => x <= b
        /\ greatest => x >= b /\ (t.signed /\ x <= b => full)
    BY GroupsTaken
  <1>2. b \in Nat /\ Payload \in Nat \ {0}
    BY Widths
  <1>3. full \in BOOLEAN /\ (full => t.signed) /\ t.signed \in BOOLEAN /\ greatest \in BOOLEAN
    BY DEF Full, IsIntType
  <1>4. /\ DintLength(t, w) = IF full THEN m + 1 ELSE m
        /\ MaxDintSize(t) = c + IF t.signed /\ b % Payload = 0 THEN 1 ELSE 0
    BY DEF DintLength, MaxDintSize
  <1> HIDE DEF full, greatest, b, m
  <1>5. /\ c \in Nat /\ Payload * c >= b
        /\ \A n \in Nat \ {0} : /\ Payload * (n - 1) < b => n <= c
                                /\ Payload * n >= b => n >= c
        /\ b % Payload = 0 <=> Payload * c = b
    BY <1>2, RoundedUp
  <1> HIDE DEF c
  <1>6. m <= c /\ (greatest => m = c) /\ (m = c => x = Payload * c)
    <2>1. m <= c /\ (x >= b => m >= c)
      BY <1>1, <1>5
    <2> QED BY <1>1, <1>5, <2>1
  <1>7. x \in Nat /\ Payload * c \in Nat
    BY <1>1, <1>2, <1>5
  <1> HIDE DEF x
  <1>8. full /\ m = c => b % Payload = 0
    BY <1>1, <1>2, <1>5, <1>6, <1>7
  <1>9. DintLength(t, w) <= MaxDintSize(t)
    <2>1. CASE full
      BY <1>1, <1>3, <1>4, <1>5, <1>6, <1>8, <2>1
    <2>2. CASE ~full
      BY <1>1, <1>3, <1>4, <1>5, <1>6, <2>2
    <2> QED BY <1>3, <2>1, <2>2
  <1>10. ASSUME greatest PROVE DintLength(t, w) = MaxDintSize(t)
    <2>1. m = c /\ (full <=> t.signed /\ b % Payload = 0)
      BY <1>1, <1>2, <1>3, <1>5, <1>6, <1>7, <1>8, <1>10
    <2> QED BY <1>3, <1>4, <1>5, <2>1
  <1> QED BY <1>9, <1>10 DEF greatest, b

-----------------------------------------------------------------------------
(* Dints from any bytes.                                                   *)

\* The first byte that does not continue ends the dint.
LEMMA FirstEnd ==
  ASSUME NEW bytes, Len(bytes) \in Nat, Ends(bytes, 1) # {}
  PROVE  LET last == LastByte(bytes, 1)
         IN  last \in Nat \ {0} /\ last <= Len(bytes) /\ ~Continues(bytes[last])
  <1> DEFINE E == Ends(bytes, 1)
  <1>1. E \in SUBSET Nat /\ E # {}
    BY DEF Ends
  <1>2. \E k \in E : \A j \in E : k <= j
    BY <1>1, LeastNatural
  <1> HIDE DEF E
  <1>3. LastByte(bytes, 1) = CHOOSE k \in E : \A j \in E : k <= j
    BY DEF LastByte, E
  <1>4. LastByte(bytes, 1) \in E
    BY <1>2, <1>3
  <1> QED BY <1>4 DEF E, Ends

\* A sum of terms is defined, and so is the loop of decode_dint().
LEMMA SumsExist ==
  ASSUME NEW term, NEW n \in Nat
  PROVE  \E f : f = [k \in 0 .. n |-> IF k = 0 THEN 0 ELSE f[k - 1] + term[k]]
  <1> DEFINE Sums(f, m) == f = [k \in 0 .. m |-> IF k = 0 THEN 0 ELSE f[k - 1] + term[k]]
             T == {m \in Nat : \E f : Sums(f, m)}
  <1>1. 0 \in T
    <2> DEFINE f == [k \in 0 .. 0 |-> 0]
    <2>1. Sums(f, 0)
      OBVIOUS
    <2> QED BY <2>1
  <1>2. ASSUME NEW m \in T PROVE m + 1 \in T
    <2>1. PICK f : Sums(f, m)
      OBVIOUS
    <2> DEFINE g == [k \in 0 .. m + 1 |-> IF k = m + 1 THEN f[m] + term[m + 1] ELSE f[k]]
    <2>2. \A k \in 0 .. m + 1 : g[k] = IF k = 0 THEN 0 ELSE g[k - 1] + term[k]
      <3> SUFFICES ASSUME NEW k \in 0 .. m + 1
                   PROVE  g[k] = IF k = 0 THEN 0 ELSE g[k - 1] + term[k]
        OBVIOUS
      <3>1. CASE k = m + 1
        <4>1. k # 0 /\ k - 1 = m /\ m \in 0 .. m + 1 /\ m # m + 1
          BY <3>1
        <4>2. g[k] = f[m] + term[k] /\ g[m] = f[m]
          BY <3>1, <4>1
        <4> QED BY <4>1, <4>2
      <3>2. CASE k # m + 1
        <4>1. k \in 0 .. m /\ g[k] = f[k]
          BY <3>2
        <4>2. f[k] = IF k = 0 THEN 0 ELSE f[k - 1] + term[k]
          BY <2>1, <4>1
        <4>3. k # 0 => g[k - 1] = f[k - 1]
          BY <4>1
        <4> QED BY <4>1, <4>2, <4>3
      <3> QED BY <3>1, <3>2
    <2>3. Sums(g, m + 1)
      <3>1. g = [k \in 0 .. m + 1 |-> g[k]]
        OBVIOUS
      <3> HIDE DEF g
      <3> QED BY <2>2, <3>1
    <2>4. \E h : Sums(h, m + 1)
      BY <2>3
    <2> QED BY <2>4
  <1>3. T \in SUBSET Nat
    OBVIOUS
  <1> HIDE DEF T
  <1>4. n \in T
    BY <1>1, <1>2, <1>3, Induction
  <1> QED BY <1>4 DEF T

\* There is a function that decode_dint()'s loop computes, whatever the bytes.
LEMMA DintLoopExists ==
  ASSUME NEW t, NEW bytes, NEW n \in Nat \ {0}, NEW top
  PROVE  \E f : DintLoop(f, t, bytes, 1, n, top)
  <1> DEFINE Turned(g, k) == [ok   |-> g[k + 1].ok /\ ~Overflows(t, g[k + 1].word),
                              word |-> Narrow(t, g[k + 1].word * Group) + GroupOf(bytes[k])]
             AtEnd == [ok |-> TRUE, word |-> top]
             Loop(f, i) == f = [k \in n - i .. n |-> IF k = n THEN AtEnd ELSE Turned(f, k)]
             T == {i \in Nat : i < n => \E f : Loop(f, i)}
  <1>1. 0 \in T
    <2> DEFINE f == [k \in n - 0 .. n |-> AtEnd]
    <2>1. Loop(f, 0)
      <3> HIDE DEF AtEnd, Turned
      <3>1. \A k \in n - 0 .. n : k = n
        OBVIOUS
      <3>2. \A k \in n - 0 .. n : AtEnd = IF k = n THEN AtEnd ELSE Turned(f, k)
        BY <3>1
      <3> QED BY <3>2
    <2> QED BY <2>1
  <1>2. ASSUME NEW i \in T PROVE i + 1 \in T
    <2> SUFFICES ASSUME i + 1 < n PROVE \E f : Loop(f, i + 1)
      OBVIOUS
    <2>1. PICK f : Loop(f, i)
      OBVIOUS
    <2> DEFINE m == n - (i + 1)
               g == [k \in m .. n |-> IF k = m THEN Turned(f, m) ELSE f[k]]
    <2>2. m \in Nat /\ m # n /\ n - i = m + 1 /\ m < n
      OBVIOUS
    <2>3. \A k \in m .. n : g[k] = IF k = n THEN AtEnd ELSE Turned(g, k)
      <3> SUFFICES ASSUME NEW k \in m .. n
                   PROVE  g[k] = IF k = n THEN AtEnd ELSE Turned(g, k)
        OBVIOUS
      <3> HIDE DEF AtEnd, m
      <3>1. CASE k = m
        <4>1. m + 1 \in m .. n /\ m + 1 # m
          BY <2>2
        <4>2. g[m + 1] = f[m + 1]
          BY <4>1
        <4>3. g[k] = Turned(f, m)
          BY <3>1
        <4>4. Turned(g, m) = Turned(f, m)
          BY <4>2
        <4> QED BY <2>2, <3>1, <4>3, <4>4
      <3>2. CASE k # m
        <4>1. k \in n - i .. n /\ g[k] = f[k]
          BY <2>2, <3>2
        <4> HIDE DEF Turned
        <4>2. f[k] = IF k = n THEN AtEnd ELSE Turned(f, k)
          BY <2>1, <4>1
        <4>3. k # n => Turned(g, k) = Turned(f, k)
          <5> SUFFICES ASSUME k # n PROVE Turned(g, k) = Turned(f, k)
            OBVIOUS
          <5>1. k + 1 \in m .. n /\ k + 1 # m
            BY <2>2, <3>2
          <5>2. g[k + 1] = f[k + 1]
            BY <5>1
          <5> HIDE DEF g
          <5> QED BY <5>2 DEF Turned
        <4> QED BY <4>1, <4>2, <4>3
      <3> QED BY <3>1, <3>2
    <2>4. Loop(g, i + 1)
      <3>1. g = [k \in m .. n |-> g[k]]
        OBVIOUS
      <3> HIDE DEF g, AtEnd, Turned
      <3> QED BY <2>3, <3>1
    <2> QED BY <2>4
  <1>3. T \in SUBSET Nat
    OBVIOUS
  <1> HIDE DEF T
  <1>4. n - 1 \in T
    <2>1. T = Nat
      BY <1>1, <1>2, <1>3, Induction
    <2> QED BY <2>1
  <1>5. PICK f : Loop(f, n - 1)
    BY <1>4, n - 1 < n DEF T
  <1>6. n - (n - 1) = 1 /\ 1 + n - 1 = n
    OBVIOUS
  <1>7. f = [k \in 1 .. n |-> IF k = n THEN AtEnd ELSE Turned(f, k)]
    BY <1>5, <1>6
  <1>8. DintLoop(f, t, bytes, 1, n, top)
    BY <1>6, <1>7 DEF DintLoop
  <1> QED BY <1>8

\* A word read from group k on, and the groups before it, make a number.
Weighs(word, k, low, total) == word * 2^(Payload * (k - 1)) + low = total

WithGroup(low, g, k) == low + g * 2^(Payload * (k - 1))

\* One more group: what was read so far weighs that much more, unless there is
\* no room for it, which there is if the whole number fits.
LEMMA TurnWeighs ==
  ASSUME NEW t, IsIntType(t), NEW k \in Nat \ {0}, NEW x \in Nat, NEW g \in Nat, g < Group,
         NEW low \in Nat, NEW total \in Nat, NEW j \in Nat, j = k + 1,
         Weighs(x, j, WithGroup(low, g, k), total)
  PROVE  /\ ~Overflows(t, x) =>
              LET y == Narrow(t, x * Group) + g
              IN  y \in Nat /\ y < 2^t.digits /\ Weighs(y, k, low, total)
         /\ total < 2^t.digits => ~Overflows(t, x)
  <1> DEFINE m == Payload * (k - 1)
             d == 2^m
             b == t.digits - Payload
             e == 2^b
             h == 2^(Payload * k)
             all == 2^t.digits
  <1>1. Payload \in Nat /\ t.digits \in Nat /\ b \in Nat /\ b + Payload = t.digits
    BY Widths
  <1>2. m \in Nat /\ Payload * k = m + Payload /\ Payload * k \in Nat
    BY <1>1
  <1>3. Group \in Nat \ {0} /\ Group = 2^Payload
    BY GroupValues
  <1>4. Overflows(t, x) <=> x >= e
    BY DEF Overflows
  <1>5. \A z : Narrow(t, z) = z % all
    BY DEF Narrow
  <1> HIDE DEF m, b
  <1>6. d \in Nat \ {0} /\ e \in Nat \ {0} /\ all = e * Group /\ h = d * Group
    <2>1. 2^(b + Payload) = e * Group
      BY <1>1, <1>3, PowerOfSum
    <2>2. 2^(m + Payload) = d * Group
      BY <1>1, <1>2, <1>3, PowerOfSum
    <2> QED BY <1>1, <1>2, <2>1, <2>2, PowerIsPositive
  <1>7. x * h + (low + g * d) = total
    <2>1. j - 1 = k
      OBVIOUS
    <2> QED BY <2>1 DEF m, Weighs, WithGroup
  <1> HIDE DEF d, e, h, all
  <1>8. x * h = (x * Group) * d
    BY <1>3, <1>6
  <1>9. ASSUME x < e
        PROVE  LET y == Narrow(t, x * Group) + g IN y \in Nat /\ y < all /\ y * d + low = total
    <2> DEFINE p == x * Group
    <2>1. p \in Nat /\ p + Group <= all
      <3>1. PICK z \in Nat : e = x + 1 + z
        BY <1>6, <1>9, e - x - 1 \in Nat, e = x + 1 + (e - x - 1)
      <3>2. e * Group = x * Group + Group + z * Group /\ z * Group \in Nat /\ x * Group \in Nat
        BY <1>3, <3>1
      <3> QED BY <1>3, <1>6, <3>2
    <2>2. all \in Nat \ {0} /\ p < all
      BY <1>3, <1>6, <2>1, Product
    <2>3. Narrow(t, p) = p
      BY <1>5, <2>1, <2>2, SmallRemainder
    <2>4. (p + g) * d = p * d + g * d /\ p * d \in Nat /\ g * d \in Nat
      BY <1>6, <2>1
    <2>5. (p + g) * d + low = total
      BY <1>7, <1>8, <2>4
    <2>6. p + g \in Nat /\ p + g < all
      BY <1>3, <2>1, <2>2
    <2> QED BY <2>3, <2>5, <2>6
  <1>10. ASSUME total < all PROVE x < e
    <2> SUFFICES ASSUME x >= e PROVE FALSE
      BY <1>6
    <2>1. PICK z \in Nat : x = e + z
      BY <1>6, x - e \in Nat, x = e + (x - e)
    <2>2. x * Group = all + z * Group /\ z * Group \in Nat
      BY <1>3, <1>6, <2>1
    <2>3. all \in Nat \ {0} /\ x * Group \in Nat \ {0}
      <3>1. all \in Nat \ {0}
        BY <1>3, <1>6, Product
      <3> QED BY <2>2, <3>1
    <2>4. x * Group <= (x * Group) * d
      BY <1>6, <2>3, Product
    <2>5. g * d \in Nat /\ (x * Group) * d \in Nat
      BY <1>6, <2>3
    <2> QED BY <1>7, <1>8, <1>10, <2>2, <2>3, <2>4, <2>5
  <1>11. ~Overflows(t, x) => x < e
    BY <1>4, <1>6
  <1>12. x < e => ~Overflows(t, x)
    BY <1>4, <1>6
  <1> QED BY <1>9, <1>10, <1>11, <1>12 DEF d, m, all, Weighs

\* What the loop has read after byte k, shifted to its place, and the groups
\* before it make the whole number; and the loop has not given up if it fits.
ReadSoFar(t, total, low, k, read) ==
  /\ read.ok \in BOOLEAN
  /\ read.ok => /\ read.word \in Nat /\ read.word < 2^t.digits
                /\ Weighs(read.word, k, low, total)
  /\ total < 2^t.digits => read.ok

-----------------------------------------------------------------------------
(* Values in the middle of other bytes.                                    *)

\* Bytes between other bytes are one place further on.
LEMMA InTheMiddle ==
  ASSUME NEW s \in Seq(Int), NEW a \in Int, NEW b \in Int, NEW c \in Int
  PROVE  LET z == <<a>> \o s \o <<b, c>>
         IN  Len(z) = Len(s) + 3 /\ \A k \in 1 .. Len(s) : z[k + 1] = s[k]
  OBVIOUS

\* An integer of fixed width is a sequence of as many bytes as its type has.
LEMMA FixedWidthBytes ==
  ASSUME NEW t, IsIntType(t), NEW v \in Values(t)
  PROVE  EncodeInt(t, v) \in Seq(Int) /\ Len(EncodeInt(t, v)) = SizeOf(t)
  <1> DEFINE F(k) == FromByte(Narrow(t, v), k) % ByteValues
             n == SizeOf(t)
  <1>1. n \in Nat
    BY Widths
  <1>2. ASSUME NEW k \in 1 .. n PROVE F(k) \in Int
    <2> DEFINE m == (Payload + 1) * (k - 1)
    <2>1. m \in Nat /\ ByteValues \in Nat \ {0}
      BY <1>1, GroupValues
    <2> HIDE DEF m
    <2>2. Narrow(t, v) \in Int /\ 2^m \in Nat \ {0}
      BY <2>1, WordOfValue, PowerIsPositive
    <2>3. Narrow(t, v) \div 2^m \in Int
      BY <2>2, Division, Zenon
    <2>4. FromByte(Narrow(t, v), k) \in Int
      BY <2>3 DEF FromByte, m
    <2>5. FromByte(Narrow(t, v), k) % ByteValues \in Nat
      BY <2>1, <2>4, Division, Zenon
    <2> QED BY <2>5
  <1>3. EncodeInt(t, v) = [k \in 1 .. n |-> F(k)]
    BY DEF EncodeInt
  <1> HIDE DEF F, n
  <1>4. Len(EncodeInt(t, v)) = n /\ EncodeInt(t, v) \in Seq(Int)
    BY <1>1, <1>2, <1>3
  <1> QED BY <1>4 DEF n

\* What IntegersReadBack says of one value of one type.
LEMMA ValueReadsBack ==
  ASSUME NEW t, IsIntType(t), NEW v \in Values(t)
  PROVE  LET dint == EncodeDint(t, v)
             Between(bytes) == <<ByteValues - 1>> \o bytes \o <<ByteValues - 1, 0>>
         IN  /\ DecodeDint(t, Between(dint), 2) = [next |-> 2 + Len(dint), value |-> v]
             /\ DecodeInt(t, Between(EncodeInt(t, v)), 2) = v
             /\ Len(dint) <= MaxDintSize(t)
             /\ Len(EncodeDint(t, 2^ValueBits(t) - 1)) = MaxDintSize(t)
  <1> DEFINE dint == EncodeDint(t, v)
             fixed == EncodeInt(t, v)
             Between(bytes) == <<ByteValues - 1>> \o bytes \o <<ByteValues - 1, 0>>
             n == Len(dint)
             greatest == 2^ValueBits(t) - 1
  <1>1. ByteValues - 1 \in Int /\ 0 \in Int
    BY GroupValues
  <1>2. DecodeDint(t, Between(dint), 2) = [next |-> 2 + Len(dint), value |-> v]
    <2>1. dint \in Seq(Int) /\ n \in Nat \ {0} /\ HoldsDint(t, dint, 1, v, n)
      BY DintGroups, DintHolds
    <2> HIDE DEF dint
    <2> DEFINE z == Between(dint)
    <2>2. Len(z) = n + 3 /\ \A k \in 1 .. n : z[k + 1] = dint[k]
      BY <1>1, <2>1, InTheMiddle
    <2> HIDE DEF n, z
    <2>3. HoldsDint(t, z, 2, v, n)
      <3>1. ASSUME NEW k \in 1 .. n PROVE z[2 + k - 1] = dint[1 + k - 1]
        <4>1. 2 + k - 1 = k + 1 /\ 1 + k - 1 = k
          BY <2>1
        <4> QED BY <2>2, <4>1
      <3>2. n \in 1 .. n /\ \A k \in 1 .. n - 1 : k \in 1 .. n
        BY <2>1
      <3>3. z[2 + n - 1] = dint[1 + n - 1]
        BY <3>1, <3>2, Zenon
      <3>4. \A k \in 1 .. n - 1 : z[2 + k - 1] = dint[1 + k - 1]
        BY <3>1, <3>2, Zenon
      <3> QED BY <2>1, <3>3, <3>4, Zenon DEF HoldsDint
    <2>4. DecodeDint(t, z, 2) = [next |-> 2 + n, value |-> v]
      <3>1. n \in Nat \ {0} /\ Len(z) \in Nat /\ 2 \in Nat /\ 2 + n - 1 <= Len(z)
        BY <2>1, <2>2
      <3> QED BY <2>3, <3>1, DintReadsBack
    <2> QED BY <2>4 DEF n, z
  <1>3. DecodeInt(t, Between(fixed), 2) = v
    <2>1. fixed \in Seq(Int) /\ Len(fixed) = SizeOf(t)
      BY FixedWidthBytes
    <2> HIDE DEF fixed
    <2> DEFINE z == Between(fixed)
    <2>2. \A k \in 1 .. SizeOf(t) : z[k + 1] = fixed[k]
      BY <1>1, <2>1, InTheMiddle
    <2> HIDE DEF z
    <2>3. \A k \in 1 .. SizeOf(t) : z[2 + k - 1] = EncodeInt(t, v)[k]
      <3> SUFFICES ASSUME NEW k \in 1 .. SizeOf(t) PROVE z[2 + k - 1] = EncodeInt(t, v)[k]
        OBVIOUS
      <3>1. 2 + k - 1 = k + 1
        BY Widths
      <3> QED BY <2>2, <3>1 DEF fixed
    <2>4. DecodeInt(t, z, 2) = v
      BY <2>3, FixedWidthReadsBack
    <2> QED BY <2>4 DEF z
  <1>4. Len(dint) <= MaxDintSize(t)
    <2>1. Shifted(v) \in Nat /\ Shifted(v) < 2^ValueBits(t)
      BY ShiftedFits
    <2>2. Len(dint) = DintLength(t, Shifted(v))
      BY DintGroups
    <2> QED BY <2>1, <2>2, DintSize
  <1>5. Len(EncodeDint(t, greatest)) = MaxDintSize(t)
    <2> DEFINE e == 2^ValueBits(t)
    <2>1. e \in Nat \ {0} /\ ValueBits(t) \in Nat
      BY Widths, PowerIsPositive
    <2>2. greatest \in Values(t)
      <3>1. /\ t.signed => Values(t) = -e .. e - 1
            /\ ~t.signed => Values(t) = 0 .. e - 1
        BY Widths DEF Values, UnsignedMax
      <3>2. greatest = e - 1
        OBVIOUS
      <3> HIDE DEF e, greatest
      <3> QED BY <2>1, <3>1, <3>2
    <2>3. Shifted(greatest) = greatest /\ greatest \in Nat /\ greatest < e
      <3>1. greatest = e - 1
        OBVIOUS
      <3> HIDE DEF e, greatest
      <3> QED BY <2>1, <3>1 DEF Shifted
    <2>4. Len(EncodeDint(t, greatest)) = DintLength(t, Shifted(greatest))
      <3> HIDE DEF greatest
      <3> QED BY <2>2, DintGroups
    <2>5. DintLength(t, greatest) = MaxDintSize(t)
      <3>1. greatest = 2^ValueBits(t) - 1
        OBVIOUS
      <3>2. greatest < 2^ValueBits(t)
        BY <2>3
      <3> HIDE DEF greatest
      <3> QED BY <2>3, <3>1, <3>2, DintSize
    <2> QED BY <2>3, <2>4, <2>5
  <1> QED BY <1>2, <1>3, <1>4, <1>5

-----------------------------------------------------------------------------
(* Words, bit by bit.                                                      *)

\* The width of a word.
LEMMA WordSize ==
  /\ Digits \in Nat /\ Digits - 1 \in Nat /\ (Digits - 1) + 1 = Digits
  /\ Modulus \in Nat \ {0} /\ Modulus = 2^Digits /\ Modulus = 2 * 2^(Digits - 1)
  /\ Modulus \div 2 = 2^(Digits - 1) /\ 2^(Digits - 1) \in Nat \ {0}
  <1>1. Digits \in Nat /\ Digits - 1 \in Nat /\ (Digits - 1) + 1 = Digits
    BY DigitsAssumption
  <1>2. 2^Digits = 2 * 2^(Digits - 1) /\ 2^(Digits - 1) \in Nat \ {0}
    BY <1>1, PowerDoubles, PowerIsPositive
  <1>3. \A n \in Nat : (2 * n) \div 2 = n
    OBVIOUS
  <1> QED BY <1>1, <1>2, <1>3 DEF Modulus

\* Bit k is what the remainder of the next power has more than that of this one.
LEMMA LowBits ==
  ASSUME NEW v \in Nat, NEW k \in Nat
  PROVE  /\ v % 2^(k + 1) = (v % 2^k) + IF Bit(v, k) THEN 2^k ELSE 0
         /\ v % 2^k \in Nat /\ v % 2^k < 2^k /\ 2^k \in Nat \ {0}
  <1> DEFINE d == 2^k
             b == (v \div d) % 2
  <1>1. d \in Nat \ {0} /\ 2^(k + 1) = d * 2
    <2>1. d \in Nat \ {0} /\ 2^(k + 1) = 2 * d
      BY PowerIsPositive, PowerDoubles
    <2> QED BY <2>1
  <1> HIDE DEF d
  <1>2. v % (d * 2) = d * b + (v % d)
    BY <1>1, v \in Int, 2 \in Nat \ {0}, DivisionTwice, Zenon
  <1>3. v % d \in Nat /\ v % d < d /\ v \div d \in Int
    BY <1>1, v \in Int, Division, Zenon
  <1>4. b = 0 \/ b = 1
    BY <1>3
  <1>5. Bit(v, k) <=> b = 1
    BY DEF Bit, d
  <1> HIDE DEF b
  <1>6. v % (d * 2) = (v % d) + IF b = 1 THEN d ELSE 0
    BY <1>1, <1>2, <1>3, <1>4
  <1> QED BY <1>1, <1>3, <1>5, <1>6 DEF d

\* A number below a power is its own remainder.
LEMMA SmallIsRemainder ==
  ASSUME NEW v \in Nat, NEW d \in Nat \ {0}, v < d PROVE v % d = v /\ v \div d = 0
  <1>1. (d * 0 + v) \div d = 0 /\ (d * 0 + v) % d = v
    BY DivisionIsUnique, 0 \in Int
  <1>2. d * 0 + v = v
    OBVIOUS
  <1> QED BY <1>1, <1>2

\* Numbers with the same bits below k have the same remainder there.
LEMMA SameBits ==
  ASSUME NEW v \in Nat, NEW w \in Nat, NEW k \in Nat,
         \A i \in 0 .. k - 1 : Bit(v, i) <=> Bit(w, i)
  PROVE  /\ v % 2^k = w % 2^k
         /\ v < 2^k /\ w < 2^k => v = w
  <1> DEFINE T == {j \in Nat : j <= k => v % 2^j = w % 2^j}
  <1>1. 0 \in T
    <2>1. 2^0 = 1 /\ v % 1 = 0 /\ w % 1 = 0
      BY PowerIsPositive
    <2> QED BY <2>1
  <1>2. ASSUME NEW j \in T PROVE j + 1 \in T
    <2> SUFFICES ASSUME j + 1 <= k PROVE v % 2^(j + 1) = w % 2^(j + 1)
      OBVIOUS
    <2>1. j \in Nat /\ j \in 0 .. k - 1 /\ v % 2^j = w % 2^j
      OBVIOUS
    <2>2. Bit(v, j) <=> Bit(w, j)
      BY <2>1
    <2>3. /\ v % 2^(j + 1) = (v % 2^j) + IF Bit(v, j) THEN 2^j ELSE 0
          /\ w % 2^(j + 1) = (w % 2^j) + IF Bit(w, j) THEN 2^j ELSE 0
      BY <2>1, LowBits
    <2> QED BY <2>1, <2>2, <2>3
  <1>3. T \in SUBSET Nat
    OBVIOUS
  <1> HIDE DEF T
  <1>4. k \in T
    BY <1>1, <1>2, <1>3, Induction
  <1>5. v % 2^k = w % 2^k
    BY <1>4 DEF T
  <1>6. ASSUME v < 2^k, w < 2^k PROVE v = w
    <2>1. 2^k \in Nat \ {0}
      BY PowerIsPositive
    <2>2. v % 2^k = v /\ w % 2^k = w
      BY <1>6, <2>1, SmallIsRemainder
    <2> QED BY <1>5, <2>2
  <1> QED BY <1>5, <1>6

\* A number has no bits beyond its size.
LEMMA NoBitsAbove ==
  ASSUME NEW v \in Nat, NEW k \in Nat, v < 2^k, NEW i \in Nat, k <= i
  PROVE  ~Bit(v, i)
  <1>1. 2^k <= 2^i /\ 2^i \in Nat \ {0} /\ 2^k \in Nat
    BY PowerGrows, PowerIsPositive
  <1>2. v < 2^i
    BY <1>1
  <1>3. v \div 2^i = 0
    BY <1>1, <1>2, SmallIsRemainder
  <1>4. 0 % 2 # 1
    OBVIOUS
  <1> QED BY <1>3, <1>4, Zenon DEF Bit

\* A number without bits from k on is below that power.
LEMMA BoundByBits ==
  ASSUME NEW v \in Nat, NEW k \in Nat, NEW n \in Nat, v < 2^n,
         \A i \in Nat : k <= i /\ i < n => ~Bit(v, i)
  PROVE  v < 2^k
  <1> DEFINE T == {j \in Nat : k + j <= n => v % 2^(k + j) = v % 2^k}
  <1>1. 0 \in T
    <2>1. k + 0 = k
      OBVIOUS
    <2> QED BY <2>1
  <1>2. ASSUME NEW j \in T PROVE j + 1 \in T
    <2> SUFFICES ASSUME k + (j + 1) <= n PROVE v % 2^(k + (j + 1)) = v % 2^k
      OBVIOUS
    <2>1. PICK i \in Nat : i = k + j
      OBVIOUS
    <2>2. i + 1 = k + (j + 1) /\ k <= i /\ i < n /\ v % 2^i = v % 2^k
      BY <2>1
    <2>3. ~Bit(v, i)
      BY <2>2
    <2>4. v % 2^(i + 1) = (v % 2^i) + 0 /\ v % 2^i \in Nat
      BY <2>3, LowBits
    <2> QED BY <2>2, <2>4
  <1>3. T \in SUBSET Nat
    OBVIOUS
  <1> HIDE DEF T
  <1>4. \A j \in Nat : j \in T
    BY <1>1, <1>2, <1>3, Induction
  <1>5. CASE n < k
    <2>1. 2^n <= 2^k /\ 2^n \in Nat /\ 2^k \in Nat
      BY <1>5, PowerGrows, PowerIsPositive
    <2> QED BY <2>1
  <1>6. CASE k <= n
    <2>1. n - k \in Nat /\ k + (n - k) = n
      BY <1>6
    <2>2. v % 2^n = v % 2^k
      BY <1>4, <2>1 DEF T
    <2>3. v % 2^n = v
      BY PowerIsPositive, SmallIsRemainder
    <2>4. v % 2^k < 2^k
      BY LowBits
    <2> QED BY <2>2, <2>3, <2>4
  <1> QED BY <1>5, <1>6

\* Shifting right.
LEMMA BitShifted ==
  ASSUME NEW v \in Nat, NEW k \in Nat, NEW i \in Nat
  PROVE  /\ Bit(v \div 2^k, i) <=> Bit(v, k + i)
         /\ v \div 2^k \in Nat /\ v \div 2^k <= v
  <1> DEFINE d == 2^k
             e == 2^i
  <1>1. d \in Nat \ {0} /\ e \in Nat \ {0} /\ 2^(k + i) = d * e
    BY PowerIsPositive, PowerOfSum
  <1> HIDE DEF d, e
  <1>2. v \div (d * e) = (v \div d) \div e
    BY <1>1, v \in Int, DivisionTwice, Zenon
  <1>3. v \div d \in Nat /\ v \div d <= v
    BY <1>1, v \in Int, Division, Zenon
  <1>4. Bit(v \div 2^k, i) <=> ((v \div d) \div e) % 2 = 1
    BY DEF Bit, d, e
  <1>5. Bit(v, k + i) <=> (v \div (d * e)) % 2 = 1
    BY <1>1 DEF Bit
  <1> QED BY <1>2, <1>3, <1>4, <1>5 DEF d

\* The bits of a remainder are the low ones.
LEMMA BitOfRemainder ==
  ASSUME NEW v \in Nat, NEW k \in Nat, NEW i \in Nat, i < k
  PROVE  Bit(v % 2^k, i) <=> Bit(v, i)
  <1> DEFINE d == 2^k
             e == 2^i
             c == 2^(k - i - 1)
             p == v \div d
             r == v % d
             s == r \div e
             u == r % e
  <1>1. /\ d \in Nat \ {0} /\ e \in Nat \ {0} /\ c \in Nat \ {0} /\ d = e * (2 * c)
    <2>1. k - i - 1 \in Nat /\ (k - i - 1) + 1 = k - i /\ i <= k /\ k - i \in Nat
      OBVIOUS
    <2>2. 2^k = 2^i * 2^(k - i)
      BY PowerGrows
    <2>3. 2^((k - i - 1) + 1) = 2 * 2^(k - i - 1)
      BY <2>1, PowerDoubles
    <2> QED BY <2>1, <2>2, <2>3, PowerIsPositive
  <1> HIDE DEF d, e, c
  <1>2. p \in Nat /\ r \in Nat /\ v = d * p + r
    BY <1>1, v \in Int, Division, Zenon
  <1> HIDE DEF p, r
  <1>3. s \in Nat /\ u \in Nat /\ u < e /\ r = e * s + u
    BY <1>1, <1>2, r \in Int, Division, Zenon
  <1> HIDE DEF s, u
  <1>4. PICK z \in Nat : z = c * p
    BY <1>1, <1>2
  <1>5. v = e * (2 * z + s) + u
    <2>1. d * p = e * (2 * z)
      BY <1>1, <1>2, <1>4
    <2>2. e * (2 * z + s) = e * (2 * z) + e * s
      BY <1>1, <1>3
    <2> QED BY <1>1, <1>2, <1>3, <2>1, <2>2
  <1>6. v \div e = 2 * z + s
    <2>1. 2 * z + s \in Int
      BY <1>3
    <2>2. (e * (2 * z + s) + u) \div e = 2 * z + s
      BY <1>1, <1>3, <2>1, DivisionIsUnique, Zenon
    <2> QED BY <1>5, <2>2
  <1>7. (2 * z + s) % 2 = s % 2
    BY <1>3
  <1>8. (v \div e) % 2 = (r \div e) % 2
    BY <1>6, <1>7 DEF s
  <1> QED BY <1>8 DEF Bit, r, d, e

\* The bits of a number that is put together from two.
LEMMA Joined ==
  ASSUME NEW q \in Nat, NEW v \in Nat, NEW k \in Nat, v < 2^k, NEW i \in Nat
  PROVE  Bit(2^k * q + v, i) <=> IF i < k THEN Bit(v, i) ELSE Bit(q, i - k)
  <1> DEFINE d == 2^k
             x == d * q + v
  <1>1. d \in Nat \ {0}
    BY PowerIsPositive
  <1>2. x \div d = q /\ x % d = v
    BY <1>1, q \in Int, DivisionIsUnique, Zenon DEF d
  <1>3. x \in Nat
    BY <1>1
  <1> HIDE DEF x
  <1>4. CASE i < k
    <2>1. Bit(x % 2^k, i) <=> Bit(x, i)
      BY <1>3, <1>4, BitOfRemainder
    <2> QED BY <1>2, <1>4, <2>1 DEF x, d
  <1>5. CASE k <= i
    <2>1. PICK j \in Nat : j = i - k /\ i = k + j /\ ~(i < k)
      BY <1>5, i - k \in Nat, i = k + (i - k)
    <2>2. Bit(x \div 2^k, j) <=> Bit(x, k + j)
      BY <1>3, BitShifted
    <2> QED BY <1>2, <2>1, <2>2 DEF x, d
  <1> QED BY <1>4, <1>5

\* A number is below its power of two.
LEMMA BelowItsPower == \A n \in Nat : n < 2^n
  <1> DEFINE T == {n \in Nat : n < 2^n}
  <1>1. 0 \in T
    BY PowerIsPositive
  <1>2. ASSUME NEW n \in T PROVE n + 1 \in T
    <2>1. n \in Nat /\ n < 2^n /\ 2^n \in Nat \ {0} /\ 2^(n + 1) = 2 * 2^n
      BY PowerIsPositive, PowerDoubles
    <2> QED BY <2>1
  <1>3. T \in SUBSET Nat
    OBVIOUS
  <1> HIDE DEF T
  <1>4. T = Nat
    BY <1>1, <1>2, <1>3, Induction
  <1> QED BY <1>4 DEF T

\* A power of two above a number sets one more bit of it.
LEMMA PowerSetsBit ==
  ASSUME NEW v \in Nat, NEW e \in Nat, v < 2^e, NEW i \in Nat
  PROVE  Bit(v + 2^e, i) <=> i = e \/ Bit(v, i)
  <1>1. 2^e * 1 + v = v + 2^e
    BY PowerIsPositive
  <1>2. Bit(2^e * 1 + v, i) <=> IF i < e THEN Bit(v, i) ELSE Bit(1, i - e)
    BY 1 \in Nat, Joined
  <1>3. CASE i < e
    BY <1>1, <1>2, <1>3
  <1>4. CASE i = e
    <2>1. i - e = 0 /\ ~(i < e)
      BY <1>4
    <2>2. Bit(1, 0)
      <3>1. 2^0 = 1 /\ (1 \div 1) % 2 = 1
        BY PowerIsPositive
      <3> QED BY <3>1 DEF Bit
    <2> QED BY <1>1, <1>2, <1>4, <2>1, <2>2
  <1>5. CASE e < i
    <2>1. i - e \in Nat /\ 1 <= i - e /\ ~(i < e) /\ e <= i
      BY <1>5
    <2>2. 1 < 2^1 /\ 1 \in Nat
      BY PowerIsPositive
    <2>3. ~Bit(1, i - e)
      BY <2>1, <2>2, NoBitsAbove
    <2>4. ~Bit(v, i)
      BY <2>1, NoBitsAbove
    <2> QED BY <1>1, <1>2, <1>5, <2>1, <2>3, <2>4
  <1> QED BY <1>3, <1>4, <1>5

\* Adding up the powers of two whose exponents e gives to the members of S.
PowerLoop(f, S, e, n) ==
  f = [k \in 0 .. n |-> IF k = 0 THEN 0
                        ELSE f[k - 1] + IF k - 1 \in S THEN 2^e[k - 1] ELSE 0]

\* The sum of the powers with increasing exponents has these bits.
LEMMA SumOfPowers ==
  ASSUME NEW n \in Nat, NEW S \in SUBSET (0 .. n - 1), NEW e \in [S -> Nat],
         \A i, j \in S : i < j => e[i] < e[j],
         NEW f, PowerLoop(f, S, e, n)
  PROVE  \A k \in 0 .. n :
           f[k] \in Nat /\ \A i \in Nat : Bit(f[k], i) <=> \E j \in S : j < k /\ i = e[j]
  <1> DEFINE Has(k) ==
               f[k] \in Nat /\ \A i \in Nat : Bit(f[k], i) <=> \E j \in S : j < k /\ i = e[j]
             T == {k \in Nat : k <= n => Has(k)}
  <1>1. \A k \in 0 .. n : f[k] = IF k = 0 THEN 0
                                 ELSE f[k - 1] + IF k - 1 \in S THEN 2^e[k - 1] ELSE 0
    BY DEF PowerLoop
  <1> HIDE DEF Has
  <1>2. 0 \in T
    <2>1. f[0] = 0
      BY <1>1
    <2>2. ASSUME NEW i \in Nat PROVE ~Bit(0, i)
      BY PowerIsPositive, NoBitsAbove, 0 \in Nat, 0 < 2^0, 0 <= i
    <2>3. \A j \in S : ~(j < 0)
      OBVIOUS
    <2> QED BY <2>1, <2>2, <2>3 DEF Has
  <1>3. ASSUME NEW k \in T PROVE k + 1 \in T
    <2> SUFFICES ASSUME k + 1 <= n PROVE Has(k + 1)
      OBVIOUS
    <2>1. k \in Nat /\ Has(k) /\ k + 1 \in 0 .. n /\ k + 1 # 0 /\ (k + 1) - 1 = k
      OBVIOUS
    <2>2. f[k + 1] = f[k] + IF k \in S THEN 2^e[k] ELSE 0
      BY <1>1, <2>1
    <2>3. \A j \in S : j < k + 1 <=> j < k \/ j = k
      BY <2>1
    <2>4. CASE k \notin S
      <3>1. f[k + 1] = f[k]
        BY <2>1, <2>2, <2>4 DEF Has
      <3>2. \A j \in S : j < k + 1 <=> j < k
        <4> HIDE DEF T
        <4>1. \A j \in S : j # k
          BY <2>4
        <4> QED BY <2>3, <4>1
      <3>3. \A i \in Nat : (\E j \in S : j < k + 1 /\ i = e[j])
                              <=> (\E j \in S : j < k /\ i = e[j])
        BY <3>2
      <3>4. f[k] \in Nat /\ \A i \in Nat : Bit(f[k], i) <=> \E j \in S : j < k /\ i = e[j]
        BY <2>1 DEF Has
      <3> HIDE DEF T
      <3> QED BY <3>1, <3>3, <3>4 DEF Has
    <2>5. CASE k \in S
      <3> DEFINE v == f[k]
                 x == e[k]
      <3>1. v \in Nat /\ x \in Nat
        BY <2>1, <2>5 DEF Has
      <3>2. \A i \in Nat : Bit(v, i) <=> \E j \in S : j < k /\ i = e[j]
        BY <2>1 DEF Has
      <3>3. \A j \in S : j < k => e[j] < x
        BY <2>5
      <3>4. f[k + 1] = v + 2^x
        BY <2>2, <2>5
      <3> HIDE DEF v, x
      <3>5. v < 2^x
        <4>1. v < 2^v
          BY <3>1, BelowItsPower
        <4>2. ASSUME NEW i \in Nat, x <= i PROVE ~Bit(v, i)
          BY <3>1, <3>2, <3>3, <4>2
        <4> QED BY <3>1, <4>1, <4>2, BoundByBits
      <3>6. \A i \in Nat : Bit(v + 2^x, i) <=> i = x \/ Bit(v, i)
        BY <3>1, <3>5, PowerSetsBit
      <3>7. v + 2^x \in Nat
        BY <3>1, PowerIsPositive
      <3>8. \A i \in Nat : (i = x \/ Bit(v, i)) <=> \E j \in S : j < k + 1 /\ i = e[j]
        BY <2>3, <2>5, <3>2 DEF x
      <3> QED BY <3>4, <3>6, <3>7, <3>8 DEF Has
    <2> QED BY <2>4, <2>5
  <1>4. T \in SUBSET Nat
    OBVIOUS
  <1> HIDE DEF T
  <1>5. \A k \in Nat : k \in T
    BY <1>2, <1>3, <1>4, Induction
  <1> QED BY <1>5 DEF T, Has

\* WordOf() makes the number that has the bits.
LEMMA BitsMakeNumber ==
  ASSUME NEW n \in Nat, NEW S \in SUBSET (0 .. n - 1)
  PROVE  /\ WordOf(S, n) \in Nat /\ WordOf(S, n) < 2^n
         /\ \A i \in Nat : Bit(WordOf(S, n), i) <=> i \in S
  <1> DEFINE word[k \in 0 .. n] ==
               IF k = 0 THEN 0 ELSE word[k - 1] + IF k - 1 \in S THEN 2^(k - 1) ELSE 0
             term == [k \in 1 .. n |-> IF k - 1 \in S THEN 2^(k - 1) ELSE 0]
             e == [i \in S |-> i]
  <1>1. WordOf(S, n) = word[n]
    BY DEF WordOf
  <1>2. \A k \in 0 .. n : k # 0 => term[k] = IF k - 1 \in S THEN 2^(k - 1) ELSE 0
    OBVIOUS
  <1> HIDE DEF term
  <1>3. PICK f : f = [k \in 0 .. n |-> IF k = 0 THEN 0 ELSE f[k - 1] + term[k]]
    BY SumsExist
  <1>4. f = [k \in 0 .. n |-> IF k = 0 THEN 0
                                   ELSE f[k - 1] + IF k - 1 \in S THEN 2^(k - 1) ELSE 0]
    BY <1>2, <1>3
  <1>5. word = [k \in 0 .. n |-> IF k = 0 THEN 0
                                      ELSE word[k - 1] + IF k - 1 \in S THEN 2^(k - 1) ELSE 0]
    BY <1>4
  <1> HIDE DEF word
  <1>6. e \in [S -> Nat] /\ \A i \in S : e[i] = i
    OBVIOUS
  <1>7. \A k \in 0 .. n : (IF k - 1 \in S THEN 2^(k - 1) ELSE 0)
                                 = IF k - 1 \in S THEN 2^e[k - 1] ELSE 0
    BY <1>6
  <1> HIDE DEF e
  <1>8. PowerLoop(word, S, e, n)
    BY <1>5, <1>7 DEF PowerLoop
  <1>9. \A k \in 0 .. n :
          word[k] \in Nat /\ \A i \in Nat : Bit(word[k], i) <=> \E j \in S : j < k /\ i = e[j]
    <2>1. \A i, j \in S : i < j => e[i] < e[j]
      BY <1>6
    <2>2. e \in [S -> Nat]
      BY <1>6
    <2> QED BY <1>8, <2>1, <2>2, n \in Nat, S \in SUBSET (0 .. n - 1), SumOfPowers, SMTT(60)
  <1>10. n \in 0 .. n /\ \A j \in S : j < n /\ j \in Nat
    OBVIOUS
  <1> DEFINE w == word[n]
  <1>11. w \in Nat /\ \A i \in Nat : Bit(w, i) <=> i \in S
    BY <1>6, <1>9, <1>10
  <1> HIDE DEF w
  <1>12. w < 2^n
    <2>1. w < 2^w
      BY <1>11, BelowItsPower
    <2>2. \A i \in Nat : n <= i => ~Bit(w, i)
      BY <1>10, <1>11
    <2> QED BY <1>11, <2>1, <2>2, BoundByBits
  <1> QED BY <1>1, <1>11, <1>12 DEF w

\* FromBits() makes the word that has the bits.
LEMMA BitsMakeWord ==
  ASSUME NEW S \in SUBSET (0 .. Digits - 1)
  PROVE  /\ FromBits(S) \in Word
         /\ \A i \in Nat : Bit(FromBits(S), i) <=> i \in S
         /\ BitsOf(FromBits(S)) = S
  <1> DEFINE w == FromBits(S)
  <1>1. w \in Nat /\ w < 2^Digits /\ \A i \in Nat : Bit(w, i) <=> i \in S
    BY WordSize, BitsMakeNumber DEF FromBits
  <1> HIDE DEF w
  <1>2. w \in Word
    BY <1>1, WordSize DEF Word
  <1>3. BitsOf(w) = S
    <2>1. \A i \in 0 .. Digits - 1 : i \in Nat
      OBVIOUS
    <2> QED BY <1>1, <2>1 DEF BitsOf
  <1> QED BY <1>1, <1>2, <1>3 DEF w

\* A word is made of its bits, and no two words have the same.
LEMMA WordsByBits ==
  ASSUME NEW v \in Word
  PROVE  /\ v \in Nat /\ v < 2^Digits /\ BitsOf(v) \in SUBSET (0 .. Digits - 1)
         /\ \A i \in Nat : Bit(v, i) <=> i \in BitsOf(v)
         /\ \A w \in Word : BitsOf(v) = BitsOf(w) => v = w
         /\ FromBits(BitsOf(v)) = v
  <1>1. ASSUME NEW w \in Word
        PROVE  /\ w \in Nat /\ w < 2^Digits /\ BitsOf(w) \in SUBSET (0 .. Digits - 1)
               /\ \A i \in Nat : Bit(w, i) <=> i \in BitsOf(w)
    <2>1. w \in Nat /\ w < 2^Digits
      BY WordSize DEF Word
    <2>2. BitsOf(w) \in SUBSET (0 .. Digits - 1)
      BY DEF BitsOf
    <2>3. ASSUME NEW i \in Nat PROVE Bit(w, i) <=> i \in BitsOf(w)
      <3>1. CASE i < Digits
        <4>1. i \in 0 .. Digits - 1
          BY <3>1, WordSize
        <4> QED BY <4>1 DEF BitsOf
      <3>2. CASE Digits <= i
        <4>1. ~Bit(w, i)
          BY <2>1, <3>2, WordSize, NoBitsAbove
        <4>2. i \notin 0 .. Digits - 1
          BY <3>2, WordSize
        <4> QED BY <4>1, <4>2 DEF BitsOf
      <3> QED BY <3>1, <3>2, WordSize
    <2> QED BY <2>1, <2>2, <2>3
  <1>2. ASSUME NEW w \in Word, BitsOf(v) = BitsOf(w) PROVE v = w
    <2>1. \A i \in 0 .. Digits - 1 : i \in Nat
      OBVIOUS
    <2>2. \A i \in 0 .. Digits - 1 : Bit(v, i) <=> Bit(w, i)
      BY <1>1, <1>2, <2>1
    <2> QED BY <1>1, <2>2, WordSize, SameBits
  <1>3. FromBits(BitsOf(v)) = v
    <2>1. FromBits(BitsOf(v)) \in Word /\ BitsOf(FromBits(BitsOf(v))) = BitsOf(v)
      BY <1>1, BitsMakeWord
    <2> QED BY <1>2, <2>1
  <1> QED BY <1>1, <1>2, <1>3

\* And() and Or(), bit by bit.
LEMMA AndOr ==
  ASSUME NEW v, NEW w
  PROVE  /\ And(v, w) \in Word /\ BitsOf(And(v, w)) = BitsOf(v) \cap BitsOf(w)
         /\ Or(v, w) \in Word /\ BitsOf(Or(v, w)) = BitsOf(v) \cup BitsOf(w)
  <1>1. /\ BitsOf(v) \cap BitsOf(w) \in SUBSET (0 .. Digits - 1)
        /\ BitsOf(v) \cup BitsOf(w) \in SUBSET (0 .. Digits - 1)
    BY DEF BitsOf
  <1> QED BY <1>1, BitsMakeWord DEF And, Or

-----------------------------------------------------------------------------
(* The loops on words.                                                     *)

\* f gives the state of a loop after each of n rounds.
Rounds(f, A, start, step, n) ==
  /\ f \in [0 .. n -> A]
  /\ f = [k \in 0 .. n |-> IF k = 0 THEN start ELSE step[<<f[k - 1], k>>]]

\* There is such a function.
LEMMA LoopExists ==
  ASSUME NEW A, NEW start \in A, NEW step \in [A \X Nat -> A], NEW n \in Nat
  PROVE  \E f : Rounds(f, A, start, step, n)
  <1> DEFINE Loop(f, m) ==
               /\ f \in [0 .. m -> A]
               /\ f = [k \in 0 .. m |-> IF k = 0 THEN start ELSE step[<<f[k - 1], k>>]]
             T == {m \in Nat : \E f : Loop(f, m)}
  <1>1. 0 \in T
    <2> DEFINE f == [k \in 0 .. 0 |-> start]
    <2>1. Loop(f, 0)
      OBVIOUS
    <2> QED BY <2>1
  <1>2. ASSUME NEW m \in T PROVE m + 1 \in T
    <2>1. PICK f : Loop(f, m)
      OBVIOUS
    <2> DEFINE last == step[<<f[m], m + 1>>]
    <2>2. last \in A /\ m \in Nat
      BY <2>1
    <2> HIDE DEF last
    <2> DEFINE g == [k \in 0 .. m + 1 |-> IF k = m + 1 THEN last ELSE f[k]]
    <2>3. g \in [0 .. m + 1 -> A]
      <3>1. \A k \in 0 .. m + 1 : k # m + 1 => k \in 0 .. m
        BY <2>2
      <3> QED BY <2>1, <2>2, <3>1
    <2>4. \A k \in 0 .. m + 1 : g[k] = IF k = 0 THEN start ELSE step[<<g[k - 1], k>>]
      <3> SUFFICES ASSUME NEW k \in 0 .. m + 1
                   PROVE  g[k] = IF k = 0 THEN start ELSE step[<<g[k - 1], k>>]
        OBVIOUS
      <3>1. CASE k = m + 1
        <4>1. k # 0 /\ k - 1 = m /\ m \in 0 .. m + 1 /\ m # m + 1
          BY <2>2, <3>1
        <4>2. g[k] = last /\ g[m] = f[m]
          BY <3>1, <4>1
        <4> QED BY <3>1, <4>1, <4>2 DEF last
      <3>2. CASE k # m + 1
        <4>1. k \in 0 .. m /\ g[k] = f[k]
          BY <2>2, <3>2
        <4>2. f[k] = IF k = 0 THEN start ELSE step[<<f[k - 1], k>>]
          BY <2>1, <4>1
        <4>3. k # 0 => g[k - 1] = f[k - 1]
          BY <2>2, <4>1
        <4> QED BY <4>1, <4>2, <4>3
      <3> QED BY <3>1, <3>2
    <2>5. Loop(g, m + 1)
      <3>1. g = [k \in 0 .. m + 1 |-> g[k]]
        OBVIOUS
      <3> HIDE DEF g
      <3> QED BY <2>3, <2>4, <3>1
    <2>6. \E h : Loop(h, m + 1)
      <3> HIDE DEF g
      <3> QED BY <2>5
    <2> HIDE DEF g, Loop
    <2> QED BY <2>2, <2>6
  <1>3. T \in SUBSET Nat
    OBVIOUS
  <1> HIDE DEF T
  <1>4. n \in T
    BY <1>1, <1>2, <1>3, Induction
  <1> QED BY <1>4 DEF T, Rounds

\* Shifting a bit in moves the others down.
LEMMA ShiftedIn ==
  ASSUME NEW word \in Word, NEW set \in BOOLEAN
  PROVE  /\ ShiftIn(word, set) \in Word
         /\ \A i \in Nat : Bit(ShiftIn(word, set), i) <=> (i = Digits - 1 /\ set) \/ Bit(word, i + 1)
  <1> DEFINE e == Digits - 1
             h == word \div 2
             w == ShiftIn(word, set)
  <1>1. e \in Nat /\ 2^e \in Nat \ {0} /\ Modulus = 2 * 2^e /\ Modulus \div 2 = 2^e /\ e + 1 = Digits
    BY WordSize
  <1>2. word \in Nat /\ word < Modulus
    BY WordSize DEF Word
  <1>3. h \in Nat /\ h < 2^e
    BY <1>1, <1>2
  <1>4. \A i \in Nat : Bit(h, i) <=> Bit(word, i + 1)
    <2> SUFFICES ASSUME NEW i \in Nat PROVE Bit(h, i) <=> Bit(word, i + 1)
      OBVIOUS
    <2>1. 2^1 = 2 /\ 1 \in Nat /\ 1 + i = i + 1
      BY PowerIsPositive
    <2>2. Bit(word \div 2^1, i) <=> Bit(word, 1 + i)
      BY <1>2, <2>1, BitShifted
    <2> QED BY <2>1, <2>2
  <1>5. w = h + IF set THEN 2^e ELSE 0
    BY <1>1 DEF ShiftIn
  <1> HIDE DEF e, h
  <1>6. CASE set
    <2>1. w = h + 2^e
      BY <1>5, <1>6
    <2>2. w \in Word
      BY <1>1, <1>3, <2>1 DEF Word
    <2>3. \A i \in Nat : Bit(h + 2^e, i) <=> i = e \/ Bit(h, i)
      BY <1>1, <1>3, PowerSetsBit
    <2> QED BY <1>4, <1>6, <2>1, <2>2, <2>3 DEF e
  <1>7. CASE ~set
    <2>1. w = h
      BY <1>3, <1>5, <1>7
    <2>2. w \in Word
      BY <1>1, <1>3, <2>1 DEF Word
    <2> QED BY <1>4, <1>7, <2>1, <2>2
  <1> QED BY <1>6, <1>7

-----------------------------------------------------------------------------
(* How many bits of a mask lie below a position.                           *)

\* The count grows by one with each bit that is passed.
LEMMA RankGrows ==
  ASSUME NEW mask, NEW k \in Nat
  PROVE  /\ Rank(mask, k) \in Nat /\ Rank(mask, 0) = 0
         /\ Rank(mask, k + 1) = Rank(mask, k) + IF k \in BitsOf(mask) THEN 1 ELSE 0
  <1> DEFINE S == BitsOf(mask)
             Below(i) == {j \in S : j < i}
  <1>1. IsFiniteSet(S)
    <2>1. IsFiniteSet(0 .. Digits - 1)
      BY WordSize, FS_Interval
    <2> QED BY <2>1, FS_Subset DEF BitsOf
  <1>2. \A j \in S : j \in Nat
    BY DEF BitsOf
  <1> HIDE DEF S
  <1>3. ASSUME NEW i \in Nat PROVE IsFiniteSet(Below(i)) /\ Cardinality(Below(i)) \in Nat
    <2>1. Below(i) \subseteq S
      OBVIOUS
    <2> QED BY <1>1, <2>1, FS_Subset, FS_CardinalityType
  <1>4. Below(0) = {} /\ Cardinality({}) = 0
    BY <1>2, FS_EmptySet
  <1>5. Cardinality(Below(k + 1)) = Cardinality(Below(k)) + IF k \in S THEN 1 ELSE 0
    <2>1. CASE k \in S
      <3>1. \A j \in S : j < k + 1 <=> j < k \/ j = k
        BY <1>2
      <3>2. Below(k + 1) = Below(k) \cup {k} /\ k \notin Below(k)
        <4>1. \A j : j \in Below(k + 1) <=> j \in Below(k) \/ j = k
          BY <2>1, <3>1
        <4>2. k \notin Below(k)
          OBVIOUS
        <4> HIDE DEF Below
        <4> QED BY <4>1, <4>2
      <3> QED BY <1>3, <2>1, <3>2, FS_AddElement
    <2>2. CASE k \notin S
      <3>1. \A j \in S : j < k + 1 <=> j < k
        BY <1>2, <2>2
      <3>2. Below(k + 1) = Below(k)
        BY <3>1
      <3> QED BY <1>3, <2>2, <3>2
    <2> QED BY <2>1, <2>2
  <1> QED BY <1>3, <1>4, <1>5 DEF Rank, S

\* Counts keep the order of the positions, and never run ahead of them.
LEMMA RankOrder ==
  ASSUME NEW mask, NEW j \in Nat, NEW k \in Nat, j <= k
  PROVE  /\ Rank(mask, j) <= Rank(mask, k) /\ Rank(mask, k) - Rank(mask, j) <= k - j
         /\ j \in BitsOf(mask) /\ j < k => Rank(mask, j) < Rank(mask, k)
  <1> DEFINE R(i) == Rank(mask, i)
             Steady(i) == R(j) <= R(j + i) /\ R(j + i) - R(j) <= i
             T == {i \in Nat : Steady(i)}
  <1>1. ASSUME NEW i \in Nat
        PROVE  R(i) \in Nat /\ (R(i + 1) = R(i) \/ R(i + 1) = R(i) + 1)
                 /\ (i \in BitsOf(mask) => R(i + 1) = R(i) + 1)
    BY RankGrows
  <1> HIDE DEF R
  <1>2. 0 \in T
    <2>1. j + 0 = j
      OBVIOUS
    <2> QED BY <1>1, <2>1
  <1>3. ASSUME NEW i \in T PROVE i + 1 \in T
    <2>1. i \in Nat /\ Steady(i)
      OBVIOUS
    <2>2. PICK p \in Nat : p = j + i
      BY <2>1
    <2>3. j + (i + 1) = p + 1
      BY <2>1, <2>2
    <2>4. R(p) \in Nat /\ (R(p + 1) = R(p) \/ R(p + 1) = R(p) + 1) /\ R(j) \in Nat
      BY <1>1
    <2>5. Steady(i + 1)
      BY <2>1, <2>2, <2>3, <2>4
    <2> QED BY <2>1, <2>5
  <1>4. T \in SUBSET Nat
    OBVIOUS
  <1> HIDE DEF T
  <1>5. \A i \in Nat : i \in T
    BY <1>2, <1>3, <1>4, Induction
  <1>6. R(j) <= R(k) /\ R(k) - R(j) <= k - j
    <2>1. k - j \in Nat /\ j + (k - j) = k
      OBVIOUS
    <2>2. Steady(k - j)
      BY <1>5, <2>1 DEF T
    <2> QED BY <2>1, <2>2
  <1>7. ASSUME j \in BitsOf(mask), j < k PROVE R(j) < R(k)
    <2>1. PICK i \in Nat : k = (j + 1) + i
      BY <1>7, k - j - 1 \in Nat, k = (j + 1) + (k - j - 1)
    <2>2. R(j + 1) = R(j) + 1 /\ R(j) \in Nat /\ R(k) \in Nat
      BY <1>1, <1>7
    <2>3. R(j + 1) <= R(k)
      <3> DEFINE U == {n \in Nat : R(j + 1) <= R((j + 1) + n)}
      <3>1. 0 \in U
        <4>1. (j + 1) + 0 = j + 1
          OBVIOUS
        <4> QED BY <2>2, <4>1
      <3>2. ASSUME NEW n \in U PROVE n + 1 \in U
        <4>1. PICK p \in Nat : p = (j + 1) + n
          OBVIOUS
        <4>2. (j + 1) + (n + 1) = p + 1
          BY <4>1
        <4>3. R(p) \in Nat /\ (R(p + 1) = R(p) \/ R(p + 1) = R(p) + 1)
          BY <1>1
        <4> QED BY <2>2, <4>1, <4>2, <4>3
      <3>3. U \in SUBSET Nat
        OBVIOUS
      <3> HIDE DEF U
      <3>4. i \in U
        BY <3>1, <3>2, <3>3, Induction
      <3> QED BY <2>1, <3>4 DEF U
    <2> QED BY <2>2, <2>3
  <1> QED BY <1>6, <1>7 DEF R

\* Each count up to that of a position is the count of a bit before it.
LEMMA RankReaches ==
  ASSUME NEW mask, NEW k \in Nat
  PROVE  \A n \in Nat : n < Rank(mask, k) => \E j \in BitsOf(mask) : j < k /\ Rank(mask, j) = n
  <1> DEFINE R(i) == Rank(mask, i)
             S == BitsOf(mask)
             Reached(i) == \A n \in Nat : n < R(i) => \E j \in S : j < i /\ R(j) = n
             T == {i \in Nat : Reached(i)}
  <1>1. ASSUME NEW i \in Nat
        PROVE  R(i) \in Nat /\ R(0) = 0 /\ R(i + 1) = R(i) + IF i \in S THEN 1 ELSE 0
    BY RankGrows
  <1>2. \A j \in S : j \in Nat
    BY DEF BitsOf
  <1> HIDE DEF R, S
  <1>3. 0 \in T
    BY <1>1
  <1>4. ASSUME NEW i \in T PROVE i + 1 \in T
    <2>1. i \in Nat /\ Reached(i)
      OBVIOUS
    <2>2. R(i) \in Nat /\ R(i + 1) = R(i) + IF i \in S THEN 1 ELSE 0
      BY <1>1, <2>1
    <2>3. ASSUME NEW n \in Nat, n < R(i + 1) PROVE \E j \in S : j < i + 1 /\ R(j) = n
      <3>1. CASE n < R(i)
        <4>1. PICK j \in S : j < i /\ R(j) = n
          BY <2>1, <3>1
        <4>2. j < i + 1
          BY <1>2, <2>1, <4>1
        <4> QED BY <4>1, <4>2
      <3>2. CASE ~(n < R(i))
        <4>1. i \in S /\ n = R(i)
          BY <2>2, <2>3, <3>2
        <4> QED BY <2>1, <4>1
      <3> QED BY <3>1, <3>2
    <2> QED BY <2>1, <2>3
  <1>5. T \in SUBSET Nat
    OBVIOUS
  <1> HIDE DEF T
  <1>6. k \in T
    BY <1>3, <1>4, <1>5, Induction
  <1> QED BY <1>6 DEF T, R, S

\* What a mask consists of: its ends, and its number of bits.
LEMMA MaskShape ==
  ASSUME NEW mask \in Word \ {0}
  PROVE  LET S     == BitsOf(mask)
             least == LeastSetBitIndex(mask)
             most  == MostSetBitIndex(mask)
             count == CountBitsSet(mask)
         IN  /\ least \in S /\ most \in S /\ \A j \in S : least <= j /\ j <= most
             /\ least \in 0 .. Digits - 1 /\ most \in 0 .. Digits - 1 /\ least <= most
             /\ Rank(mask, least) = 0 /\ Rank(mask, most) = count - 1
             /\ Rank(mask, most + 1) = count
             /\ count \in Nat \ {0} /\ count <= Digits - least
  <1> DEFINE S     == BitsOf(mask)
             least == LeastSetBitIndex(mask)
             most  == MostSetBitIndex(mask)
             count == CountBitsSet(mask)
  <1>1. S \in SUBSET (0 .. Digits - 1) /\ S \in SUBSET Nat
    BY DEF BitsOf
  <1>2. S # {}
    <2>1. 0 \in Word /\ mask \in Word /\ mask # 0
      BY WordSize DEF Word
    <2>2. BitsOf(0) = {}
      <3>1. ASSUME NEW i \in 0 .. Digits - 1 PROVE ~Bit(0, i)
        BY PowerIsPositive, NoBitsAbove, 0 \in Nat, 0 < 2^0, 0 <= i, i \in Nat
      <3> QED BY <3>1 DEF BitsOf
    <2> QED BY <2>1, <2>2, WordsByBits
  <1>3. least \in S /\ \A j \in S : least <= j
    <2>1. \E m \in S : \A n \in S : m <= n
      BY <1>1, <1>2, LeastNatural
    <2> QED BY <2>1 DEF LeastSetBitIndex, Min
  <1>4. most \in S /\ \A j \in S : j <= most
    <2> DEFINE U == {Digits - 1 - j : j \in S}
    <2>1. U \in SUBSET Nat /\ U # {}
      BY <1>1, <1>2, WordSize
    <2>2. PICK m \in U : \A n \in U : m <= n
      BY <2>1, LeastNatural
    <2>3. PICK i \in S : m = Digits - 1 - i
      BY <2>2
    <2>4. \A j \in S : j <= i
      <3> SUFFICES ASSUME NEW j \in S PROVE j <= i
        OBVIOUS
      <3>1. m <= Digits - 1 - j
        BY <2>2
      <3> QED BY <1>1, <2>3, <3>1, WordSize
    <2>5. \E x \in S : \A y \in S : x >= y
      <3>1. \A y \in S : i >= y
        BY <1>1, <2>4
      <3> QED BY <3>1
    <2>6. most \in S /\ \A j \in S : most >= j
      BY <2>5 DEF MostSetBitIndex, Max
    <2> QED BY <1>1, <2>6
  <1> HIDE DEF least, most
  <1>5. least \in Nat /\ most \in Nat /\ least <= most /\ most <= Digits - 1
    BY <1>1, <1>3, <1>4
  <1>6. Rank(mask, least) = 0
    <2>1. {j \in S : j < least} = {}
      BY <1>1, <1>3
    <2> QED BY <2>1, FS_EmptySet DEF Rank
  <1>7. Rank(mask, most + 1) = count
    <2>1. \A j \in S : j < most + 1
      BY <1>1, <1>4, <1>5
    <2>2. {j \in S : j < most + 1} = S
      BY <2>1
    <2> QED BY <2>2 DEF Rank, CountBitsSet
  <1>8. Rank(mask, most + 1) = Rank(mask, most) + 1 /\ Rank(mask, most) \in Nat
    BY <1>4, <1>5, RankGrows
  <1>9. Rank(mask, most + 1) - Rank(mask, least) <= (most + 1) - least
    BY <1>5, RankOrder, least <= most + 1, most + 1 \in Nat
  <1> HIDE DEF count, S
  <1>10. count \in Nat \ {0} /\ Rank(mask, most) = count - 1 /\ count <= Digits - least
    BY <1>5, <1>6, <1>7, <1>8, <1>9, WordSize
  <1> QED BY <1>1, <1>3, <1>4, <1>5, <1>6, <1>7, <1>10 DEF count, S, least, most

-----------------------------------------------------------------------------
(* condense(): the gathered bits, shifted back.                            *)

\* Each round puts the next selected bit on top, and moves the earlier ones down.
LEMMA GatheredBits ==
  ASSUME NEW mask \in Word \ {0}, NEW value
  PROVE  /\ Gathered(mask, value) \in Word
         /\ \A i \in Nat :
              Bit(Gathered(mask, value), i) <=>
                \E j \in BitsOf(mask) :
                  Bit(value, j) /\ i = Digits - CountBitsSet(mask) + Rank(mask, j)
  <1> DEFINE n == MostSetBitIndex(mask) + 1
             S == BitsOf(mask)
             R(k) == Rank(mask, k)
             word[k \in 0 .. n] ==
               IF k = 0 THEN 0
               ELSE IF Bit(mask, k - 1) THEN ShiftIn(word[k - 1], Bit(value, k - 1)) ELSE word[k - 1]
             step == [p \in Word \X Nat |->
                        IF Bit(mask, p[2] - 1) THEN ShiftIn(p[1], Bit(value, p[2] - 1)) ELSE p[1]]
             Has(k) == /\ word[k] \in Word
                       /\ \A i \in Nat : Bit(word[k], i) <=>
                            \E j \in S : j < k /\ Bit(value, j) /\ i = Digits - R(k) + R(j)
             T == {k \in Nat : k <= n => Has(k)}
  <1>1. Gathered(mask, value) = word[n]
    BY DEF Gathered
  <1>2. n \in Nat /\ n \in 0 .. n /\ (\A j \in S : j < n /\ j \in Nat) /\ R(n) = CountBitsSet(mask)
    <2>1. /\ MostSetBitIndex(mask) \in 0 .. Digits - 1
          /\ \A j \in S : j <= MostSetBitIndex(mask)
          /\ R(n) = CountBitsSet(mask)
      BY MaskShape
    <2>2. \A j \in S : j \in Nat
      BY DEF BitsOf
    <2> HIDE DEF S, R
    <2> QED BY <2>1, <2>2
  <1>3. 0 \in Word
    BY WordSize DEF Word
  <1>4. step \in [Word \X Nat -> Word]
    <2>1. ASSUME NEW p \in Word \X Nat PROVE step[p] \in Word
      <3>1. ShiftIn(p[1], Bit(value, p[2] - 1)) \in Word
        <4>1. Bit(value, p[2] - 1) \in BOOLEAN /\ p[1] \in Word
          BY DEF Bit
        <4> QED BY <4>1, ShiftedIn
      <3> QED BY <3>1
    <2> QED BY <2>1
  <1> HIDE DEF n
  <1> HIDE DEF step
  <1>5. PICK f \in [0 .. n -> Word] :
          f = [k \in 0 .. n |-> IF k = 0 THEN 0 ELSE step[<<f[k - 1], k>>]]
    <2>1. \E f : Rounds(f, Word, 0, step, n)
      BY <1>2, <1>3, <1>4, LoopExists
    <2> QED BY <2>1 DEF Rounds
  <1>6. f = [k \in 0 .. n |->
               IF k = 0 THEN 0
               ELSE IF Bit(mask, k - 1) THEN ShiftIn(f[k - 1], Bit(value, k - 1)) ELSE f[k - 1]]
    <2>1. ASSUME NEW k \in 0 .. n, k # 0
          PROVE  step[<<f[k - 1], k>>] =
                   IF Bit(mask, k - 1) THEN ShiftIn(f[k - 1], Bit(value, k - 1)) ELSE f[k - 1]
      <3>1. k - 1 \in 0 .. n /\ k \in Nat
        BY <1>2, <2>1
      <3>2. <<f[k - 1], k>> \in Word \X Nat
        BY <3>1
      <3> QED BY <3>2 DEF step
    <2> QED BY <1>5, <2>1
  <1>7. word = [k \in 0 .. n |->
                  IF k = 0 THEN 0
                  ELSE IF Bit(mask, k - 1) THEN ShiftIn(word[k - 1], Bit(value, k - 1))
                  ELSE word[k - 1]]
    BY <1>6
  <1> HIDE DEF word
  <1>8. \A k \in 0 .. n :
          word[k] = IF k = 0 THEN 0
                    ELSE IF Bit(mask, k - 1) THEN ShiftIn(word[k - 1], Bit(value, k - 1))
                    ELSE word[k - 1]
    BY <1>7
  <1>9. ASSUME NEW k \in Nat
        PROVE  /\ R(k) \in Nat /\ R(k + 1) = R(k) + IF k \in S THEN 1 ELSE 0
               /\ Bit(mask, k) <=> k \in S
               /\ \A j \in S : j < k => R(j) < R(k) /\ R(j) \in Nat
    <2>1. \A j \in S : j \in Nat /\ (j < k => R(j) < R(k)) /\ R(j) \in Nat
      <3>1. \A j \in S : j \in Nat
        BY <1>2
      <3> QED BY <3>1, RankOrder, RankGrows
    <2> QED BY <2>1, RankGrows, WordsByBits
  <1> HIDE DEF R, S, Has
  <1>10. 0 \in T
    <2>1. word[0] = 0
      BY <1>2, <1>8
    <2>2. \A i \in Nat : ~Bit(0, i)
      BY PowerIsPositive, NoBitsAbove, 0 \in Nat, 0 < 2^0
    <2>3. \A j \in S : ~(j < 0)
      BY <1>2
    <2> QED BY <1>3, <2>1, <2>2, <2>3 DEF Has
  <1>11. ASSUME NEW k \in T PROVE k + 1 \in T
    <2> SUFFICES ASSUME k + 1 <= n PROVE Has(k + 1)
      OBVIOUS
    <2>1. k \in Nat /\ Has(k) /\ k + 1 \in 0 .. n /\ k + 1 # 0 /\ (k + 1) - 1 = k
      BY <1>2
    <2> HIDE DEF T
    <2>2. word[k + 1] = IF k \in S THEN ShiftIn(word[k], Bit(value, k)) ELSE word[k]
      <3>1. PICK m \in 0 .. n : m = k + 1 /\ m - 1 = k /\ m # 0
        BY <2>1
      <3>2. word[m] = IF Bit(mask, m - 1) THEN ShiftIn(word[m - 1], Bit(value, m - 1))
                      ELSE word[m - 1]
        BY <1>8, <3>1
      <3> QED BY <1>9, <2>1, <3>1, <3>2
    <2>3. \A j \in S : j < k + 1 <=> j < k \/ j = k
      BY <1>2, <2>1
    <2>4. /\ word[k] \in Word
          /\ \A i \in Nat : Bit(word[k], i) <=>
               \E j \in S : j < k /\ Bit(value, j) /\ i = Digits - R(k) + R(j)
      BY <2>1 DEF Has
    <2>5. CASE k \notin S
      <3>1. word[k + 1] = word[k] /\ R(k + 1) = R(k)
        BY <1>9, <2>1, <2>2, <2>5
      <3>2. \A j \in S : j < k + 1 <=> j < k
        <4>1. \A j \in S : j # k
          BY <2>5
        <4> QED BY <2>3, <4>1
      <3>3. \A i \in Nat :
              (\E j \in S : j < k + 1 /\ Bit(value, j) /\ i = Digits - R(k + 1) + R(j))
                <=> (\E j \in S : j < k /\ Bit(value, j) /\ i = Digits - R(k) + R(j))
        BY <3>1, <3>2
      <3> QED BY <2>4, <3>1, <3>3 DEF Has
    <2>6. CASE k \in S
      <3>1. word[k + 1] = ShiftIn(word[k], Bit(value, k)) /\ R(k + 1) = R(k) + 1 /\ R(k) \in Nat
        BY <1>9, <2>1, <2>2, <2>6
      <3>2. Bit(value, k) \in BOOLEAN
        BY DEF Bit
      <3>3. /\ word[k + 1] \in Word
            /\ \A i \in Nat : Bit(word[k + 1], i) <=>
                                (i = Digits - 1 /\ Bit(value, k)) \/ Bit(word[k], i + 1)
        BY <2>4, <3>1, <3>2, ShiftedIn
      <3>4. \A i \in Nat : Bit(word[k], i + 1) <=>
              \E j \in S : j < k /\ Bit(value, j) /\ i + 1 = Digits - R(k) + R(j)
        BY <2>4, \A i \in Nat : i + 1 \in Nat
      <3>5. \A i \in Nat, j \in S :
              j < k => (i + 1 = Digits - R(k) + R(j) <=> i = Digits - R(k + 1) + R(j))
        <4>1. \A j \in S : j < k => R(j) \in Nat
          BY <1>9, <2>1
        <4>2. R(k) \in Nat /\ R(k + 1) = R(k) + 1 /\ Digits \in Nat
          BY <3>1, WordSize
        <4> QED BY <4>1, <4>2
      <3>6. \A i \in Nat : i = Digits - 1 <=> i = Digits - R(k + 1) + R(k)
        BY <3>1, WordSize
      <3>7. ASSUME NEW i \in Nat
            PROVE  Bit(word[k + 1], i) <=>
                     \E j \in S : j < k + 1 /\ Bit(value, j) /\ i = Digits - R(k + 1) + R(j)
        <4>1. (\E j \in S : j < k /\ Bit(value, j) /\ i + 1 = Digits - R(k) + R(j))
                <=> (\E j \in S : j < k /\ Bit(value, j) /\ i = Digits - R(k + 1) + R(j))
          BY <3>5
        <4>2. (\E j \in S : j < k + 1 /\ Bit(value, j) /\ i = Digits - R(k + 1) + R(j))
                <=> \/ \E j \in S : j < k /\ Bit(value, j) /\ i = Digits - R(k + 1) + R(j)
                    \/ Bit(value, k) /\ i = Digits - R(k + 1) + R(k)
          BY <2>3, <2>6
        <4> QED BY <3>3, <3>4, <3>6, <4>1, <4>2
      <3> QED BY <3>3, <3>7 DEF Has
    <2> QED BY <2>5, <2>6
  <1>12. T \in SUBSET Nat
    OBVIOUS
  <1> HIDE DEF T
  <1>13. \A k \in Nat : k \in T
    BY <1>10, <1>11, <1>12, Induction
  <1>14. Has(n)
    BY <1>2, <1>13, n <= n DEF T
  <1>15. /\ word[n] \in Word
         /\ \A i \in Nat : Bit(word[n], i) <=>
              \E j \in S : Bit(value, j) /\ i = Digits - CountBitsSet(mask) + R(j)
    BY <1>2, <1>14 DEF Has
  <1> QED BY <1>1, <1>15 DEF R, S

\* Where the bits of a condensed value start.
BaseOf(mask, aligned) == IF aligned THEN 0 ELSE LeastSetBitIndex(mask)

\* The word c has the bits of the value that the mask selects, one after the other.
Gathers(c, mask, value, base) ==
  /\ c \in Word
  /\ \A i \in Nat : Bit(c, i) <=> \E j \in BitsOf(mask) : Bit(value, j) /\ i = base + Rank(mask, j)

\* condense() gathers them, at the bottom or where the mask starts.
LEMMA CondensedBits ==
  ASSUME NEW mask \in Word \ {0}, NEW value, NEW aligned \in BOOLEAN
  PROVE  /\ ShiftBack(mask, aligned) \in Nat
         /\ Gathers(Condense(mask, value, aligned, FALSE), mask, value, BaseOf(mask, aligned))
  <1> DEFINE S     == BitsOf(mask)
             g     == Gathered(mask, value)
             count == CountBitsSet(mask)
             base  == BaseOf(mask, aligned)
             shift == ShiftBack(mask, aligned)
             c     == Condense(mask, value, aligned, FALSE)
             R(j)  == Rank(mask, j)
  <1>1. /\ count \in Nat /\ base \in Nat /\ Digits \in Nat /\ shift \in Nat
        /\ Digits - count = shift + base
    BY MaskShape, WordSize DEF ShiftBack, BaseOf
  <1>2. \A j \in S : R(j) \in Nat
    <2>1. \A j \in S : j \in Nat
      BY DEF BitsOf
    <2> QED BY <2>1, RankGrows
  <1>3. /\ g \in Word
        /\ \A i \in Nat : Bit(g, i) <=> \E j \in S : Bit(value, j) /\ i = Digits - count + R(j)
    BY GatheredBits
  <1>4. g \in Nat /\ g < Modulus
    BY <1>3, WordSize DEF Word
  <1>5. g \div 2^shift \in Nat /\ g \div 2^shift <= g
    BY <1>1, <1>4, BitShifted, 0 \in Nat
  <1>6. c = g \div 2^shift
    BY <1>5 DEF Condense
  <1> HIDE DEF S, g, count, base, shift, c, R
  <1>7. c \in Word
    BY <1>4, <1>5, <1>6, WordSize DEF Word
  <1>8. ASSUME NEW i \in Nat
        PROVE  Bit(c, i) <=> \E j \in S : Bit(value, j) /\ i = base + R(j)
    <2>1. Bit(c, i) <=> Bit(g, shift + i)
      BY <1>1, <1>4, <1>6, BitShifted
    <2>2. Bit(g, shift + i) <=> \E j \in S : Bit(value, j) /\ shift + i = Digits - count + R(j)
      BY <1>1, <1>3, shift + i \in Nat
    <2>3. \A j \in S : shift + i = Digits - count + R(j) <=> i = base + R(j)
      BY <1>1, <1>2
    <2> QED BY <2>1, <2>2, <2>3
  <1> QED BY <1>1, <1>7, <1>8 DEF Gathers, S, base, shift, c, R

-----------------------------------------------------------------------------
(* expand(): the bits of a value, at the positions of the mask.            *)

\* Each round takes the next bit of the value if the mask has the position.
LEMMA SpreadBits ==
  ASSUME NEW mask \in Word \ {0}, NEW packed \in Nat, NEW m, m = LeastSetBitIndex(mask),
         NEW span, span = MostSetBitIndex(mask) - m + 1
  PROVE  /\ Spread(mask, packed, m, span) \in Word
         /\ \A i \in Nat :
              Bit(Spread(mask, packed, m, span), i) <=>
                \E j \in BitsOf(mask) : Bit(packed, Rank(mask, j)) /\ i = Digits - span + (j - m)
  <1> DEFINE S == BitsOf(mask)
             R(k) == Rank(mask, k)
             A == [word : Word, left : Nat]
             start == [word |-> 0, left |-> packed]
             Turn(before, k) ==
               [word |-> ShiftIn(before.word, Bit(mask, m + k - 1) /\ Bit(before.left, 0)),
                left |-> IF Bit(mask, m + k - 1) THEN before.left \div 2 ELSE before.left]
             step[k \in 0 .. span] ==
               LET before == step[k - 1]
                   selects == Bit(mask, m + k - 1)
               IN  IF k = 0 THEN [word |-> 0, left |-> packed]
                   ELSE [word |-> ShiftIn(before.word, selects /\ Bit(before.left, 0)),
                         left |-> IF selects THEN before.left \div 2 ELSE before.left]
             turn == [p \in A \X Nat |-> Turn(p[1], p[2])]
             Has(k) == /\ step[k].word \in Word /\ step[k].left \in Nat
                       /\ \A i \in Nat : Bit(step[k].left, i) <=> Bit(packed, R(m + k) + i)
                       /\ \A i \in Nat : Bit(step[k].word, i) <=>
                            \E j \in S : j < m + k /\ Bit(packed, R(j)) /\ i = Digits - k + (j - m)
             T == {k \in Nat : k <= span => Has(k)}
  <1>1. Spread(mask, packed, m, span) = step[span].word
    BY DEF Spread
  <1>2. /\ m \in Nat /\ span \in Nat /\ R(m) = 0 /\ Digits \in Nat
        /\ \A j \in S : m <= j /\ j < m + span /\ j \in Nat
    <2>1. /\ MostSetBitIndex(mask) \in 0 .. Digits - 1 /\ m \in 0 .. Digits - 1
          /\ m <= MostSetBitIndex(mask) /\ R(m) = 0
          /\ \A j \in S : m <= j /\ j <= MostSetBitIndex(mask)
      BY MaskShape
    <2>2. \A j \in S : j \in Nat
      BY DEF BitsOf
    <2> HIDE DEF S, R
    <2> QED BY <2>1, <2>2, WordSize
  <1>3. 0 \in Word
    BY WordSize DEF Word
  <1>4. ASSUME NEW before \in A, NEW k PROVE Turn(before, k) \in A
    <2>1. ShiftIn(before.word, Bit(mask, m + k - 1) /\ Bit(before.left, 0)) \in Word
      <3>1. (Bit(mask, m + k - 1) /\ Bit(before.left, 0)) \in BOOLEAN /\ before.word \in Word
        BY DEF Bit
      <3> QED BY <3>1, ShiftedIn
    <2>2. before.left \div 2 \in Nat
      BY before.left \in Nat
    <2> QED BY <2>1, <2>2
  <1> HIDE DEF Turn
  <1>5. turn \in [A \X Nat -> A] /\ start \in A
    BY <1>3, <1>4
  <1> HIDE DEF turn, A
  <1>6. PICK f \in [0 .. span -> A] :
          f = [k \in 0 .. span |-> IF k = 0 THEN start ELSE turn[<<f[k - 1], k>>]]
    <2>1. \E f : Rounds(f, A, start, turn, span)
      <3> HIDE DEF start
      <3> QED BY <1>2, <1>5, LoopExists
    <2> QED BY <2>1 DEF Rounds
  <1>7. f = [k \in 0 .. span |-> IF k = 0 THEN start ELSE Turn(f[k - 1], k)]
    <2>1. ASSUME NEW k \in 0 .. span, k # 0 PROVE turn[<<f[k - 1], k>>] = Turn(f[k - 1], k)
      <3>1. k - 1 \in 0 .. span /\ k \in Nat
        BY <1>2, <2>1
      <3>2. <<f[k - 1], k>> \in A \X Nat
        BY <3>1
      <3> QED BY <3>2 DEF turn
    <2> HIDE DEF start
    <2> QED BY <1>6, <2>1
  <1>8. step = [k \in 0 .. span |-> IF k = 0 THEN start ELSE Turn(step[k - 1], k)]
    BY <1>7 DEF Turn
  <1> HIDE DEF step
  <1>9. \A k \in 0 .. span : step[k] = IF k = 0 THEN start ELSE Turn(step[k - 1], k)
    BY <1>8
  <1>10. ASSUME NEW k \in Nat
         PROVE  /\ R(k) \in Nat /\ R(k + 1) = R(k) + IF k \in S THEN 1 ELSE 0
                /\ Bit(mask, k) <=> k \in S
    BY RankGrows, WordsByBits
  <1> HIDE DEF R, S, Has
  <1>11. 0 \in T
    <2>1. step[0] = start /\ m + 0 = m
      BY <1>2, <1>9
    <2>2. \A i \in Nat : ~Bit(0, i)
      BY PowerIsPositive, NoBitsAbove, 0 \in Nat, 0 < 2^0
    <2>3. \A j \in S : ~(j < m)
      BY <1>2
    <2>4. \A i \in Nat : R(m) + i = i
      BY <1>2
    <2> QED BY <1>3, <2>1, <2>2, <2>3, <2>4 DEF Has
  <1>12. ASSUME NEW k \in T PROVE k + 1 \in T
    <2> SUFFICES ASSUME k + 1 <= span PROVE Has(k + 1)
      OBVIOUS
    <2>1. k \in Nat /\ Has(k)
      BY <1>2
    <2> HIDE DEF T
    <2>2. PICK p \in Nat : p = m + k
      BY <1>2, <2>1
    <2> DEFINE w == step[k].word
               l == step[k].left
               b == p \in S /\ Bit(l, 0)
    <2>3. /\ w \in Word /\ l \in Nat
          /\ \A i \in Nat : Bit(l, i) <=> Bit(packed, R(p) + i)
          /\ \A i \in Nat : Bit(w, i) <=>
               \E j \in S : j < p /\ Bit(packed, R(j)) /\ i = Digits - k + (j - m)
      BY <2>1, <2>2 DEF Has
    <2>4. step[k + 1] = [word |-> ShiftIn(w, b), left |-> IF p \in S THEN l \div 2 ELSE l]
      <3>1. PICK q \in 0 .. span : q = k + 1 /\ q - 1 = k /\ q # 0 /\ m + q - 1 = p
        BY <1>2, <2>1, <2>2
      <3>2. step[q] = Turn(step[q - 1], q)
        BY <1>9, <3>1
      <3>3. Bit(mask, p) <=> p \in S
        BY <1>10
      <3>4. (Bit(mask, p) /\ Bit(l, 0)) = b
        BY <3>3 DEF Bit
      <3>5. Turn(step[k], q) = [word |-> ShiftIn(w, Bit(mask, p) /\ Bit(l, 0)),
                                left |-> IF Bit(mask, p) THEN l \div 2 ELSE l]
        BY <3>1 DEF Turn
      <3> QED BY <3>1, <3>2, <3>3, <3>4, <3>5
    <2>5. b \in BOOLEAN
      OBVIOUS
    <2>6. /\ step[k + 1].word \in Word
          /\ \A i \in Nat : Bit(step[k + 1].word, i) <=> (i = Digits - 1 /\ b) \/ Bit(w, i + 1)
      <3> HIDE DEF w, l, b
      <3> QED BY <2>3, <2>4, <2>5, ShiftedIn
    <2>7. b <=> p \in S /\ Bit(packed, R(p))
      <3>1. R(p) + 0 = R(p)
        BY <1>10
      <3>2. Bit(l, 0) <=> Bit(packed, R(p) + 0)
        BY <2>3, 0 \in Nat
      <3> QED BY <3>1, <3>2
    <2> HIDE DEF w, l, b
    <2>8. /\ step[k + 1].left \in Nat
          /\ \A i \in Nat : Bit(step[k + 1].left, i) <=> Bit(packed, R(p + 1) + i)
      <3>1. CASE p \in S
        <4>1. step[k + 1].left = l \div 2 /\ R(p + 1) = R(p) + 1 /\ R(p) \in Nat
          BY <1>10, <2>4, <3>1
        <4>2. l \div 2 \in Nat
          BY <2>3
        <4>3. ASSUME NEW i \in Nat PROVE Bit(l \div 2, i) <=> Bit(packed, R(p) + 1 + i)
          <5>1. 2^1 = 2 /\ 1 \in Nat
            BY PowerIsPositive
          <5>2. Bit(l \div 2^1, i) <=> Bit(l, 1 + i)
            BY <2>3, <5>1, BitShifted
          <5>3. Bit(l, 1 + i) <=> Bit(packed, R(p) + (1 + i))
            BY <2>3, 1 + i \in Nat
          <5>4. R(p) + (1 + i) = R(p) + 1 + i
            BY <4>1
          <5> QED BY <5>1, <5>2, <5>3, <5>4
        <4> QED BY <4>1, <4>2, <4>3
      <3>2. CASE p \notin S
        <4>1. step[k + 1].left = l /\ R(p + 1) = R(p)
          BY <1>10, <2>4, <3>2
        <4> QED BY <2>3, <4>1
      <3> QED BY <3>1, <3>2
    <2>9. ASSUME NEW i \in Nat
          PROVE  Bit(step[k + 1].word, i) <=>
                   \E j \in S : j < p + 1 /\ Bit(packed, R(j)) /\ i = Digits - (k + 1) + (j - m)
      <3>1. \A j \in S : /\ j < p + 1 <=> j < p \/ j = p
                         /\ i + 1 = Digits - k + (j - m) <=> i = Digits - (k + 1) + (j - m)
        <4>1. ASSUME NEW j \in Nat, m <= j
              PROVE  /\ j < p + 1 <=> j < p \/ j = p
                     /\ i + 1 = Digits - k + (j - m) <=> i = Digits - (k + 1) + (j - m)
          <5>1. (j < p + 1) <=> (j < p \/ j = p)
            OBVIOUS
          <5>2. (i + 1 = Digits - k + (j - m)) <=> (i = Digits - (k + 1) + (j - m))
            <6>1. \A x, y, z, u \in Int : (i + 1 = x - y + (z - u)) <=> (i = x - (y + 1) + (z - u))
              OBVIOUS
            <6>2. Digits \in Int /\ k \in Int /\ j \in Int /\ m \in Int
              BY <1>2, <2>1
            <6> QED BY <6>1, <6>2
          <5> QED BY <5>1, <5>2
        <4> QED BY <1>2, <4>1
      <3>2. i = Digits - 1 <=> i = Digits - (k + 1) + (p - m)
        <4>1. Digits - (k + 1) + (p - m) = Digits - 1
          BY <1>2, <2>1, <2>2
        <4> QED BY <4>1
      <3>3. Bit(w, i + 1) <=> \E j \in S : j < p /\ Bit(packed, R(j)) /\ i + 1 = Digits - k + (j - m)
        BY <2>3, i + 1 \in Nat
      <3> QED BY <2>6, <2>7, <3>1, <3>2, <3>3
    <2>10. m + (k + 1) = p + 1
      BY <1>2, <2>1, <2>2
    <2> QED BY <2>6, <2>8, <2>9, <2>10 DEF Has
  <1>13. T \in SUBSET Nat
    OBVIOUS
  <1> HIDE DEF T
  <1>14. \A k \in Nat : k \in T
    BY <1>11, <1>12, <1>13, Induction
  <1>15. Has(span)
    BY <1>2, <1>14, span <= span DEF T
  <1>16. /\ step[span].word \in Word
         /\ \A i \in Nat : Bit(step[span].word, i) <=>
              \E j \in S : Bit(packed, R(j)) /\ i = Digits - span + (j - m)
    BY <1>2, <1>15 DEF Has
  <1> QED BY <1>1, <1>16 DEF R, S

\* The bits of an expanded value: each where the mask has its place.
LEMMA ExpandedBits ==
  ASSUME NEW mask \in Word \ {0}, NEW value \in Nat, NEW aligned \in BOOLEAN
  PROVE  /\ Expand(mask, value, aligned) \in Word
         /\ \A i \in Nat :
              Bit(Expand(mask, value, aligned), i) <=>
                /\ i \in BitsOf(mask)
                /\ Bit(value, BaseOf(mask, aligned) + Rank(mask, i))
  <1> DEFINE S      == BitsOf(mask)
             m      == LeastSetBitIndex(mask)
             span   == MostSetBitIndex(mask) - m + 1
             base   == BaseOf(mask, aligned)
             packed == IF aligned THEN value ELSE value \div 2^m
             w      == Spread(mask, packed, m, span)
             shift  == Digits - span - m
             e      == Expand(mask, value, aligned)
             R(j)   == Rank(mask, j)
  <1>1. /\ m \in Nat /\ span \in Nat /\ shift \in Nat /\ base \in Nat /\ Digits \in Nat
        /\ Digits - span = shift + m
    <2>1. /\ m \in 0 .. Digits - 1 /\ MostSetBitIndex(mask) \in 0 .. Digits - 1
          /\ m <= MostSetBitIndex(mask)
      BY MaskShape
    <2>2. base \in {0, m}
      BY DEF BaseOf
    <2> HIDE DEF m, base
    <2> QED BY <2>1, <2>2, WordSize
  <1>2. \A j \in S : R(j) \in Nat /\ j \in Nat
    <2>1. \A j \in S : j \in Nat
      BY DEF BitsOf
    <2> QED BY <2>1, RankGrows
  <1>3. packed \in Nat /\ \A i \in Nat : Bit(packed, i) <=> Bit(value, base + i)
    <2>1. CASE aligned
      <3>1. (\A i \in Nat : 0 + i = i) /\ base = 0
        BY <2>1 DEF BaseOf
      <3> HIDE DEF base
      <3> QED BY <2>1, <3>1
    <2>2. CASE ~aligned
      <3>1. packed = value \div 2^m /\ base = m
        BY <2>2 DEF BaseOf
      <3> HIDE DEF m
      <3> HIDE DEF packed, base
      <3>2. \A i \in Nat : /\ Bit(value \div 2^m, i) <=> Bit(value, m + i)
                           /\ value \div 2^m \in Nat
        BY <1>1, BitShifted
      <3> QED BY <3>1, <3>2, 0 \in Nat
    <2> QED BY <2>1, <2>2
  <1>4. e = w \div 2^shift
    BY DEF Expand
  <1> HIDE DEF packed
  <1>5. /\ w \in Word
        /\ \A i \in Nat : Bit(w, i) <=> \E j \in S : Bit(packed, R(j)) /\ i = Digits - span + (j - m)
    <2> HIDE DEF m
    <2> DEFINE n == MostSetBitIndex(mask) - m + 1
    <2> HIDE DEF n
    <2>1. \A i \in Nat : Bit(Spread(mask, packed, m, n), i) <=>
            \E j \in S : Bit(packed, R(j)) /\ i = Digits - n + (j - m)
      BY <1>3, SpreadBits DEF m, n
    <2>2. Spread(mask, packed, m, n) \in Word
      BY <1>3, SpreadBits DEF m, n
    <2> QED BY <2>1, <2>2 DEF n
  <1> HIDE DEF S, w, shift, e, R, base, m, span
  <1>6. w \in Nat /\ w < Modulus
    BY <1>5, WordSize DEF Word
  <1>7. w \div 2^shift \in Nat /\ w \div 2^shift <= w
    BY <1>1, <1>6, BitShifted, 0 \in Nat
  <1>8. e \in Word
    BY <1>4, <1>6, <1>7, WordSize DEF Word
  <1>9. ASSUME NEW i \in Nat PROVE Bit(e, i) <=> i \in S /\ Bit(value, base + R(i))
    <2>1. Bit(e, i) <=> Bit(w, shift + i)
      BY <1>1, <1>4, <1>6, BitShifted
    <2>2. Bit(w, shift + i) <=> \E j \in S : Bit(packed, R(j)) /\ shift + i = Digits - span + (j - m)
      BY <1>1, <1>5, shift + i \in Nat
    <2>3. \A j \in S : (shift + i = Digits - span + (j - m)) <=> (i = j)
      <3>1. ASSUME NEW j \in Nat PROVE (shift + i = Digits - span + (j - m)) <=> (i = j)
        BY <1>1
      <3> QED BY <1>2, <3>1
    <2>4. \A j \in S : Bit(packed, R(j)) <=> Bit(value, base + R(j))
      BY <1>2, <1>3
    <2> QED BY <2>1, <2>2, <2>3, <2>4
  <1> QED BY <1>8, <1>9 DEF S, e, R, base, m

-----------------------------------------------------------------------------
(* Condensing and expanding, one after the other.                          *)

\* Bits of a mask are told apart by their counts.
LEMMA RankInjective ==
  ASSUME NEW mask, NEW i \in BitsOf(mask), NEW j \in BitsOf(mask),
         Rank(mask, i) = Rank(mask, j)
  PROVE  i = j
  <1>1. i \in Nat /\ j \in Nat
    BY DEF BitsOf
  <1>2. Rank(mask, i) \in Nat /\ Rank(mask, j) \in Nat
    BY <1>1, RankGrows
  <1>3. ~(i < j)
    <2>1. i < j => Rank(mask, i) < Rank(mask, j)
      BY <1>1, RankOrder
    <2> QED BY <1>2, <2>1
  <1>4. ~(j < i)
    <2>1. j < i => Rank(mask, j) < Rank(mask, i)
      BY <1>1, RankOrder
    <2> QED BY <1>2, <2>1
  <1> QED BY <1>1, <1>3, <1>4

\* Words with the same bits are the same.
LEMMA SameWord ==
  ASSUME NEW v \in Word, NEW w \in Word, \A i \in Nat : Bit(v, i) <=> Bit(w, i)
  PROVE  v = w
  <1>1. v \in Nat /\ v < 2^Digits /\ w \in Nat /\ w < 2^Digits /\ Digits \in Nat
    BY WordsByBits, WordSize
  <1>2. \A i \in 0 .. Digits - 1 : Bit(v, i) <=> Bit(w, i)
    OBVIOUS
  <1> QED BY <1>1, <1>2, SameBits

\* Expanding what was condensed gives the selected bits.
LEMMA ExpandedAgain ==
  ASSUME NEW mask \in Word \ {0}, NEW value \in Word, NEW aligned \in BOOLEAN
  PROVE  Expand(mask, Condense(mask, value, aligned, FALSE), aligned) = And(mask, value)
  <1> DEFINE S    == BitsOf(mask)
             c    == Condense(mask, value, aligned, FALSE)
             e    == Expand(mask, c, aligned)
             base == BaseOf(mask, aligned)
             R(j) == Rank(mask, j)
  <1>1. /\ c \in Word
        /\ \A i \in Nat : Bit(c, i) <=> \E j \in S : Bit(value, j) /\ i = base + R(j)
    <2>1. Gathers(c, mask, value, base)
      BY CondensedBits
    <2> HIDE DEF c, base
    <2> QED BY <2>1 DEF Gathers
  <1>2. c \in Nat /\ base \in Nat
    <2>1. base \in Nat
      BY MaskShape DEF BaseOf
    <2> HIDE DEF c
    <2> QED BY <1>1, <2>1, WordsByBits
  <1>3. /\ e \in Word
        /\ \A i \in Nat : Bit(e, i) <=> i \in S /\ Bit(c, base + R(i))
    <2> HIDE DEF c
    <2> QED BY <1>2, ExpandedBits
  <1>4. \A j \in S : j \in Nat /\ R(j) \in Nat
    <2>1. \A j \in S : j \in Nat
      BY DEF BitsOf
    <2> QED BY <2>1, RankGrows
  <1>5. \A i, j \in S : R(i) = R(j) => i = j
    BY RankInjective
  <1> HIDE DEF S, c, e, base, R
  <1>6. ASSUME NEW i \in Nat PROVE Bit(e, i) <=> i \in S /\ Bit(value, i)
    <2>1. CASE i \in S
      <3>1. base + R(i) \in Nat
        BY <1>2, <1>4, <2>1
      <3>2. Bit(c, base + R(i)) <=> \E j \in S : Bit(value, j) /\ base + R(i) = base + R(j)
        BY <1>1, <3>1
      <3>3. \A j \in S : base + R(i) = base + R(j) => i = j
        <4> SUFFICES ASSUME NEW j \in S, base + R(i) = base + R(j) PROVE i = j
          OBVIOUS
        <4>1. R(i) = R(j)
          BY <1>2, <1>4, <2>1
        <4> QED BY <1>5, <2>1, <4>1
      <3> QED BY <1>3, <2>1, <3>2, <3>3
    <2>2. CASE i \notin S
      BY <1>3, <2>2
    <2> QED BY <2>1, <2>2
  <1>7. /\ And(mask, value) \in Word
        /\ \A i \in Nat : Bit(And(mask, value), i) <=> i \in S /\ Bit(value, i)
    <2>1. And(mask, value) \in Word /\ BitsOf(And(mask, value)) = BitsOf(mask) \cap BitsOf(value)
      BY AndOr
    <2>2. \A i \in Nat : Bit(And(mask, value), i) <=> i \in BitsOf(And(mask, value))
      BY <2>1, WordsByBits
    <2>3. \A i \in Nat : Bit(value, i) <=> i \in BitsOf(value)
      BY WordsByBits
    <2> QED BY <2>1, <2>2, <2>3 DEF S
  <1> QED BY <1>3, <1>6, <1>7, SameWord DEF e, c

\* Condensing what was expanded gives it back if the mask has a bit for each of its.
LEMMA CondensedAgain ==
  ASSUME NEW mask \in Word \ {0}, NEW value \in Word
  PROVE  ReadsAsScoped(mask, value) <=> value < 2^CountBitsSet(mask)
  <1> DEFINE S     == BitsOf(mask)
             count == CountBitsSet(mask)
             e     == Expand(mask, value, TRUE)
             c     == Condense(mask, e, TRUE, FALSE)
             R(j)  == Rank(mask, j)
  <1>1. value \in Nat /\ value < 2^Digits /\ Digits \in Nat
    BY WordsByBits, WordSize
  <1>2. /\ \A j \in S : j \in Nat /\ R(j) \in Nat /\ R(j) < count
        /\ count \in Nat
        /\ \A i \in Nat : i < count => \E j \in S : R(j) = i
    <2>1. \A j \in S : j \in Nat
      BY DEF BitsOf
    <2> DEFINE n == MostSetBitIndex(mask) + 1
    <2>2. n \in Nat /\ R(n) = count /\ count \in Nat /\ \A j \in S : j < n
      <3>1. /\ MostSetBitIndex(mask) \in 0 .. Digits - 1 /\ R(n) = count /\ count \in Nat
            /\ \A j \in S : j <= MostSetBitIndex(mask)
        BY MaskShape
      <3> HIDE DEF S, R, count
      <3> QED BY <2>1, <3>1
    <2> HIDE DEF n
    <2>3. \A j \in S : j <= n
      BY <2>1, <2>2
    <2>4. \A j \in S : R(j) < count
      BY <2>1, <2>2, <2>3, RankOrder
    <2>5. \A j \in S : R(j) \in Nat
      BY <2>1, RankGrows
    <2>6. \A i \in Nat : i < R(n) => \E j \in S : j < n /\ R(j) = i
      BY <2>2, RankReaches
    <2> HIDE DEF S, R, count
    <2> QED BY <2>1, <2>2, <2>4, <2>5, <2>6
  <1>3. \A i \in Nat : Bit(e, i) <=> i \in S /\ Bit(value, R(i))
    <2>1. \A i \in Nat : Bit(e, i) <=> i \in S /\ Bit(value, 0 + R(i))
      <3>1. TRUE \in BOOLEAN /\ BaseOf(mask, TRUE) = 0
        BY DEF BaseOf
      <3> QED BY <1>1, <3>1, ExpandedBits
    <2>2. \A i \in S : 0 + R(i) = R(i)
      BY <1>2
    <2> HIDE DEF S, e, R
    <2> QED BY <2>1, <2>2
  <1>4. c \in Word /\ \A i \in Nat : Bit(c, i) <=> \E j \in S : Bit(e, j) /\ i = R(j)
    <2> HIDE DEF e
    <2>1. c \in Word /\ \A i \in Nat : Bit(c, i) <=> \E j \in S : Bit(e, j) /\ i = 0 + R(j)
      <3>1. TRUE \in BOOLEAN /\ BaseOf(mask, TRUE) = 0
        BY DEF BaseOf
      <3>2. Gathers(c, mask, e, 0)
        BY <3>1, CondensedBits
      <3> HIDE DEF c
      <3> QED BY <3>2 DEF Gathers
    <2>2. \A j \in S : 0 + R(j) = R(j)
      BY <1>2
    <2> HIDE DEF S, R, c
    <2> QED BY <2>1, <2>2
  <1>5. ReadsAsScoped(mask, value) <=> c = value
    BY DEF ReadsAsScoped
  <1> HIDE DEF S, count, e, c, R
  <1>6. \A i \in Nat : Bit(c, i) <=> i < count /\ Bit(value, i)
    <2> SUFFICES ASSUME NEW i \in Nat PROVE Bit(c, i) <=> i < count /\ Bit(value, i)
      OBVIOUS
    <2>1. Bit(c, i) <=> \E j \in S : Bit(value, R(j)) /\ i = R(j)
      BY <1>2, <1>3, <1>4
    <2> QED BY <1>2, <2>1
  <1>7. ASSUME c = value PROVE value < 2^count
    <2>1. \A i \in Nat : count <= i /\ i < Digits => ~Bit(value, i)
      BY <1>2, <1>6, <1>7
    <2> QED BY <1>1, <1>2, <2>1, BoundByBits
  <1>8. ASSUME value < 2^count PROVE c = value
    <2>1. \A i \in Nat : count <= i => ~Bit(value, i)
      BY <1>1, <1>2, <1>8, NoBitsAbove
    <2>2. \A i \in Nat : Bit(c, i) <=> Bit(value, i)
      BY <1>2, <1>6, <2>1
    <2> QED BY <1>4, <2>2, SameWord
  <1> QED BY <1>5, <1>7, <1>8 DEF count

\* No bits make zero, and zero has none.
LEMMA ZeroHasNoBits ==
  /\ 0 \in Word /\ BitsOf(0) = {} /\ \A i \in Nat : ~Bit(0, i)
  /\ \A v \in Word : BitsOf(v) = {} => v = 0
  <1>1. 0 \in Word
    BY WordSize DEF Word
  <1>2. \A i \in Nat : ~Bit(0, i)
    BY PowerIsPositive, NoBitsAbove, 0 \in Nat, 0 < 2^0
  <1>3. BitsOf(0) = {}
    <2>1. \A i \in 0 .. Digits - 1 : ~Bit(0, i)
      BY <1>2
    <2> QED BY <2>1 DEF BitsOf
  <1> QED BY <1>1, <1>2, <1>3, WordsByBits

\* Subtracting one keeps the bits above the least one, and takes that one away.
LEMMA OneLess ==
  ASSUME NEW v \in Word \ {0}, NEW i \in Nat, LeastSetBitIndex(v) <= i
  PROVE  Bit(v - 1, i) <=> i # LeastSetBitIndex(v) /\ Bit(v, i)
  <1> DEFINE m == LeastSetBitIndex(v)
             d == 2^m
             q == v \div d
             p == q \div 2
  <1>1. m \in Nat /\ m \in BitsOf(v) /\ (\A j \in BitsOf(v) : m <= j) /\ d \in Nat \ {0}
    BY MaskShape, PowerIsPositive
  <1>2. v \in Nat /\ Bit(v, m) /\ \A j \in Nat : j < m => ~Bit(v, j)
    <2>1. v \in Nat /\ \A j \in Nat : Bit(v, j) <=> j \in BitsOf(v)
      BY WordsByBits
    <2> QED BY <1>1, <2>1
  <1>3. v % d = 0
    <2>1. \A j \in 0 .. m - 1 : Bit(v, j) <=> Bit(0, j)
      <3>1. \A j \in 0 .. m - 1 : j \in Nat /\ j < m
        BY <1>1
      <3> HIDE DEF m
      <3> QED BY <1>2, <3>1, ZeroHasNoBits
    <2>2. v % d = 0 % d
      BY <1>1, <1>2, <2>1, 0 \in Nat, SameBits
    <2>3. 0 < d
      BY <1>1
    <2>4. 0 % d = 0
      BY <1>1, <2>3, 0 \in Nat, SmallIsRemainder
    <2> QED BY <2>2, <2>4
  <1>4. q \in Nat /\ v = d * q
    <2>1. q \in Nat /\ v = d * q + (v % d)
      BY <1>1, <1>2, v \in Int, Division, Zenon
    <2> QED BY <1>1, <1>3, <2>1
  <1>5. q % 2 = 1
    BY <1>2 DEF Bit
  <1> HIDE DEF m, d, q
  <1>6. p \in Nat /\ q = 2 * p + 1
    BY <1>4, <1>5
  <1>7. v - 1 = d * (2 * p) + (d - 1) /\ d - 1 \in Nat /\ d - 1 < d
    <2>1. d * (2 * p + 1) = d * (2 * p) + d /\ d * (2 * p) \in Nat
      BY <1>1, <1>6
    <2> QED BY <1>1, <1>4, <1>6, <2>1
  <1> HIDE DEF p
  <1>8. PICK j \in Nat : j = i - m /\ i = m + j
    BY <1>1, i - m \in Nat, i = m + (i - m) DEF m
  <1>9. Bit(v - 1, i) <=> Bit(2 * p, j)
    <2>0. m <= i
      BY DEF m
    <2>1. ~(i < m) /\ 2 * p \in Nat
      BY <1>1, <1>6, <2>0
    <2>2. Bit(2^m * (2 * p) + (d - 1), i) <=> IF i < m THEN Bit(d - 1, i) ELSE Bit(2 * p, i - m)
      BY <1>1, <1>7, <2>1, Joined DEF d
    <2> QED BY <1>7, <1>8, <2>1, <2>2 DEF d
  <1>10. Bit(v, i) <=> Bit(q, j)
    <2>1. Bit(v \div 2^m, j) <=> Bit(v, m + j)
      BY <1>1, <1>2, BitShifted
    <2> QED BY <1>8, <2>1 DEF q, d
  <1>11. CASE j = 0
    <2>1. ~Bit(2 * p, 0)
      <3>1. 2^0 = 1
        BY PowerIsPositive
      <3>2. (2 * p) \div 1 = 2 * p /\ (2 * p) % 2 = 0
        BY <1>6
      <3>3. ((2 * p) \div 2^0) % 2 = 0
        BY <3>1, <3>2
      <3> QED BY <3>3 DEF Bit
    <2>2. i = m
      BY <1>1, <1>8, <1>11
    <2> QED BY <1>9, <1>11, <2>1, <2>2 DEF m
  <1>12. CASE j # 0
    <2>1. PICK n \in Nat : j = 1 + n
      BY <1>12, j - 1 \in Nat, j = 1 + (j - 1)
    <2>2. 2^1 = 2 /\ 1 \in Nat /\ q \div 2 = p /\ (2 * p) \div 2 = p /\ 2 * p \in Nat
      BY <1>6, PowerIsPositive
    <2>3. Bit(q \div 2^1, n) <=> Bit(q, 1 + n)
      BY <1>4, <2>2, BitShifted
    <2>4. Bit((2 * p) \div 2^1, n) <=> Bit(2 * p, 1 + n)
      BY <2>2, BitShifted
    <2>5. i # m
      BY <1>1, <1>8, <1>12
    <2> QED BY <1>9, <1>10, <2>1, <2>2, <2>3, <2>4, <2>5 DEF m
  <1> QED BY <1>11, <1>12

\* A word and one less have no bit in common if it has only one.
LEMMA OneBit ==
  ASSUME NEW v \in Word \ {0}
  PROVE  HasOnlyOneBitSet(v) <=> LeastSetBitIndex(v) = MostSetBitIndex(v)
  <1> DEFINE S     == BitsOf(v)
             least == LeastSetBitIndex(v)
             most  == MostSetBitIndex(v)
             both  == And(v, v - 1)
  <1>1. least \in S /\ most \in S /\ (\A j \in S : least <= j /\ j <= most)
    BY MaskShape
  <1>2. S \in SUBSET Nat /\ \A i \in Nat : Bit(v, i) <=> i \in S
    <2>1. S \in SUBSET Nat
      BY DEF BitsOf
    <2> QED BY <2>1, WordsByBits
  <1>3. v - 1 \in Word
    BY WordSize DEF Word
  <1>4. \A i \in S : Bit(v - 1, i) <=> i # least
    BY <1>1, <1>2, OneLess
  <1>5. both \in Word /\ BitsOf(both) = S \cap BitsOf(v - 1)
    BY AndOr
  <1>6. BitsOf(both) = {i \in S : i # least}
    <2>1. \A i \in Nat : Bit(v - 1, i) <=> i \in BitsOf(v - 1)
      BY <1>3, WordsByBits
    <2> HIDE DEF S, least, both
    <2> QED BY <1>2, <1>4, <1>5, <2>1
  <1>7. HasOnlyOneBitSet(v) <=> BitsOf(both) = {}
    <2>1. both = 0 <=> BitsOf(both) = {}
      BY <1>5, ZeroHasNoBits
    <2> QED BY <2>1 DEF HasOnlyOneBitSet
  <1> HIDE DEF S, least, most, both
  <1>8. BitsOf(both) = {} <=> least = most
    <2>1. ASSUME least = most PROVE BitsOf(both) = {}
      <3>1. \A j \in S : j = least
        BY <1>1, <1>2, <2>1
      <3> QED BY <1>6, <3>1
    <2> QED BY <1>1, <1>6, <2>1
  <1> QED BY <1>7, <1>8 DEF least, most

-----------------------------------------------------------------------------
(* The sign of a field.                                                    *)

\* One less than a power has all the bits below it.
LEMMA AllOnes ==
  ASSUME NEW n \in Nat
  PROVE  2^n - 1 \in Nat /\ 2^n - 1 < 2^n /\ \A i \in Nat : Bit(2^n - 1, i) <=> i < n
  <1> DEFINE Ones(k) == \A i \in Nat : Bit(2^k - 1, i) <=> i < k
             T == {k \in Nat : Ones(k)}
  <1>1. ASSUME NEW k \in Nat PROVE 2^k - 1 \in Nat /\ 2^k - 1 < 2^k
    BY PowerIsPositive
  <1>2. 0 \in T
    <2>1. 2^0 - 1 = 0
      BY PowerIsPositive
    <2> QED BY <2>1, ZeroHasNoBits
  <1>3. ASSUME NEW k \in T PROVE k + 1 \in T
    <2>1. k \in Nat /\ Ones(k)
      OBVIOUS
    <2> DEFINE v == 2^k - 1
    <2>2. v \in Nat /\ v < 2^k /\ 2^(k + 1) - 1 = v + 2^k
      BY <1>1, <2>1, PowerDoubles, PowerIsPositive
    <2>3. \A i \in Nat : Bit(v, i) <=> i < k
      BY <2>1
    <2> HIDE DEF v
    <2>4. \A i \in Nat : Bit(v + 2^k, i) <=> i = k \/ Bit(v, i)
      BY <2>1, <2>2, PowerSetsBit
    <2>5. \A i \in Nat : i < k + 1 <=> i = k \/ i < k
      BY <2>1
    <2>6. Ones(k + 1)
      BY <2>2, <2>3, <2>4, <2>5
    <2> QED BY <2>1, <2>6
  <1>4. T \in SUBSET Nat
    OBVIOUS
  <1> HIDE DEF T
  <1>5. n \in T
    BY <1>2, <1>3, <1>4, Induction
  <1> QED BY <1>1, <1>5 DEF T

\* A word whose top bit is s, as a number with a sign there.
SignedAt(w, s) == IF Bit(w, s) THEN w - 2^(s + 1) ELSE w

\* Both ways to extend the sign, and what the cast of the word makes of it.
LEMMA SignExtended ==
  ASSUME NEW w \in Word, NEW s \in 0 .. Digits - 1, \A i \in Nat : Bit(w, i) => i <= s
  PROVE  /\ SignExtend(w, s) = SignedAt(w, s)
         /\ BitCast(w + IF Bit(w, s) THEN Modulus - 2^(s + 1) ELSE 0) = SignedAt(w, s)
  <1> DEFINE k == s + 1
             n == Digits - k
             P == 2^k
             Q == 2^n - 1
             x == P * Q + w
             H == P * Q + 0
  <1>1. k \in Nat /\ n \in Nat /\ k + n = Digits /\ s \in Nat /\ Digits - 1 \in Nat /\ s < k
    BY WordSize
  <1> HIDE DEF n
  <1>2. w \in Nat /\ w < Modulus /\ Modulus \in Nat /\ Modulus = 2^Digits
    BY WordSize DEF Word
  <1>3. w < P
    <2>1. \A i \in Nat : k <= i => ~Bit(w, i)
      BY <1>1
    <2> QED BY <1>1, <1>2, <2>1, WordSize, BoundByBits
  <1>4. /\ P \in Nat \ {0} /\ Q \in Nat /\ Modulus = P * 2^n /\ 2^n \in Nat \ {0}
        /\ \A i \in Nat : Bit(Q, i) <=> i < n
    <2>1. 2^(k + n) = 2^k * 2^n
      BY <1>1, PowerOfSum
    <2> QED BY <1>1, <1>2, <2>1, PowerIsPositive, AllOnes
  <1>5. H = Modulus - P /\ x = w + (Modulus - P) /\ x \in Nat /\ H \in Nat
    <2>1. P * (2^n - 1) = P * 2^n - P /\ P * Q \in Nat
      BY <1>4
    <2> QED BY <1>2, <1>4, <2>1
  <1>6. x \in Word /\ H \in Word
    BY <1>2, <1>3, <1>4, <1>5 DEF Word
  <1>7. ASSUME NEW i \in Nat
        PROVE  /\ Bit(x, i) <=> IF i < k THEN Bit(w, i) ELSE i < Digits
               /\ Bit(H, i) <=> k <= i /\ i < Digits
    <2>1. /\ Bit(2^k * Q + w, i) <=> IF i < k THEN Bit(w, i) ELSE Bit(Q, i - k)
          /\ Bit(2^k * Q + 0, i) <=> IF i < k THEN Bit(0, i) ELSE Bit(Q, i - k)
      <3>1. 0 < 2^k /\ 0 \in Nat
        BY <1>4
      <3> HIDE DEF Q, k
      <3> QED BY <1>1, <1>2, <1>3, <1>4, <3>1, Joined
    <2>2. CASE i < k
      BY <1>1, <2>1, <2>2, ZeroHasNoBits
    <2>3. CASE ~(i < k)
      <3>1. i - k \in Nat /\ (i - k < n <=> i < Digits) /\ k <= i
        BY <1>1, <2>3
      <3>2. Bit(Q, i - k) <=> i < Digits
        BY <1>4, <3>1
      <3> QED BY <2>1, <2>3, <3>1, <3>2
    <2> QED BY <2>2, <2>3
  <1> HIDE DEF x, H, P, Q, k
  <1>8. \A i \in Nat : Bit(w, i) => i < k
    BY <1>1 DEF k
  <1>9. Or(w, H) = x
    <2>1. Or(w, H) \in Word /\ BitsOf(Or(w, H)) = BitsOf(w) \cup BitsOf(H)
      BY AndOr
    <2>2. \A i \in Nat : /\ Bit(Or(w, H), i) <=> i \in BitsOf(Or(w, H))
                         /\ Bit(w, i) <=> i \in BitsOf(w)
                         /\ Bit(H, i) <=> i \in BitsOf(H)
      BY <1>6, <2>1, WordsByBits
    <2>3. \A i \in Nat : Bit(Or(w, H), i) <=> Bit(w, i) \/ Bit(H, i)
      BY <2>1, <2>2
    <2>4. \A i \in Nat : Bit(Or(w, H), i) <=> Bit(x, i)
      <3> SUFFICES ASSUME NEW i \in Nat PROVE Bit(w, i) \/ Bit(H, i) <=> Bit(x, i)
        BY <2>3
      <3>1. i < k \/ k <= i
        BY <1>1
      <3>2. ~(i < k /\ k <= i)
        BY <1>1
      <3> QED BY <1>7, <1>8, <3>1, <3>2
    <2> QED BY <1>6, <2>1, <2>4, SameWord
  <1>10. And(w, P - 1) = w
    <2>1. P - 1 \in Word /\ \A i \in Nat : Bit(P - 1, i) <=> i < k
      <3>1. P <= Modulus
        BY <1>1, <1>2, PowerGrows DEF P
      <3> QED BY <1>1, <1>2, <1>4, <3>1, AllOnes DEF P, Word
    <2>2. And(w, P - 1) \in Word /\ BitsOf(And(w, P - 1)) = BitsOf(w) \cap BitsOf(P - 1)
      BY AndOr
    <2>3. \A i \in Nat : /\ Bit(And(w, P - 1), i) <=> i \in BitsOf(And(w, P - 1))
                         /\ Bit(w, i) <=> i \in BitsOf(w)
                         /\ Bit(P - 1, i) <=> i \in BitsOf(P - 1)
      BY <2>1, <2>2, WordsByBits
    <2>4. \A i \in Nat : Bit(And(w, P - 1), i) <=> Bit(w, i)
      BY <1>8, <2>1, <2>2, <2>3
    <2> QED BY <2>2, <2>4, SameWord
  <1>11. /\ BitCast(x) = IF Bit(x, Digits - 1) THEN x - Modulus ELSE x
         /\ BitCast(w) = IF Bit(w, Digits - 1) THEN w - Modulus ELSE w
    BY DEF BitCast
  <1>12. CASE Bit(w, s)
    <2>1. Bit(x, Digits - 1)
      <3>1. CASE Digits - 1 < k
        <4>1. Digits - 1 = s
          BY <1>1, <3>1 DEF k
        <4> QED BY <1>1, <1>7, <1>12, <3>1, <4>1
      <3>2. CASE ~(Digits - 1 < k)
        <4>1. Digits - 1 < Digits
          BY WordSize
        <4> QED BY <1>1, <1>7, <3>2, <4>1
      <3> QED BY <3>1, <3>2
    <2>2. x - Modulus = w - P /\ SignedAt(w, s) = w - P
      BY <1>2, <1>4, <1>5, <1>12 DEF SignedAt, P, k
    <2>3. SignExtend(w, s) = BitCast(Or(w, Modulus - 1 - (P - 1)))
      BY <1>12 DEF SignExtend, P, k
    <2>4. Modulus - 1 - (P - 1) = H
      BY <1>2, <1>4, <1>5
    <2>5. w + (IF Bit(w, s) THEN Modulus - 2^(s + 1) ELSE 0) = x
      BY <1>5, <1>12 DEF P, k
    <2> QED BY <1>9, <1>11, <2>1, <2>2, <2>3, <2>4, <2>5
  <1>13. CASE ~Bit(w, s)
    <2>1. ~Bit(w, Digits - 1)
      <3> SUFFICES ASSUME Bit(w, Digits - 1) PROVE FALSE
        OBVIOUS
      <3>1. Digits - 1 <= s
        BY <1>1
      <3>2. Digits - 1 = s
        BY <1>1, <3>1
      <3> QED BY <1>13, <3>2
    <2>2. SignExtend(w, s) = And(w, P - 1)
      BY <1>13 DEF SignExtend, P, k
    <2>3. w + (IF Bit(w, s) THEN Modulus - 2^(s + 1) ELSE 0) = w /\ SignedAt(w, s) = w
      BY <1>2, <1>13 DEF SignedAt
    <2> QED BY <1>10, <1>11, <2>1, <2>2, <2>3
  <1> QED BY <1>12, <1>13

\* The exponent of the weight of a bit.
ExponentOf(mask, j, fmt) ==
  IF fmt.packed THEN Rank(mask, j)
  ELSE IF fmt.shifted THEN j - LeastSetBitIndex(mask) ELSE j
=============================================================================
