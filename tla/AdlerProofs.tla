---------------------------- MODULE AdlerProofs ----------------------------
(***************************************************************************)
(* Theorems about Adler for every modulus, width, block size and file: the *)
(* sum of a window is its Adler-32, and the incremental form agrees with   *)
(* it until a half borrows.  The library's induction over the numbers is a *)
(* theorem about an operator; here it is one about a set of numbers, taken *)
(* from the least element of the others.                                   *)
(***************************************************************************)
EXTENDS Adler, SequenceTheorems, WellFoundedInduction, TLAPS

LEMMA SetInduction ==
    ASSUME NEW S \in SUBSET Nat, 0 \in S, \A m \in S : m + 1 \in S
    PROVE  S = Nat
<1>1. SUFFICES ASSUME Nat \ S # {} PROVE FALSE
  OBVIOUS
<1>2. IsWellFoundedOn(OpToRel(<, Nat), Nat)
  BY NatLessThanWellFounded, Zenon
<1>3. PICK m \in Nat \ S : \A q \in Nat \ S : ~(<<q, m>> \in OpToRel(<, Nat))
  BY <1>1, <1>2, WFMin, Zenon
<1>4. \A q \in Nat \ S : ~(q < m)
  BY <1>3, Zenon DEF OpToRel
<1>5. m # 0
  BY <1>3
<1>6. PICK q \in Nat : q + 1 = m
  <2>1. m \in Nat
    BY <1>3
  <2>. QED BY <1>5, <2>1
<1>7. q \in S
  BY <1>4, <1>6
<1>8. q + 1 \in S
  BY <1>7
<1>. QED BY <1>3, <1>6, <1>8

LEMMA Constants ==
    /\ step \in Nat /\ step > 0 /\ Mod \in Nat /\ Mod > 1 /\ Half \in Nat /\ Mod < Half
    /\ Byte \subseteq 0..(Half - 1) /\ Byte \subseteq Nat /\ MaxLen \in Nat
BY AdlerAssumption DEF AdlerAssumption

-----------------------------------------------------------------------------
(* What is needed of % and \div, whose divisor is a parameter.                *)
LEMMA DivMod ==
    ASSUME NEW M \in Nat \ {0}, NEW x \in Int
    PROVE  /\ x % M \in 0..(M - 1) /\ x \div M \in Int
           /\ x = (M * (x \div M)) + (x % M)
BY SMT

LEMMA ModUnique ==
    ASSUME NEW M \in Nat \ {0}, NEW x \in Int, NEW q \in Int, NEW r \in 0..(M - 1),
           x = (M * q) + r
    PROVE  x % M = r /\ x \div M = q
BY SMT

LEMMA ModSmall == ASSUME NEW M \in Nat \ {0}, NEW x \in 0..(M - 1) PROVE x % M = x
BY SMT

(* Equal modulo M: a predicate of its own, which the provers match by.        *)
Congruent(M, x, y) == x % M = y % M

LEMMA RemainderCongruent ==
    ASSUME NEW M \in Nat \ {0}, NEW x \in Int
    PROVE  x % M \in 0..(M - 1) /\ x % M \in Nat /\ Congruent(M, x % M, x)
<1>1. PICK r \in 0..(M - 1) : r = x % M
  BY DivMod
<1>2. r % M = r
  BY ModSmall
<1>. QED BY <1>1, <1>2 DEF Congruent

LEMMA CongruentMoved ==
    ASSUME NEW M \in Nat \ {0},
           NEW x \in Int, NEW y \in Int, NEW u \in Int, NEW v \in Int,
           Congruent(M, x, y), u - x = v - y
    PROVE  Congruent(M, u, v)
<1>1. PICK p \in Int, q \in Int, r \in Int : x = (M * p) + r /\ y = (M * q) + r
  <2>1. x \div M \in Int /\ x = (M * (x \div M)) + (x % M)
    BY DivMod
  <2>2. y \div M \in Int /\ y = (M * (y \div M)) + (y % M)
    BY DivMod
  <2>3. x % M \in Int /\ x % M = y % M
    BY DivMod DEF Congruent
  <2>. QED BY <2>1, <2>2, <2>3, Zenon
<1>2. PICK t \in Int, e \in 0..(M - 1) : v = (M * t) + e /\ e = v % M
  <2>1. v % M \in 0..(M - 1) /\ v \div M \in Int /\ v = (M * (v \div M)) + (v % M)
    BY DivMod
  <2>. QED BY <2>1
<1>3. PICK s \in Int : s = (t + p) - q
  OBVIOUS
<1>4. M * s = ((M * t) + (M * p)) - (M * q)
  BY <1>3
<1>5. u = (M * s) + e
  <2>1. PICK mp \in Int, mq \in Int, mt \in Int : mp = M * p /\ mq = M * q /\ mt = M * t
    OBVIOUS
  <2>2. x = mp + r /\ y = mq + r
    BY <1>1, <2>1
  <2>3. v = mt + e
    BY <1>2, <2>1
  <2>4. M * s = (mt + mp) - mq
    BY <1>4, <2>1
  <2>. QED BY <2>2, <2>3, <2>4
<1>6. u % M = e
  BY <1>5
<1>. QED BY <1>2, <1>6 DEF Congruent

Same(x, y) == Congruent(Mod, x, y)

LEMMA SameReduced ==
    ASSUME NEW x \in Int
    PROVE  x % Mod \in 0..(Mod - 1) /\ x % Mod \in Nat /\ Same(x % Mod, x)
BY Constants, RemainderCongruent DEF Same

LEMMA SameMoved ==
    ASSUME NEW x \in Int, NEW y \in Int, NEW u \in Int, NEW v \in Int,
           Same(x, y), u - x = v - y
    PROVE  Same(u, v)
<1>1. Mod \in Nat \ {0} /\ Congruent(Mod, x, y)
  BY Constants DEF Same
<1>2. Congruent(Mod, u, v)
  BY <1>1, CongruentMoved
<1>. QED BY <1>2 DEF Same

LEMMA SameTransitive ==
    /\ \A x, y : Same(x, y) => Same(y, x)
    /\ \A x, y, z : Same(x, y) /\ Same(y, z) => Same(x, z)
BY DEF Same, Congruent

(* The two halves of a word that is put together of two that fit.             *)
LEMMA Halves ==
    ASSUME NEW x \in 0..(Half - 1), NEW y \in 0..(Half - 1)
    PROVE  LET w == (y * Half) + x
           IN  w \in 0..((Half * Half) - 1) /\ w % Half = x /\ w \div Half = y /\ UInt32(w) = w
<1>1. PICK H \in Nat \ {0} : H = Half
  BY Constants
<1>2. PICK w \in Int : w = (H * y) + x /\ w = (y * Half) + x
  BY <1>1
<1>3. w % H = x /\ w \div H = y
  BY <1>1, <1>2, ModUnique
<1>4. H * y <= H * (H - 1) /\ H * y >= 0 /\ H * (H - 1) = (H * H) - H
  BY <1>1
<1>5. w \in 0..((H * H) - 1)
  <2>1. PICK hy \in Int, hh \in Int : hy = H * y /\ hh = H * H
    OBVIOUS
  <2>. QED BY <1>1, <1>2, <1>4, <2>1
<1>6. PICK M \in Nat \ {0} : M = H * H
  BY <1>1
<1>7. w % M = w
  BY <1>5, <1>6, ModSmall
<1>. QED BY <1>1, <1>2, <1>3, <1>5, <1>6, <1>7 DEF UInt32

-----------------------------------------------------------------------------
(* The recursive definition has the value its equation says.                  *)
AdlerTurn(w, s, L) ==
    s = [k \in 0..L |-> IF k = 0 THEN <<1, 0>> ELSE WithByte(s[k - 1], w[k])]

LEMMA SumsExist == ASSUME NEW w, NEW L \in Nat PROVE \E s : AdlerTurn(w, s, L)
<1>. DEFINE S == {m \in Nat : \E s : AdlerTurn(w, s, m)}
<1>1. 0 \in S
  <2>. DEFINE s == [k \in 0..0 |-> <<1, 0>>]
  <2>1. AdlerTurn(w, s, 0)
    BY DEF AdlerTurn
  <2>. QED BY <2>1
<1>2. ASSUME NEW m \in S PROVE m + 1 \in S
  <2>0. m \in Nat
    OBVIOUS
  <2>1. PICK s : AdlerTurn(w, s, m)
    OBVIOUS
  <2>. DEFINE t == [k \in 0..(m + 1) |-> IF k = m + 1 THEN WithByte(s[m], w[m + 1]) ELSE s[k]]
  <2>2. ASSUME NEW k \in 0..(m + 1)
        PROVE  t[k] = IF k = 0 THEN <<1, 0>> ELSE WithByte(t[k - 1], w[k])
    <3>1. \A j \in 0..m : s[j] = IF j = 0 THEN <<1, 0>> ELSE WithByte(s[j - 1], w[j])
      BY <2>1, Zenon DEF AdlerTurn
    <3>2. \A j \in 0..m : t[j] = s[j]
      BY <2>0
    <3>3. t[m + 1] = WithByte(s[m], w[m + 1])
      BY <2>0
    <3>. HIDE DEF t
    <3>4. CASE k = m + 1
      BY <2>0, <3>2, <3>3, <3>4
    <3>5. CASE k = 0
      BY <2>0, <3>1, <3>2, <3>5
    <3>6. CASE k \in 1..m
      <4>1. k \in 0..m /\ k - 1 \in 0..m /\ k # 0
        BY <2>0, <3>6
      <4>. QED BY <3>1, <3>2, <4>1
    <3>. QED BY <2>0, <3>4, <3>5, <3>6
  <2>3. AdlerTurn(w, t, m + 1)
    BY <2>2 DEF AdlerTurn
  <2>. QED BY <2>3
<1>. HIDE DEF S
<1>3. S = Nat
  BY <1>1, <1>2, SetInduction DEF S
<1>. QED BY <1>3 DEF S

LEMMA SumsEquation == ASSUME NEW w \in Seq(Nat) PROVE AdlerTurn(w, AdlerSums(w), Len(w))
<1>1. Len(w) \in Nat
  BY LenProperties
<1>2. PICK s : AdlerTurn(w, s, Len(w))
  BY <1>1, SumsExist
<1>. QED BY <1>2, Zenon DEF AdlerSums, AdlerTurn

LEMMA SumsAt ==
    ASSUME NEW w \in Seq(Nat)
    PROVE  /\ AdlerSums(w)[0] = <<1, 0>>
           /\ \A k \in 1..Len(w) : AdlerSums(w)[k] = WithByte(AdlerSums(w)[k - 1], w[k])
<1>1. PICK s : s = AdlerSums(w)
  OBVIOUS
<1>2. PICK L \in Nat : L = Len(w)
  BY LenProperties
<1>3. s = [k \in 0..L |-> IF k = 0 THEN <<1, 0>> ELSE WithByte(s[k - 1], w[k])]
  BY <1>1, <1>2, SumsEquation DEF AdlerTurn
<1>4. \A k \in 0..L : s[k] = IF k = 0 THEN <<1, 0>> ELSE WithByte(s[k - 1], w[k])
  BY <1>3, Zenon
<1>5. 0 \in 0..L /\ \A k \in 1..L : k \in 0..L /\ k # 0
  OBVIOUS
<1>. QED BY <1>1, <1>2, <1>4, <1>5

(* Both halves stay reduced.                                                  *)
Reduced == (0..(Mod - 1)) \X (0..(Mod - 1))

LEMMA TurnReduces ==
    ASSUME NEW s \in Reduced, NEW d \in Nat
    PROVE  /\ WithByte(s, d) \in Reduced
           /\ WithByte(s, d)[1] = (s[1] + d) % Mod
           /\ WithByte(s, d)[2] = (s[2] + WithByte(s, d)[1]) % Mod
<1>1. PICK x \in Nat, y \in Nat : x = s[1] /\ y = s[2]
  BY Constants DEF Reduced
<1>2. (x + d) % Mod \in 0..(Mod - 1)
  BY Constants, DivMod
<1>3. PICK z \in Nat : z = (x + d) % Mod
  BY <1>2
<1>4. (y + z) % Mod \in 0..(Mod - 1)
  BY Constants, DivMod
<1>. QED BY <1>1, <1>2, <1>3, <1>4 DEF WithByte, Reduced

LEMMA SumsReduced ==
    ASSUME NEW w \in Seq(Nat)
    PROVE  \A k \in 0..Len(w) : AdlerSums(w)[k] \in Reduced
<1>. DEFINE S == {m \in Nat : m <= Len(w) => AdlerSums(w)[m] \in Reduced}
<1>1. Len(w) \in Nat /\ \A k \in 1..Len(w) : w[k] \in Nat
  BY LenProperties, ElementOfSeq
<1>2. 0 \in S
  <2>1. AdlerSums(w)[0] = <<1, 0>>
    BY SumsAt
  <2>2. <<1, 0>> \in Reduced
    BY Constants DEF Reduced
  <2>. QED BY <2>1, <2>2
<1>3. ASSUME NEW m \in S PROVE m + 1 \in S
  <2>1. m \in Nat
    OBVIOUS
  <2>2. SUFFICES ASSUME m + 1 <= Len(w) PROVE AdlerSums(w)[m + 1] \in Reduced
    BY <2>1
  <2>3. AdlerSums(w)[m] \in Reduced /\ m + 1 \in 1..Len(w) /\ (m + 1) - 1 = m
    BY <1>1, <2>1, <2>2
  <2>4. w[m + 1] \in Nat
    BY <1>1, <2>3
  <2>5. WithByte(AdlerSums(w)[m], w[m + 1]) \in Reduced
    BY <2>3, <2>4, TurnReduces
  <2>6. AdlerSums(w)[m + 1] = WithByte(AdlerSums(w)[(m + 1) - 1], w[m + 1])
    BY <2>3, SumsAt
  <2>. QED BY <2>3, <2>5, <2>6
<1>. HIDE DEF S
<1>4. S = Nat
  BY <1>2, <1>3, SetInduction DEF S
<1>. QED BY <1>1, <1>4 DEF S

(* One byte more, and what it makes of the two halves.                        *)
SumsStep(w, k) ==
    LET s == AdlerSums(w)
    IN  /\ s[k] \in Reduced /\ s[k - 1] \in Reduced /\ w[k] \in Nat
        /\ s[k][1] \in Int /\ s[k][2] \in Int /\ s[k - 1][1] \in Int /\ s[k - 1][2] \in Int
        /\ s[k][1] = (s[k - 1][1] + w[k]) % Mod /\ Same(s[k][1], s[k - 1][1] + w[k])
        /\ s[k][2] = (s[k - 1][2] + s[k][1]) % Mod /\ Same(s[k][2], s[k - 1][2] + s[k][1])

LEMMA SumsTurn == ASSUME NEW w \in Seq(Nat), NEW k \in 1..Len(w) PROVE SumsStep(w, k)
<1>. DEFINE s == AdlerSums(w)
<1>1. k \in 0..Len(w) /\ k - 1 \in 0..Len(w) /\ w[k] \in Nat
  BY LenProperties, ElementOfSeq
<1>2. s[k] \in Reduced /\ s[k - 1] \in Reduced
  BY <1>1, SumsReduced
<1>3. s[k] = WithByte(s[k - 1], w[k])
  BY SumsAt
<1>. HIDE DEF s
<1>4. PICK r \in Reduced : r = s[k - 1]
  BY <1>2
<1>5. s[k][1] = (s[k - 1][1] + w[k]) % Mod /\ s[k][2] = (s[k - 1][2] + s[k][1]) % Mod
  <2>1. PICK d \in Nat : d = w[k]
    BY <1>1
  <2>2. WithByte(r, d)[1] = (r[1] + d) % Mod /\ WithByte(r, d)[2] = (r[2] + WithByte(r, d)[1]) % Mod
    BY TurnReduces
  <2>. QED BY <1>3, <1>4, <2>1, <2>2
<1>6. s[k][1] \in Int /\ s[k][2] \in Int /\ s[k - 1][1] \in Int /\ s[k - 1][2] \in Int
  <2>1. \A e \in Reduced : e[1] \in Int /\ e[2] \in Int
    BY Constants DEF Reduced
  <2>. QED BY <1>2, <2>1, Zenon
<1>7. Same(s[k][1], s[k - 1][1] + w[k]) /\ Same(s[k][2], s[k - 1][2] + s[k][1])
  <2>1. PICK x \in Int, y \in Int, z \in Int, d \in Int :
          x = s[k - 1][1] /\ y = s[k - 1][2] /\ z = s[k][1] /\ d = w[k]
    <3>1. w[k] \in Int
      BY <1>1
    <3>. QED BY <1>6, <3>1, Zenon
  <2>2. x + d \in Int /\ y + z \in Int
    OBVIOUS
  <2>. QED BY <1>5, <2>1, <2>2, SameReduced
<1>. QED BY <1>1, <1>2, <1>5, <1>6, <1>7 DEF SumsStep, s

-----------------------------------------------------------------------------
(* A window and the next: what is left of the first byte of the one in the    *)
(* sums of the other.                                                         *)
NextWindow(v, w) ==
    Len(v) = step /\ Len(w) = step /\ \A k \in 1..(step - 1) : w[k] = v[k + 1]

LEMMA SumsShift ==
    ASSUME NEW v \in Seq(Nat), NEW w \in Seq(Nat), NextWindow(v, w)
    PROVE  \A k \in 0..(step - 1) :
              /\ Same(AdlerSums(w)[k][1], AdlerSums(v)[k + 1][1] - v[1])
              /\ Same(AdlerSums(w)[k][2], AdlerSums(v)[k + 1][2] - (1 + (k + 1) * v[1]))
<1>. DEFINE s == AdlerSums(v)
            t == AdlerSums(w)
            Shifted(k) == /\ Same(t[k][1], s[k + 1][1] - v[1])
                          /\ Same(t[k][2], s[k + 1][2] - (1 + (k + 1) * v[1]))
            S == {k \in Nat : k < step => Shifted(k)}
<1>1. PICK d \in Nat : d = v[1]
  <2>1. 1 \in 1..Len(v)
    BY Constants DEF NextWindow
  <2>. QED BY <2>1, ElementOfSeq
<1>2. /\ s[0] = <<1, 0>> /\ t[0] = <<1, 0>>
      /\ \A k \in 1..step : SumsStep(v, k) /\ SumsStep(w, k)
  BY SumsTurn, SumsAt DEF NextWindow
<1>. HIDE DEF S
<1>3. 0 \in S
  <2>1. 1 \in 1..step /\ 1 - 1 = 0 /\ 0 + 1 = 1 /\ 1 * d = d
    BY Constants
  <2>2. SumsStep(v, 1) /\ s[0][1] = 1 /\ s[0][2] = 0
    BY <1>2, <2>1
  <2>3. PICK x \in Int, y \in Int : x = s[1][1] /\ y = s[1][2] /\ Same(x, 1 + d) /\ Same(y, x)
    <3>1. s[1][1] \in Int /\ s[1][2] \in Int
      BY <2>2 DEF SumsStep
    <3>2. Same(s[1][1], s[0][1] + v[1]) /\ Same(s[1][2], s[0][2] + s[1][1])
      BY <2>1, <2>2 DEF SumsStep
    <3>3. s[0][1] + v[1] = 1 + d /\ s[0][2] + s[1][1] = s[1][1]
      BY <1>1, <2>2, <3>1
    <3>. QED BY <3>1, <3>2, <3>3
  <2>4. Same(1, x - d) /\ Same(0, y - (1 + d))
    <3>1. PICK g \in Int, f \in Int, h \in Int : g = 1 + d /\ f = x - g /\ h = y - g
      OBVIOUS
    <3>2. Same(x, g) /\ Same(y, x)
      BY <2>3, <3>1
    <3>3. Same(x - d, 1)
      BY <3>1, <3>2, SameMoved
    <3>4. Same(h, f)
      BY <3>1, <3>2, SameMoved
    <3>5. Same(f, 0)
      BY <3>1, <3>2, SameMoved
    <3>. QED BY <3>1, <3>3, <3>4, <3>5, SameTransitive
  <2>. HIDE DEF s, t
  <2>5. t[0][1] = 1 /\ t[0][2] = 0
    BY <1>2
  <2>6. Shifted(0)
    BY <1>1, <2>1, <2>3, <2>4, <2>5
  <2>. QED BY <2>6 DEF S, s, t
<1>4. ASSUME NEW m \in S PROVE m + 1 \in S
  <2>1. m \in Nat /\ (m < step => Shifted(m))
    BY DEF S
  <2>2. SUFFICES ASSUME m + 1 < step PROVE Shifted(m + 1)
    BY <2>1 DEF S
  <2>3. PICK k \in 1..(step - 1), l \in 2..step : k = m + 1 /\ l = k + 1
    BY <2>1, <2>2, Constants
  <2>4. /\ k \in 1..step /\ l \in 1..step /\ k - 1 = m /\ l - 1 = k /\ m < step
        /\ w[k] = v[l]
    BY <2>1, <2>3, Constants DEF NextWindow
  <2>5. SumsStep(w, k) /\ SumsStep(v, l) /\ SumsStep(v, k)
    BY <1>2, <2>4
  <2>6. PICK x1 \in Int, y1 \in Int, x2 \in Int, y2 \in Int :
          x1 = t[m][1] /\ y1 = s[k][1] /\ x2 = t[m][2] /\ y2 = s[k][2]
    BY <2>4, <2>5 DEF SumsStep
  <2>7. PICK t1 \in Int, s1 \in Int, t2 \in Int, s2 \in Int, e \in Int :
          t1 = t[k][1] /\ s1 = s[l][1] /\ t2 = t[k][2] /\ s2 = s[l][2] /\ e = v[l]
    <3>1. /\ t[k][1] \in Int /\ s[l][1] \in Int /\ t[k][2] \in Int /\ s[l][2] \in Int
      BY <2>5 DEF SumsStep
    <3>2. v[l] \in Int
      BY <2>4, ElementOfSeq DEF NextWindow
    <3>. HIDE DEF s, t
    <3>. QED BY <3>1, <3>2
  <2>8. Same(t1, x1 + e) /\ Same(s1, y1 + e) /\ Same(t2, x2 + t1) /\ Same(s2, y2 + s1)
    BY <2>4, <2>5, <2>6, <2>7 DEF SumsStep
  <2>9. PICK c \in Int : c = 1 + k * d /\ c + d = 1 + (k + 1) * d
    <3>1. PICK g \in Int : g = k * d
      OBVIOUS
    <3>2. (k + 1) * d = g + d
      BY <3>1
    <3>. QED BY <3>1, <3>2
  <2>10. Same(x1, y1 - d) /\ Same(x2, y2 - c)
    <3>1. Shifted(m)
      BY <2>1, <2>4
    <3>. QED BY <1>1, <2>3, <2>6, <2>9, <3>1
  <2>11. Same(t1, s1 - d)
    <3>1. Same(x1 + e, (y1 - d) + e)
      BY <2>10, SameMoved
    <3>2. Same(s1 - d, (y1 - d) + e)
      BY <2>8, SameMoved
    <3>. QED BY <2>8, <3>1, <3>2, SameTransitive
  <2>12. Same(t2, s2 - (c + d))
    <3>1. Same(x2 + t1, (y2 - c) + t1)
      BY <2>10, SameMoved
    <3>2. Same((y2 - c) + t1, (y2 - c) + (s1 - d))
      BY <2>11, SameMoved
    <3>3. Same(s2 - (c + d), (y2 - c) + (s1 - d))
      BY <2>8, SameMoved
    <3>. QED BY <2>8, <3>1, <3>2, <3>3, SameTransitive
  <2>. QED BY <1>1, <2>3, <2>7, <2>9, <2>11, <2>12
<1>5. S = Nat
  BY <1>3, <1>4, SetInduction DEF S
<1>6. ASSUME NEW k \in 0..(step - 1) PROVE k \in S /\ k < step
  BY <1>5, Constants
<1>. QED BY <1>6 DEF S

(* The halves of the next window's sum from those of the one before.          *)
LEMMA NextHalves ==
    ASSUME NEW v \in Seq(Nat), NEW w \in Seq(Nat), NextWindow(v, w)
    PROVE  LET x == AdlerSums(v)[step][1]
               y == AdlerSums(v)[step][2]
               z == (x - v[1]) + w[step]
           IN  /\ AdlerSums(w)[step][1] = z % Mod
               /\ AdlerSums(w)[step][2] = ((y - (1 + step * v[1])) + z) % Mod
<1>. DEFINE s == AdlerSums(v)
            t == AdlerSums(w)
<1>1. PICK k \in 0..(step - 1) : k = step - 1 /\ k + 1 = step
  BY Constants
<1>2. Same(t[k][1], s[step][1] - v[1]) /\ Same(t[k][2], s[step][2] - (1 + step * v[1]))
  BY <1>1, SumsShift
<1>3. SumsStep(v, step) /\ SumsStep(w, step) /\ v[1] \in Nat
  BY SumsTurn, Constants, ElementOfSeq DEF NextWindow
<1>4. /\ t[k][1] \in Int /\ t[k][2] \in Int /\ t[step][1] \in Int
      /\ s[step][1] \in Int /\ s[step][2] \in Int /\ v[1] \in Int /\ w[step] \in Int
      /\ t[step][1] = (t[k][1] + w[step]) % Mod /\ t[step][2] = (t[k][2] + t[step][1]) % Mod
  <2>1. step - 1 = k
    BY <1>1
  <2>2. /\ t[k][1] \in Int /\ t[k][2] \in Int /\ t[step][1] \in Int
        /\ t[step][1] = (t[k][1] + w[step]) % Mod /\ t[step][2] = (t[k][2] + t[step][1]) % Mod
    BY <1>3, <2>1, Zenon DEF SumsStep
  <2>3. s[step][1] \in Int /\ s[step][2] \in Int /\ w[step] \in Nat
    BY <1>3, Zenon DEF SumsStep
  <2>4. v[1] \in Int /\ w[step] \in Int
    BY <1>3, <2>3
  <2>. QED BY <2>2, <2>3, <2>4, Zenon
<1>. HIDE DEF s, t
<1>5. PICK g \in Int, h \in Int :
        g = s[step][1] - v[1] /\ h = s[step][2] - (1 + step * v[1])
  <2>1. PICK l \in Int, d \in Int, x \in Int, y \in Int :
          l = step /\ d = v[1] /\ x = s[step][1] /\ y = s[step][2]
    <3>1. step \in Int
      BY Constants
    <3>. QED BY <1>4, <3>1, Zenon
  <2>2. PICK m \in Int : m = l * d
    OBVIOUS
  <2>3. x - d \in Int /\ y - (1 + m) \in Int
    BY <2>2
  <2>. QED BY <2>1, <2>2, <2>3
<1>6. PICK p \in Int, q \in Int, r \in Int, d \in Int :
        p = t[k][1] /\ q = t[k][2] /\ r = t[step][1] /\ d = w[step]
  BY <1>4
<1>7. Same(p, g) /\ Same(q, h)
  BY <1>2, <1>5, <1>6
<1>8. r = (p + d) % Mod
  BY <1>4, <1>6
<1>9. PICK z \in Int, zp \in Int : z = g + d /\ zp = p + d
  OBVIOUS
<1>10. Same(zp, z)
  BY <1>7, <1>9, SameMoved
<1>11. r = z % Mod /\ Same(r, z)
  <2>1. r = z % Mod
    BY <1>8, <1>9, <1>10 DEF Same, Congruent
  <2>. QED BY <2>1, SameReduced
<1>12. PICK e \in Int, f \in Int, k1 \in Int : e = q + r /\ f = h + r /\ k1 = h + z
  OBVIOUS
<1>13. Same(e, f) /\ Same(f, k1)
  <2>1. Same(q, h) /\ Same(r, z)
    BY <1>7, <1>11
  <2>2. e - q = f - h /\ f - r = k1 - z
    BY <1>12
  <2>. QED BY <2>1, <2>2, SameMoved
<1>14. (q + r) % Mod = (h + z) % Mod
  BY <1>12, <1>13 DEF Same, Congruent
<1>. QED BY <1>4, <1>5, <1>6, <1>9, <1>11, <1>14 DEF s, t

(* What the incremental form computes when neither half borrows.              *)
LEMMA RolledHalves ==
    ASSUME NEW x \in 0..(Mod - 1), NEW y \in 0..(Mod - 1),
           NEW d1 \in 0..(Half - 1), NEW d2 \in 0..(Half - 1), NEW pos,
           At(pos - step) = d1, At(pos) = d2,
           x + d2 >= d1, y + x + d2 >= (step + 1) * d1 + 1
    PROVE  Alder32SumBasedOnPrev(pos, (y * Half) + x)
             = ((((y - (1 + step * d1)) + ((x - d1) + d2)) % Mod) * Half) + (((x - d1) + d2) % Mod)
<1>1. PICK M \in Nat \ {0}, H \in Nat, c \in Nat :
        M = Half * Half /\ H = Half /\ c = step * d1 /\ (step + 1) * d1 = c + d1
        /\ M >= (3 * H) - 2
  <2>1. Half * Half >= 2 * Half /\ Half >= 2 /\ Half \in Nat /\ step \in Nat /\ d1 \in Nat
    BY Constants
  <2>2. (step + 1) * d1 = (step * d1) + d1 /\ step * d1 \in Nat
    BY <2>1
  <2>3. Half * Half >= (3 * Half) - 2
    <3>1. (Half - 1) * (Half - 2) >= 0
      BY <2>1
    <3>2. (Half - 1) * (Half - 2) = ((Half * Half) - (3 * Half)) + 2
      BY <2>1
    <3>. QED BY <2>1, <3>1, <3>2
  <2>. QED BY <2>1, <2>2, <2>3
<1>2. PICK u \in Int, v \in Int, z \in Int :
        u = (x - d1) + d2 /\ v = (y - c) - 1 /\ z = v + u
  BY Constants
<1>3. u \in 0..(M - 1) /\ z \in 0..(M - 1) /\ u = z - v
  BY <1>1, <1>2, Constants
<1>4. u % M = u /\ ((v % M) + u) % M = z
  <2>1. z % M = z /\ u % M = u
    BY <1>3, ModSmall
  <2>2. PICK r \in Int : r = v % M /\ Congruent(M, r, v)
    <3>1. v % M \in Nat /\ Congruent(M, v % M, v)
      BY RemainderCongruent
    <3>. QED BY <3>1
  <2>3. Congruent(M, r + u, v + u)
    BY <2>2, CongruentMoved
  <2>. QED BY <1>2, <2>1, <2>2, <2>3 DEF Congruent
<1>5. PICK p \in 0..(H - 1), q \in 0..(H - 1) : p = u % Mod /\ q = z % Mod
  <2>1. u % Mod \in 0..(Mod - 1) /\ z % Mod \in 0..(Mod - 1)
    BY SameReduced
  <2>. QED BY <1>1, <2>1, Constants
<1>6. /\ ((y * Half) + x) % Half = x /\ ((y * Half) + x) \div Half = y
      /\ UInt32((q * Half) + p) = (q * Half) + p
  <2>1. x \in 0..(Half - 1) /\ y \in 0..(Half - 1)
    BY Constants
  <2>2. p \in 0..(Half - 1) /\ q \in 0..(Half - 1)
    BY <1>1
  <2>. QED BY <2>1, <2>2, Halves
<1>7. p % H = p
  BY <1>1, <1>5, ModSmall, Constants
<1>8. UInt32((x - d1) + d2) = u /\ UInt32((y - c) - 1) = v % M
  BY <1>1, <1>2, <1>4 DEF UInt32
<1>9. UInt32((v % M) + u) = z
  BY <1>1, <1>4 DEF UInt32
<1>10. Alder32SumBasedOnPrev(pos, (y * Half) + x) = (q * Half) + p
  BY <1>1, <1>5, <1>6, <1>7, <1>8, <1>9 DEF Alder32SumBasedOnPrev, TakeOutWeighed
<1>11. (y - (1 + c)) + ((x - d1) + d2) = z
  BY <1>1, <1>2
<1>. QED BY <1>1, <1>2, <1>5, <1>10, <1>11

-----------------------------------------------------------------------------
(* The window that is being summed; n bytes of it are in a and b.             *)
Cur == SubSeq(data, i + 1, i + step)

ScanInv ==
    /\ data \in Seq(Byte)
    /\ i \in Nat /\ n \in 0..step /\ a \in Nat /\ b \in Nat
    /\ n > 0 => i + step <= Len(data)
    /\ i > 0 => (i - 1) + step <= Len(data)

PartInv ==
    i + step <= Len(data) =>
        Same(a, AdlerSums(Cur)[n][1]) /\ Same(b, AdlerSums(Cur)[n][2])

IInv == ScanInv /\ PartInv /\ SumIsAdler32 /\ RollsUntilBorrow

LEMMA WindowAt ==
    ASSUME data \in Seq(Byte), NEW p \in Nat, p + step <= Len(data)
    PROVE  LET w == SubSeq(data, p + 1, p + step)
           IN  /\ w \in Seq(Nat) /\ Len(w) = step
               /\ \A j \in 1..step : w[j] = data[p + j] /\ w[j] \in Byte
<1>1. step \in Nat /\ step > 0 /\ Len(data) \in Nat /\ Byte \subseteq Nat
  BY Constants, LenProperties
<1>2. \A j \in 1..Len(data) : data[j] \in Byte
  BY ElementOfSeq
<1>3. ASSUME NEW j \in (p + 1)..(p + step) PROVE data[j] \in Nat /\ data[j] \in Byte
  <2>1. j \in 1..Len(data)
    BY <1>1
  <2>. QED BY <1>1, <1>2, <2>1
<1>4. p + 1 \in Int /\ p + step \in Int /\ (p + step) - (p + 1) + 1 = step /\ p + 1 <= p + step
  BY <1>1
<1>5. /\ SubSeq(data, p + 1, p + step) \in Seq(Nat)
      /\ Len(SubSeq(data, p + 1, p + step))
           = IF p + 1 <= p + step THEN (p + step) - (p + 1) + 1 ELSE 0
      /\ \A j \in 1..((p + step) - (p + 1) + 1) :
            SubSeq(data, p + 1, p + step)[j] = data[(p + 1) + j - 1]
  <2>1. \A j \in (p + 1)..(p + step) : data[j] \in Nat
    BY <1>3
  <2>. QED BY <1>1, <1>4, <2>1, SubSeqProperties
<1>6. \A j \in 1..step : (p + 1) + j - 1 = p + j /\ p + j \in (p + 1)..(p + step)
  BY <1>1
<1>. QED BY <1>1, <1>3, <1>4, <1>5, <1>6

LEMMA Types ==
    ASSUME ScanInv
    PROVE  /\ data \in Seq(Byte) /\ Len(data) \in Nat /\ i \in Nat /\ n \in Nat
           /\ step \in Nat /\ step > 0
BY Constants, LenProperties DEF ScanInv

LEMMA InitInv == Init => IInv
<1>. SUFFICES ASSUME Init PROVE IInv
  OBVIOUS
<1>1. data \in Seq(Byte) /\ i = 0 /\ n = 0 /\ a = 1 /\ b = 0
  BY Constants DEF Init
<1>2. ScanInv
  BY <1>1, Constants DEF ScanInv
<1>3. PartInv
  <2>1. SUFFICES ASSUME i + step <= Len(data)
                 PROVE  AdlerSums(Cur)[0] = <<1, 0>>
    BY <1>1 DEF PartInv, Same, Congruent
  <2>2. Cur \in Seq(Nat)
    BY <1>1, <2>1, WindowAt DEF Cur
  <2>. QED BY <2>2, SumsAt
<1>. QED BY <1>1, <1>2, <1>3 DEF IInv, SumIsAdler32, RollsUntilBorrow

LEMMA AddByteInv == IInv /\ AddByte => IInv'
<1>. SUFFICES ASSUME IInv, AddByte PROVE IInv'
  OBVIOUS
<1>1. /\ i + step <= Len(data) /\ n < step
      /\ a' = a + At(i + n) /\ b' = b + a' /\ n' = n + 1
      /\ UNCHANGED <<data, i, sum1, rolled>>
  BY DEF AddByte
<1>2. ScanInv /\ data \in Seq(Byte) /\ i \in Nat /\ n \in Nat /\ Len(data) \in Nat
      /\ a \in Nat /\ b \in Nat /\ step \in Nat
  BY Types DEF IInv, ScanInv
<1>3. /\ Cur \in Seq(Nat) /\ Len(Cur) = step /\ n + 1 \in 1..step
      /\ Cur[n + 1] = At(i + n) /\ At(i + n) \in Nat
  <2>1. Cur \in Seq(Nat) /\ Len(Cur) = step /\ \A j \in 1..step : Cur[j] = data[i + j]
    BY <1>1, <1>2, WindowAt DEF Cur
  <2>2. n + 1 \in 1..step /\ i + (n + 1) = (i + n) + 1
    BY <1>1, <1>2
  <2>3. Cur[n + 1] \in Nat
    BY <2>1, <2>2, ElementOfSeq
  <2>. QED BY <2>1, <2>2, <2>3 DEF At
<1>4. ScanInv'
  <2>1. PICK d \in Nat : d = At(i + n)
    BY <1>3
  <2>2. a' \in Nat /\ b' \in Nat
    BY <1>1, <1>2, <2>1
  <2>3. n' \in 0..step
    BY <1>1, <1>2
  <2>. QED BY <1>1, <1>2, <2>2, <2>3 DEF ScanInv
<1>5. PartInv'
  <2>1. Cur' = Cur
    BY <1>1 DEF Cur
  <2>2. SumsStep(Cur, n + 1) /\ (n + 1) - 1 = n
    BY <1>2, <1>3, SumsTurn
  <2>3. PICK s1 \in Int, s2 \in Int, t1 \in Int, t2 \in Int, d \in Int :
          /\ s1 = AdlerSums(Cur)[n][1] /\ s2 = AdlerSums(Cur)[n][2]
          /\ t1 = AdlerSums(Cur)[n + 1][1] /\ t2 = AdlerSums(Cur)[n + 1][2]
          /\ d = At(i + n)
    <3>1. /\ AdlerSums(Cur)[n][1] \in Int /\ AdlerSums(Cur)[n][2] \in Int
          /\ AdlerSums(Cur)[n + 1][1] \in Int /\ AdlerSums(Cur)[n + 1][2] \in Int
      BY <2>2 DEF SumsStep
    <3>2. At(i + n) \in Int
      BY <1>3
    <3>. QED BY <3>1, <3>2, Zenon
  <2>4. Same(t1, s1 + d) /\ Same(t2, s2 + t1)
    BY <1>3, <2>2, <2>3 DEF SumsStep
  <2>5. Same(a, s1) /\ Same(b, s2)
    BY <1>1, <2>3 DEF IInv, PartInv
  <2>6. Same(a + d, t1)
    <3>1. Same(a + d, s1 + d)
      BY <1>2, <2>5, SameMoved
    <3>. QED BY <2>4, <3>1, SameTransitive
  <2>7. Same(b + (a + d), t2)
    <3>1. Same(b + (a + d), s2 + (a + d))
      BY <1>2, <2>5, SameMoved
    <3>2. Same(s2 + (a + d), s2 + t1)
      BY <1>2, <2>6, SameMoved
    <3>. QED BY <2>4, <3>1, <3>2, SameTransitive
  <2>8. a' = a + d /\ b' = b + (a + d) /\ n' = n + 1
    BY <1>1, <2>3
  <2>. QED BY <2>1, <2>3, <2>6, <2>7, <2>8 DEF PartInv
<1>6. SumIsAdler32' /\ RollsUntilBorrow'
  BY <1>1 DEF IInv, SumIsAdler32, RollsUntilBorrow, Window, Before, BorrowsA, BorrowsB, At
<1>. QED BY <1>4, <1>5, <1>6 DEF IInv

(* The packed halves are those of Adler-32, and fit.                          *)
LEMMA Adler32Word ==
    ASSUME NEW w \in Seq(Nat), Len(w) = step
    PROVE  LET x == AdlerSums(w)[step][1]
               y == AdlerSums(w)[step][2]
           IN  /\ x \in 0..(Mod - 1) /\ y \in 0..(Mod - 1) /\ Adler32(w) = (y * Half) + x
               /\ Adler32(w) % Half = x /\ Adler32(w) \div Half = y
               /\ UInt32(Adler32(w)) = Adler32(w)
<1>1. AdlerSums(w)[step] \in Reduced
  BY SumsReduced, Constants
<1>2. PICK x \in 0..(Mod - 1), y \in 0..(Mod - 1) :
        x = AdlerSums(w)[step][1] /\ y = AdlerSums(w)[step][2]
  BY <1>1 DEF Reduced
<1>3. Adler32(w) = (y * Half) + x
  BY <1>2 DEF Adler32
<1>4. x \in 0..(Half - 1) /\ y \in 0..(Half - 1)
  BY Constants
<1>5. /\ ((y * Half) + x) % Half = x /\ ((y * Half) + x) \div Half = y
      /\ UInt32((y * Half) + x) = (y * Half) + x
  BY <1>4, Halves
<1>. QED BY <1>2, <1>3, <1>5

LEMMA SummedInv == IInv /\ Summed => IInv'
<1>. SUFFICES ASSUME IInv, Summed PROVE IInv'
  OBVIOUS
<1>1. /\ n = step /\ sum1' = Packed(a, b)
      /\ rolled' = IF i = 0 THEN sum1' ELSE Alder32SumBasedOnPrev(i + step - 1, sum1)
      /\ n' = 0 /\ a' = 1 /\ b' = 0 /\ i' = i + 1 /\ data' = data
  BY DEF Summed
<1>2. /\ ScanInv /\ data \in Seq(Byte) /\ i \in Nat /\ Len(data) \in Nat /\ i + step <= Len(data)
      /\ a \in Nat /\ b \in Nat /\ step \in Nat /\ step > 0
  BY <1>1, Types DEF IInv, ScanInv
<1>3. Window' = Cur /\ Cur \in Seq(Nat) /\ Len(Cur) = step
  <2>1. Window' = Cur
    BY <1>1, <1>2 DEF Window, Cur
  <2>. QED BY <1>2, <2>1, WindowAt DEF Cur
<1>4. ScanInv'
  BY <1>1, <1>2, Constants DEF ScanInv
<1>5. PartInv'
  <2>1. SUFFICES ASSUME (i + 1) + step <= Len(data)
                 PROVE  AdlerSums(Cur')[0] = <<1, 0>>
    BY <1>1 DEF PartInv, Same, Congruent
  <2>2. Cur' = SubSeq(data, (i + 1) + 1, (i + 1) + step)
    BY <1>1 DEF Cur
  <2>3. Cur' \in Seq(Nat)
    <3>1. PICK p \in Nat : p = i + 1
      BY <1>2
    <3>. QED BY <1>2, <2>1, <2>2, <3>1, WindowAt
  <2>. QED BY <2>3, SumsAt
<1>6. SumIsAdler32' /\ sum1' = Adler32(Cur)
  <2>1. PICK x \in 0..(Mod - 1), y \in 0..(Mod - 1) :
          x = AdlerSums(Cur)[step][1] /\ y = AdlerSums(Cur)[step][2]
    BY <1>3, Adler32Word
  <2>2. Same(a, x) /\ Same(b, y)
    BY <1>1, <1>2, <2>1 DEF IInv, PartInv
  <2>3. a % Mod = x /\ b % Mod = y
    <3>1. x % Mod = x /\ y % Mod = y
      BY ModSmall, Constants
    <3>. QED BY <2>2, <3>1 DEF Same, Congruent
  <2>4. sum1' = UInt32(Adler32(Cur)) /\ UInt32(Adler32(Cur)) = Adler32(Cur)
    BY <1>1, <1>3, <2>1, <2>3, Adler32Word DEF Packed
  <2>. QED BY <1>3, <2>4 DEF SumIsAdler32
<1>7. RollsUntilBorrow'
  <2>1. SUFFICES ASSUME i > 0, ~BorrowsA', ~BorrowsB' PROVE rolled' = sum1'
    BY <1>1, <1>2 DEF RollsUntilBorrow
  <2>. DEFINE v == Window
  <2>2. PICK p \in Nat : p = i - 1
    BY <1>2, <2>1
  <2>3. /\ v \in Seq(Nat) /\ Len(v) = step /\ \A j \in 1..step : v[j] = data[p + j] /\ v[j] \in Byte
    <3>1. v = SubSeq(data, p + 1, p + step) /\ p + step <= Len(data)
      BY <1>2, <2>2 DEF Window
    <3>. QED BY <1>2, <3>1, WindowAt
  <2>4. \A j \in 1..step : Cur[j] = data[i + j] /\ Cur[j] \in Byte
    BY <1>2, WindowAt DEF Cur
  <2>. HIDE DEF v
  <2>5. NextWindow(v, Cur)
    <3>1. ASSUME NEW j \in 1..(step - 1) PROVE Cur[j] = v[j + 1]
      <4>1. j \in 1..step /\ j + 1 \in 1..step /\ p + (j + 1) = i + j
        BY <1>2, <2>2
      <4>. QED BY <2>3, <2>4, <4>1
    <3>. QED BY <1>3, <2>3, <3>1 DEF NextWindow
  <2>6. PICK d1 \in 0..(Half - 1), d2 \in 0..(Half - 1) :
          /\ d1 = v[1] /\ d2 = Cur[step] /\ At((i + step - 1) - step) = d1 /\ At(i + step - 1) = d2
    <3>1. /\ 1 \in 1..step /\ step \in 1..step /\ ((i + step - 1) - step) + 1 = p + 1
          /\ (i + step - 1) + 1 = i + step
      BY <1>2, <2>2
    <3>2. v[1] = data[p + 1] /\ v[1] \in Byte /\ Cur[step] = data[i + step] /\ Cur[step] \in Byte
      BY <2>3, <2>4, <3>1
    <3>. QED BY <3>1, <3>2, Constants DEF At
  <2>7. PICK x \in 0..(Mod - 1), y \in 0..(Mod - 1) :
          /\ x = AdlerSums(v)[step][1] /\ y = AdlerSums(v)[step][2]
          /\ Adler32(v) = (y * Half) + x
          /\ Adler32(v) % Half = x /\ Adler32(v) \div Half = y
    BY <2>3, Adler32Word
  <2>8. sum1 = (y * Half) + x
    BY <2>1, <2>7 DEF IInv, SumIsAdler32, v
  <2>9. Before' = Adler32(v)
    BY <1>1, <1>2 DEF Before, Window, v
  <2>10. x + d2 >= d1 /\ y + x + d2 >= (step + 1) * d1 + 1
    <3>1. data[(i' - 2) + 1] = d1 /\ data[(i' + step - 2) + 1] = d2
      <4>1. (i' - 2) + 1 = ((i + step - 1) - step) + 1 /\ (i' + step - 2) + 1 = (i + step - 1) + 1
        BY <1>1, <1>2
      <4>. QED BY <2>6, <4>1 DEF At
    <3>2. ~((Adler32(v) % Half) + d2 < d1)
      BY <1>1, <2>1, <2>9, <3>1 DEF BorrowsA, At
    <3>3. ~((Adler32(v) \div Half) + (Adler32(v) % Half) + d2 < (step + 1) * d1 + 1)
      BY <1>1, <2>1, <2>9, <3>1 DEF BorrowsB, At
    <3>4. PICK m \in Nat : m = (step + 1) * d1 + 1
      BY <1>2, Constants
    <3>. QED BY <2>7, <3>2, <3>3, <3>4, Constants
  <2>11. rolled' = ((((y - (1 + step * d1)) + ((x - d1) + d2)) % Mod) * Half)
                     + (((x - d1) + d2) % Mod)
    BY <1>1, <2>1, <2>6, <2>8, <2>10, RolledHalves
  <2>12. Adler32(Cur) = ((((y - (1 + step * d1)) + ((x - d1) + d2)) % Mod) * Half)
                          + (((x - d1) + d2) % Mod)
    BY <1>3, <2>3, <2>5, <2>6, <2>7, NextHalves, Adler32Word
  <2>. QED BY <1>6, <2>11, <2>12
<1>. QED BY <1>4, <1>5, <1>6, <1>7 DEF IInv

LEMMA NextInv == IInv /\ [Next]_vars => IInv'
<1>. SUFFICES ASSUME IInv, [Next]_vars PROVE IInv'
  OBVIOUS
<1>1. CASE UNCHANGED vars
  BY <1>1 DEF vars, IInv, ScanInv, PartInv, Cur, SumIsAdler32, RollsUntilBorrow, Window,
     Before, BorrowsA, BorrowsB, At
<1>. QED BY <1>1, AddByteInv, SummedInv DEF Next, ScanDone

-----------------------------------------------------------------------------
(* Reducing once behind the loop yields Adler-32, and both sides' uint32      *)
(* words keep its halves apart (patch.go:156-165).                            *)
THEOREM SumIsTheStandard == Spec => []SumIsAdler32
<1>1. IInv => SumIsAdler32
  BY DEF IInv
<1>. QED BY <1>1, InitInv, NextInv, PTL DEF Spec

(* Until a half is driven below zero the incremental form yields the sum of   *)
(* the next window (patch.go:167-186).                                        *)
THEOREM RollingIsExactUntilABorrow == Spec => []RollsUntilBorrow
<1>1. IInv => RollsUntilBorrow
  BY DEF IInv
<1>. QED BY <1>1, InitInv, NextInv, PTL DEF Spec
=============================================================================
