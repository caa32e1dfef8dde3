--------------------------- MODULE PongSyncProofs ----------------------------
(***************************************************************************)
(* Theorems about the two engines of a match and about the numbers in      *)
(* their messages, for any places of the ball and the paddles and any      *)
(* bounds on the scores and on the channel.                                *)
(***************************************************************************)
EXTENDS PongSync, SequenceTheorems, WellFoundedInduction, TLAPS

-----------------------------------------------------------------------------
(* Induction and recursion. *)

LEMMA Least ==
  ASSUME NEW T, T \subseteq Nat, T # {}
  PROVE  \E x \in T : \A y \in T : x <= y
<1>1. PICK R : /\ IsWellFoundedOn(R, Nat)
               /\ \A x, y \in Nat : <<x, y>> \in R <=> x < y
  <2>1. IsWellFoundedOn({ss \in Nat \X Nat : ss[1] < ss[2]}, Nat)
    BY NatLessThanWellFounded DEF OpToRel
  <2> QED
    BY <2>1
<1>2. \E x \in T : \A y \in T : ~ (<<y, x>> \in R)
  <2>1. IsWellFoundedOn(R, Nat)
    BY <1>1
  <2> QED
    BY <2>1, WFMin, Zenon
<1>3. PICK x \in T : \A y \in T : ~ (<<y, x>> \in R)
  BY <1>2
<1>4. ASSUME NEW y \in T
      PROVE  x <= y
  <2>1. x \in Nat /\ y \in Nat /\ ~ (<<y, x>> \in R)
    BY <1>3
  <2>2. ~ (y < x)
    BY <1>1, <2>1
  <2> QED
    BY <2>1, <2>2
<1> QED
  BY <1>3, <1>4

\* Induction over the natural numbers, for a set.
LEMMA SetInduction ==
  ASSUME NEW T, 0 \in T, \A n \in Nat : n \in T => n + 1 \in T
  PROVE  \A n \in Nat : n \in T
<1> SUFFICES ASSUME Nat \ T # {}
             PROVE  FALSE
  OBVIOUS
<1>1. PICK x \in Nat \ T : \A y \in Nat \ T : x <= y
  <2> DEFINE U == Nat \ T
  <2>1. U \subseteq Nat /\ U # {}
    OBVIOUS
  <2> HIDE DEF U
  <2>2. \E x \in U : \A y \in U : x <= y
    BY <2>1, Least
  <2> QED
    BY <2>2 DEF U
<1>2. x # 0 /\ x - 1 \in Nat /\ ~ (x <= x - 1) /\ (x - 1) + 1 = x
  BY <1>1
<1> QED
  BY <1>1, <1>2

\* g goes from a through the first `last' steps of a recursion.
Follows(g, a, step, last) ==
  g[0] = a /\ \A n \in Nat : n < last => g[n + 1] = step[n][g[n]]

\* Every step of a recursion stays in X.
StepsWithin(step, X) == \A n \in Nat : \A x \in X : step[n][x] \in X

LEMMA FunctionByRecursion ==
  ASSUME NEW X, NEW a \in X, NEW step, StepsWithin(step, X)
  PROVE  \A last \in Nat : \E g \in [0 .. last -> X] : Follows(g, a, step, last)
<1> DEFINE T == {last \in Nat : \E g \in [0 .. last -> X] : Follows(g, a, step, last)}
<1>1. 0 \in T
  <2>1. Follows([n \in 0 .. 0 |-> a], a, step, 0)
    BY DEF Follows
  <2> QED
    BY <2>1
<1>2. ASSUME NEW last \in Nat, last \in T
      PROVE  last + 1 \in T
  <2>1. PICK g \in [0 .. last -> X] : Follows(g, a, step, last)
    BY <1>2
  <2> DEFINE h == [n \in 0 .. last + 1 |->
                     IF n = last + 1 THEN step[last][g[last]] ELSE g[n]]
  <2>2. h \in [0 .. last + 1 -> X] /\ h[last + 1] = step[last][g[last]]
    BY <2>1 DEF StepsWithin
  <2>3. \A n \in 0 .. last : h[n] = g[n]
    OBVIOUS
  <2> HIDE DEF h
  <2>4. \A n \in Nat : n < last + 1 => h[n + 1] = step[n][h[n]]
    <3> SUFFICES ASSUME NEW n \in Nat, n < last + 1
                 PROVE  h[n + 1] = step[n][h[n]]
      OBVIOUS
    <3>1. h[n] = g[n]
      BY <2>3
    <3>2. CASE n = last
      BY <2>2, <3>1, <3>2
    <3>3. CASE n # last
      <4>1. n < last /\ n + 1 \in 0 .. last
        BY <3>3
      <4> QED
        BY <2>1, <2>3, <3>1, <4>1 DEF Follows
    <3> QED
      BY <3>2, <3>3
  <2>5. h[0] = a
    BY <2>1, <2>3 DEF Follows
  <2> QED
    BY <2>2, <2>4, <2>5 DEF Follows
<1> HIDE DEF T
<1>3. \A last \in Nat : last \in T
  BY <1>1, <1>2, SetInduction
<1> QED
  BY <1>3 DEF T

-----------------------------------------------------------------------------
(* Numbers in decimal. *)

LEMMA QuotientsOf ==
  ASSUME NEW n \in Nat
  PROVE  /\ Quotients(n)[0] = n
         /\ \A k \in 0 .. n + 1 : Quotients(n)[k] \in Nat
         /\ \A k \in 0 .. n : Quotients(n)[k + 1] = Quotients(n)[k] \div 10
<1> DEFINE step == [k \in Nat |-> [x \in Nat |-> x \div 10]]
<1>1. StepsWithin(step, Nat)
  BY DEF StepsWithin
<1>2. \A k \in Nat : \A x \in Nat : step[k][x] = x \div 10
  OBVIOUS
<1> HIDE DEF step
<1>3. PICK g \in [0 .. n + 1 -> Nat] : Follows(g, n, step, n + 1)
  <2>1. \A last \in Nat : \E g \in [0 .. last -> Nat] : Follows(g, n, step, last)
    BY <1>1, FunctionByRecursion
  <2>2. n + 1 \in Nat
    OBVIOUS
  <2> QED
    BY <2>1, <2>2, Zenon
<1>4. \A k \in 0 .. n + 1 : k # 0 => g[k] = g[k - 1] \div 10
  <2> SUFFICES ASSUME NEW k \in 0 .. n + 1, k # 0
               PROVE  g[k] = g[k - 1] \div 10
    OBVIOUS
  <2>1. k - 1 \in Nat /\ k - 1 \in 0 .. n + 1 /\ k - 1 < n + 1 /\ (k - 1) + 1 = k
    OBVIOUS
  <2> QED
    BY <1>2, <1>3, <2>1 DEF Follows
<1>5. g = [k \in 0 .. n + 1 |-> IF k = 0 THEN n ELSE g[k - 1] \div 10]
  BY <1>3, <1>4 DEF Follows
<1> DEFINE q == Quotients(n)
<1>6. q = [k \in 0 .. n + 1 |-> IF k = 0 THEN n ELSE q[k - 1] \div 10]
  BY <1>5 DEF Quotients
<1> HIDE DEF q
<1>7. q[0] = n /\ \A k \in 0 .. n : q[k + 1] = q[k] \div 10
  BY <1>6
<1>8. \A k \in Nat : k <= n + 1 => q[k] \in Nat
  <2> DEFINE T == {k \in Nat : k <= n + 1 => q[k] \in Nat}
  <2>1. 0 \in T /\ \A k \in Nat : k \in T => k + 1 \in T
    BY <1>7, SMTT(30)
  <2> HIDE DEF T
  <2>2. \A k \in Nat : k \in T
    BY <2>1, SetInduction
  <2> QED
    BY <2>2 DEF T
<1> QED
  BY <1>7, <1>8 DEF q

LEMMA PlacesOf ==
  ASSUME NEW n \in Nat
  PROVE  /\ Places(n) \in 1 .. n + 1
         /\ Quotients(n)[Places(n)] = 0
         /\ \A j \in 1 .. Places(n) - 1 : Quotients(n)[j] # 0
<1> DEFINE q == Quotients(n)
<1>1. /\ q[0] = n
      /\ \A k \in 0 .. n + 1 : q[k] \in Nat
      /\ \A k \in 0 .. n : q[k + 1] = q[k] \div 10
  BY QuotientsOf
<1> HIDE DEF q
<1>2. \A k \in Nat : k <= n + 1 => q[k] = 0 \/ q[k] + k <= n
  <2> DEFINE T == {k \in Nat : k <= n + 1 => q[k] = 0 \/ q[k] + k <= n}
  <2>1. 0 \in T
    BY <1>1
  <2>2. ASSUME NEW k \in Nat, k \in T, k + 1 <= n + 1
        PROVE  q[k + 1] = 0 \/ q[k + 1] + (k + 1) <= n
    <3>1. q[k] \in Nat /\ q[k + 1] = q[k] \div 10 /\ (q[k] = 0 \/ q[k] + k <= n)
      BY <1>1, <2>2
    <3>2. q[k] \div 10 = 0 \/ (q[k] \div 10) + 1 <= q[k]
      BY <3>1
    <3> QED
      BY <3>1, <3>2
  <2>3. \A k \in Nat : k \in T => k + 1 \in T
    BY <2>2
  <2> HIDE DEF T
  <2>4. \A k \in Nat : k \in T
    BY <2>1, <2>3, SetInduction
  <2> QED
    BY <2>4 DEF T
<1> DEFINE U == {k \in 1 .. n + 1 : q[k] = 0}
<1>3. n + 1 \in U /\ U \subseteq Nat
  <2>1. n + 1 \in Nat /\ n + 1 <= n + 1 /\ q[n + 1] \in Nat /\ n + 1 \in 1 .. n + 1
    BY <1>1
  <2>2. q[n + 1] = 0
    BY <1>2, <2>1
  <2> QED
    BY <2>1, <2>2
<1>4. PICK k \in U : \A j \in U : k <= j
  <2> HIDE DEF U
  <2> QED
    BY <1>3, Least
<1>5. k \in 1 .. n + 1 /\ q[k] = 0 /\ \A j \in 1 .. k - 1 : q[j] # 0
  BY <1>4
<1> QED
  BY <1>5 DEF q, Places

\* The number of the first j digits is what is left when the others are off.
LEMMA DigitsOf ==
  ASSUME NEW n \in Nat
  PROVE  /\ Places(n) \in Nat \ {0}
         /\ Digits[n] \in Seq(0 .. 9) /\ Len(Digits[n]) = Places(n)
         /\ Quotients(n)[0] = n /\ Quotients(n)[Places(n)] = 0
         /\ \A j \in 1 .. Places(n) :
              /\ Quotients(n)[Places(n) - j] \in Nat
              /\ Quotients(n)[Places(n) - j] =
                   10 * Quotients(n)[Places(n) - (j - 1)] + Digits[n][j]
<1> DEFINE p == Places(n)
<1> DEFINE q == Quotients(n)
<1> DEFINE d == [i \in 1 .. p |-> q[p - i] % 10]
<1>1. /\ q[0] = n
      /\ \A k \in 0 .. n + 1 : q[k] \in Nat
      /\ \A k \in 0 .. n : q[k + 1] = q[k] \div 10
  BY QuotientsOf
<1>2. p \in 1 .. n + 1 /\ q[p] = 0
  BY PlacesOf
<1>3. Digits[n] = d
  BY DEF Digits
<1> HIDE DEF p, q
<1>4. \A j \in 1 .. p : /\ p - j \in 0 .. n /\ p - (j - 1) = (p - j) + 1
                        /\ q[p - j] \in Nat
  BY <1>1, <1>2
<1>5. \A j \in 1 .. p : d[j] \in 0 .. 9 /\ q[p - j] = 10 * q[p - (j - 1)] + d[j]
  <2> SUFFICES ASSUME NEW j \in 1 .. p
               PROVE  d[j] \in 0 .. 9 /\ q[p - j] = 10 * q[p - (j - 1)] + d[j]
    OBVIOUS
  <2>1. q[p - (j - 1)] = q[p - j] \div 10 /\ q[p - j] \in Nat
    BY <1>1, <1>4
  <2>2. d[j] = q[p - j] % 10
    OBVIOUS
  <2> DEFINE x == q[p - j]
  <2>3. x % 10 \in 0 .. 9 /\ x = 10 * (x \div 10) + (x % 10)
    <3>1. x \in Nat
      BY <2>1
    <3> HIDE DEF x
    <3> QED
      BY <3>1
  <2> QED
    BY <2>1, <2>2, <2>3
<1>6. d \in Seq(0 .. 9) /\ Len(d) = p
  <2>1. p \in Nat /\ d = [i \in 1 .. p |-> d[i]]
    BY <1>2
  <2> HIDE DEF d
  <2> QED
    BY <1>5, <2>1, SMTT(30)
<1> HIDE DEF d
<1>7. /\ p \in Nat \ {0}
      /\ Digits[n] \in Seq(0 .. 9) /\ Len(Digits[n]) = p
      /\ q[0] = n /\ q[p] = 0
  BY <1>1, <1>2, <1>3, <1>6
<1>8. \A j \in 1 .. p : /\ q[p - j] \in Nat
                        /\ q[p - j] = 10 * q[p - (j - 1)] + Digits[n][j]
  BY <1>3, <1>4, <1>5
<1> QED
  BY <1>7, <1>8 DEF p, q

\* A number is written with at least one character, a digit or the sign.
LEMMA Spelling ==
  ASSUME NEW n \in Int
  PROVE  /\ int_to_str(n) \in Seq(Nat) /\ Len(int_to_str(n)) \in Nat \ {0}
         /\ int_to_str(n)[1] = Minus \/ IsDigit(int_to_str(n)[1])
         /\ n \in Nat => int_to_str(n) = Digits[n]
         /\ n \notin Nat =>
              /\ -n \in Nat
              /\ Len(int_to_str(n)) = 1 + Len(Digits[-n])
              /\ int_to_str(n)[1] = Minus
              /\ \A i \in 1 .. Len(Digits[-n]) :
                   int_to_str(n)[1 + i] = Digits[-n][i]
<1>1. CASE n \in Nat
  <2>1. int_to_str(n) = Digits[n]
    BY <1>1 DEF int_to_str
  <2>2. Digits[n] \in Seq(0 .. 9) /\ Len(Digits[n]) \in Nat \ {0}
    BY <1>1, DigitsOf
  <2> DEFINE d == Digits[n]
  <2> HIDE DEF d
  <2>3. d \in Seq(0 .. 9) /\ Len(d) \in Nat \ {0}
    BY <2>2 DEF d
  <2>4. d \in Seq(Nat) /\ IsDigit(d[1])
    BY <2>3 DEF IsDigit
  <2>5. int_to_str(n) = d
    BY <2>1 DEF d
  <2> QED
    BY <1>1, <2>1, <2>3, <2>4, <2>5
<1>2. CASE n \notin Nat
  <2>1. -n \in Nat /\ n < 0
    BY <1>2
  <2> DEFINE d == Digits[-n]
  <2>2. int_to_str(n) = <<Minus>> \o d
    BY <2>1 DEF int_to_str
  <2>3. d \in Seq(0 .. 9) /\ Len(d) \in Nat \ {0}
    BY <2>1, DigitsOf
  <2> HIDE DEF d
  <2>4. d \in Seq(Nat) /\ Minus \in Nat
    BY <2>3 DEF Minus
  <2>5. /\ <<Minus>> \o d \in Seq(Nat)
        /\ Len(<<Minus>> \o d) = 1 + Len(d)
        /\ (<<Minus>> \o d)[1] = Minus
        /\ \A i \in 1 .. Len(d) : (<<Minus>> \o d)[1 + i] = d[i]
    BY <2>3, <2>4
  <2> QED
    BY <1>2, <2>1, <2>2, <2>3, <2>5 DEF d
<1> QED
  BY <1>1, <1>2

\* The characters of word are at place i of s.
At(s, i, word) ==
  /\ i + Len(word) <= Len(s) + 1
  /\ \A j \in 1 .. Len(word) : s[i + j - 1] = word[j]

\* The number at i ends where a space or the end is.
Ends(s, i) == i <= Len(s) => s[i] = Space

\* From a space the next number is one place further.
LEMMA Skipped ==
  ASSUME NEW s \in Seq(Nat), NEW i \in 1 .. Len(s), s[i] = Space, i < Len(s),
         s[i + 1] = Minus \/ IsDigit(s[i + 1])
  PROVE  skip_sep(s, i) = i + 1
<1> DEFINE Is(j) == /\ j <= Len(s) => (s[j] = Minus \/ IsDigit(s[j]))
                    /\ \A k \in i .. j - 1 : ~ (s[k] = Minus \/ IsDigit(s[k]))
<1>1. skip_sep(s, i) = CHOOSE j \in i .. Len(s) + 1 : Is(j)
  BY DEF skip_sep, FirstFrom
<1>2. ~ (s[i] = Minus \/ IsDigit(s[i]))
  BY DEF Space, Minus, IsDigit
<1>3. i + 1 \in i .. Len(s) + 1 /\ Is(i + 1)
  <2>1. \A k \in i .. (i + 1) - 1 : k = i
    OBVIOUS
  <2> QED
    BY <1>2, <2>1
<1>4. \A j \in i .. Len(s) + 1 : Is(j) => j = i + 1
  <2> SUFFICES ASSUME NEW j \in i .. Len(s) + 1, Is(j)
               PROVE  j = i + 1
    OBVIOUS
  <2>1. j # i
    BY <1>2
  <2>2. ~ (i + 1 <= j - 1)
    OBVIOUS
  <2> QED
    BY <2>1, <2>2
<1> HIDE DEF Is
<1> QED
  BY <1>1, <1>3, <1>4

\* The digits of a number are read to their end.
LEMMA EndOf ==
  ASSUME NEW s \in Seq(Nat), NEW n \in Nat, NEW i \in 1 .. Len(s),
         At(s, i, Digits[n]), Ends(s, i + Places(n))
  PROVE  FirstFrom(s, i, LAMBDA c : ~ IsDigit(c)) = i + Places(n)
<1> DEFINE e == i + Places(n)
<1> DEFINE Is(j) == /\ j <= Len(s) => ~ IsDigit(s[j])
                    /\ \A k \in i .. j - 1 : ~ ~ IsDigit(s[k])
<1>1. FirstFrom(s, i, LAMBDA c : ~ IsDigit(c)) = CHOOSE j \in i .. Len(s) + 1 : Is(j)
  BY DEF FirstFrom
<1>2. /\ Places(n) \in Nat \ {0} /\ Len(Digits[n]) = Places(n)
      /\ \A j \in 1 .. Places(n) : Digits[n][j] \in 0 .. 9
  <2>1. /\ Places(n) \in Nat \ {0} /\ Len(Digits[n]) = Places(n)
        /\ Digits[n] \in Seq(0 .. 9)
    BY DigitsOf
  <2> DEFINE d == Digits[n]
  <2>2. d \in Seq(0 .. 9) => \A j \in 1 .. Len(d) : d[j] \in 0 .. 9
    <3> HIDE DEF d
    <3> QED
      OBVIOUS
  <2> QED
    BY <2>1, <2>2
<1>3. e \in i .. Len(s) + 1
  BY <1>2 DEF At
<1>4. \A k \in i .. e - 1 : IsDigit(s[k])
  <2> SUFFICES ASSUME NEW k \in i .. e - 1
               PROVE  IsDigit(s[k])
    OBVIOUS
  <2>1. k - i + 1 \in 1 .. Places(n) /\ i + (k - i + 1) - 1 = k
    BY <1>2
  <2>2. s[i + (k - i + 1) - 1] = Digits[n][k - i + 1]
    BY <1>2, <2>1 DEF At
  <2> QED
    BY <1>2, <2>1, <2>2 DEF IsDigit
<1>5. e <= Len(s) => ~ IsDigit(s[e])
  BY DEF Ends, Space, IsDigit
<1>6. e \in Int /\ i \in Int /\ Len(s) \in Nat
  BY <1>3
<1> HIDE DEF e
<1>7. Is(e)
  BY <1>4, <1>5
<1>8. \A j \in i .. Len(s) + 1 : Is(j) => j = e
  <2> SUFFICES ASSUME NEW j \in i .. Len(s) + 1, Is(j)
               PROVE  j = e
    OBVIOUS
  <2>1. CASE j < e
    <3>1. j \in i .. e - 1 /\ j <= Len(s)
      BY <1>3, <1>6, <2>1
    <3> QED
      BY <1>4, <3>1
  <2>2. CASE j > e
    <3>1. e \in i .. j - 1 /\ e <= Len(s)
      BY <1>3, <1>6, <2>2
    <3> QED
      BY <1>5, <3>1
  <2> QED
    BY <1>6, <2>1, <2>2
<1> HIDE DEF Is
<1>9. (CHOOSE j \in i .. Len(s) + 1 : Is(j)) = e
  BY <1>3, <1>7, <1>8
<1> QED
  BY <1>1, <1>9 DEF e

\* Reading the digits of a number gives the number.
LEMMA NumberOf ==
  ASSUME NEW s \in Seq(Nat), NEW n \in Nat, NEW i \in 1 .. Len(s),
         At(s, i, Digits[n]), NEW p, p = Places(n)
  PROVE  LET Number[k \in 0 .. p] ==
               IF k = 0 THEN 0 ELSE 10 * Number[k - 1] + s[i + k - 1]
         IN  Number[p] = n
<1> DEFINE Number[k \in 0 .. p] ==
             IF k = 0 THEN 0 ELSE 10 * Number[k - 1] + s[i + k - 1]
<1> DEFINE q == Quotients(n)
<1> DEFINE d == Digits[n]
<1>1. /\ p \in Nat \ {0} /\ Len(d) = p /\ d \in Seq(0 .. 9)
      /\ q[0] = n /\ q[p] = 0
      /\ \A j \in 1 .. p : /\ q[p - j] \in Nat
                           /\ q[p - j] = 10 * q[p - (j - 1)] + d[j]
  BY DigitsOf, ZenonT(60)
<1>2. \A j \in 1 .. p : s[i + j - 1] = d[j]
  BY <1>1 DEF At
<1> HIDE DEF q, d
<1> DEFINE step == [k \in Nat |-> [x \in Nat |->
                     IF k < p THEN 10 * x + s[i + (k + 1) - 1] ELSE x]]
<1>3. \A j \in 1 .. p : s[i + j - 1] \in Nat
  <2> SUFFICES ASSUME NEW j \in 1 .. p
               PROVE  s[i + j - 1] \in Nat
    OBVIOUS
  <2>1. d[j] \in 0 .. 9 /\ s[i + j - 1] = d[j]
    BY <1>1, <1>2, SMTT(30)
  <2> QED
    BY <2>1
<1>4. StepsWithin(step, Nat)
  <2>1. \A k \in Nat : k < p => s[i + (k + 1) - 1] \in Nat
    <3>1. \A k \in Nat : k < p => k + 1 \in 1 .. p
      BY <1>1
    <3> QED
      BY <1>3, <3>1
  <2> QED
    BY <2>1 DEF StepsWithin
<1>5. \A k \in Nat : \A x \in Nat :
        k < p => step[k][x] = 10 * x + s[i + (k + 1) - 1]
  OBVIOUS
<1> HIDE DEF step
<1>6. PICK g \in [0 .. p -> Nat] : Follows(g, 0, step, p)
  <2>1. \A last \in Nat : \E g \in [0 .. last -> Nat] : Follows(g, 0, step, last)
    BY <1>4, FunctionByRecursion
  <2>2. p \in Nat
    BY <1>1
  <2> QED
    BY <2>1, <2>2, Zenon
<1>7. \A k \in 0 .. p : k # 0 => g[k] = 10 * g[k - 1] + s[i + k - 1]
  <2> SUFFICES ASSUME NEW k \in 0 .. p, k # 0
               PROVE  g[k] = 10 * g[k - 1] + s[i + k - 1]
    OBVIOUS
  <2>1. k - 1 \in Nat /\ k - 1 \in 0 .. p /\ k - 1 < p /\ (k - 1) + 1 = k
    <3>1. p \in Nat
      BY <1>1
    <3> QED
      BY <3>1
  <2>2. g[k - 1] \in Nat /\ g[(k - 1) + 1] = step[k - 1][g[k - 1]]
    BY <1>6, <2>1 DEF Follows
  <2>3. step[k - 1][g[k - 1]] = 10 * g[k - 1] + s[i + ((k - 1) + 1) - 1]
    BY <1>5, <2>1, <2>2
  <2> QED
    BY <2>1, <2>2, <2>3
<1>8. g = [k \in 0 .. p |-> IF k = 0 THEN 0 ELSE 10 * g[k - 1] + s[i + k - 1]]
  BY <1>6, <1>7 DEF Follows
<1>9. Number = [k \in 0 .. p |->
                  IF k = 0 THEN 0 ELSE 10 * Number[k - 1] + s[i + k - 1]]
  BY <1>8
<1> HIDE DEF Number
<1>10. Number[0] = 0 /\ \A j \in 1 .. p : Number[j] = 10 * Number[j - 1] + s[i + j - 1]
  BY <1>1, <1>9
<1> DEFINE T == {j \in Nat : j <= p => Number[j] = q[p - j]}
<1>11. 0 \in T
  BY <1>1, <1>10
<1>12. ASSUME NEW j \in Nat, j \in T
       PROVE  j + 1 \in T
  <2> SUFFICES ASSUME j + 1 <= p
               PROVE  Number[j + 1] = q[p - (j + 1)]
    OBVIOUS
  <2>1. Number[j] = q[p - j]
    BY <1>1, <1>12
  <2>2. j + 1 \in 1 .. p /\ (j + 1) - 1 = j
    BY <1>1
  <2>3. q[p - (j + 1)] = 10 * q[p - j] + d[j + 1]
    BY <1>1, <2>2
  <2> QED
    BY <1>2, <1>10, <2>1, <2>2, <2>3
<1> HIDE DEF T
<1>13. \A j \in Nat : j \in T
  BY <1>11, <1>12, SetInduction
<1>14. Number[p] = q[p - p] /\ p - p = 0
  BY <1>1, <1>13 DEF T
<1> QED
  BY <1>1, <1>14 DEF Number

LEMMA UnsignedOf ==
  ASSUME NEW s \in Seq(Nat), NEW n \in Nat, NEW i \in 1 .. Len(s),
         At(s, i, Digits[n]), Ends(s, i + Places(n))
  PROVE  LET end == FirstFrom(s, i, LAMBDA c : ~ IsDigit(c))
             Number[k \in 0 .. end - i] ==
               IF k = 0 THEN 0 ELSE 10 * Number[k - 1] + s[i + k - 1]
         IN  <<Number[end - i], end>> = <<n, i + Places(n)>>
<1> DEFINE end == FirstFrom(s, i, LAMBDA c : ~ IsDigit(c))
<1> DEFINE p == end - i
<1> DEFINE Number[k \in 0 .. p] ==
             IF k = 0 THEN 0 ELSE 10 * Number[k - 1] + s[i + k - 1]
<1>1. end = i + Places(n)
  BY EndOf
<1>2. Places(n) \in Nat
  BY DigitsOf
<1>3. p = Places(n)
  <2> HIDE DEF end
  <2> QED
    BY <1>1, <1>2
<1>4. Number[p] = n
  <2> HIDE DEF p
  <2> QED
    BY <1>3, NumberOf
<1> QED
  BY <1>1, <1>4

\* parse_int reads what int_to_str has written, to its last character.
LEMMA Parsed ==
  ASSUME NEW s \in Seq(Nat), NEW n \in Int, NEW i \in 1 .. Len(s),
         At(s, i, int_to_str(n)), Ends(s, i + Len(int_to_str(n)))
  PROVE  parse_int(s, i) = <<n, i + Len(int_to_str(n))>>
<1> DEFINE w == int_to_str(n)
<1> DEFINE Unsigned == [first \in 1 .. Len(s) + 1 |->
             LET end == FirstFrom(s, first, LAMBDA c : ~ IsDigit(c))
                 Number[k \in 0 .. end - first] ==
                   IF k = 0 THEN 0 ELSE 10 * Number[k - 1] + s[first + k - 1]
             IN <<Number[end - first], end>>]
<1>1. parse_int(s, i) =
        IF i <= Len(s) /\ s[i] = Minus
        THEN <<-Unsigned[i + 1][1], Unsigned[i + 1][2]>> ELSE Unsigned[i]
  BY DEF parse_int
<1>2. \A j \in 1 .. Len(s) : \A m \in Nat :
        At(s, j, Digits[m]) /\ Ends(s, j + Places(m))
          => Unsigned[j] = <<m, j + Places(m)>>
  <2> SUFFICES ASSUME NEW j \in 1 .. Len(s), NEW m \in Nat,
                      At(s, j, Digits[m]), Ends(s, j + Places(m))
               PROVE  Unsigned[j] = <<m, j + Places(m)>>
    OBVIOUS
  <2>1. j \in 1 .. Len(s) + 1
    OBVIOUS
  <2>2. LET end == FirstFrom(s, j, LAMBDA c : ~ IsDigit(c))
            Number[k \in 0 .. end - j] ==
              IF k = 0 THEN 0 ELSE 10 * Number[k - 1] + s[j + k - 1]
        IN  <<Number[end - j], end>> = <<m, j + Places(m)>>
    BY UnsignedOf
  <2> QED
    BY <2>1, <2>2
<1> HIDE DEF Unsigned
<1>3. w \in Seq(Nat) /\ Len(w) \in Nat \ {0} /\ s[i] = w[1]
  <2>1. w \in Seq(Nat) /\ Len(w) \in Nat \ {0}
    BY Spelling
  <2>2. 1 \in 1 .. Len(w) /\ i + 1 - 1 = i
    BY <2>1
  <2>3. s[i + 1 - 1] = w[1]
    BY <2>2 DEF At
  <2> QED
    BY <2>1, <2>2, <2>3
<1>4. CASE n \in Nat
  <2>1. w = Digits[n] /\ Digits[n] \in Seq(0 .. 9) /\ Len(Digits[n]) = Places(n)
    BY <1>4, Spelling, DigitsOf
  <2>2. Unsigned[i] = <<n, i + Len(w)>>
    BY <1>2, <1>4, <2>1
  <2>3. w[1] \in 0 .. 9
    <3>1. w \in Seq(0 .. 9) /\ Len(w) \in Nat \ {0}
      BY <1>3, <2>1
    <3> HIDE DEF w
    <3> QED
      BY <3>1
  <2>4. s[i] # Minus
    BY <1>3, <2>3, SMTT(30) DEF Minus
  <2> QED
    BY <1>1, <2>2, <2>4
<1>5. CASE n \notin Nat
  <2>1. /\ -n \in Nat /\ Len(w) = 1 + Len(Digits[-n]) /\ w[1] = Minus
        /\ \A j \in 1 .. Len(Digits[-n]) : w[1 + j] = Digits[-n][j]
    BY <1>5, Spelling
  <2>2. Places(-n) \in Nat \ {0} /\ Len(Digits[-n]) = Places(-n)
    BY <2>1, DigitsOf
  <2>3. i + Len(w) <= Len(s) + 1 /\ i + 1 \in 1 .. Len(s)
    BY <2>1, <2>2 DEF At
  <2>4. At(s, i + 1, Digits[-n])
    <3>1. ASSUME NEW j \in 1 .. Len(Digits[-n])
          PROVE  s[(i + 1) + j - 1] = Digits[-n][j]
      <4>1. 1 + j \in 1 .. Len(w) /\ i + (1 + j) - 1 = (i + 1) + j - 1
        BY <2>1, <2>2
      <4>2. s[i + (1 + j) - 1] = w[1 + j]
        BY <4>1 DEF At
      <4> QED
        BY <2>1, <4>1, <4>2
    <3>2. (i + 1) + Len(Digits[-n]) <= Len(s) + 1
      BY <2>1, <2>2, <2>3
    <3> QED
      BY <3>1, <3>2 DEF At
  <2>5. (i + 1) + Places(-n) = i + Len(w)
    BY <2>1, <2>2
  <2>6. Unsigned[i + 1] = <<-n, i + Len(w)>>
    <3>1. Ends(s, (i + 1) + Places(-n))
      BY <2>5
    <3>2. Unsigned[i + 1] = <<-n, (i + 1) + Places(-n)>>
      BY <1>2, <2>1, <2>3, <2>4, <3>1
    <3> QED
      BY <2>5, <3>2
  <2>7. i <= Len(s) /\ s[i] = Minus
    BY <1>3, <2>1
  <2>8. -(-n) = n
    OBVIOUS
  <2> QED
    BY <1>1, <2>6, <2>7, <2>8
<1> QED
  BY <1>4, <1>5

\* What Text has written once it has written the first k numbers.
Written(letter, numbers) ==
  LET Written[k \in 0 .. Len(numbers)] ==
        IF k = 0 THEN <<letter>>
        ELSE Written[k - 1] \o <<Space>> \o int_to_str(numbers[k])
  IN Written

LEMMA WrittenOf ==
  ASSUME NEW letter \in Nat, NEW numbers \in Seq(Int),
         NEW w, w = Written(letter, numbers)
  PROVE  /\ Text(letter, numbers) = w[Len(numbers)]
         /\ w[0] = <<letter>>
         /\ \A k \in 0 .. Len(numbers) : w[k] \in Seq(Nat)
         /\ \A k \in 1 .. Len(numbers) :
              w[k] = w[k - 1] \o <<Space>> \o int_to_str(numbers[k])
<1> DEFINE last == Len(numbers)
<1> DEFINE step == [k \in Nat |-> [x \in Seq(Nat) |->
             IF k < last THEN x \o <<Space>> \o int_to_str(numbers[k + 1]) ELSE x]]
<1>1. last \in Nat
  OBVIOUS
<1>2. StepsWithin(step, Seq(Nat)) /\ <<letter>> \in Seq(Nat)
  <2>1. ASSUME NEW k \in Nat, k < last
        PROVE  int_to_str(numbers[k + 1]) \in Seq(Nat)
    <3>1. numbers[k + 1] \in Int
      BY <2>1
    <3> QED
      BY <3>1, Spelling
  <2>2. <<Space>> \in Seq(Nat)
    BY DEF Space
  <2> QED
    BY <2>1, <2>2 DEF StepsWithin
<1>3. \A k \in Nat : \A x \in Seq(Nat) :
        k < last => step[k][x] = x \o <<Space>> \o int_to_str(numbers[k + 1])
  OBVIOUS
<1> HIDE DEF step
<1>4. PICK g \in [0 .. last -> Seq(Nat)] : Follows(g, <<letter>>, step, last)
  <2>1. \A n \in Nat : \E g \in [0 .. n -> Seq(Nat)] : Follows(g, <<letter>>, step, n)
    BY <1>2, FunctionByRecursion
  <2> QED
    BY <1>1, <2>1, Zenon
<1> HIDE DEF last
<1>5. \A k \in 0 .. last : k # 0 =>
        g[k] = g[k - 1] \o <<Space>> \o int_to_str(numbers[k])
  <2> SUFFICES ASSUME NEW k \in 0 .. last, k # 0
               PROVE  g[k] = g[k - 1] \o <<Space>> \o int_to_str(numbers[k])
    OBVIOUS
  <2>1. k - 1 \in Nat /\ k - 1 \in 0 .. last /\ k - 1 < last /\ (k - 1) + 1 = k
    BY <1>1
  <2>2. g[k - 1] \in Seq(Nat) /\ g[(k - 1) + 1] = step[k - 1][g[k - 1]]
    BY <1>4, <2>1 DEF Follows
  <2>3. step[k - 1][g[k - 1]] =
          g[k - 1] \o <<Space>> \o int_to_str(numbers[(k - 1) + 1])
    BY <1>3, <2>1, <2>2
  <2> QED
    BY <2>1, <2>2, <2>3
<1>6. g = [k \in 0 .. last |->
             IF k = 0 THEN <<letter>>
             ELSE g[k - 1] \o <<Space>> \o int_to_str(numbers[k])]
  BY <1>4, <1>5 DEF Follows
<1>7. w = [k \in 0 .. last |->
             IF k = 0 THEN <<letter>>
             ELSE w[k - 1] \o <<Space>> \o int_to_str(numbers[k])]
  BY <1>6 DEF Written, last
<1>8. /\ w[0] = <<letter>>
      /\ \A k \in 1 .. last :
           w[k] = w[k - 1] \o <<Space>> \o int_to_str(numbers[k])
  <2>1. 0 \in 0 .. last /\ \A k \in 1 .. last : k \in 0 .. last /\ k # 0
    BY <1>1
  <2> QED
    BY <1>7, <2>1, Zenon
<1>9. \A k \in 0 .. last : w[k] \in Seq(Nat)
  <2> DEFINE T == {k \in Nat : k <= last => w[k] \in Seq(Nat)}
  <2>1. 0 \in T
    BY <1>2, <1>8
  <2>2. ASSUME NEW k \in Nat, k \in T, k + 1 <= last
        PROVE  w[k + 1] \in Seq(Nat)
    <3>1. k <= last /\ k + 1 \in 1 .. last /\ (k + 1) - 1 = k
      BY <1>1, <2>2
    <3>2. numbers[k + 1] \in Int
      BY <3>1 DEF last
    <3>3. int_to_str(numbers[k + 1]) \in Seq(Nat) /\ <<Space>> \in Seq(Nat)
      <4>1. int_to_str(numbers[k + 1]) \in Seq(Nat)
        BY <3>2, Spelling
      <4> QED
        BY <4>1 DEF Space
    <3>4. w[k] \in Seq(Nat)
      BY <2>2, <3>1
    <3>5. w[k + 1] = w[k] \o <<Space>> \o int_to_str(numbers[k + 1])
      BY <1>8, <3>1
    <3> QED
      BY <3>3, <3>4, <3>5
  <2>3. \A k \in Nat : k \in T => k + 1 \in T
    BY <2>2
  <2> HIDE DEF T
  <2>4. \A k \in Nat : k \in T
    BY <2>1, <2>3, SetInduction
  <2> QED
    BY <1>1, <2>4 DEF T
<1>10. Text(letter, numbers) = w[last]
  BY DEF Text, Written, last
<1> QED
  BY <1>8, <1>9, <1>10 DEF last

LEMMA Spaced ==
  ASSUME NEW x \in Seq(Nat), NEW word \in Seq(Nat),
         NEW t, t = x \o <<Space>> \o word
  PROVE  /\ Len(t) = Len(x) + 1 + Len(word)
         /\ \A i \in 1 .. Len(x) : t[i] = x[i]
         /\ t[Len(x) + 1] = Space
         /\ \A j \in 1 .. Len(word) : t[Len(x) + 1 + j] = word[j]
<1> DEFINE y == x \o <<Space>>
<1>1. /\ y \in Seq(Nat) /\ Len(y) = Len(x) + 1 /\ y[Len(x) + 1] = Space
      /\ \A i \in 1 .. Len(x) : y[i] = x[i]
  BY DEF Space
<1>2. t = y \o word
  OBVIOUS
<1> HIDE DEF y
<1>3. /\ Len(t) = Len(y) + Len(word)
      /\ \A i \in 1 .. Len(y) + Len(word) :
           t[i] = IF i <= Len(y) THEN y[i] ELSE word[i - Len(y)]
  BY <1>1, <1>2, ConcatProperties, SMTT(30)
<1>4. Len(x) \in Nat /\ Len(y) \in Nat /\ Len(word) \in Nat
  BY <1>1
<1>5. \A i \in 1 .. Len(y) : t[i] = y[i]
  BY <1>3, <1>4
<1>6. \A j \in 1 .. Len(word) : t[Len(x) + 1 + j] = word[j]
  <2> SUFFICES ASSUME NEW j \in 1 .. Len(word)
               PROVE  t[Len(x) + 1 + j] = word[j]
    OBVIOUS
  <2>1. /\ Len(x) + 1 + j \in 1 .. Len(y) + Len(word)
        /\ ~ (Len(x) + 1 + j <= Len(y))
        /\ Len(x) + 1 + j - Len(y) = j
    BY <1>1, <1>4
  <2> QED
    BY <1>3, <2>1
<1>7. /\ \A i \in 1 .. Len(x) : i \in 1 .. Len(y)
      /\ Len(x) + 1 \in 1 .. Len(y)
  BY <1>1, <1>4
<1> QED
  BY <1>1, <1>3, <1>5, <1>6, <1>7

\* Sums of lengths.
LEMMA Sums ==
  /\ \A a, b \in Nat : /\ a + 1 + b \in Nat /\ a + 1 + b >= 1
                       /\ a <= a + 1 + b
  /\ \A a, b, c \in Nat : a <= b /\ b <= c => a <= c
  OBVIOUS

\* Where the kth number is in a text: behind what was written before it and a
\* space, and before the end or another space.
LEMMA Layout ==
  ASSUME NEW letter \in Nat, NEW numbers \in Seq(Int),
         NEW w, w = Written(letter, numbers), NEW s, s = Text(letter, numbers)
  PROVE  /\ s \in Seq(Nat) /\ s[1] = letter /\ Len(w[0]) = 1
         /\ \A k \in 1 .. Len(numbers) :
              /\ Len(w[k - 1]) + 1 \in 2 .. Len(s)
              /\ s[Len(w[k - 1]) + 1] = Space
              /\ Len(w[k - 1]) + 2 <= Len(s)
              /\ At(s, Len(w[k - 1]) + 2, int_to_str(numbers[k]))
              /\ Len(w[k]) = Len(w[k - 1]) + 1 + Len(int_to_str(numbers[k]))
              /\ Ends(s, Len(w[k]) + 1)
<1> DEFINE last == Len(numbers)
<1> DEFINE str(k) == int_to_str(numbers[k])
<1>1. /\ s = w[last] /\ w[0] = <<letter>>
      /\ \A k \in 0 .. last : w[k] \in Seq(Nat)
      /\ \A k \in 1 .. last : w[k] = w[k - 1] \o <<Space>> \o str(k)
  BY WrittenOf
<1>2. last \in Nat
  OBVIOUS
<1>3. \A k \in 1 .. last : str(k) \in Seq(Nat) /\ Len(str(k)) \in Nat \ {0}
  <2> SUFFICES ASSUME NEW k \in 1 .. last
               PROVE  str(k) \in Seq(Nat) /\ Len(str(k)) \in Nat \ {0}
    OBVIOUS
  <2>1. numbers[k] \in Int
    OBVIOUS
  <2> QED
    BY <2>1, Spelling
<1> HIDE DEF last, str
<1>4. ASSUME NEW k \in 1 .. last
      PROVE  /\ k - 1 \in 0 .. last /\ k \in 0 .. last
             /\ Len(w[k - 1]) \in Nat
             /\ Len(w[k]) = Len(w[k - 1]) + 1 + Len(str(k))
             /\ \A i \in 1 .. Len(w[k - 1]) : w[k][i] = w[k - 1][i]
             /\ w[k][Len(w[k - 1]) + 1] = Space
             /\ \A j \in 1 .. Len(str(k)) :
                  w[k][Len(w[k - 1]) + 1 + j] = str(k)[j]
  <2>1. k - 1 \in 0 .. last /\ k \in 0 .. last
    BY <1>2
  <2>2. /\ w[k - 1] \in Seq(Nat) /\ str(k) \in Seq(Nat)
        /\ w[k] = w[k - 1] \o <<Space>> \o str(k)
    BY <1>1, <1>3, <2>1
  <2> DEFINE x == w[k - 1]
  <2> DEFINE word == str(k)
  <2> DEFINE t == w[k]
  <2>3. x \in Seq(Nat) /\ word \in Seq(Nat) /\ t = x \o <<Space>> \o word
    BY <2>2
  <2> HIDE DEF x, word, t
  <2>4. /\ Len(x) \in Nat
        /\ Len(t) = Len(x) + 1 + Len(word)
        /\ \A i \in 1 .. Len(x) : t[i] = x[i]
        /\ t[Len(x) + 1] = Space
        /\ \A j \in 1 .. Len(word) : t[Len(x) + 1 + j] = word[j]
    BY <2>3, Spaced
  <2> QED
    BY <2>1, <2>4 DEF x, word, t
<1> DEFINE Prefix(k, m) == /\ Len(w[k]) <= Len(w[m])
                           /\ \A i \in 1 .. Len(w[k]) : w[m][i] = w[k][i]
<1>5. \A k \in 0 .. last : Prefix(k, last)
  <2> DEFINE T == {m \in Nat : m <= last => \A k \in 0 .. m : Prefix(k, m)}
  <2>1. 0 \in T
    <3>1. Len(w[0]) \in Nat
      BY <1>1
    <3>2. Prefix(0, 0)
      BY <3>1
    <3> HIDE DEF Prefix
    <3> QED
      BY <3>2
  <2>2. ASSUME NEW m \in Nat, m \in T, m + 1 <= last, NEW k \in 0 .. m + 1
        PROVE  Prefix(k, m + 1)
    <3>1. m + 1 \in 1 .. last /\ (m + 1) - 1 = m /\ m + 1 \in 0 .. last /\ m <= last
      BY <1>2, <2>2
    <3>2. /\ Len(w[m + 1]) \in Nat /\ Len(w[m]) \in Nat
          /\ Len(w[m + 1]) = Len(w[m]) + 1 + Len(str(m + 1))
          /\ Len(str(m + 1)) \in Nat
          /\ \A i \in 1 .. Len(w[m]) : w[m + 1][i] = w[m][i]
      <4>1. Len(str(m + 1)) \in Nat
        BY <1>3, <3>1
      <4>2. /\ Len(w[m]) \in Nat
            /\ Len(w[m + 1]) = Len(w[m]) + 1 + Len(str(m + 1))
            /\ \A i \in 1 .. Len(w[m]) : w[m + 1][i] = w[m][i]
        BY <1>4, <3>1, ZenonT(60)
      <4>3. Len(w[m]) + 1 + Len(str(m + 1)) \in Nat
        BY <4>1, <4>2, Sums, Zenon
      <4> QED
        BY <4>1, <4>2, <4>3, Zenon
    <3>3. CASE k = m + 1
      <4>1. Prefix(m + 1, m + 1)
        BY <3>2
      <4> HIDE DEF Prefix
      <4> QED
        BY <3>3, <4>1
    <3>4. CASE k # m + 1
      <4>1. k \in 0 .. m /\ k \in 0 .. last
        BY <1>2, <2>2, <3>1, <3>4
      <4>2. Prefix(k, m)
        BY <2>2, <3>1, <4>1
      <4>3. Len(w[k]) \in Nat
        BY <1>1, <4>1
      <4>4. \A i \in 1 .. Len(w[k]) : i \in 1 .. Len(w[m])
        BY <3>2, <4>2, <4>3
      <4>5. Len(w[k]) <= Len(w[m + 1])
        <5>1. Len(w[m]) <= Len(w[m]) + 1 + Len(str(m + 1))
          BY Sums, <3>2, Zenon
        <5>2. Len(w[k]) <= Len(w[m]) /\ Len(w[m]) <= Len(w[m + 1])
          BY <3>2, <4>2, <5>1, Zenon
        <5> QED
          BY Sums, <3>2, <4>3, <5>2, Zenon
      <4>6. \A i \in 1 .. Len(w[k]) : w[m + 1][i] = w[k][i]
        BY <3>2, <4>2, <4>4, Zenon
      <4> QED
        BY <4>5, <4>6
    <3> QED
      BY <3>3, <3>4
  <2>3. \A m \in Nat : m \in T => m + 1 \in T
    <3> HIDE DEF Prefix
    <3> QED
      BY <2>2
  <2> HIDE DEF T
  <2>4. \A m \in Nat : m \in T
    BY <2>1, <2>3, SetInduction
  <2> HIDE DEF Prefix
  <2> QED
    BY <1>2, <2>4 DEF T
<1>6. s \in Seq(Nat) /\ Len(s) \in Nat /\ Len(w[0]) = 1 /\ s[1] = letter
  <2>1. last \in 0 .. last /\ 0 \in 0 .. last
    BY <1>2
  <2>2. s \in Seq(Nat) /\ Len(s) \in Nat
    BY <1>1, <2>1
  <2>3. Len(w[0]) = 1 /\ w[0][1] = letter
    BY <1>1
  <2>4. s[1] = w[0][1]
    <3>1. 1 \in 1 .. Len(w[0])
      BY <2>3
    <3>2. Prefix(0, last)
      BY <1>5, <2>1, Zenon
    <3>3. w[last][1] = w[0][1]
      BY <3>1, <3>2, Zenon
    <3> QED
      BY <1>1, <3>3, Zenon
  <2> QED
    BY <2>2, <2>3, <2>4
<1>7. ASSUME NEW k \in 1 .. last
      PROVE  /\ Len(w[k]) <= Len(s) /\ Len(w[k]) \in Nat
             /\ \A i \in 1 .. Len(w[k]) : s[i] = w[k][i]
  <2>1. k \in 0 .. last
    BY <1>4
  <2> QED
    BY <1>1, <1>5, <2>1
<1>8. ASSUME NEW k \in 1 .. last
      PROVE  /\ Len(w[k - 1]) + 1 \in 2 .. Len(s)
             /\ s[Len(w[k - 1]) + 1] = Space
             /\ Len(w[k - 1]) + 2 <= Len(s)
             /\ At(s, Len(w[k - 1]) + 2, str(k))
             /\ Len(w[k]) = Len(w[k - 1]) + 1 + Len(str(k))
             /\ Len(w[k]) \in Nat
  <2>1. /\ k - 1 \in 0 .. last /\ Len(w[k - 1]) \in Nat
        /\ Len(w[k]) = Len(w[k - 1]) + 1 + Len(str(k))
        /\ Len(str(k)) \in Nat \ {0}
    BY <1>3, <1>4
  <2>2. Len(w[k]) <= Len(s) /\ Len(w[k]) \in Nat
    BY <1>7
  <2>3. Len(w[k - 1]) >= 1
    <3>1. 0 \in 0 .. k - 1 /\ 0 \in 0 .. last
      BY <1>2
    <3>2. CASE k = 1
      <4>1. k - 1 = 0
        BY <3>2
      <4>2. Len(w[k - 1]) = 1
        BY <1>6, <4>1, Zenon
      <4> QED
        BY <4>2
    <3>3. CASE k # 1
      <4>1. k - 1 \in 1 .. last /\ (k - 1) - 1 \in 0 .. last
        BY <1>2, <3>3
      <4>2. /\ Len(w[(k - 1) - 1]) \in Nat
            /\ Len(w[k - 1]) = Len(w[(k - 1) - 1]) + 1 + Len(str(k - 1))
            /\ Len(str(k - 1)) \in Nat
        <5>1. Len(str(k - 1)) \in Nat
          BY <1>3, <4>1
        <5> QED
          BY <1>4, <4>1, <5>1
      <4>3. Len(w[(k - 1) - 1]) + 1 + Len(str(k - 1)) >= 1
        BY Sums, <4>2, Zenon
      <4> QED
        BY <4>2, <4>3, Zenon
    <3> QED
      BY <3>2, <3>3
  <2>4. Len(w[k - 1]) + 1 \in 1 .. Len(w[k])
    BY <2>1, <2>2
  <2>5. s[Len(w[k - 1]) + 1] = Space
    BY <1>4, <1>7, <2>4
  <2>6. At(s, Len(w[k - 1]) + 2, str(k))
    <3>1. ASSUME NEW j \in 1 .. Len(str(k))
          PROVE  s[Len(w[k - 1]) + 2 + j - 1] = str(k)[j]
      <4>1. /\ Len(w[k - 1]) + 1 + j \in 1 .. Len(w[k])
            /\ Len(w[k - 1]) + 2 + j - 1 = Len(w[k - 1]) + 1 + j
        BY <2>1, <2>2
      <4>2. s[Len(w[k - 1]) + 1 + j] = w[k][Len(w[k - 1]) + 1 + j]
        BY <1>7, <4>1
      <4>3. w[k][Len(w[k - 1]) + 1 + j] = str(k)[j]
        BY <1>4
      <4> QED
        BY <4>1, <4>2, <4>3
    <3>2. Len(w[k - 1]) + 2 + Len(str(k)) <= Len(s) + 1
      BY <1>6, <2>1, <2>2
    <3> QED
      BY <3>1, <3>2 DEF At
  <2>7. Len(w[k - 1]) + 1 \in 2 .. Len(s) /\ Len(w[k - 1]) + 2 <= Len(s)
    BY <1>6, <2>1, <2>2, <2>3, SMTT(30)
  <2> QED
    BY <2>1, <2>2, <2>5, <2>6, <2>7
<1>9. ASSUME NEW k \in 1 .. last
      PROVE  Ends(s, Len(w[k]) + 1)
  <2>1. CASE k = last
    <3>1. Len(w[k]) = Len(s)
      BY <1>1, <2>1
    <3> QED
      BY <1>6, <3>1 DEF Ends
  <2>2. CASE k # last
    <3>1. k + 1 \in 1 .. last /\ (k + 1) - 1 = k
      BY <1>2, <2>2
    <3>2. s[Len(w[(k + 1) - 1]) + 1] = Space
      BY <1>8, <3>1
    <3> QED
      BY <3>1, <3>2 DEF Ends
  <2> QED
    BY <2>1, <2>2
<1> QED
  BY <1>6, <1>8, <1>9 DEF last, str

\* What one engine writes the other reads: every number of the message, of
\* whatever size and sign, and in its place.
THEOREM NumbersArrive ==
  ASSUME NEW letter \in Nat, NEW numbers \in Seq(Int),
         NEW count \in 0 .. Len(numbers)
  PROVE  Values(Text(letter, numbers), count) = [k \in 1 .. count |-> numbers[k]]
<1> DEFINE s == Text(letter, numbers)
<1> DEFINE w == Written(letter, numbers)
<1> DEFINE str(k) == int_to_str(numbers[k])
<1> DEFINE Behind == [i \in 2 .. Len(s) + 1 |-> parse_int(s, skip_sep(s, i))]
<1> DEFINE Read[k \in 0 .. count] == IF k = 0 THEN <<0, 2>> ELSE Behind[Read[k - 1][2]]
<1> DEFINE g == [k \in 0 .. count |->
                   <<IF k = 0 THEN 0 ELSE numbers[k], Len(w[k]) + 1>>]
<1>1. /\ s \in Seq(Nat) /\ Len(s) \in Nat /\ Len(w[0]) = 1
      /\ \A k \in 1 .. Len(numbers) :
           /\ Len(w[k - 1]) + 1 \in 2 .. Len(s)
           /\ s[Len(w[k - 1]) + 1] = Space
           /\ Len(w[k - 1]) + 2 <= Len(s)
           /\ At(s, Len(w[k - 1]) + 2, str(k))
           /\ Len(w[k]) = Len(w[k - 1]) + 1 + Len(str(k))
           /\ Ends(s, Len(w[k]) + 1)
  <2>1. s \in Seq(Nat)
    BY Layout
  <2>2. Len(s) \in Nat
    <3> HIDE DEF s
    <3> QED
      BY <2>1
  <2> QED
    BY <2>1, <2>2, Layout, ZenonT(60)
<1> HIDE DEF s, w
<1>2. count \in Nat /\ \A k \in 1 .. count : k \in 1 .. Len(numbers) /\ numbers[k] \in Int
  OBVIOUS
<1>3. ASSUME NEW k \in 1 .. count
      PROVE  Behind[Len(w[k - 1]) + 1] = <<numbers[k], Len(w[k]) + 1>>
  <2> DEFINE i == Len(w[k - 1]) + 1
  <2>1. k \in 1 .. Len(numbers) /\ numbers[k] \in Int
    BY <1>2
  <2>2. /\ i \in 2 .. Len(s) /\ s[i] = Space /\ Len(w[k - 1]) + 2 <= Len(s)
        /\ At(s, Len(w[k - 1]) + 2, str(k))
        /\ Len(w[k]) = Len(w[k - 1]) + 1 + Len(str(k))
        /\ Ends(s, Len(w[k]) + 1)
    BY <1>1, <2>1
  <2>3. /\ str(k) \in Seq(Nat) /\ Len(str(k)) \in Nat \ {0}
        /\ str(k)[1] = Minus \/ IsDigit(str(k)[1])
    BY <2>1, Spelling
  <2>4. Len(w[k - 1]) + 2 = i + 1 /\ i \in Nat
    <3>1. Len(w[k - 1]) + 1 \in Int
      BY <2>2
    <3> QED
      BY <2>2
  <2>5. (i + 1) + Len(str(k)) = Len(w[k]) + 1
    <3> DEFINE a == Len(w[k - 1])
    <3> DEFINE b == Len(str(k))
    <3> DEFINE c == Len(w[k])
    <3>1. a + 1 \in Int /\ a + 2 = (a + 1) + 1 /\ b \in Int /\ c = a + 1 + b
      BY <2>2, <2>3, <2>4
    <3> HIDE DEF a, b, c
    <3>2. ((a + 1) + 1) + b = c + 1
      BY <3>1
    <3> QED
      BY <3>2 DEF a, b, c
  <2> HIDE DEF i, str
  <2>6. At(s, i + 1, str(k)) /\ i + 1 \in 1 .. Len(s) /\ i \in 1 .. Len(s) /\ i < Len(s)
    BY <1>1, <2>2, <2>4, SMTT(30)
  <2>7. s[i + 1] = str(k)[1]
    <3>1. 1 \in 1 .. Len(str(k)) /\ (i + 1) + 1 - 1 = i + 1
      BY <2>3, <2>4
    <3>2. s[(i + 1) + 1 - 1] = str(k)[1]
      BY <2>6, <3>1 DEF At
    <3> QED
      BY <3>1, <3>2
  <2>8. skip_sep(s, i) = i + 1
    BY <1>1, <2>2, <2>3, <2>6, <2>7, Skipped
  <2>9. parse_int(s, i + 1) = <<numbers[k], (i + 1) + Len(str(k))>>
    <3>1. Ends(s, (i + 1) + Len(str(k)))
      BY <2>2, <2>5
    <3> QED
      BY <1>1, <2>1, <2>6, <3>1, Parsed DEF str
  <2>10. Behind[i] = parse_int(s, skip_sep(s, i))
    <3>1. i \in 2 .. Len(s) + 1
      BY <1>1, <2>2
    <3> QED
      BY <3>1
  <2> HIDE DEF Behind
  <2>11. Behind[i] = <<numbers[k], Len(w[k]) + 1>>
    BY <2>5, <2>8, <2>9, <2>10
  <2> QED
    BY <2>11 DEF i
<1> HIDE DEF Behind, str
<1>4. \A k \in 0 .. count : k # 0 =>
        /\ k \in 1 .. count /\ k - 1 \in 0 .. count
  BY <1>2
<1>5. \A k \in 0 .. count : g[k] = IF k = 0 THEN <<0, 2>> ELSE Behind[g[k - 1][2]]
  <2> SUFFICES ASSUME NEW k \in 0 .. count
               PROVE  g[k] = IF k = 0 THEN <<0, 2>> ELSE Behind[g[k - 1][2]]
    OBVIOUS
  <2>1. CASE k = 0
    <3>1. g[k] = <<0, Len(w[0]) + 1>>
      BY <2>1
    <3> HIDE DEF g
    <3>2. Len(w[0]) + 1 = 2
      BY <1>1
    <3> QED
      BY <2>1, <3>1, <3>2
  <2>2. CASE k # 0
    <3>1. k \in 1 .. count /\ k - 1 \in 0 .. count
      BY <1>4, <2>2
    <3>2. g[k - 1][2] = Len(w[k - 1]) + 1
      BY <3>1
    <3>3. g[k] = <<numbers[k], Len(w[k]) + 1>>
      BY <2>2
    <3> QED
      BY <1>3, <2>2, <3>1, <3>2, <3>3
  <2> QED
    BY <2>1, <2>2
<1>6. g = [k \in 0 .. count |-> IF k = 0 THEN <<0, 2>> ELSE Behind[g[k - 1][2]]]
  <2>1. g = [k \in 0 .. count |-> g[k]]
    OBVIOUS
  <2> HIDE DEF g
  <2> QED
    BY <1>5, <2>1
<1>7. Read = [k \in 0 .. count |-> IF k = 0 THEN <<0, 2>> ELSE Behind[Read[k - 1][2]]]
  <2> HIDE DEF g
  <2> QED
    BY <1>6
<1>8. Values(s, count) = [k \in 1 .. count |-> Read[k][1]]
  BY DEF Values, Behind
<1> HIDE DEF Read
<1>9. \A k \in Nat : k <= count => Read[k] = g[k]
  <2> DEFINE T == {k \in Nat : k <= count => Read[k] = g[k]}
  <2>1. 0 \in T
    <3>1. 0 \in 0 .. count
      BY <1>2
    <3> HIDE DEF g
    <3> QED
      BY <1>5, <1>7, <3>1
  <2>2. ASSUME NEW k \in Nat, k \in T, k + 1 <= count
        PROVE  Read[k + 1] = g[k + 1]
    <3>1. k + 1 \in 0 .. count /\ k + 1 # 0 /\ (k + 1) - 1 = k /\ k <= count
      BY <1>2, <2>2
    <3> HIDE DEF g
    <3>2. Read[k] = g[k]
      BY <2>2, <3>1
    <3>3. Read[k + 1] = Behind[Read[k][2]] /\ g[k + 1] = Behind[g[k][2]]
      <4>1. Read[k + 1] = Behind[Read[(k + 1) - 1][2]]
        BY <1>7, <3>1
      <4>2. g[k + 1] = Behind[g[(k + 1) - 1][2]]
        BY <1>5, <3>1
      <4> QED
        BY <3>1, <4>1, <4>2
    <3> QED
      BY <3>2, <3>3
  <2>3. \A k \in Nat : k \in T => k + 1 \in T
    <3> HIDE DEF g
    <3> QED
      BY <2>2
  <2> HIDE DEF T
  <2>4. \A k \in Nat : k \in T
    BY <2>1, <2>3, SetInduction
  <2> QED
    BY <2>4 DEF T
<1>10. \A k \in 1 .. count : Read[k][1] = numbers[k]
  <2> SUFFICES ASSUME NEW k \in 1 .. count
               PROVE  Read[k][1] = numbers[k]
    OBVIOUS
  <2>1. k \in Nat /\ k <= count /\ k \in 0 .. count /\ k # 0
    BY <1>2
  <2>2. g[k] = <<numbers[k], Len(w[k]) + 1>>
    BY <2>1
  <2>3. Read[k] = g[k]
    BY <1>9, <2>1
  <2> QED
    BY <2>2, <2>3
<1>11. Values(s, count) = [k \in 1 .. count |-> numbers[k]]
  BY <1>8, <1>10
<1> QED
  BY <1>11 DEF s

LEMMA Sizes ==
  ASSUME NEW letter \in Nat, NEW numbers \in Seq(Int)
  PROVE  /\ Text(letter, numbers) \in Seq(Nat) /\ Text(letter, numbers)[1] = letter
         /\ Len(Written(letter, numbers)[0]) = 1
         /\ \A k \in 1 .. Len(numbers) :
              /\ Len(Written(letter, numbers)[k - 1]) + 2 <= Len(Text(letter, numbers))
              /\ Len(Written(letter, numbers)[k])
                   = Len(Written(letter, numbers)[k - 1]) + 1 + Len(int_to_str(numbers[k]))
<1> DEFINE s == Text(letter, numbers)
<1> DEFINE w == Written(letter, numbers)
<1>1. /\ s \in Seq(Nat) /\ s[1] = letter /\ Len(w[0]) = 1
      /\ \A k \in 1 .. Len(numbers) :
           /\ Len(w[k - 1]) + 1 \in 2 .. Len(s)
           /\ s[Len(w[k - 1]) + 1] = Space
           /\ Len(w[k - 1]) + 2 <= Len(s)
           /\ At(s, Len(w[k - 1]) + 2, int_to_str(numbers[k]))
           /\ Len(w[k]) = Len(w[k - 1]) + 1 + Len(int_to_str(numbers[k]))
           /\ Ends(s, Len(w[k]) + 1)
  BY Layout
<1> HIDE DEF s, w
<1>2. /\ s \in Seq(Nat) /\ s[1] = letter /\ Len(w[0]) = 1
      /\ \A k \in 1 .. Len(numbers) :
           /\ Len(w[k - 1]) + 2 <= Len(s)
           /\ Len(w[k]) = Len(w[k - 1]) + 1 + Len(int_to_str(numbers[k]))
  BY <1>1
<1> QED
  BY <1>2 DEF s, w

LEMMA MessageShape ==
  ASSUME NEW letter \in Nat, NEW numbers \in Seq(Int), Len(numbers) >= 1
  PROVE  Len(Text(letter, numbers)) >= 2 /\ Text(letter, numbers)[1] = letter
<1> DEFINE s == Text(letter, numbers)
<1> DEFINE w == Written(letter, numbers)
<1>1. /\ s \in Seq(Nat) /\ s[1] = letter /\ Len(w[0]) = 1
      /\ \A k \in 1 .. Len(numbers) : Len(w[k - 1]) + 2 <= Len(s)
  BY Sizes
<1> HIDE DEF s, w
<1>2. 1 \in 1 .. Len(numbers) /\ 1 - 1 = 0 /\ Len(s) \in Nat
  BY <1>1
<1>3. Len(s) >= 2
  BY <1>1, <1>2
<1> QED
  BY <1>1, <1>3 DEF s

-----------------------------------------------------------------------------
(* How long a number and a message are. *)

\* The last digit is off as soon as nothing is left.
LEMMA NothingLeft ==
  ASSUME NEW n \in Nat, NEW k \in Nat \ {0},
         k <= n + 1 => Quotients(n)[k] = 0
  PROVE  Places(n) <= k
<1>1. /\ Places(n) \in 1 .. n + 1
      /\ \A j \in 1 .. Places(n) - 1 : Quotients(n)[j] # 0
  BY PlacesOf
<1>2. CASE k <= n + 1
  <2>1. ~ (k \in 1 .. Places(n) - 1)
    BY <1>1, <1>2
  <2> QED
    BY <1>1, <2>1
<1>3. CASE ~ (k <= n + 1)
  BY <1>1, <1>3
<1> QED
  BY <1>2, <1>3

\* A number under a bound of len digits has at most len.
LEMMA PlacesUpTo ==
  ASSUME NEW n \in Nat, NEW len \in Nat \ {0}, NEW bound,
         \A k \in 0 .. len : bound[k] \in Nat,
         n <= bound[len], bound[0] = 0,
         \A k \in 1 .. len : bound[k] <= 10 * bound[k - 1] + 9
  PROVE  Places(n) <= len
<1> DEFINE q == Quotients(n)
<1>1. /\ q[0] = n
      /\ \A k \in 0 .. n + 1 : q[k] \in Nat
      /\ \A k \in 0 .. n : q[k + 1] = q[k] \div 10
  BY QuotientsOf
<1> HIDE DEF q
<1> DEFINE T == {k \in Nat : k <= n + 1 /\ k <= len => q[k] <= bound[len - k]}
<1>2. 0 \in T
  <2>1. len - 0 = len /\ n + 1 \in Nat
    OBVIOUS
  <2> QED
    BY <1>1, <2>1
<1>3. ASSUME NEW k \in Nat, k \in T, k + 1 <= n + 1, k + 1 <= len
      PROVE  q[k + 1] <= bound[len - (k + 1)]
  <2>1. /\ q[k] \in Nat /\ q[k + 1] = q[k] \div 10 /\ q[k] <= bound[len - k]
        /\ len - k \in 1 .. len /\ (len - k) - 1 = len - (k + 1)
        /\ len - (k + 1) \in 0 .. len /\ len - k \in 0 .. len
    BY <1>1, <1>3
  <2>2. bound[len - k] <= 10 * bound[(len - k) - 1] + 9
    BY <2>1
  <2>3. bound[len - k] <= 10 * bound[len - (k + 1)] + 9
    BY <2>1, <2>2
  <2> DEFINE x == q[k]
  <2> DEFINE more == bound[len - k]
  <2> DEFINE less == bound[len - (k + 1)]
  <2>4. /\ x \in Nat /\ more \in Nat /\ less \in Nat
        /\ x <= more /\ more <= 10 * less + 9
    BY <2>1, <2>3
  <2> HIDE DEF x, more, less
  <2>5. x \div 10 <= less
    BY <2>4
  <2> QED
    BY <2>1, <2>5 DEF x, less
<1>4. ASSUME NEW k \in Nat, k \in T
      PROVE  k + 1 \in T
  <2>1. k + 1 <= n + 1 /\ k + 1 <= len => q[k + 1] <= bound[len - (k + 1)]
    <3> HIDE DEF T
    <3> QED
      BY <1>3, <1>4
  <2> QED
    BY <2>1
<1> HIDE DEF T
<1>5. \A k \in Nat : k \in T
  BY <1>2, <1>4, SetInduction
<1>6. len <= n + 1 => q[len] = 0
  <2> SUFFICES ASSUME len <= n + 1
               PROVE  q[len] = 0
    OBVIOUS
  <2>1. len \in T /\ len <= len /\ len - len = 0
    BY <1>5
  <2>2. q[len] <= bound[len - len]
    BY <2>1 DEF T
  <2>3. q[len] \in Nat
    BY <1>1
  <2> QED
    BY <2>1, <2>2, <2>3
<1> QED
  BY <1>6, NothingLeft DEF q

\* A score of up to eight digits fits into render's buf[8] (main.cpp:289).
THEOREM ScoreFits ==
  ASSUME NEW score \in Nat, score <= 99999999
  PROVE  Len(int_to_str(score)) <= 8
<1> DEFINE len == 8
<1> DEFINE bound == [k \in 0 .. len |->
      <<0, 9, 99, 999, 9999, 99999, 999999, 9999999, 99999999>>[k + 1]]
<1>1. /\ (\A k \in 0 .. len : bound[k] \in Nat) /\ bound[0] = 0 /\ score <= bound[len]
      /\ \A k \in 1 .. len : bound[k] <= 10 * bound[k - 1] + 9
  <2>1. /\ bound[0] = 0 /\ bound[1] = 9 /\ bound[2] = 99 /\ bound[3] = 999
        /\ bound[4] = 9999 /\ bound[5] = 99999 /\ bound[6] = 999999
        /\ bound[7] = 9999999 /\ bound[8] = 99999999
    OBVIOUS
  <2> HIDE DEF bound
  <2>2. \A k \in 0 .. 8 : k \in {0, 1, 2, 3, 4, 5, 6, 7, 8}
    OBVIOUS
  <2>3. \A k \in 0 .. len : bound[k] \in Nat
    BY <2>1, <2>2
  <2>4. bound[0] = 0 /\ score <= bound[len]
    BY <2>1
  <2>5. \A k \in 1 .. len : bound[k] <= 10 * bound[k - 1] + 9
    BY <2>1
  <2> HIDE DEF len
  <2> QED
    BY <2>3, <2>4, <2>5
<1>2. score \in Nat /\ score \in Int /\ len \in Nat \ {0}
  OBVIOUS
<1> HIDE DEF bound, len
<1>3. Places(score) <= len
  BY <1>1, <1>2, PlacesUpTo
<1>4. int_to_str(score) = Digits[score]
  BY <1>2, Spelling
<1>5. Len(Digits[score]) = Places(score)
  BY <1>2, DigitsOf
<1> QED
  BY <1>3, <1>4, <1>5 DEF len

\* An int whose negative is one too, which n = -n in int_to_str needs.
IsInt32(n) == n \in Int /\ -2147483647 <= n /\ n <= 2147483647

\* It takes eleven characters at most.
LEMMA NumberFits ==
  ASSUME NEW n \in Int, IsInt32(n)
  PROVE  Len(int_to_str(n)) <= 11
<1> DEFINE len == 10
<1> DEFINE bound == [k \in 0 .. len |->
      <<0, 2, 21, 214, 2147, 21474, 214748, 2147483, 21474836, 214748364,
        2147483647>>[k + 1]]
<1>1. /\ (\A k \in 0 .. len : bound[k] \in Nat) /\ bound[0] = 0 /\ bound[len] = 2147483647
      /\ \A k \in 1 .. len : bound[k] <= 10 * bound[k - 1] + 9
  <2>1. /\ bound[0] = 0 /\ bound[1] = 2 /\ bound[2] = 21 /\ bound[3] = 214
        /\ bound[4] = 2147 /\ bound[5] = 21474 /\ bound[6] = 214748
        /\ bound[7] = 2147483 /\ bound[8] = 21474836 /\ bound[9] = 214748364
        /\ bound[10] = 2147483647
    OBVIOUS
  <2> HIDE DEF bound
  <2>2. \A k \in 0 .. 10 : k \in {0, 1, 2, 3, 4, 5, 6, 7, 8, 9, 10}
    OBVIOUS
  <2>3. \A k \in 0 .. len : bound[k] \in Nat
    BY <2>1, <2>2
  <2>4. \A k \in 1 .. len : bound[k] <= 10 * bound[k - 1] + 9
    BY <2>1
  <2>5. bound[0] = 0 /\ bound[len] = 2147483647
    BY <2>1
  <2> HIDE DEF len
  <2> QED
    BY <2>3, <2>4, <2>5
<1> HIDE DEF bound
<1>2. ASSUME NEW m \in Nat, m <= 2147483647
      PROVE  Len(Digits[m]) \in Nat /\ Len(Digits[m]) <= 10
  <2>1. Places(m) <= 10
    <3>1. len \in Nat \ {0} /\ m <= bound[len]
      BY <1>1, <1>2
    <3> HIDE DEF len
    <3>2. Places(m) <= len
      BY <1>1, <1>2, <3>1, PlacesUpTo
    <3> QED
      BY <3>2 DEF len
  <2> QED
    BY <2>1, DigitsOf
<1>3. CASE n \in Nat
  <2>1. n \in Int /\ n <= 2147483647
    BY DEF IsInt32
  <2>2. int_to_str(n) = Digits[n]
    BY <1>3, <2>1, Spelling
  <2> QED
    BY <1>2, <1>3, <2>1, <2>2
<1>4. CASE n \notin Nat
  <2>1. n \in Int /\ -n \in Nat /\ -n <= 2147483647
    BY <1>4 DEF IsInt32
  <2>2. Len(int_to_str(n)) = 1 + Len(Digits[-n])
    BY <1>4, <2>1, Spelling
  <2> QED
    BY <1>2, <2>1, <2>2
<1> QED
  BY <1>3, <1>4

\* The host's message of eight numbers fits into send_buf[128] (main.cpp:81),
\* and so does the guest's of two, whatever the (int)s are.
THEOREM MessagesFit ==
  ASSUME NEW letter \in Nat, NEW numbers \in Seq(Int), Len(numbers) <= 8,
         \A i \in DOMAIN numbers : IsInt32(numbers[i])
  PROVE  Len(Text(letter, numbers)) <= 128
<1> DEFINE w == Written(letter, numbers)
<1> DEFINE last == Len(numbers)
<1>1. last \in 0 .. 8
  <2> HIDE DEF w
  <2>1. last \in Nat /\ last <= 8
    OBVIOUS
  <2> HIDE DEF last
  <2> QED
    BY <2>1
<1>2. /\ Text(letter, numbers) = w[last]
      /\ \A k \in 0 .. last : w[k] \in Seq(Nat)
  BY <1>1, WrittenOf
<1>3. Len(w[0]) = 1
  BY <1>1, Sizes
<1>4. \A k \in 1 .. last : Len(w[k]) = Len(w[k - 1]) + 1 + Len(int_to_str(numbers[k]))
  BY <1>1, Sizes
<1>5. \A k \in 1 .. last : /\ Len(int_to_str(numbers[k])) \in Nat
                           /\ Len(int_to_str(numbers[k])) <= 11
  <2> SUFFICES ASSUME NEW k \in 1 .. last
               PROVE  /\ Len(int_to_str(numbers[k])) \in Nat
                      /\ Len(int_to_str(numbers[k])) <= 11
    OBVIOUS
  <2>1. numbers[k] \in Int /\ IsInt32(numbers[k])
    OBVIOUS
  <2> QED
    BY <2>1, NumberFits, Spelling
<1> DEFINE size == [k \in 0 .. last |-> Len(w[k])]
<1> DEFINE word == [k \in 1 .. last |-> Len(int_to_str(numbers[k]))]
<1>6. /\ \A k \in 0 .. last : size[k] \in Nat
      /\ \A k \in 1 .. last : word[k] \in Nat /\ word[k] <= 11
      /\ size[0] = 1
      /\ \A k \in 1 .. last : size[k] = size[k - 1] + 1 + word[k]
  <2> HIDE DEF w
  <2>1. \A k \in 0 .. last : size[k] \in Nat
    BY <1>2
  <2>2. \A k \in 1 .. last : k - 1 \in 0 .. last /\ k \in 0 .. last
    BY <1>1
  <2>3. 0 \in 0 .. last
    BY <1>1
  <2> QED
    BY <1>3, <1>4, <1>5, <2>1, <2>2, <2>3
<1> HIDE DEF size, word
<1> DEFINE T == {k \in Nat : k <= last => size[k] <= 1 + 12 * k}
<1>7. 0 \in T
  BY <1>6
<1>8. ASSUME NEW k \in Nat, k \in T, k + 1 <= last
      PROVE  size[k + 1] <= 1 + 12 * (k + 1)
  <2> HIDE DEF last
  <2>1. k + 1 \in 1 .. last /\ (k + 1) - 1 = k /\ k \in 0 .. last /\ k <= last
    BY <1>1, <1>8
  <2>2. /\ size[k + 1] = size[k] + 1 + word[k + 1] /\ word[k + 1] \in Nat
        /\ word[k + 1] <= 11 /\ size[k] \in Nat /\ size[k] <= 1 + 12 * k
    BY <1>6, <1>8, <2>1
  <2> QED
    BY <2>2
<1>9. \A k \in Nat : k \in T => k + 1 \in T
  <2> HIDE DEF last
  <2> QED
    BY <1>8
<1> HIDE DEF T
<1>10. \A k \in Nat : k \in T
  BY <1>7, <1>9, SetInduction
<1>11. size[last] <= 1 + 12 * last /\ size[last] \in Nat
  <2> HIDE DEF last
  <2>1. last \in Nat /\ last <= last /\ last \in 0 .. last
    BY <1>1
  <2> QED
    BY <1>6, <1>10, <2>1 DEF T
<1>12. size[last] <= 128
  <2> HIDE DEF last
  <2> QED
    BY <1>1, <1>11
<1>13. size[last] = Len(w[last])
  <2> HIDE DEF w, last
  <2>1. last \in 0 .. last
    BY <1>1
  <2> QED
    BY <2>1 DEF size
<1> QED
  BY <1>2, <1>12, <1>13

-----------------------------------------------------------------------------
(* The messages. *)

Basis == Int \X Int \X Int \X Int \X Nat \X Nat

\* What a message of the host says when the host has `of' and the guest's paddle
\* at m.
Said(of, m) ==
  <<Whole(of[1]), Whole(of[2]), of[3], of[4], m[1], m[2], of[5], of[6]>>

StateText(of, m) == Text(S, Said(of, m))
PaddleText(r)    == Text(P, <<r[1], r[2]>>)

StateMessage  == {[text |-> StateText(of, m), of |-> of] :
                    of \in Basis, m \in Int \X Int}
PaddleMessage == {[text |-> PaddleText(r), of |-> <<>>] : r \in RightPlaces}

LEMMA StateRead ==
  ASSUME NEW of \in Basis, NEW m \in Int \X Int
  PROVE  /\ ~ (Len(StateText(of, m)) < 2) /\ StateText(of, m)[1] = S
         /\ Values(StateText(of, m), 8)[1] = Whole(of[1])
         /\ Values(StateText(of, m), 8)[2] = Whole(of[2])
         /\ Values(StateText(of, m), 8)[3] = of[3]
         /\ Values(StateText(of, m), 8)[4] = of[4]
         /\ Values(StateText(of, m), 8)[7] = of[5]
         /\ Values(StateText(of, m), 8)[8] = of[6]
<1> DEFINE n == Said(of, m)
<1>1. /\ of[1] \in Int /\ of[2] \in Int /\ of[3] \in Int /\ of[4] \in Int
      /\ of[5] \in Nat /\ of[6] \in Nat /\ m[1] \in Int /\ m[2] \in Int
  BY DEF Basis
<1>2. Whole(of[1]) \in Int /\ Whole(of[2]) \in Int
  BY <1>1 DEF Whole
<1>3. n \in Seq(Int) /\ Len(n) = 8
  BY <1>1, <1>2 DEF Said
<1>4. /\ n[1] = Whole(of[1]) /\ n[2] = Whole(of[2]) /\ n[3] = of[3]
      /\ n[4] = of[4] /\ n[7] = of[5] /\ n[8] = of[6]
  BY DEF Said
<1> HIDE DEF n
<1>5. S \in Nat /\ 8 \in 0 .. Len(n) /\ Len(n) >= 1
  BY <1>3 DEF S
<1>6. Values(Text(S, n), 8) = [k \in 1 .. 8 |-> n[k]]
  BY <1>3, <1>5, NumbersArrive
<1>7. Len(Text(S, n)) >= 2 /\ Text(S, n)[1] = S
  BY <1>3, <1>5, MessageShape
<1>8. ~ (Len(Text(S, n)) < 2)
  <2>1. Text(S, n) \in Seq(Nat)
    BY <1>3, <1>5, Sizes
  <2> QED
    BY <1>7, <2>1
<1>9. StateText(of, m) = Text(S, n)
  BY DEF StateText, n
<1> HIDE DEF Values
<1> QED
  BY <1>4, <1>6, <1>7, <1>8, <1>9

LEMMA PaddleRead ==
  ASSUME NEW r \in Int \X Int
  PROVE  /\ ~ (Len(PaddleText(r)) < 2) /\ PaddleText(r)[1] = P
         /\ Values(PaddleText(r), 2)[1] = r[1]
         /\ Values(PaddleText(r), 2)[2] = r[2]
<1> DEFINE n == <<r[1], r[2]>>
<1>1. n \in Seq(Int) /\ Len(n) = 2 /\ n[1] = r[1] /\ n[2] = r[2]
  OBVIOUS
<1> HIDE DEF n
<1>2. P \in Nat /\ 2 \in 0 .. Len(n) /\ Len(n) >= 1
  BY <1>1 DEF P
<1>3. Values(Text(P, n), 2) = [k \in 1 .. 2 |-> n[k]]
  BY <1>1, <1>2, NumbersArrive
<1>4. Len(Text(P, n)) >= 2 /\ Text(P, n)[1] = P
  BY <1>1, <1>2, MessageShape
<1>5. ~ (Len(Text(P, n)) < 2)
  <2>1. Text(P, n) \in Seq(Nat)
    BY <1>1, <1>2, Sizes
  <2> QED
    BY <1>4, <2>1
<1>6. PaddleText(r) = Text(P, n)
  BY DEF PaddleText, n
<1> QED
  BY <1>1, <1>3, <1>4, <1>5, <1>6

\* A place of the guest's paddle is in its half, and a pair of integers.
LEMMA PlaceOfRight ==
  ASSUME NEW r \in RightHalf
  PROVE  /\ r \in Int \X Int /\ r = <<r[1], r[2]>>
         /\ r[1] \in Int /\ RIGHT_X_MIN <= r[1] /\ r[1] <= RIGHT_X_MAX
         /\ r[2] \in Int /\ 0 <= r[2] /\ r[2] <= PADDLE_Y_MAX
<1>1. r[1] \in RIGHT_X_MIN .. RIGHT_X_MAX /\ r[2] \in 0 .. PADDLE_Y_MAX
      /\ r = <<r[1], r[2]>>
  BY DEF RightHalf
<1>2. RIGHT_X_MIN \in Int /\ RIGHT_X_MAX \in Int /\ PADDLE_Y_MAX \in Int
  BY DEF RIGHT_X_MIN, RIGHT_X_MAX, PADDLE_Y_MAX
<1>3. /\ r[1] \in Int /\ RIGHT_X_MIN <= r[1] /\ r[1] <= RIGHT_X_MAX
      /\ r[2] \in Int /\ 0 <= r[2] /\ r[2] <= PADDLE_Y_MAX
  BY <1>1, <1>2
<1>4. r \in Int \X Int
  BY <1>1, <1>3
<1> QED
  BY <1>1, <1>3, <1>4

\* The whole pixels are less than a pixel off.
LEMMA WholeIsNear ==
  ASSUME NEW x \in Int
  PROVE  Whole(x) \in Int /\ 5 * Whole(x) - x \in -4 .. 4
<1>1. CASE x < 0
  <2> DEFINE y == -x
  <2>1. y \in Nat /\ x = -y
    BY <1>1
  <2> HIDE DEF y
  <2>2. y \div 5 \in Nat /\ 5 * (y \div 5) - y \in -4 .. 0
    BY <2>1
  <2>3. Whole(x) = -(y \div 5)
    BY <1>1 DEF Whole, y
  <2> QED
    BY <2>1, <2>2, <2>3
<1>2. CASE ~ (x < 0)
  <2>1. x \div 5 \in Nat /\ 5 * (x \div 5) - x \in -4 .. 0
    BY <1>2
  <2> QED
    BY <1>2, <2>1 DEF Whole
<1> QED
  BY <1>1, <1>2

\* Taking the first message off the wire.
LEMMA FirstRemoved ==
  ASSUME NEW X, NEW q \in Seq(X), q # <<>>
  PROVE  RemoveAt(q, 1) = Tail(q)
<1>1. SubSeq(q, 1, 1 - 1) = <<>>
  BY SubSeqEmpty
<1>2. SubSeq(q, 1 + 1, Len(q)) = Tail(q)
  OBVIOUS
<1>3. Tail(q) \in Seq(X)
  OBVIOUS
<1>4. <<>> \o Tail(q) = Tail(q)
  BY <1>3, ConcatEmptySeq
<1> QED
  BY <1>1, <1>2, <1>4 DEF RemoveAt

-----------------------------------------------------------------------------
(* The invariant. *)

Typed ==
  /\ ball \in Int \X Int /\ left \in Int \X Int
  /\ left_score \in Nat /\ right_score \in Nat
  /\ mirror \in Int \X Int /\ right \in RightHalf
  /\ in_game \in [Roles -> BOOLEAN] /\ open \in [Roles -> BOOLEAN]
  /\ reported \in BOOLEAN
  /\ wire = [e \in Roles |-> wire[e]]
  /\ wire["guest"] \in Seq(StateMessage)
  /\ wire["host"] \in Seq(PaddleMessage)

\* The view is what the host had when it sent the message.
Shown ==
  /\ basis \in Basis
  /\ view = <<Whole(basis[1]), Whole(basis[2]), basis[3], basis[4],
              basis[5], basis[6]>>

\* On the way to the guest scores only go up, from what the guest shows to what
\* the host has.
Between(q, c, low, high) ==
  /\ low <= high
  /\ \A i \in 1 .. Len(q) : low <= q[i].of[c] /\ q[i].of[c] <= high
  /\ \A i, j \in 1 .. Len(q) : i <= j => q[i].of[c] <= q[j].of[c]

ScoresRise ==
  /\ Between(wire["guest"], 5, basis[5], left_score)
  /\ Between(wire["guest"], 6, basis[6], right_score)

Newest(q) == q[Len(q)]

\* The last that the guest has said, be it heard or on its way, is where its
\* paddle is.
LastSaid ==
  IF wire["host"] = <<>> THEN mirror = right
  ELSE Newest(wire["host"]).text = PaddleText(right)

Reported ==
  /\ \A e \in Roles : open[e] => in_game[e]
  /\ reported /\ in_game["host"] => LastSaid

Inv == Typed /\ Shown /\ ScoresRise /\ Reported

LEMMA InvInit == Init => Inv
<1> SUFFICES ASSUME Init
             PROVE  Inv
  OBVIOUS
<1>1. wire["guest"] = <<>> /\ wire["host"] = <<>>
  BY DEF Init, Roles
<1>2. Typed
  <2>1. /\ ball \in Int \X Int /\ left \in Int \X Int
        /\ left_score \in Nat /\ right_score \in Nat
        /\ mirror \in Int \X Int
    BY DEF Init, Serve, LEFT_HOME, RIGHT_HOME
  <2>0. right \in RightHalf
    BY DEF Init, RIGHT_HOME, RightHalf, RIGHT_X_MIN, RIGHT_X_MAX, PADDLE_Y_MAX
  <2>2. /\ in_game \in [Roles -> BOOLEAN] /\ open \in [Roles -> BOOLEAN]
        /\ reported \in BOOLEAN /\ wire = [e \in Roles |-> wire[e]]
    BY DEF Init
  <2>3. wire["guest"] \in Seq(StateMessage) /\ wire["host"] \in Seq(PaddleMessage)
    BY <1>1
  <2> QED
    BY <2>0, <2>1, <2>2, <2>3 DEF Typed
<1>3. Shown
  BY DEF Init, Shown, Basis, Serve, LEFT_HOME
<1>4. ScoresRise
  BY <1>1 DEF Init, ScoresRise, Between
<1>5. Reported
  BY DEF Init, Reported, Roles
<1> QED
  BY <1>2, <1>3, <1>4, <1>5 DEF Inv

\* A message behind the others.
LEMMA Sent ==
  ASSUME NEW X, NEW q \in Seq(X), NEW m \in X
  PROVE  /\ Append(q, m) \in Seq(X) /\ Append(q, m) # <<>>
         /\ Len(Append(q, m)) = Len(q) + 1 /\ Len(q) \in Nat
         /\ Newest(Append(q, m)) = m
         /\ \A i \in 1 .. Len(q) : Append(q, m)[i] = q[i]
         /\ Append(q, m)[Len(q) + 1] = m
<1>1. /\ Append(q, m) \in Seq(X) /\ Append(q, m) # <<>>
      /\ Len(Append(q, m)) = Len(q) + 1 /\ Len(q) \in Nat
      /\ \A i \in 1 .. Len(q) : Append(q, m)[i] = q[i]
      /\ Append(q, m)[Len(q) + 1] = m
  OBVIOUS
<1> QED
  BY <1>1 DEF Newest

\* What is left behind the first message.
LEMMA Rest ==
  ASSUME NEW X, NEW q \in Seq(X), q # <<>>
  PROVE  /\ Len(q) \in Nat \ {0}
         /\ Len(q) = 1 => Tail(q) = <<>> /\ Newest(q) = q[1]
         /\ Len(q) # 1 => Tail(q) # <<>> /\ Newest(Tail(q)) = Newest(q)
<1>1. Len(q) \in Nat \ {0}
  OBVIOUS
<1> DEFINE t == Tail(q)
<1>2. t \in Seq(X) /\ Len(t) = Len(q) - 1 /\ \A i \in 1 .. Len(t) : t[i] = q[i + 1]
  OBVIOUS
<1> HIDE DEF t
<1>3. CASE Len(q) = 1
  <2>1. Len(t) = 0
    BY <1>2, <1>3
  <2>2. t = <<>>
    BY <1>2, <2>1
  <2> QED
    BY <1>1, <1>3, <2>2 DEF Newest, t
<1>4. CASE Len(q) # 1
  <2>1. Len(t) \in 1 .. Len(t) /\ Len(t) + 1 = Len(q)
    BY <1>1, <1>2, <1>4
  <2>2. t # <<>> /\ t[Len(t)] = q[Len(q)]
    BY <1>2, <2>1
  <2> QED
    BY <1>1, <1>4, <2>2 DEF Newest, t
<1> QED
  BY <1>3, <1>4

LEMMA BetweenSent ==
  ASSUME NEW q \in Seq(StateMessage), NEW m \in StateMessage, NEW c \in {5, 6},
         NEW low \in Nat, NEW high \in Nat, NEW new \in Nat, high <= new,
         Between(q, c, low, high), m.of[c] = new
  PROVE  Between(Append(q, m), c, low, new)
<1> DEFINE t == Append(q, m)
<1>1. /\ Len(t) = Len(q) + 1 /\ Len(q) \in Nat
      /\ \A i \in 1 .. Len(q) : t[i] = q[i]
      /\ t[Len(q) + 1] = m
  BY Sent
<1> HIDE DEF t
<1>2. \A i \in 1 .. Len(q) : q[i].of[c] \in Nat /\ low <= q[i].of[c] /\ q[i].of[c] <= new
  <2> SUFFICES ASSUME NEW i \in 1 .. Len(q)
               PROVE  q[i].of[c] \in Nat /\ low <= q[i].of[c] /\ q[i].of[c] <= new
    OBVIOUS
  <2>1. q[i] \in StateMessage
    OBVIOUS
  <2>2. q[i].of \in Basis
    BY <2>1 DEF StateMessage
  <2>3. q[i].of[c] \in Nat
    BY <2>2 DEF Basis
  <2>4. low <= q[i].of[c] /\ q[i].of[c] <= high
    BY DEF Between
  <2> QED
    BY <2>3, <2>4
<1>3. low <= new
  BY DEF Between
<1>4. \A i \in 1 .. Len(t) : \/ i \in 1 .. Len(q) /\ t[i] = q[i]
                             \/ i = Len(q) + 1 /\ t[i].of[c] = new
  BY <1>1
<1>5. \A i \in 1 .. Len(t) : low <= t[i].of[c] /\ t[i].of[c] <= new
  BY <1>2, <1>3, <1>4
<1>6. ASSUME NEW i \in 1 .. Len(t), NEW j \in 1 .. Len(t), i <= j
      PROVE  t[i].of[c] <= t[j].of[c]
  <2>1. CASE i \in 1 .. Len(q) /\ j \in 1 .. Len(q)
    <3>1. q[i].of[c] <= q[j].of[c]
      BY <1>6, <2>1 DEF Between
    <3> QED
      BY <1>1, <2>1, <3>1
  <2>2. CASE j = Len(q) + 1
    <3>1. t[j].of[c] = new
      BY <1>1, <2>2
    <3> QED
      BY <1>5, <3>1
  <2>3. j \in 1 .. Len(q) => i \in 1 .. Len(q)
    BY <1>1, <1>6
  <2> QED
    BY <1>4, <2>1, <2>2, <2>3
<1> QED
  BY <1>3, <1>5, <1>6 DEF Between, t

LEMMA BetweenHeard ==
  ASSUME NEW q \in Seq(StateMessage), q # <<>>, NEW c \in {5, 6},
         NEW low \in Nat, NEW high \in Nat, Between(q, c, low, high)
  PROVE  /\ q[1].of[c] \in low .. high
         /\ Between(Tail(q), c, q[1].of[c], high)
<1> DEFINE t == Tail(q)
<1>1. /\ Len(q) \in Nat \ {0} /\ Len(t) = Len(q) - 1
      /\ \A i \in 1 .. Len(t) : t[i] = q[i + 1]
  OBVIOUS
<1> HIDE DEF t
<1>2. 1 \in 1 .. Len(q) /\ q[1].of[c] \in Nat
  <2>1. 1 \in 1 .. Len(q)
    BY <1>1
  <2>2. q[1] \in StateMessage
    BY <2>1
  <2>3. q[1].of \in Basis
    BY <2>2 DEF StateMessage
  <2> QED
    BY <2>1, <2>3 DEF Basis
<1>3. q[1].of[c] \in low .. high
  BY <1>2 DEF Between
<1>4. \A i \in 1 .. Len(t) : i + 1 \in 1 .. Len(q) /\ 1 <= i + 1
  BY <1>1
<1>5. \A i \in 1 .. Len(t) : q[1].of[c] <= t[i].of[c] /\ t[i].of[c] <= high
  BY <1>1, <1>2, <1>4 DEF Between
<1>6. \A i, j \in 1 .. Len(t) : i <= j => t[i].of[c] <= t[j].of[c]
  <2> SUFFICES ASSUME NEW i \in 1 .. Len(t), NEW j \in 1 .. Len(t), i <= j
               PROVE  t[i].of[c] <= t[j].of[c]
    OBVIOUS
  <2>1. i + 1 <= j + 1
    OBVIOUS
  <2> QED
    BY <1>1, <1>4, <2>1 DEF Between
<1> QED
  BY <1>3, <1>5, <1>6 DEF Between, t

-----------------------------------------------------------------------------
(* One action at a time. *)

\* What Send does to the wires.
LEMMA SendsOne ==
  ASSUME Typed, NEW from \in Roles, NEW to \in Roles, from # to,
         NEW text, NEW of, Send(from, to, text, of)
  PROVE  /\ wire' = [e \in Roles |-> wire'[e]]
         /\ wire'[from] = wire[from]
         /\ wire'[to] = IF open[from]
                        THEN Append(wire[to], [text |-> text, of |-> of])
                        ELSE wire[to]
<1>1. wire = [e \in Roles |-> wire[e]]
  BY DEF Typed
<1>2. CASE open[from]
  <2>1. wire' = [wire EXCEPT ![to] = Append(@, [text |-> text, of |-> of])]
    BY <1>2 DEF Send
  <2> QED
    BY <1>1, <1>2, <2>1
<1>3. CASE ~ open[from]
  <2>1. wire' = wire
    BY <1>3 DEF Send
  <2> QED
    BY <1>1, <1>3, <2>1
<1> QED
  BY <1>2, <1>3

LEMMA InvHostTick ==
  ASSUME Inv, NEW b \in Int \X Int, NEW l \in Int \X Int,
         NEW ls \in Nat, NEW rs \in Nat, HostTick(b, l, ls, rs)
  PROVE  Inv'
<1>1. Typed /\ Shown /\ ScoresRise /\ Reported
  BY DEF Inv
<1>2. /\ ball' = b /\ left' = l /\ left_score' = left_score + ls
      /\ right_score' = right_score + rs
      /\ mirror' = mirror /\ right' = right /\ view' = view
      /\ basis' = basis /\ in_game' = in_game /\ open' = open /\ reported' = reported
  BY DEF HostTick, guest
<1> DEFINE of == <<b[1], b[2], l[1], l[2], left_score', right_score'>>
<1> DEFINE m == [text |-> StateText(of, mirror), of |-> of]
<1>3. /\ wire' = [e \in Roles |-> wire'[e]]
      /\ wire'["host"] = wire["host"]
      /\ wire'["guest"] = IF open["host"] THEN Append(wire["guest"], m)
                          ELSE wire["guest"]
  <2>1. "host" \in Roles /\ "guest" \in Roles /\ "host" # "guest"
    BY DEF Roles
  <2>2. Send("host", "guest", StateText(of, mirror), of)
    BY DEF HostTick, StateText, Said, State
  <2> HIDE DEF of
  <2> QED
    BY <1>1, <2>1, <2>2, SendsOne
<1>4. /\ left_score \in Nat /\ right_score \in Nat /\ left_score' \in Nat
      /\ right_score' \in Nat /\ left_score <= left_score' /\ right_score <= right_score'
      /\ wire["guest"] \in Seq(StateMessage) /\ mirror \in Int \X Int
  <2>1. /\ left_score \in Nat /\ right_score \in Nat
        /\ wire["guest"] \in Seq(StateMessage) /\ mirror \in Int \X Int
    BY <1>1 DEF Typed
  <2>2. /\ left_score' \in Nat /\ right_score' \in Nat
        /\ left_score <= left_score' /\ right_score <= right_score'
    BY <1>2, <2>1
  <2> QED
    BY <2>1, <2>2
<1>5. of \in Basis /\ of[5] = left_score' /\ of[6] = right_score'
  BY <1>4 DEF Basis
<1>6. m \in StateMessage /\ m.of = of
  <2> HIDE DEF of
  <2> QED
    BY <1>4, <1>5 DEF StateMessage
<1> HIDE DEF m, of
<1>7. wire'["guest"] \in Seq(StateMessage)
  <2>1. Append(wire["guest"], m) \in Seq(StateMessage)
    BY <1>4, <1>6, Sent
  <2> QED
    BY <1>3, <1>4, <2>1
<1>8. Typed'
  BY <1>1, <1>2, <1>3, <1>4, <1>7 DEF Typed
<1>9. Shown'
  BY <1>1, <1>2 DEF Shown
<1>10. basis[5] \in Nat /\ basis[6] \in Nat
  BY <1>1 DEF Shown, Basis
<1>11. ASSUME NEW c \in {5, 6}, NEW low \in Nat, NEW high \in Nat, NEW new \in Nat,
              high <= new, of[c] = new, Between(wire["guest"], c, low, high)
       PROVE  Between(wire'["guest"], c, low, new)
  <2>1. CASE open["host"]
    <3>1. Between(Append(wire["guest"], m), c, low, new)
      <4>1. m.of[c] = new
        BY <1>6, <1>11
      <4> QED
        BY <1>4, <1>6, <1>11, <4>1, BetweenSent
    <3> QED
      BY <1>3, <2>1, <3>1
  <2>2. CASE ~ open["host"]
    <3>1. ASSUME NEW i \in 1 .. Len(wire["guest"])
          PROVE  wire["guest"][i].of[c] \in Nat
      <4>1. wire["guest"][i] \in StateMessage
        BY <1>4
      <4>2. wire["guest"][i].of \in Basis
        BY <4>1 DEF StateMessage
      <4> QED
        BY <4>2 DEF Basis
    <3>2. Between(wire["guest"], c, low, new)
      <4>1. /\ low <= high /\ high <= new
            /\ \A i \in 1 .. Len(wire["guest"]) :
                 low <= wire["guest"][i].of[c] /\ wire["guest"][i].of[c] <= high
            /\ \A i, j \in 1 .. Len(wire["guest"]) :
                 i <= j => wire["guest"][i].of[c] <= wire["guest"][j].of[c]
        BY <1>11 DEF Between
      <4>2. ASSUME NEW i \in 1 .. Len(wire["guest"])
            PROVE  wire["guest"][i].of[c] <= new
        <5> DEFINE score == wire["guest"][i].of[c]
        <5>1. score \in Nat /\ score <= high
          BY <3>1, <4>1
        <5>2. high \in Nat /\ new \in Nat /\ high <= new
          BY <4>1
        <5> HIDE DEF score
        <5>3. score <= new
          BY <5>1, <5>2
        <5> QED
          BY <5>3 DEF score
      <4>3. low <= new
        BY <4>1
      <4> QED
        BY <4>1, <4>2, <4>3 DEF Between
    <3> QED
      BY <1>3, <2>2, <3>2
  <2> QED
    BY <2>1, <2>2
<1>12. ScoresRise'
  <2>1. /\ Between(wire["guest"], 5, basis[5], left_score)
        /\ Between(wire["guest"], 6, basis[6], right_score)
    BY <1>1 DEF ScoresRise
  <2>2. /\ Between(wire'["guest"], 5, basis[5], left_score')
        /\ Between(wire'["guest"], 6, basis[6], right_score')
    BY <1>4, <1>5, <1>10, <1>11, <2>1
  <2> QED
    BY <1>2, <2>2 DEF ScoresRise
<1>13. Reported'
  <2>1. LastSaid' <=> LastSaid
    BY <1>2, <1>3 DEF LastSaid
  <2> QED
    BY <1>1, <1>2, <2>1 DEF Reported
<1> QED
  BY <1>8, <1>9, <1>12, <1>13 DEF Inv

LEMMA InvGuestTick ==
  ASSUME Inv, NEW r \in RightPlaces, GuestTick(r)
  PROVE  Inv'
<1>1. Typed /\ Shown /\ ScoresRise /\ Reported
  BY DEF Inv
<1>2. /\ right' = r /\ reported' = open["guest"]
      /\ ball' = ball /\ left' = left /\ left_score' = left_score
      /\ right_score' = right_score /\ mirror' = mirror
      /\ view' = view /\ basis' = basis /\ in_game' = in_game /\ open' = open
  BY DEF GuestTick, host
<1>3. r \in RightHalf
  BY PongSyncAssumption
<1> DEFINE m == [text |-> PaddleText(r), of |-> <<>>]
<1>4. /\ wire' = [e \in Roles |-> wire'[e]]
      /\ wire'["guest"] = wire["guest"]
      /\ wire'["host"] = IF open["guest"] THEN Append(wire["host"], m)
                         ELSE wire["host"]
  <2>1. "host" \in Roles /\ "guest" \in Roles /\ "host" # "guest"
    BY DEF Roles
  <2>2. Send("guest", "host", PaddleText(r), <<>>)
    BY DEF GuestTick, PaddleText
  <2> QED
    BY <1>1, <2>1, <2>2, SendsOne
<1>5. wire["host"] \in Seq(PaddleMessage) /\ m \in PaddleMessage
  BY <1>1 DEF Typed, PaddleMessage
<1>6. m.text = PaddleText(r)
  OBVIOUS
<1> HIDE DEF m
<1>7. /\ Append(wire["host"], m) \in Seq(PaddleMessage)
      /\ Append(wire["host"], m) # <<>> /\ Newest(Append(wire["host"], m)) = m
  BY <1>5, Sent
<1>8. Typed'
  <2>1. wire'["host"] \in Seq(PaddleMessage)
    BY <1>4, <1>5, <1>7
  <2>2. open["guest"] \in BOOLEAN
    BY <1>1 DEF Typed, Roles
  <2> QED
    BY <1>1, <1>2, <1>3, <1>4, <2>1, <2>2 DEF Typed
<1>9. Shown' /\ ScoresRise'
  BY <1>1, <1>2, <1>4 DEF Shown, ScoresRise
<1>10. Reported'
  <2>1. reported' => LastSaid'
    <3> SUFFICES ASSUME open["guest"]
                 PROVE  LastSaid'
      BY <1>2
    <3>1. wire'["host"] = Append(wire["host"], m)
      BY <1>4
    <3> QED
      BY <1>2, <1>6, <1>7, <3>1 DEF LastSaid
  <2> QED
    BY <1>1, <1>2, <2>1 DEF Reported
<1> QED
  BY <1>8, <1>9, <1>10 DEF Inv

LEMMA InvOpen ==
  ASSUME Inv, NEW e \in Roles, Open(e)
  PROVE  Inv'
<1>1. Typed /\ Shown /\ ScoresRise /\ Reported
  BY DEF Inv
<1>2. /\ in_game[e] /\ open' = [open EXCEPT ![e] = TRUE]
      /\ ball' = ball /\ left' = left /\ left_score' = left_score
      /\ right_score' = right_score /\ mirror' = mirror /\ right' = right
      /\ view' = view /\ basis' = basis /\ in_game' = in_game /\ wire' = wire
      /\ reported' = reported
  BY DEF Open, host, guest
<1>3. Typed'
  <2>1. open' \in [Roles -> BOOLEAN]
    BY <1>1, <1>2 DEF Typed
  <2> QED
    BY <1>1, <1>2, <2>1 DEF Typed
<1>4. Shown' /\ ScoresRise'
  BY <1>1, <1>2 DEF Shown, ScoresRise
<1>5. Reported'
  <2>1. \A o \in Roles : open'[o] => in_game'[o]
    BY <1>1, <1>2 DEF Reported, Typed
  <2>2. LastSaid' <=> LastSaid
    BY <1>2 DEF LastSaid
  <2> QED
    BY <1>1, <1>2, <2>1, <2>2 DEF Reported
<1> QED
  BY <1>3, <1>4, <1>5 DEF Inv

LEMMA InvStop ==
  ASSUME Inv, NEW e \in Roles, Stop(e)
  PROVE  Inv'
<1>1. Typed /\ Shown /\ ScoresRise /\ Reported
  BY DEF Inv
<1>2. /\ in_game' = [in_game EXCEPT ![e] = FALSE]
      /\ open' = [open EXCEPT ![e] = FALSE]
      /\ wire' = [wire EXCEPT ![e] = <<>>]
      /\ ball' = ball /\ left' = left /\ left_score' = left_score
      /\ right_score' = right_score /\ mirror' = mirror /\ right' = right
      /\ view' = view /\ basis' = basis /\ reported' = reported
  BY DEF Stop, host, guest
<1>3. /\ wire' = [o \in Roles |-> wire'[o]] /\ wire'[e] = <<>>
      /\ \A o \in Roles : o # e => wire'[o] = wire[o]
  <2>1. wire = [o \in Roles |-> wire[o]]
    BY <1>1 DEF Typed
  <2> QED
    BY <1>2, <2>1
<1>4. /\ in_game' \in [Roles -> BOOLEAN] /\ open' \in [Roles -> BOOLEAN]
      /\ \A o \in Roles : in_game'[o] = IF o = e THEN FALSE ELSE in_game[o]
      /\ \A o \in Roles : open'[o] = IF o = e THEN FALSE ELSE open[o]
  BY <1>1, <1>2 DEF Typed
<1>5. \/ e = "host" /\ wire'["host"] = <<>> /\ wire'["guest"] = wire["guest"]
      \/ e = "guest" /\ wire'["guest"] = <<>> /\ wire'["host"] = wire["host"]
  <2>1. e = "host" \/ e = "guest"
    BY DEF Roles
  <2>2. "host" \in Roles /\ "guest" \in Roles
    BY DEF Roles
  <2>3. CASE e = "host"
    <3>1. wire'["host"] = <<>> /\ wire'["guest"] = wire["guest"]
      BY <1>3, <2>2, <2>3
    <3> QED
      BY <2>3, <3>1
  <2>4. CASE e = "guest"
    <3>1. wire'["guest"] = <<>> /\ wire'["host"] = wire["host"]
      BY <1>3, <2>2, <2>4
    <3> QED
      BY <2>4, <3>1
  <2> QED
    BY <2>1, <2>3, <2>4
<1>6. Typed'
  <2>1. wire'["host"] \in Seq(PaddleMessage) /\ wire'["guest"] \in Seq(StateMessage)
    <3>1. wire["host"] \in Seq(PaddleMessage) /\ wire["guest"] \in Seq(StateMessage)
      BY <1>1 DEF Typed
    <3>2. \A X : <<>> \in Seq(X)
      OBVIOUS
    <3> QED
      BY <1>5, <3>1, <3>2, Zenon
  <2> QED
    BY <1>1, <1>2, <1>3, <1>4, <2>1 DEF Typed
<1>7. Shown'
  BY <1>1, <1>2 DEF Shown
<1>8. ScoresRise'
  <2>1. CASE wire'["guest"] = wire["guest"]
    BY <1>1, <1>2, <2>1 DEF ScoresRise
  <2>2. CASE wire'["guest"] = <<>>
    <3>1. /\ Between(<<>>, 5, basis[5], left_score)
          /\ Between(<<>>, 6, basis[6], right_score)
      BY <1>1 DEF ScoresRise, Between
    <3> QED
      BY <1>2, <2>2, <3>1 DEF ScoresRise
  <2> QED
    BY <1>5, <2>1, <2>2
<1>9. Reported'
  <2>1. \A o \in Roles : open'[o] => in_game'[o]
    BY <1>1, <1>4 DEF Reported
  <2>2. "host" \in Roles
    BY DEF Roles
  <2>3. CASE e = "host"
    BY <1>4, <2>1, <2>2, <2>3 DEF Reported
  <2>4. CASE e # "host"
    <3>1. LastSaid' <=> LastSaid
      BY <1>2, <1>5, <2>4 DEF LastSaid
    <3>2. in_game'["host"] = in_game["host"]
      BY <1>4, <2>2, <2>4
    <3> QED
      BY <1>1, <1>2, <2>1, <3>1, <3>2 DEF Reported
  <2> QED
    BY <2>3, <2>4
<1> QED
  BY <1>6, <1>7, <1>8, <1>9 DEF Inv

\* The host hears where the guest's paddle was.
LEMMA HostHears ==
  ASSUME Inv, on_peer_message("host")
  PROVE  /\ UNCHANGED <<ball, left, left_score, right_score, right, view, basis,
                        in_game, open, reported>>
         /\ wire["host"] # <<>>
         /\ wire' = [wire EXCEPT !["host"] = Tail(wire["host"])]
         /\ mirror' \in RightHalf
         /\ wire["host"][1] \in PaddleMessage
         /\ \A r \in RightPlaces : wire["host"][1].text = PaddleText(r) => mirror' = r
<1>1. wire["host"] \in Seq(PaddleMessage) /\ wire = [e \in Roles |-> wire[e]]
  BY DEF Inv, Typed
<1> DEFINE text == wire["host"][1].text
<1>2. /\ wire["host"] # <<>> /\ Hear("host", text, wire["host"][1].of)
      /\ wire' = [wire EXCEPT !["host"] = RemoveAt(wire["host"], 1)]
  <2>1. PICK i \in Arriving("host") :
          /\ Hear("host", wire["host"][i].text, wire["host"][i].of)
          /\ wire' = [wire EXCEPT !["host"] = RemoveAt(@, i)]
    BY DEF on_peer_message, Deliver
  <2>2. i = 1 /\ i \in DOMAIN wire["host"]
    BY <2>1 DEF Arriving
  <2> QED
    BY <1>1, <2>1, <2>2
<1>3. wire["host"][1] \in PaddleMessage
  BY <1>1, <1>2
<1>4. PICK r \in RightPlaces : text = PaddleText(r)
  BY <1>3 DEF PaddleMessage
<1>5. r \in RightHalf
  BY PongSyncAssumption
<1>6. ~ (Len(text) < 2) /\ text[1] = P /\ Values(text, 2)[1] = r[1]
      /\ Values(text, 2)[2] = r[2]
  BY <1>4, <1>5, PlaceOfRight, PaddleRead
<1>7. ~ (Len(text) < 2 \/ text[1] # Letter("host"))
  BY <1>6 DEF Letter
<1> HIDE DEF text
<1>8. HearPaddle(text)
  <2>1. IF Len(text) < 2 \/ text[1] # Letter("host") THEN UNCHANGED <<host, guest>>
        ELSE HearPaddle(text)
    BY <1>2 DEF Hear
  <2> QED
    BY <1>7, <2>1
<1>9. mirror' = r
  <2>1. mirror' = <<Clamp(r[1], RIGHT_X_MIN, RIGHT_X_MAX), Clamp(r[2], 0, PADDLE_Y_MAX)>>
    BY <1>6, <1>8 DEF HearPaddle
  <2>2. /\ r = <<r[1], r[2]>>
        /\ r[1] \in Int /\ RIGHT_X_MIN <= r[1] /\ r[1] <= RIGHT_X_MAX
        /\ r[2] \in Int /\ 0 <= r[2] /\ r[2] <= PADDLE_Y_MAX
    BY <1>5, PlaceOfRight
  <2>3. /\ Clamp(r[1], RIGHT_X_MIN, RIGHT_X_MAX) = r[1]
        /\ Clamp(r[2], 0, PADDLE_Y_MAX) = r[2]
    BY <2>2 DEF Clamp, RIGHT_X_MIN, RIGHT_X_MAX, PADDLE_Y_MAX
  <2> QED
    BY <2>1, <2>2, <2>3
<1>10. \A y \in RightPlaces : text = PaddleText(y) => y = r
  <2> SUFFICES ASSUME NEW y \in RightPlaces, text = PaddleText(y)
               PROVE  y = r
    OBVIOUS
  <2>1. y \in Int \X Int /\ y = <<y[1], y[2]>> /\ r = <<r[1], r[2]>>
    BY <1>5, PlaceOfRight, PongSyncAssumption
  <2>2. Values(text, 2)[1] = y[1] /\ Values(text, 2)[2] = y[2]
    BY <2>1, PaddleRead
  <2> QED
    BY <1>6, <2>1, <2>2
<1>11. RemoveAt(wire["host"], 1) = Tail(wire["host"])
  BY <1>1, <1>2, FirstRemoved
<1>12. UNCHANGED <<ball, left, left_score, right_score, right, view, basis,
                   in_game, open, reported>>
  BY <1>8 DEF HearPaddle, guest, on_peer_message, Deliver
<1> QED
  BY <1>2, <1>3, <1>5, <1>9, <1>10, <1>11, <1>12 DEF text

\* The guest hears what the host had.
LEMMA GuestHears ==
  ASSUME Inv, on_peer_message("guest")
  PROVE  /\ UNCHANGED <<ball, left, left_score, right_score, mirror, right,
                        in_game, open, reported>>
         /\ wire["guest"] # <<>>
         /\ wire' = [wire EXCEPT !["guest"] = Tail(wire["guest"])]
         /\ basis' = wire["guest"][1].of
         /\ Shown'
<1>1. wire["guest"] \in Seq(StateMessage) /\ wire = [e \in Roles |-> wire[e]]
  BY DEF Inv, Typed
<1> DEFINE text == wire["guest"][1].text
<1> DEFINE of == wire["guest"][1].of
<1>2. /\ wire["guest"] # <<>> /\ Hear("guest", text, of)
      /\ wire' = [wire EXCEPT !["guest"] = RemoveAt(wire["guest"], 1)]
  <2>1. PICK i \in Arriving("guest") :
          /\ Hear("guest", wire["guest"][i].text, wire["guest"][i].of)
          /\ wire' = [wire EXCEPT !["guest"] = RemoveAt(@, i)]
    BY DEF on_peer_message, Deliver
  <2>2. i = 1 /\ i \in DOMAIN wire["guest"]
    BY <2>1 DEF Arriving
  <2> QED
    BY <1>1, <2>1, <2>2
<1>3. wire["guest"][1] \in StateMessage
  BY <1>1, <1>2
<1>4. PICK m \in Int \X Int : text = StateText(of, m)
  BY <1>3 DEF StateMessage
<1>5. of \in Basis
  BY <1>3 DEF StateMessage
<1> HIDE DEF text, of
<1>6. /\ ~ (Len(text) < 2) /\ text[1] = S
      /\ Values(text, 8)[1] = Whole(of[1]) /\ Values(text, 8)[2] = Whole(of[2])
      /\ Values(text, 8)[3] = of[3] /\ Values(text, 8)[4] = of[4]
      /\ Values(text, 8)[7] = of[5] /\ Values(text, 8)[8] = of[6]
  BY <1>4, <1>5, StateRead
<1>7. ~ (Len(text) < 2 \/ text[1] # Letter("guest"))
  BY <1>6 DEF Letter
<1>8. HearState(text, of)
  <2>1. IF Len(text) < 2 \/ text[1] # Letter("guest") THEN UNCHANGED <<host, guest>>
        ELSE HearState(text, of)
    BY <1>2 DEF Hear
  <2> QED
    BY <1>7, <2>1
<1>9. /\ view' = <<Whole(of[1]), Whole(of[2]), of[3], of[4], of[5], of[6]>>
      /\ right' = right /\ basis' = of
  BY <1>6, <1>8 DEF HearState, KeepOwnPaddle
<1>10. Shown'
  BY <1>5, <1>9 DEF Shown
<1>11. RemoveAt(wire["guest"], 1) = Tail(wire["guest"])
  BY <1>1, <1>2, FirstRemoved
<1>12. UNCHANGED <<ball, left, left_score, right_score, mirror,
                   in_game, open, reported>>
  BY <1>8 DEF HearState, host, on_peer_message, Deliver
<1> QED
  BY <1>2, <1>9, <1>10, <1>11, <1>12 DEF of

LEMMA InvHostHears ==
  ASSUME Inv, on_peer_message("host")
  PROVE  Inv'
<1>1. Typed /\ Shown /\ ScoresRise /\ Reported
  BY DEF Inv
<1>2. /\ ball' = ball /\ left' = left /\ left_score' = left_score
      /\ right_score' = right_score /\ right' = right
      /\ view' = view /\ basis' = basis /\ in_game' = in_game /\ open' = open
      /\ reported' = reported
      /\ wire["host"] # <<>>
      /\ wire' = [wire EXCEPT !["host"] = Tail(wire["host"])]
      /\ mirror' \in RightHalf
      /\ wire["host"][1] \in PaddleMessage
      /\ \A r \in RightPlaces : wire["host"][1].text = PaddleText(r) => mirror' = r
  BY HostHears
<1>3. /\ wire = [e \in Roles |-> wire[e]]
      /\ "host" \in Roles /\ "guest" \in Roles
      /\ wire["host"] \in Seq(PaddleMessage)
  BY <1>1 DEF Typed, Roles
<1>4. /\ wire' = [e \in Roles |-> wire'[e]]
      /\ wire'["guest"] = wire["guest"]
      /\ wire'["host"] = Tail(wire["host"])
  BY <1>2, <1>3
<1>5. Typed'
  <2>1. Tail(wire["host"]) \in Seq(PaddleMessage)
    BY <1>2, <1>3
  <2>2. mirror' \in Int \X Int
    BY <1>2, PlaceOfRight
  <2> QED
    BY <1>1, <1>2, <1>4, <2>1, <2>2 DEF Typed
<1>6. Shown' /\ ScoresRise'
  BY <1>1, <1>2, <1>4 DEF Shown, ScoresRise
<1>7. ASSUME LastSaid
      PROVE  LastSaid'
  <2> DEFINE q == wire["host"]
  <2>1. /\ q \in Seq(PaddleMessage) /\ q # <<>> /\ Newest(q).text = PaddleText(right)
        /\ q[1] \in PaddleMessage
    BY <1>2, <1>3, <1>7 DEF LastSaid
  <2>2. wire'["host"] = Tail(q)
    BY <1>4
  <2>3. \A r \in RightPlaces : q[1].text = PaddleText(r) => mirror' = r
    BY <1>2
  <2> HIDE DEF q
  <2>4. /\ Len(q) = 1 => Tail(q) = <<>> /\ Newest(q) = q[1]
        /\ Len(q) # 1 => Tail(q) # <<>> /\ Newest(Tail(q)) = Newest(q)
    BY <2>1, Rest
  <2>5. CASE Len(q) = 1
    <3>1. Tail(q) = <<>>
      BY <2>4, <2>5
    <3>2. q[1].text = PaddleText(right)
      BY <2>1, <2>4, <2>5
    <3>3. PICK r \in RightPlaces : q[1].text = PaddleText(r)
      BY <2>1 DEF PaddleMessage
    <3>4. /\ r \in Int \X Int /\ r = <<r[1], r[2]>>
          /\ right \in Int \X Int /\ right = <<right[1], right[2]>>
      <4>1. r \in RightHalf /\ right \in RightHalf
        BY <1>1, PongSyncAssumption DEF Typed
      <4> QED
        BY <4>1, PlaceOfRight
    <3>5. r = right
      <4>1. Values(PaddleText(r), 2)[1] = r[1] /\ Values(PaddleText(r), 2)[2] = r[2]
        BY <3>4, PaddleRead
      <4>2. /\ Values(PaddleText(right), 2)[1] = right[1]
            /\ Values(PaddleText(right), 2)[2] = right[2]
        BY <3>4, PaddleRead
      <4> QED
        BY <3>2, <3>3, <3>4, <4>1, <4>2
    <3>6. mirror' = right'
      BY <1>2, <2>3, <3>3, <3>5
    <3> QED
      BY <2>2, <3>1, <3>6 DEF LastSaid
  <2>6. CASE Len(q) # 1
    <3>1. Tail(q) # <<>> /\ Newest(Tail(q)) = Newest(q)
      BY <2>4, <2>6
    <3> QED
      BY <1>2, <2>1, <2>2, <3>1 DEF LastSaid
  <2> QED
    BY <2>5, <2>6
<1>8. Reported'
  BY <1>1, <1>2, <1>7 DEF Reported
<1> QED
  BY <1>5, <1>6, <1>8 DEF Inv

LEMMA InvGuestHears ==
  ASSUME Inv, on_peer_message("guest")
  PROVE  /\ Inv'
         /\ basis'[5] \in basis[5] .. left_score
         /\ basis'[6] \in basis[6] .. right_score
<1>1. Typed /\ Shown /\ ScoresRise /\ Reported
  BY DEF Inv
<1>2. /\ ball' = ball /\ left' = left /\ left_score' = left_score
      /\ right_score' = right_score /\ mirror' = mirror /\ right' = right
      /\ in_game' = in_game /\ open' = open /\ reported' = reported
      /\ wire["guest"] # <<>>
      /\ wire' = [wire EXCEPT !["guest"] = Tail(wire["guest"])]
      /\ basis' = wire["guest"][1].of
      /\ Shown'
  BY GuestHears
<1>3. /\ wire = [e \in Roles |-> wire[e]]
      /\ "host" \in Roles /\ "guest" \in Roles
      /\ wire["guest"] \in Seq(StateMessage)
      /\ left_score \in Nat /\ right_score \in Nat
      /\ basis[5] \in Nat /\ basis[6] \in Nat
  BY <1>1 DEF Typed, Roles, Shown, Basis
<1>4. /\ wire' = [e \in Roles |-> wire'[e]]
      /\ wire'["host"] = wire["host"]
      /\ wire'["guest"] = Tail(wire["guest"])
  BY <1>2, <1>3
<1>5. Typed'
  <2>1. Tail(wire["guest"]) \in Seq(StateMessage)
    BY <1>2, <1>3
  <2> QED
    BY <1>1, <1>2, <1>4, <2>1 DEF Typed
<1>6. /\ basis'[5] \in basis[5] .. left_score
      /\ basis'[6] \in basis[6] .. right_score
      /\ Between(Tail(wire["guest"]), 5, basis'[5], left_score)
      /\ Between(Tail(wire["guest"]), 6, basis'[6], right_score)
  <2>1. /\ Between(wire["guest"], 5, basis[5], left_score)
        /\ Between(wire["guest"], 6, basis[6], right_score)
    BY <1>1 DEF ScoresRise
  <2>2. /\ wire["guest"][1].of[5] \in basis[5] .. left_score
        /\ Between(Tail(wire["guest"]), 5, wire["guest"][1].of[5], left_score)
    BY <1>2, <1>3, <2>1, BetweenHeard
  <2>3. /\ wire["guest"][1].of[6] \in basis[6] .. right_score
        /\ Between(Tail(wire["guest"]), 6, wire["guest"][1].of[6], right_score)
    BY <1>2, <1>3, <2>1, BetweenHeard
  <2> QED
    BY <1>2, <2>2, <2>3
<1>7. ScoresRise'
  BY <1>2, <1>4, <1>6 DEF ScoresRise
<1>8. Reported'
  <2>1. LastSaid' <=> LastSaid
    BY <1>2, <1>4 DEF LastSaid
  <2> QED
    BY <1>1, <1>2, <2>1 DEF Reported
<1> QED
  BY <1>2, <1>5, <1>6, <1>7, <1>8 DEF Inv

-----------------------------------------------------------------------------
(* The theorems. *)

\* What a step leaves alone if no message arrives at the guest: what the guest
\* shows and what it was read from.
LEMMA StepBySteps ==
  ASSUME Inv, [Next]_vars
  PROVE  /\ Inv'
         /\ left_score' >= left_score /\ right_score' >= right_score
         /\ \/ UNCHANGED <<view, basis>>
            \/ /\ basis'[5] \in basis[5] .. left_score
               /\ basis'[6] \in basis[6] .. right_score
<1>1. left_score \in Nat /\ right_score \in Nat
  BY DEF Inv, Typed
<1>2. ASSUME NEW b \in Int \X Int, NEW l \in Int \X Int,
             NEW ls \in Nat, NEW rs \in Nat, HostTick(b, l, ls, rs)
      PROVE  /\ Inv' /\ UNCHANGED <<view, basis>>
             /\ left_score' >= left_score /\ right_score' >= right_score
  <2>1. Inv'
    BY <1>2, InvHostTick
  <2>2. /\ left_score' = left_score + ls /\ right_score' = right_score + rs
        /\ UNCHANGED <<view, basis>>
    BY <1>2 DEF HostTick, guest
  <2> QED
    BY <1>1, <2>1, <2>2
<1>3. CASE SomeHostTick
  <2>1. PICK l \in LeftPlaces : \/ \E b \in BallPlaces : HostTick(b, l, 0, 0)
                                \/ HostTick(Serve, l, 1, 0) \/ HostTick(Serve, l, 0, 1)
    BY <1>3 DEF SomeHostTick
  <2>2. l \in Int \X Int
    <3>1. l \in (LEFT_X_MIN .. LEFT_X_MAX) \X (0 .. PADDLE_Y_MAX)
      BY PongSyncAssumption DEF LeftHalf
    <3> QED
      BY <3>1 DEF LEFT_X_MIN, LEFT_X_MAX, PADDLE_Y_MAX
  <2>3. CASE \E b \in BallPlaces : HostTick(b, l, 0, 0)
    <3>1. PICK b \in BallPlaces : HostTick(b, l, 0, 0)
      BY <2>3
    <3>2. b \in Int \X Int
      BY PongSyncAssumption
    <3> QED
      BY <1>2, <2>2, <3>1, <3>2
  <2>4. Serve \in Int \X Int
    BY DEF Serve
  <2>5. CASE HostTick(Serve, l, 1, 0)
    BY <1>2, <2>2, <2>4, <2>5
  <2>6. CASE HostTick(Serve, l, 0, 1)
    BY <1>2, <2>2, <2>4, <2>6
  <2> QED
    BY <2>1, <2>3, <2>5, <2>6
<1>4. CASE SomeGuestTick
  <2>1. PICK r \in RightPlaces : GuestTick(r)
    BY <1>4 DEF SomeGuestTick
  <2>2. Inv'
    BY <2>1, InvGuestTick
  <2>3. UNCHANGED <<view, basis, left_score, right_score>>
    BY <2>1 DEF GuestTick, host
  <2> QED
    BY <1>1, <2>2, <2>3
<1>5. ASSUME NEW e \in Roles, Open(e)
      PROVE  Inv' /\ UNCHANGED <<view, basis, left_score, right_score>>
  BY <1>5, InvOpen DEF Open, host, guest
<1>6. ASSUME NEW e \in Roles, Stop(e)
      PROVE  Inv' /\ UNCHANGED <<view, basis, left_score, right_score>>
  BY <1>6, InvStop DEF Stop, host, guest
<1>7. CASE on_peer_message("host")
  <2>1. UNCHANGED <<view, basis, left_score, right_score>>
    BY <1>7, HostHears
  <2>2. Inv'
    BY <1>7, InvHostHears
  <2> QED
    BY <1>1, <2>1, <2>2
<1>8. CASE on_peer_message("guest")
  <2>1. UNCHANGED <<left_score, right_score>>
    BY <1>8, GuestHears
  <2>2. /\ Inv' /\ basis'[5] \in basis[5] .. left_score
        /\ basis'[6] \in basis[6] .. right_score
    BY <1>8, InvGuestHears
  <2> QED
    BY <1>1, <2>1, <2>2
<1>9. CASE UNCHANGED vars
  <2>1. /\ UNCHANGED <<ball, left, left_score, right_score, mirror, right, view,
                       basis, in_game, open, wire, reported>>
    BY <1>9 DEF vars, host, guest
  <2>2. Inv' <=> Inv
    BY <2>1 DEF Inv, Typed, Shown, ScoresRise, Reported, LastSaid
  <2> QED
    BY <1>1, <2>1, <2>2
<1>10. CASE \E e \in Roles : Open(e) \/ Stop(e) \/ on_peer_message(e)
  <2>1. PICK e \in Roles : Open(e) \/ Stop(e) \/ on_peer_message(e)
    BY <1>10
  <2>2. e = "host" \/ e = "guest"
    BY DEF Roles
  <2> QED
    BY <1>1, <1>5, <1>6, <1>7, <1>8, <2>1, <2>2
<1> QED
  BY <1>3, <1>4, <1>9, <1>10 DEF Next

LEMMA InvHolds == Spec => []Inv
<1>1. Inv /\ [Next]_vars => Inv'
  BY StepBySteps
<1> QED
  BY InvInit, <1>1, PTL DEF Spec

\* What the guest shows is one snapshot of the host's, wherever the ball and the
\* paddles go.
THEOREM Snapshots == Spec => []GuestShowsASnapshot
<1>1. Inv => GuestShowsASnapshot
  <2> SUFFICES ASSUME Shown
               PROVE  GuestShowsASnapshot
    BY DEF Inv
  <2>1. basis[1] \in Int /\ basis[2] \in Int
    BY DEF Shown, Basis
  <2>2. /\ view[1] = Whole(basis[1]) /\ view[2] = Whole(basis[2])
        /\ view[3] = basis[3] /\ view[4] = basis[4]
        /\ view[5] = basis[5] /\ view[6] = basis[6]
    BY DEF Shown
  <2>3. \A c \in {1, 2} : 5 * view[c] - basis[c] \in -4 .. 4
    BY <2>1, <2>2, WholeIsNear
  <2>4. \A c \in 3 .. 6 : view[c] = basis[c]
    BY <2>2
  <2> QED
    BY <2>3, <2>4 DEF GuestShowsASnapshot
<1> QED
  BY <1>1, InvHolds, PTL

\* The host comes to have the guest's paddle where the guest has it.
THEOREM TheMirrorCatchesUp == Spec => []MirrorCatchesUp
<1>1. Inv => MirrorCatchesUp
  <2> SUFFICES ASSUME Reported, reported, open["host"], wire["host"] = <<>>
               PROVE  mirror = right
    BY DEF Inv, MirrorCatchesUp
  <2>1. in_game["host"]
    BY DEF Reported, Roles
  <2> QED
    BY <2>1 DEF Reported, LastSaid
<1> QED
  BY <1>1, InvHolds, PTL

\* The scores the guest shows never go back and are never ahead.
THEOREM ScoresOnlyRise == Spec => ScoresNeverGoBack
<1>1. Inv /\ Inv' /\ [Next]_vars =>
        [/\ view'[5] \in view[5] .. left_score'
         /\ view'[6] \in view[6] .. right_score']_vars
  <2> SUFFICES ASSUME Inv, Inv', [Next]_vars
               PROVE  /\ view'[5] \in view[5] .. left_score'
                      /\ view'[6] \in view[6] .. right_score'
    OBVIOUS
  <2>1. /\ view[5] = basis[5] /\ view[6] = basis[6]
        /\ view'[5] = basis'[5] /\ view'[6] = basis'[6]
    BY DEF Inv, Shown
  <2>2. /\ basis[5] \in Nat /\ basis[6] \in Nat /\ basis'[5] \in Nat /\ basis'[6] \in Nat
        /\ left_score \in Nat /\ right_score \in Nat
        /\ left_score' \in Nat /\ right_score' \in Nat
        /\ basis'[5] <= left_score' /\ basis'[6] <= right_score'
    BY DEF Inv, Typed, Shown, Basis, ScoresRise, Between
  <2>3. \/ basis'[5] = basis[5] /\ basis'[6] = basis[6]
        \/ basis'[5] >= basis[5] /\ basis'[6] >= basis[6]
    BY <2>2, StepBySteps
  <2> QED
    BY <2>1, <2>2, <2>3
<1> QED
  BY <1>1, InvHolds, PTL DEF Spec, ScoresNeverGoBack

=============================================================================
