----------------------------- MODULE FrameProofs ------------------------------
(***************************************************************************)
(* Theorems about ParseFrame and EncodeFrame, for any frames, any limit on *)
(* payloads and any number of bytes in the long length.                    *)
(***************************************************************************)
EXTENDS Frame, SequenceTheorems, WellFoundedInduction, TLAPS

Typed == frame \in FrameShapes /\ size \in Nat

-----------------------------------------------------------------------------
(* Recursive functions. *)

\* Induction over the natural numbers, for a set.
LEMMA SetInduction ==
  ASSUME NEW S, 0 \in S, \A n \in Nat : n \in S => n + 1 \in S
  PROVE  \A n \in Nat : n \in S
<1> SUFFICES ASSUME Nat \ S # {}
             PROVE  FALSE
  OBVIOUS
<1>1. PICK R : /\ IsWellFoundedOn(R, Nat)
               /\ \A x, y \in Nat : <<x, y>> \in R <=> x < y
  <2>1. IsWellFoundedOn({ss \in Nat \X Nat : ss[1] < ss[2]}, Nat)
    BY NatLessThanWellFounded DEF OpToRel
  <2> QED
    BY <2>1
<1>2. \A T : T \subseteq Nat /\ T # {} =>
        \E x \in T : \A y \in T : ~ (<<y, x>> \in R)
  <2>1. IsWellFoundedOn(R, Nat)
    BY <1>1
  <2> QED
    BY <2>1, WFMin, Zenon
<1>3. PICK x \in Nat \ S : \A y \in Nat \ S : ~ (<<y, x>> \in R)
  BY <1>2
<1>4. x # 0 /\ x - 1 \in Nat /\ x - 1 < x /\ (x - 1) + 1 = x
  BY <1>3
<1>5. x - 1 \in S
  BY <1>1, <1>3, <1>4
<1> QED
  BY <1>3, <1>4, <1>5

\* g takes the first k steps of a recursion from a.
Follows(g, a, step, k) ==
  g[0] = a /\ \A n \in Nat : n < k => g[n + 1] = step[n][g[n]]

\* Every step of a recursion stays in X.
StepsWithin(step, X) == \A n \in Nat : \A x \in X : step[n][x] \in X

\* g is the function the recursion from a computes.
ComputedBy(g, a, step) ==
  /\ g = [n \in Nat |-> g[n]]
  /\ g[0] = a
  /\ \A n \in Nat : g[n + 1] = step[n][g[n]]

\* There is a function that a recursion computes.
LEMMA FunctionByRecursion ==
  ASSUME NEW X, NEW a \in X, NEW step, StepsWithin(step, X)
  PROVE  \E g : ComputedBy(g, a, step) /\ \A n \in Nat : g[n] \in X
<1>1. \A k \in Nat : \E g \in [Nat -> X] : Follows(g, a, step, k)
  <2> DEFINE S == {k \in Nat : \E g \in [Nat -> X] : Follows(g, a, step, k)}
  <2>1. 0 \in S
    <3>1. Follows([n \in Nat |-> a], a, step, 0)
      BY DEF Follows
    <3> QED
      BY <3>1
  <2>2. ASSUME NEW k \in Nat, k \in S
        PROVE  k + 1 \in S
    <3>1. PICK g \in [Nat -> X] : Follows(g, a, step, k)
      BY <2>2
    <3> DEFINE h == [g EXCEPT ![k + 1] = step[k][g[k]]]
    <3>2. h \in [Nat -> X] /\ h[k + 1] = step[k][g[k]]
      BY DEF StepsWithin
    <3>3. \A n \in Nat : n # k + 1 => h[n] = g[n]
      OBVIOUS
    <3> HIDE DEF h
    <3>4. \A n \in Nat : n < k + 1 => h[n + 1] = step[n][h[n]]
      <4> SUFFICES ASSUME NEW n \in Nat, n < k + 1
                   PROVE  h[n + 1] = step[n][h[n]]
        OBVIOUS
      <4>1. h[n] = g[n]
        BY <3>3
      <4>2. CASE n = k
        BY <3>2, <4>1, <4>2
      <4>3. CASE n # k
        <5>1. n < k /\ n + 1 # k + 1 /\ n + 1 \in Nat
          BY <4>3
        <5> QED
          BY <3>1, <3>3, <4>1, <5>1 DEF Follows
      <4> QED
        BY <4>2, <4>3
    <3> QED
      BY <3>1, <3>2, <3>3, <3>4 DEF Follows
  <2> HIDE DEF S
  <2>3. \A k \in Nat : k \in S
    BY <2>1, <2>2, SetInduction
  <2> QED
    BY <2>3 DEF S
<1>2. \A k \in Nat : \A g, h \in [Nat -> X] :
        Follows(g, a, step, k) /\ Follows(h, a, step, k) => g[k] = h[k]
  <2> DEFINE S == {k \in Nat : \A g, h \in [Nat -> X] :
        Follows(g, a, step, k) /\ Follows(h, a, step, k) => g[k] = h[k]}
  <2>1. 0 \in S
    BY DEF Follows
  <2>2. ASSUME NEW k \in Nat, k \in S
        PROVE  k + 1 \in S
    <3> SUFFICES ASSUME NEW g \in [Nat -> X], NEW h \in [Nat -> X],
                        Follows(g, a, step, k + 1), Follows(h, a, step, k + 1)
                 PROVE  g[k + 1] = h[k + 1]
      OBVIOUS
    <3>1. Follows(g, a, step, k) /\ Follows(h, a, step, k)
      BY DEF Follows
    <3>2. g[k] = h[k]
      BY <2>2, <3>1
    <3> QED
      BY <3>2 DEF Follows
  <2> HIDE DEF S
  <2>3. \A k \in Nat : k \in S
    BY <2>1, <2>2, SetInduction
  <2> QED
    BY <2>3 DEF S
<1> DEFINE upTo[k \in Nat] ==
             CHOOSE g \in [Nat -> X] : Follows(g, a, step, k)
<1> DEFINE f == [k \in Nat |-> upTo[k][k]]
<1>3. \A k \in Nat : upTo[k] \in [Nat -> X] /\ Follows(upTo[k], a, step, k)
  BY <1>1
<1> HIDE DEF upTo
<1>4. f \in [Nat -> X]
  BY <1>3
<1>5. f[0] = a
  BY <1>3 DEF Follows
<1>6. ASSUME NEW n \in Nat
      PROVE  f[n + 1] = step[n][f[n]]
  <2>1. n + 1 \in Nat /\ Follows(upTo[n + 1], a, step, n)
    BY <1>3 DEF Follows
  <2>2. upTo[n + 1][n] = upTo[n][n]
    BY <1>2, <1>3, <2>1
  <2>3. upTo[n + 1][n + 1] = step[n][upTo[n + 1][n]]
    BY <1>3 DEF Follows
  <2> QED
    BY <2>1, <2>2, <2>3
<1> HIDE DEF f
<1> QED
  BY <1>4, <1>5, <1>6 DEF ComputedBy

\* The weights are the powers of 256.
LEMMA Weights ==
  /\ Weight \in [Nat -> Nat \ {0}]
  /\ Weight[0] = 1
  /\ \A n \in Nat : Weight[n + 1] = 256 * Weight[n]
<1> DEFINE step == [n \in Nat |-> [x \in Nat |-> 256 * x]]
<1>1. StepsWithin(step, Nat) /\ 1 \in Nat
  BY DEF StepsWithin
<1> HIDE DEF step
<1>2. PICK g : ComputedBy(g, 1, step) /\ \A n \in Nat : g[n] \in Nat
  BY <1>1, FunctionByRecursion
<1>3. g = [n \in Nat |-> IF n = 0 THEN 1 ELSE 256 * g[n - 1]]
  <2>1. \A n \in Nat : n # 0 => g[n] = step[n - 1][g[n - 1]]
    <3>1. \A n \in Nat : n # 0 => n - 1 \in Nat /\ (n - 1) + 1 = n
      OBVIOUS
    <3> QED
      BY <1>2, <3>1 DEF ComputedBy
  <2>2. \A n \in Nat : n # 0 => n - 1 \in Nat /\ g[n - 1] \in Nat
    BY <1>2
  <2>3. \A n \in Nat : g[n] = IF n = 0 THEN 1 ELSE 256 * g[n - 1]
    BY <2>1, <2>2, <1>2 DEF ComputedBy, step
  <2> QED
    BY <1>2, <2>3 DEF ComputedBy
<1>4. Weight = [n \in Nat |-> IF n = 0 THEN 1 ELSE 256 * Weight[n - 1]]
  BY <1>3 DEF Weight
<1>5. \A n \in Nat : n + 1 # 0 /\ (n + 1) - 1 = n /\ n + 1 \in Nat
  OBVIOUS
<1>6. Weight[0] = 1 /\ \A n \in Nat : Weight[n + 1] = 256 * Weight[n]
  BY <1>4, <1>5
<1>7. \A n \in Nat : Weight[n] \in Nat \ {0}
  <2> DEFINE S == {n \in Nat : Weight[n] \in Nat \ {0}}
  <2>1. 0 \in S /\ \A n \in Nat : n \in S => n + 1 \in S
    BY <1>6
  <2> HIDE DEF S
  <2>2. \A n \in Nat : n \in S
    BY <2>1, SetInduction
  <2> QED
    BY <2>2 DEF S
<1> QED
  BY <1>4, <1>6, <1>7

-----------------------------------------------------------------------------
(* Arithmetic of bytes. *)

LEMMA DivUnique ==
  ASSUME NEW a \in Nat, NEW c \in Nat \ {0}, NEW s \in Nat, NEW u \in Nat,
         a = c * s + u, u < c
  PROVE  a \div c = s
<1> DEFINE q == a \div c
<1> DEFINE v == a % c
<1>1. q \in Nat /\ v \in 0 .. c - 1 /\ a = c * q + v
  OBVIOUS
<1> HIDE DEF q, v
<1>2. CASE q > s
  <2>1. PICK d \in Nat : q = s + 1 + d
    <3>1. q - s - 1 \in Nat /\ q = s + 1 + (q - s - 1)
      BY <1>1, <1>2
    <3> QED
      BY <3>1
  <2>2. c * q = c * s + c + c * d /\ c * d \in Nat
    BY <2>1
  <2> QED
    BY <1>1, <2>2
<1>3. CASE q < s
  <2>1. PICK d \in Nat : s = q + 1 + d
    <3>1. s - q - 1 \in Nat /\ s = q + 1 + (s - q - 1)
      BY <1>1, <1>3
    <3> QED
      BY <3>1
  <2>2. c * s = c * q + c + c * d /\ c * d \in Nat
    BY <1>1, <2>1
  <2> QED
    BY <1>1, <2>2
<1>4. CASE q = s
  BY <1>4 DEF q
<1> QED
  BY <1>1, <1>2, <1>3, <1>4

\* Shifting by one byte more.
LEMMA DivDiv ==
  ASSUME NEW a \in Nat, NEW b \in Nat \ {0}
  PROVE  a \div (256 * b) = (a \div b) \div 256
<1> DEFINE q == a \div b
<1> DEFINE r == a % b
<1> DEFINE s == q \div 256
<1> DEFINE t == q % 256
<1>1. q \in Nat /\ r \in 0 .. b - 1 /\ a = b * q + r
  OBVIOUS
<1> HIDE DEF q, r
<1>2. s \in Nat /\ t \in 0 .. 255 /\ q = 256 * s + t
  BY <1>1
<1> HIDE DEF s, t
<1>3. b * q = 256 * b * s + b * t
  BY <1>1, <1>2
<1>4. b * t <= 255 * b /\ b * t \in Nat
  BY <1>2
<1> DEFINE c == 256 * b
<1> DEFINE u == b * t + r
<1>5. c \in Nat \ {0} /\ u \in Nat /\ u < c /\ a = c * s + u
  BY <1>1, <1>2, <1>3, <1>4
<1>6. a \div c = s
  <2> HIDE DEF c, u
  <2> QED
    BY <1>2, <1>5, DivUnique
<1> QED
  BY <1>6 DEF q, s

LEMMA Digits ==
  ASSUME NEW len \in Nat, NEW n \in Nat
  PROVE  /\ BigEndian(len, n) \in Seq(Nat)
         /\ Len(BigEndian(len, n)) = n
         /\ \A i \in 1 .. n :
              BigEndian(len, n)[i] = (len \div Weight[n - i]) % 256
<1> DEFINE digits == [i \in 1 .. n |-> (len \div Weight[n - i]) % 256]
<1>1. \A i \in 1 .. n : digits[i] \in Nat
  <2> SUFFICES ASSUME NEW i \in 1 .. n
               PROVE  (len \div Weight[n - i]) % 256 \in Nat
    OBVIOUS
  <2>1. n - i \in Nat
    OBVIOUS
  <2>2. Weight[n - i] \in Nat \ {0}
    BY <2>1, Weights
  <2> QED
    BY <2>2
<1>2. digits = [i \in 1 .. n |-> digits[i]]
  OBVIOUS
<1>3. digits = BigEndian(len, n)
  BY DEF BigEndian
<1>4. \A i \in 1 .. n : digits[i] = (len \div Weight[n - i]) % 256
  OBVIOUS
<1> HIDE DEF digits
<1>5. digits \in Seq(Nat) /\ Len(digits) = n
  BY <1>1, <1>2
<1> QED
  BY <1>3, <1>4, <1>5

\* The two bytes EncodeFrame writes.
LEMMA TwoDigits ==
  ASSUME NEW len \in Nat
  PROVE  BigEndian(len, 2) = <<(len \div 256) % 256, len % 256>>
<1>1. Weight[0] = 1 /\ Weight[1] = 256
  <2>1. Weight[0 + 1] = 256 * Weight[0]
    BY Weights
  <2> QED
    BY <2>1, Weights
<1> DEFINE s == BigEndian(len, 2)
<1>2. s \in Seq(Nat) /\ Len(s) = 2
  BY Digits, ZenonT(60)
<1>3. s[1] = (len \div Weight[2 - 1]) % 256 /\ s[2] = (len \div Weight[2 - 2]) % 256
  BY Digits
<1>4. s[1] = (len \div 256) % 256 /\ s[2] = len % 256
  BY <1>1, <1>3
<1> HIDE DEF s
<1>5. s = <<s[1], s[2]>>
  BY <1>2
<1> QED
  BY <1>4, <1>5 DEF s

-----------------------------------------------------------------------------
(* The header of a frame, byte by byte. *)

FirstByte(f) == (IF f.fin THEN 128 ELSE 0) + 16 * f.rsv + f.opcode
MaskBit(f)   == IF f.masked THEN 128 ELSE 0
LengthCode(f) ==
  IF f.form = "short" THEN f.len ELSE IF f.form = "two" THEN 126 ELSE 127
LengthBytes(f) ==
  IF f.form = "short" THEN <<>>
  ELSE IF f.form = "two" THEN BigEndian(f.len, 2)
  ELSE BigEndian(f.len, WideBytes)

LEMMA Shapes ==
  ASSUME NEW f \in FrameShapes
  PROVE  /\ f.len \in Nat /\ f.len < Weight[WideBytes]
         /\ f.form \in {"short", "two", "wide"}
         /\ f.form = "short" => f.len < 126
         /\ f.form = "two" => f.len < 65536
         /\ f.fin \in BOOLEAN /\ f.masked \in BOOLEAN
         /\ f.rsv \in {0, 1} /\ f.opcode \in {0, 1, 8}
<1>1. WideBytes \in Nat /\ Weight[WideBytes] \in Nat
  BY FrameAssumption, Weights
<1>2. f.len \in Lengths /\ Fits(f.len, f.form) /\ f.form \in Forms
  BY DEF FrameShapes
<1>3. f.len \in 0 .. Weight[WideBytes] - 1
  BY <1>2, FrameAssumption
<1>4. /\ f.fin \in BOOLEAN /\ f.masked \in BOOLEAN
      /\ f.rsv \in {0, 1} /\ f.opcode \in {0, 1, 8}
  BY DEF FrameShapes
<1> QED
  BY <1>1, <1>2, <1>3, <1>4 DEF Fits, Forms

LEMMA HeadTailOfCons ==
  ASSUME NEW S, NEW b \in S, NEW s \in Seq(S)
  PROVE  Head(<<b>> \o s) = b /\ Tail(<<b>> \o s) = s
<1> DEFINE t == <<b>> \o s
<1>1. <<b>> \in Seq(S) /\ Len(<<b>>) = 1 /\ <<b>>[1] = b /\ Len(s) \in Nat
  OBVIOUS
<1>2. /\ t \in Seq(S) /\ Len(t) = 1 + Len(s)
      /\ \A i \in 1 .. 1 + Len(s) :
           t[i] = IF i <= 1 THEN <<b>>[i] ELSE s[i - 1]
  BY <1>1, ConcatProperties
<1> HIDE DEF t
<1>3. t # <<>> /\ t[1] = b
  BY <1>1, <1>2
<1>4. /\ Head(t) = b /\ Tail(t) \in Seq(S) /\ Len(Tail(t)) = Len(s)
      /\ \A i \in 1 .. Len(s) : Tail(t)[i] = t[i + 1]
  BY <1>1, <1>2, <1>3, HeadTailProperties
<1>5. \A i \in 1 .. Len(s) : t[i + 1] = s[i]
  BY <1>1, <1>2
<1>6. Tail(t) = s
  BY <1>4, <1>5, SeqEqual
<1> QED
  BY <1>4, <1>6 DEF t

LEMMA TwoAndThree ==
  ASSUME NEW a \in Nat, NEW b \in Nat, NEW c \in Nat
  PROVE  <<a, b>> = <<a>> \o <<b>> /\ <<a, b, c>> = <<a>> \o <<b, c>>
<1>1. <<a>> \in Seq(Nat) /\ Len(<<a>>) = 1 /\ <<a>>[1] = a
  OBVIOUS
<1>2. ASSUME NEW s \in Seq(Nat)
      PROVE  LET t == <<a>> \o s
             IN  /\ t \in Seq(Nat) /\ Len(t) = 1 + Len(s) /\ t[1] = a
                 /\ \A i \in 1 .. Len(s) : t[i + 1] = s[i]
  <2> DEFINE t == <<a>> \o s
  <2>1. /\ t \in Seq(Nat) /\ Len(t) = Len(<<a>>) + Len(s) /\ Len(s) \in Nat
        /\ \A i \in 1 .. Len(<<a>>) + Len(s) :
             t[i] = IF i <= Len(<<a>>) THEN <<a>>[i] ELSE s[i - Len(<<a>>)]
    BY <1>1, ConcatProperties
  <2> HIDE DEF t
  <2>2. t[1] = a /\ \A i \in 1 .. Len(s) : t[i + 1] = s[i]
    BY <1>1, <2>1
  <2> QED
    BY <1>1, <2>1, <2>2 DEF t
<1>3. <<a, b>> = <<a>> \o <<b>>
  <2> DEFINE t == <<a>> \o <<b>>
  <2>1. <<b>> \in Seq(Nat) /\ Len(<<b>>) = 1 /\ <<b>>[1] = b
    OBVIOUS
  <2>2. /\ t \in Seq(Nat) /\ Len(t) = 1 + Len(<<b>>) /\ t[1] = a
        /\ \A i \in 1 .. Len(<<b>>) : t[i + 1] = <<b>>[i]
    BY <1>2, <2>1
  <2> HIDE DEF t
  <2>3. Len(t) = 2 /\ t[1] = a /\ t[1 + 1] = b
    BY <2>1, <2>2
  <2>4. t = <<a, b>>
    BY <2>2, <2>3
  <2> QED
    BY <2>4 DEF t
<1>4. <<a, b, c>> = <<a>> \o <<b, c>>
  <2> DEFINE t == <<a>> \o <<b, c>>
  <2>1. /\ <<b, c>> \in Seq(Nat) /\ Len(<<b, c>>) = 2
        /\ <<b, c>>[1] = b /\ <<b, c>>[2] = c
    OBVIOUS
  <2>2. /\ t \in Seq(Nat) /\ Len(t) = 1 + Len(<<b, c>>) /\ t[1] = a
        /\ \A i \in 1 .. Len(<<b, c>>) : t[i + 1] = <<b, c>>[i]
    BY <1>2, <2>1
  <2> HIDE DEF t
  <2>3. Len(t) = 3 /\ t[1] = a /\ t[1 + 1] = b /\ t[2 + 1] = c
    BY <2>1, <2>2
  <2>4. t = <<a, b, c>>
    BY <2>2, <2>3
  <2> QED
    BY <2>4 DEF t
<1> QED
  BY <1>3, <1>4

LEMMA HeaderBytes ==
  ASSUME NEW f \in FrameShapes
  PROVE  /\ Header(f) = <<FirstByte(f), MaskBit(f) + LengthCode(f)>>
                          \o LengthBytes(f)
         /\ LengthBytes(f) \in Seq(Nat)
         /\ Len(LengthBytes(f)) =
              IF f.form = "short" THEN 0
              ELSE IF f.form = "two" THEN 2 ELSE WideBytes
<1>1. f.len \in Nat /\ f.form \in {"short", "two", "wide"} /\ WideBytes \in Nat
  BY Shapes, FrameAssumption
<1>2. /\ LengthBytes(f) \in Seq(Nat)
      /\ Len(LengthBytes(f)) =
           IF f.form = "short" THEN 0
           ELSE IF f.form = "two" THEN 2 ELSE WideBytes
  <2>1. \A n \in Nat : BigEndian(f.len, n) \in Seq(Nat)
                      /\ Len(BigEndian(f.len, n)) = n
    BY <1>1, Digits
  <2>2. CASE f.form = "short"
    BY <2>2 DEF LengthBytes
  <2>3. CASE f.form = "two"
    BY <2>1, <2>3 DEF LengthBytes
  <2>4. CASE f.form = "wide"
    BY <1>1, <2>1, <2>4 DEF LengthBytes
  <2> QED
    BY <1>1, <2>2, <2>3, <2>4
<1>3. WrittenLength(f) = <<LengthCode(f)>> \o LengthBytes(f)
  <2>1. CASE f.form = "short"
    <3>1. <<f.len>> \o <<>> = <<f.len>>
      <4>1. <<f.len>> \in Seq(Nat)
        BY <1>1
      <4> QED
        BY <4>1, ConcatEmptySeq
    <3> QED
      BY <2>1, <3>1 DEF WrittenLength, LengthCode, LengthBytes
  <2>2. CASE f.form = "two"
    BY <2>2 DEF WrittenLength, LengthCode, LengthBytes
  <2>3. CASE f.form = "wide"
    BY <2>3 DEF WrittenLength, LengthCode, LengthBytes
  <2> QED
    BY <1>1, <2>1, <2>2, <2>3
<1>4. /\ Head(WrittenLength(f)) = LengthCode(f)
      /\ Tail(WrittenLength(f)) = LengthBytes(f)
  <2>1. LengthCode(f) \in Nat /\ LengthBytes(f) \in Seq(Nat)
    BY <1>1, <1>2 DEF LengthCode
  <2> QED
    BY <1>3, <2>1, HeadTailOfCons
<1>5. Header(f) = <<FirstByte(f), MaskBit(f) + LengthCode(f)>> \o LengthBytes(f)
  BY <1>4 DEF Header, FirstByte, MaskBit
<1> QED
  BY <1>2, <1>5

LEMMA HeaderReads ==
  ASSUME NEW f \in FrameShapes
  PROVE  /\ Len(Header(f)) = 2 + Len(LengthBytes(f))
         /\ Len(LengthBytes(f)) \in Nat
         /\ Header(f)[1] = FirstByte(f)
         /\ Header(f)[2] = MaskBit(f) + LengthCode(f)
         /\ \A i \in 1 .. Len(LengthBytes(f)) :
              Header(f)[2 + i] = LengthBytes(f)[i]
<1> DEFINE s == <<FirstByte(f), MaskBit(f) + LengthCode(f)>>
<1> DEFINE t == LengthBytes(f)
<1>1. FirstByte(f) \in Nat /\ MaskBit(f) + LengthCode(f) \in Nat
  BY Shapes DEF FirstByte, MaskBit, LengthCode
<1>2. t \in Seq(Nat) /\ Len(t) \in Nat
  <2>1. t \in Seq(Nat)
    BY HeaderBytes
  <2> HIDE DEF t
  <2> QED
    BY <2>1
<1>3. /\ s \in Seq(Nat) /\ Len(s) = 2
      /\ s[1] = FirstByte(f) /\ s[2] = MaskBit(f) + LengthCode(f)
  BY <1>1
<1>4. Header(f) = s \o t
  BY HeaderBytes
<1> HIDE DEF s, t
<1>5. /\ Len(s \o t) = 2 + Len(t)
      /\ \A i \in 1 .. 2 + Len(t) :
           (s \o t)[i] = IF i <= 2 THEN s[i] ELSE t[i - 2]
  <2>1. /\ Len(s \o t) = Len(s) + Len(t)
        /\ \A i \in 1 .. Len(s) + Len(t) :
             (s \o t)[i] = IF i <= Len(s) THEN s[i] ELSE t[i - Len(s)]
    BY <1>2, <1>3, ConcatProperties
  <2> QED
    BY <1>3, <2>1
<1>6. (s \o t)[1] = s[1] /\ (s \o t)[2] = s[2]
  BY <1>2, <1>5
<1>7. \A i \in 1 .. Len(t) : (s \o t)[2 + i] = t[i]
  <2> SUFFICES ASSUME NEW i \in 1 .. Len(t)
               PROVE  (s \o t)[2 + i] = t[i]
    OBVIOUS
  <2>1. 2 + i \in 1 .. 2 + Len(t) /\ ~ (2 + i <= 2) /\ (2 + i) - 2 = i
    BY <1>2
  <2> QED
    BY <1>5, <2>1
<1> QED
  BY <1>2, <1>3, <1>4, <1>5, <1>6, <1>7 DEF t

-----------------------------------------------------------------------------
(* ParseFrame's reads. *)

\* ParseFrame gives the same result on buffers whose first n bytes are equal:
\* every byte it looks at is behind a test of n.
LEMMA SameBytesSameResult ==
  ASSUME NEW n \in Nat, NEW p, NEW q,
         p = [i \in 0 .. 1 + WideBytes |-> p[i]],
         q = [i \in 0 .. 1 + WideBytes |-> q[i]],
         \A i \in 0 .. 1 + WideBytes : i < n => p[i] = q[i]
  PROVE  ParseFrame(p, n) = ParseFrame(q, n)
<1>1. WideBytes \in Nat /\ WideBytes >= 3
  BY FrameAssumption
<1>2. CASE n < 2
  BY <1>2 DEF ParseFrame
<1>3. CASE ~ (n < 2)
  <2>1. p[0] = q[0] /\ p[1] = q[1]
    BY <1>1, <1>3, SMTT(30)
  <2> DEFINE len7 == p[1] % 128
  <2>2. CASE n < HeaderLen(len7)
    BY <2>1, <2>2 DEF ParseFrame
  <2>3. CASE ~ (n < HeaderLen(len7))
    <3>1. PayloadLen(p, len7) = PayloadLen(q, len7)
      <4>1. CASE len7 = 126
        <5>1. ~ (n < 4)
          BY <2>3, <4>1 DEF HeaderLen
        <5>2. /\ 2 \in 0 .. 1 + WideBytes /\ 2 < n
              /\ 3 \in 0 .. 1 + WideBytes /\ 3 < n
          BY <5>1, <1>1
        <5>3. p[2] = q[2] /\ p[3] = q[3]
          BY <5>2
        <5> QED
          BY <4>1, <5>3 DEF PayloadLen
      <4>2. CASE len7 = 127
        <5>1. ~ (n < 2 + WideBytes)
          BY <2>3, <4>2 DEF HeaderLen
        <5>2. \A i \in 0 .. 1 + WideBytes : p[i] = q[i]
          BY <5>1, <1>1
        <5>3. p = q
          BY <5>2
        <5> QED
          BY <5>3
      <4>3. CASE len7 # 126 /\ len7 # 127
        BY <4>3 DEF PayloadLen
      <4> QED
        BY <4>1, <4>2, <4>3
    <3> QED
      BY <2>1, <3>1 DEF ParseFrame
  <2> QED
    BY <2>2, <2>3
<1> QED
  BY <1>2, <1>3

\* Reading the long form byte by byte gives back the length.
LEMMA WideLength ==
  ASSUME NEW p, NEW len \in Nat, len < Weight[WideBytes],
         \A i \in 1 .. WideBytes :
           p[1 + i] = (len \div Weight[WideBytes - i]) % 256
  PROVE  PayloadLen(p, 127) = len
<1> DEFINE value[i \in 0 .. WideBytes] ==
             IF i = 0 THEN 0 ELSE value[i - 1] * 256 + p[1 + i]
<1>1. WideBytes \in Nat /\ \A n \in Nat : Weight[n] \in Nat \ {0}
  BY FrameAssumption, Weights
<1>2. \A i \in 1 .. WideBytes : p[1 + i] \in Nat
  <2> SUFFICES ASSUME NEW i \in 1 .. WideBytes
               PROVE  p[1 + i] \in Nat
    OBVIOUS
  <2>1. WideBytes - i \in Nat
    BY <1>1
  <2>2. Weight[WideBytes - i] \in Nat \ {0}
    BY <1>1, <2>1
  <2> DEFINE w == Weight[WideBytes - i]
  <2>3. p[1 + i] = (len \div w) % 256
    OBVIOUS
  <2> HIDE DEF w
  <2> QED
    BY <2>2, <2>3 DEF w
<1> DEFINE step == [n \in Nat |-> [x \in Nat |->
             IF n < WideBytes THEN x * 256 + p[2 + n] ELSE x]]
<1>3. \A n \in Nat : n < WideBytes =>
        n + 1 \in 1 .. WideBytes /\ 1 + (n + 1) = 2 + n /\ p[2 + n] \in Nat
  <2> SUFFICES ASSUME NEW n \in Nat, n < WideBytes
               PROVE  /\ n + 1 \in 1 .. WideBytes /\ 1 + (n + 1) = 2 + n
                      /\ p[2 + n] \in Nat
    OBVIOUS
  <2>1. n + 1 \in 1 .. WideBytes /\ 1 + (n + 1) = 2 + n
    BY <1>1
  <2>2. p[1 + (n + 1)] \in Nat
    BY <1>2, <2>1
  <2> QED
    BY <2>1, <2>2
<1>4. StepsWithin(step, Nat) /\ 0 \in Nat
  BY <1>3 DEF StepsWithin
<1> HIDE DEF step
<1>5. PICK g : ComputedBy(g, 0, step) /\ \A n \in Nat : g[n] \in Nat
  BY <1>4, FunctionByRecursion
<1> DEFINE h == [i \in 0 .. WideBytes |-> g[i]]
<1>6. h = [i \in 0 .. WideBytes |->
             IF i = 0 THEN 0 ELSE h[i - 1] * 256 + p[1 + i]]
  <2>1. \A i \in 1 .. WideBytes : g[i] = g[i - 1] * 256 + p[1 + i]
    <3> SUFFICES ASSUME NEW i \in 1 .. WideBytes
                 PROVE  g[i] = g[i - 1] * 256 + p[1 + i]
      OBVIOUS
    <3>1. /\ i - 1 \in Nat /\ (i - 1) + 1 = i /\ i - 1 < WideBytes
          /\ 2 + (i - 1) = 1 + i
      BY <1>1
    <3>2. g[i] = step[i - 1][g[i - 1]] /\ g[i - 1] \in Nat
      BY <1>5, <3>1 DEF ComputedBy
    <3> QED
      BY <3>1, <3>2 DEF step
  <2>2. g[0] = 0
    BY <1>5 DEF ComputedBy
  <2>3. \A i \in 0 .. WideBytes :
          h[i] = IF i = 0 THEN 0 ELSE h[i - 1] * 256 + p[1 + i]
    <3> SUFFICES ASSUME NEW i \in 0 .. WideBytes
                 PROVE  h[i] = IF i = 0 THEN 0 ELSE h[i - 1] * 256 + p[1 + i]
      OBVIOUS
    <3>1. CASE i = 0
      BY <2>2, <3>1
    <3>2. CASE i # 0
      <4>1. i \in 1 .. WideBytes /\ i - 1 \in 0 .. WideBytes
        BY <1>1, <3>2
      <4> QED
        BY <2>1, <3>2, <4>1
    <3> QED
      BY <3>1, <3>2
  <2>4. h = [i \in 0 .. WideBytes |-> h[i]]
    OBVIOUS
  <2> HIDE DEF h
  <2> QED
    BY <2>3, <2>4
<1> HIDE DEF h
<1>7. value = [i \in 0 .. WideBytes |->
                 IF i = 0 THEN 0 ELSE value[i - 1] * 256 + p[1 + i]]
  BY <1>6, ZenonT(60)
<1>8. PayloadLen(p, 127) = value[WideBytes]
  BY DEF PayloadLen
<1> HIDE DEF value
<1> DEFINE S == {n \in Nat : n <= WideBytes =>
                   value[n] = len \div Weight[WideBytes - n]}
<1>9. 0 \in S
  <2>1. value[0] = 0
    BY <1>1, <1>7
  <2>2. Weight[WideBytes] \in Nat \ {0} /\ len \div Weight[WideBytes] = 0
    <3> DEFINE w == Weight[WideBytes]
    <3>1. w \in Nat \ {0} /\ len = w * 0 + len /\ len < w
      BY <1>1
    <3> HIDE DEF w
    <3>2. len \div w = 0
      BY <3>1, DivUnique
    <3> QED
      BY <3>1, <3>2 DEF w
  <2>3. WideBytes - 0 = WideBytes
    BY <1>1
  <2> QED
    BY <2>1, <2>2, <2>3
<1>10. ASSUME NEW n \in Nat, n \in S
       PROVE  n + 1 \in S
  <2> SUFFICES ASSUME n + 1 <= WideBytes
               PROVE  value[n + 1] = len \div Weight[WideBytes - (n + 1)]
    OBVIOUS
  <2> DEFINE m == WideBytes - (n + 1)
  <2>1. /\ m \in Nat /\ WideBytes - n = m + 1 /\ n <= WideBytes
        /\ n + 1 \in 0 .. WideBytes /\ n + 1 \in 1 .. WideBytes
        /\ n + 1 # 0 /\ (n + 1) - 1 = n
    BY <1>1
  <2>2. value[n] = len \div Weight[m + 1]
    BY <1>10, <2>1
  <2>3. value[n + 1] = value[n] * 256 + ((len \div Weight[m]) % 256)
    BY <1>7, <2>1
  <2> DEFINE w == Weight[m]
  <2>4. w \in Nat \ {0} /\ Weight[m + 1] = 256 * w
    BY <2>1, Weights
  <2> HIDE DEF m, w
  <2>5. len \div (256 * w) = (len \div w) \div 256
    BY <2>4, DivDiv
  <2> DEFINE x == len \div w
  <2>6. x \in Nat
    BY <2>4
  <2>7. value[n + 1] = (x \div 256) * 256 + (x % 256)
    BY <2>2, <2>3, <2>4, <2>5 DEF w
  <2> HIDE DEF x
  <2>8. value[n + 1] = x
    BY <2>6, <2>7
  <2> QED
    BY <2>8 DEF x, w, m
<1> HIDE DEF S
<1>11. \A n \in Nat : n \in S
  BY <1>9, <1>10, SetInduction
<1>12. value[WideBytes] = len \div Weight[WideBytes - WideBytes]
  BY <1>1, <1>11 DEF S
<1>13. WideBytes - WideBytes = 0 /\ Weight[0] = 1 /\ len \div 1 = len
  BY <1>1, Weights
<1> QED
  BY <1>8, <1>12, <1>13

\* In whatever form the client writes a length, ParseFrame reads that length.
LEMMA LengthIsRead ==
  ASSUME NEW f \in FrameShapes, f.masked, NEW p,
         \A i \in 1 .. Len(Header(f)) : p[i - 1] = Header(f)[i]
  PROVE  /\ p[0] = FirstByte(f)
         /\ p[1] >= 128
         /\ p[1] % 128 = LengthCode(f)
         /\ HeaderLen(LengthCode(f)) = Len(Header(f))
         /\ PayloadLen(p, LengthCode(f)) = f.len
<1> DEFINE code == LengthCode(f)
<1>1. /\ f.len \in Nat /\ f.len < Weight[WideBytes]
      /\ f.form \in {"short", "two", "wide"}
      /\ f.form = "short" => f.len < 126
      /\ f.form = "two" => f.len < 65536
      /\ WideBytes \in Nat
  BY Shapes, FrameAssumption
<1>2. /\ Len(Header(f)) = 2 + Len(LengthBytes(f))
      /\ Len(LengthBytes(f)) =
           IF f.form = "short" THEN 0
           ELSE IF f.form = "two" THEN 2 ELSE WideBytes
      /\ Len(LengthBytes(f)) \in Nat
  BY HeaderBytes, HeaderReads
<1>3. code \in Nat /\ code < 128
  BY <1>1 DEF LengthCode
<1>4. p[0] = FirstByte(f) /\ p[1] = 128 + code
  <2>1. Header(f)[1] = FirstByte(f) /\ Header(f)[2] = 128 + code
    BY HeaderReads DEF MaskBit
  <2>2. p[1 - 1] = Header(f)[1] /\ p[2 - 1] = Header(f)[2]
    <3>1. 1 \in 1 .. Len(Header(f)) /\ 2 \in 1 .. Len(Header(f))
      BY <1>2
    <3> QED
      BY <3>1
  <2> QED
    BY <2>1, <2>2
<1>5. p[1] >= 128 /\ p[1] % 128 = code
  BY <1>3, <1>4
<1>6. HeaderLen(code) = Len(Header(f))
  BY <1>1, <1>2 DEF HeaderLen, LengthCode
<1>7. \A i \in 1 .. Len(LengthBytes(f)) : p[1 + i] = LengthBytes(f)[i]
  <2> SUFFICES ASSUME NEW i \in 1 .. Len(LengthBytes(f))
               PROVE  p[1 + i] = LengthBytes(f)[i]
    OBVIOUS
  <2>1. 2 + i \in 1 .. Len(Header(f)) /\ (2 + i) - 1 = 1 + i
    BY <1>2
  <2>2. p[(2 + i) - 1] = Header(f)[2 + i]
    BY <2>1
  <2>3. Header(f)[2 + i] = LengthBytes(f)[i]
    BY HeaderReads
  <2> QED
    BY <2>1, <2>2, <2>3
<1>8. PayloadLen(p, code) = f.len
  <2>1. CASE f.form = "short"
    BY <1>1, <2>1 DEF PayloadLen, LengthCode
  <2>2. CASE f.form = "two"
    <3>1. LengthBytes(f) = <<(f.len \div 256) % 256, f.len % 256>>
      <4>1. LengthBytes(f) = BigEndian(f.len, 2)
        BY <2>2 DEF LengthBytes
      <4>2. f.len \in Nat
        BY <1>1
      <4>3. BigEndian(f.len, 2) = <<(f.len \div 256) % 256, f.len % 256>>
        BY <4>2, TwoDigits, Zenon
      <4> QED
        BY <4>1, <4>3
    <3>2. p[1 + 1] = LengthBytes(f)[1] /\ p[1 + 2] = LengthBytes(f)[2]
      BY <1>2, <1>7, <2>2
    <3>3. p[2] = (f.len \div 256) % 256 /\ p[3] = f.len % 256
      BY <3>1, <3>2
    <3>4. f.len \div 256 < 256 /\ f.len \div 256 \in Nat
      BY <1>1, <2>2
    <3>5. p[2] * 256 + p[3] = f.len
      BY <1>1, <3>3, <3>4
    <3> QED
      BY <2>2, <3>5 DEF PayloadLen, LengthCode
  <2>3. CASE f.form = "wide"
    <3>1. LengthBytes(f) = BigEndian(f.len, WideBytes) /\ code = 127
      BY <2>3 DEF LengthBytes, LengthCode
    <3>2. \A i \in 1 .. WideBytes :
            p[1 + i] = (f.len \div Weight[WideBytes - i]) % 256
      <4>1. \A i \in 1 .. WideBytes : p[1 + i] = BigEndian(f.len, WideBytes)[i]
        BY <1>2, <1>7, <2>3, <3>1
      <4>2. \A i \in 1 .. WideBytes : BigEndian(f.len, WideBytes)[i]
                                     = (f.len \div Weight[WideBytes - i]) % 256
        <5>1. f.len \in Nat /\ WideBytes \in Nat
          BY <1>1
        <5> QED
          BY <5>1, Digits, ZenonT(60)
      <4> QED
        BY <4>1, <4>2
    <3>3. PayloadLen(p, 127) = f.len
      BY <1>1, <3>2, WideLength
    <3> QED
      BY <3>1, <3>3
  <2> QED
    BY <1>1, <2>1, <2>2, <2>3
<1> QED
  BY <1>4, <1>5, <1>6, <1>8

\* The first byte comes apart into the fields it was made of.
LEMMA FirstByteIsRead ==
  ASSUME NEW f \in FrameShapes
  PROVE  /\ (FirstByte(f) \div 16) % 8 = f.rsv
         /\ FirstByte(f) % 16 = f.opcode
         /\ (FirstByte(f) >= 128) = f.fin
<1>1. f.fin \in BOOLEAN /\ f.rsv \in {0, 1} /\ f.opcode \in {0, 1, 8}
  BY Shapes
<1> QED
  BY <1>1 DEF FirstByte

-----------------------------------------------------------------------------
(* The theorems. *)

LEMMA TypeInvariance == Spec => []Typed
<1>1. Init => Typed
  BY DEF Init, Typed
<1>2. Typed /\ [Next]_vars => Typed'
  <2> SUFFICES ASSUME Typed, [Next]_vars
               PROVE  Typed'
    OBVIOUS
  <2>1. CASE Arrive
    <3>1. PICK n \in Cuts : n > size /\ size' = n /\ frame' = frame
      BY <2>1 DEF Arrive
    <3>2. Len(Header(frame)) \in Nat /\ frame.len \in Nat /\ Beyond \in Nat
      BY HeaderReads, Shapes, FrameAssumption DEF Typed
    <3>3. FrameSize(frame) \in Nat
      BY <3>2 DEF FrameSize
    <3>4. n \in Int
      BY <3>2, <3>3 DEF Cuts
    <3> QED
      BY <3>1, <3>4 DEF Typed
  <2>2. CASE UNCHANGED vars
    BY <2>2 DEF Typed, vars
  <2> QED
    BY <2>1, <2>2 DEF Next
<1> QED
  BY <1>1, <1>2, PTL DEF Spec

\* However little of a frame has arrived, ParseFrame looks at no byte behind
\* the end of the buffer (its tests of buf.size()).
THEOREM NeverReadsAhead == Spec => []NothingReadAhead
<1>1. Typed => NothingReadAhead
  <2> SUFFICES ASSUME Typed, NEW filler \in {127, 254, 255}
               PROVE  ParseFrame(Arrived(filler), size) = Parse
    BY DEF NothingReadAhead
  <2> DEFINE p == Arrived(filler)
  <2> DEFINE q == Buffer(0)
  <2>1. /\ p = [i \in 0 .. 1 + WideBytes |-> p[i]]
        /\ q = [i \in 0 .. 1 + WideBytes |-> q[i]]
    BY DEF Arrived, Buffer
  <2>2. \A i \in 0 .. 1 + WideBytes : i < size => p[i] = q[i]
    BY DEF Arrived
  <2> HIDE DEF p, q
  <2>3. ParseFrame(p, size) = ParseFrame(q, size)
    BY <2>1, <2>2, SameBytesSameResult DEF Typed
  <2> QED
    BY <2>3 DEF Parse, p, q
<1> QED
  BY <1>1, TypeInvariance, PTL

\* What the client wrote is what ParseFrame returns, for every length below
\* 256 to the WideBytes and in every form, however the bytes are cut: nothing
\* while the frame is not complete, a refusal as soon as the header shows a
\* broken rule, and in the end its fields, its length and its size.
THEOREM ParsesWhatWasWritten == Spec => []ParsesTheFrame
<1>1. Typed => ParsesTheFrame
  <2> SUFFICES ASSUME Typed
               PROVE  ParsesTheFrame
    OBVIOUS
  <2> DEFINE p == Buffer(0)
  <2> DEFINE n == Len(Header(frame))
  <2> DEFINE len7 == p[1] % 128
  <2>1. frame \in FrameShapes /\ size \in Nat /\ WideBytes \in Nat
    BY FrameAssumption DEF Typed
  <2>2. /\ n \in Nat /\ n >= 2 /\ n <= 2 + WideBytes
        /\ frame.len \in Nat /\ MaxPayload \in Nat
        /\ frame.fin \in BOOLEAN /\ frame.masked \in BOOLEAN
    <3>1. n = 2 + Len(LengthBytes(frame)) /\ Len(LengthBytes(frame)) \in Nat
      BY <2>1, HeaderReads
    <3>2. /\ Len(LengthBytes(frame)) =
                IF frame.form = "short" THEN 0
                ELSE IF frame.form = "two" THEN 2 ELSE WideBytes
          /\ WideBytes >= 3
      BY <2>1, HeaderBytes, FrameAssumption
    <3> HIDE DEF n
    <3> QED
      BY <2>1, <3>1, <3>2, Shapes, FrameAssumption
  <2>3. \A i \in 1 .. n : p[i - 1] = Header(frame)[i]
    <3> SUFFICES ASSUME NEW i \in 1 .. n
                 PROVE  p[i - 1] = Header(frame)[i]
      OBVIOUS
    <3>1. i - 1 \in 0 .. 1 + WideBytes /\ i - 1 < n /\ (i - 1) + 1 = i
      BY <2>1, <2>2
    <3> QED
      BY <3>1 DEF Buffer
  <2>4. p[0] = FirstByte(frame)
    <3>1. p[1 - 1] = Header(frame)[1] /\ Header(frame)[1] = FirstByte(frame)
      <4>1. 1 \in 1 .. n
        BY <2>2
      <4> QED
        BY <2>1, <2>3, <4>1, HeaderReads
    <3> QED
      BY <3>1
  <2>5. /\ (p[0] \div 16) % 8 = frame.rsv
        /\ p[0] % 16 = frame.opcode
        /\ (p[0] >= 128) = frame.fin
    BY <2>1, <2>4, FirstByteIsRead
  <2>6. FrameSize(frame) = n + (IF frame.masked THEN 4 ELSE 0) + frame.len
    BY DEF FrameSize
  <2> HIDE DEF p, n
  <2>7. CASE ~ frame.masked
    <3>1. p[1] < 128
      <4>1. Header(frame)[2] = LengthCode(frame)
        <5>1. /\ Header(frame)[2] = MaskBit(frame) + LengthCode(frame)
              /\ LengthCode(frame) \in Nat
          BY <2>1, HeaderReads, Shapes DEF LengthCode
        <5>2. MaskBit(frame) = 0
          BY <2>7 DEF MaskBit
        <5> QED
          BY <5>1, <5>2
      <4>2. p[2 - 1] = Header(frame)[2]
        <5>1. 2 \in 1 .. n
          BY <2>2
        <5> QED
          BY <2>3, <5>1
      <4>3. LengthCode(frame) < 128
        BY <2>1, Shapes DEF LengthCode
      <4> QED
        BY <4>1, <4>2, <4>3
    <3>2. ParseFrame(p, size) = IF size < 2 THEN NeedMore ELSE Bad
      BY <3>1 DEF ParseFrame
    <3> QED
      BY <2>7, <3>2 DEF ParsesTheFrame, Parse, p
  <2>8. CASE frame.masked
    <3> DEFINE code == LengthCode(frame)
    <3>1. /\ p[1] >= 128 /\ len7 = code /\ HeaderLen(code) = n
          /\ PayloadLen(p, code) = frame.len
      BY <2>1, <2>3, <2>8, LengthIsRead DEF n
    <3> HIDE DEF len7, code
    <3>2. ~ (p[1] < 128)
      <4>1. p[1] = 128 + code /\ code \in Nat
        <5>1. /\ Header(frame)[2] = MaskBit(frame) + code /\ code \in Nat
          BY <2>1, HeaderReads, Shapes DEF LengthCode, code
        <5>2. p[2 - 1] = Header(frame)[2]
          <6>1. 2 \in 1 .. n
            BY <2>2
          <6> QED
            BY <2>3, <6>1
        <5> QED
          BY <2>8, <5>1, <5>2 DEF MaskBit
      <4> QED
        BY <4>1
    <3>3. ParseFrame(p, size) =
            IF size < 2 THEN NeedMore
            ELSE IF frame.rsv # 0 THEN Bad
            ELSE IF size < n THEN NeedMore
            ELSE IF frame.len > MaxPayload THEN Bad
            ELSE IF size < n + 4 + frame.len THEN NeedMore
            ELSE Got(frame.fin, frame.opcode, frame.len, n + 4 + frame.len)
      BY <2>5, <3>1, <3>2 DEF ParseFrame, len7
    <3>4. FrameSize(frame) = n + 4 + frame.len /\ FrameSize(frame) \in Nat
          /\ n < FrameSize(frame)
      BY <2>2, <2>6, <2>8
    <3>5. ParseFrame(p, size) =
            IF size < 2 THEN NeedMore
            ELSE IF frame.rsv # 0 THEN Bad
            ELSE IF frame.len > MaxPayload /\ size >= n THEN Bad
            ELSE IF frame.len > MaxPayload \/ size < FrameSize(frame)
              THEN NeedMore
            ELSE Got(frame.fin, frame.opcode, frame.len, FrameSize(frame))
      <4>1. CASE size < n
        BY <2>1, <2>2, <3>3, <3>4, <4>1
      <4>2. CASE ~ (size < n)
        BY <2>1, <2>2, <3>3, <3>4, <4>2
      <4> QED
        BY <4>1, <4>2
    <3> QED
      BY <2>8, <3>5 DEF ParsesTheFrame, Parse, p, n
  <2> QED
    BY <2>7, <2>8
<1> QED
  BY <1>1, TypeInvariance, PTL

\* EncodeFrame writes the shortest of the forms RFC 6455 has for the length,
\* with FIN set and neither mask nor reserved bits, for every length.
THEOREM WritesTheShortest == Spec => []EncodesTheShortest
<1>1. Typed => EncodesTheShortest
  <2> SUFFICES ASSUME Typed
               PROVE  EncodesTheShortest
    OBVIOUS
  <2> DEFINE len == frame.len
  <2> DEFINE code == 128 + frame.opcode
  <2> DEFINE f == [frame EXCEPT !.fin = TRUE, !.rsv = 0, !.masked = FALSE,
                                !.form = Shortest(frame.len)]
  <2>1. frame \in FrameShapes /\ len \in Lengths /\ len \in Nat
        /\ frame.opcode \in {0, 1, 8}
    BY Shapes DEF Typed, FrameShapes
  <2>2. f \in FrameShapes
    <3>1. Shortest(len) \in Forms /\ Fits(len, Shortest(len))
      BY <2>1 DEF Shortest, Forms, Fits
    <3> QED
      BY <2>1, <3>1 DEF FrameShapes
  <2>3. /\ f.fin = TRUE /\ f.rsv = 0 /\ f.masked = FALSE
        /\ f.form = Shortest(len) /\ f.len = len /\ f.opcode = frame.opcode
    BY <2>1 DEF FrameShapes
  <2>4. EncodesTheShortest <=> EncodeFrame(frame.opcode, len) = Header(f)
    BY DEF EncodesTheShortest
  <2> HIDE DEF f, len
  <2>5. Header(f) = <<FirstByte(f), MaskBit(f) + LengthCode(f)>>
                      \o LengthBytes(f)
    BY <2>2, HeaderBytes
  <2>6. FirstByte(f) = code /\ MaskBit(f) + LengthCode(f) = LengthCode(f)
    BY <2>1, <2>3 DEF FirstByte, MaskBit, LengthCode
  <2>7. \A a, b \in Nat : \A s \in Seq(Nat) : <<a, b>> \o s = <<a>> \o (<<b>> \o s)
    <3> SUFFICES ASSUME NEW a \in Nat, NEW b \in Nat, NEW s \in Seq(Nat)
                 PROVE  <<a, b>> \o s = <<a>> \o (<<b>> \o s)
      OBVIOUS
    <3>1. <<a>> \in Seq(Nat) /\ <<b>> \in Seq(Nat)
      OBVIOUS
    <3>2. <<a, b>> = <<a>> \o <<b>>
      BY TwoAndThree
    <3> QED
      BY <3>1, <3>2, ConcatAssociative
  <2>8. /\ code \in Nat /\ LengthCode(f) \in Nat
        /\ LengthBytes(f) \in Seq(Nat)
    <3>1. code \in Nat /\ LengthCode(f) \in Nat
      BY <2>1, <2>3 DEF LengthCode
    <3>2. LengthBytes(f) \in Seq(Nat)
      BY <2>2, HeaderBytes
    <3> QED
      BY <3>1, <3>2
  <2>9. Header(f) = <<code>> \o (<<LengthCode(f)>> \o LengthBytes(f))
    <3>1. Header(f) = <<code, LengthCode(f)>> \o LengthBytes(f)
      BY <2>5, <2>6
    <3> HIDE DEF code
    <3> QED
      BY <2>7, <2>8, <3>1, Zenon
  <2>10. EncodeFrame(frame.opcode, len) =
           <<code>> \o (<<LengthCode(f)>> \o LengthBytes(f))
    <3>1. CASE len < 126
      <4>1. LengthCode(f) = len /\ LengthBytes(f) = <<>>
        BY <2>3, <3>1 DEF LengthCode, LengthBytes, Shortest
      <4>2. <<len>> \o <<>> = <<len>>
        <5>1. <<len>> \in Seq(Nat)
          BY <2>1
        <5> QED
          BY <5>1, ConcatEmptySeq
      <4> QED
        BY <3>1, <4>1, <4>2 DEF EncodeFrame
    <3>2. CASE ~ (len < 126) /\ len < 65536
      <4>1. LengthCode(f) = 126 /\ LengthBytes(f) = BigEndian(len, 2)
        BY <2>3, <3>2 DEF LengthCode, LengthBytes, Shortest
      <4>2. BigEndian(len, 2) = <<(len \div 256) % 256, len % 256>>
        BY <2>1, TwoDigits
      <4> DEFINE a == (len \div 256) % 256
      <4> DEFINE b == len % 256
      <4>3. <<126>> \o <<a, b>> = <<126, a, b>>
        <5>1. a \in Nat /\ b \in Nat /\ 126 \in Nat
          BY <2>1
        <5> HIDE DEF a, b
        <5> QED
          BY <5>1, TwoAndThree, ZenonT(60)
      <4>4. EncodeFrame(frame.opcode, len) = <<code>> \o <<126, a, b>>
        BY <3>2 DEF EncodeFrame
      <4>5. LengthBytes(f) = <<a, b>>
        BY <4>1, <4>2
      <4> HIDE DEF a, b
      <4> QED
        BY <4>1, <4>3, <4>4, <4>5
    <3>3. CASE ~ (len < 126) /\ ~ (len < 65536)
      <4>1. LengthCode(f) = 127 /\ LengthBytes(f) = BigEndian(len, WideBytes)
        BY <2>3, <3>3 DEF LengthCode, LengthBytes, Shortest
      <4> QED
        BY <3>3, <4>1 DEF EncodeFrame
    <3> QED
      BY <3>1, <3>2, <3>3
  <2> QED
    BY <2>4, <2>9, <2>10
<1> QED
  BY <1>1, TypeInvariance, PTL

=============================================================================
