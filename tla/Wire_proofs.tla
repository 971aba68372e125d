----------------------------- MODULE Wire_proofs -----------------------------
(***************************************************************************)
(* Proofs about the bytes of wrap_data(), for every configuration, every   *)
(* sequence of payloads and every burst of up to sixteen bits: the         *)
(* checksums and the CRCs are right, a receiver that has nothing but the   *)
(* bytes gets the payload back, and no burst goes unnoticed.               *)
(***************************************************************************)
EXTENDS Wire, SumTheorems

-----------------------------------------------------------------------------
(***************************************************************************)
(* genCRC16() is the polynomial division of crc16.h; what it completes     *)
(* verifies, and no burst of up to sixteen bits passes it.                 *)
(***************************************************************************)

(* A word is known by its sixteen bits.                                    *)
LEMMA SameBits ==
  ASSUME NEW v \in Word, NEW w \in Word, \A i \in 0 .. 15 : i \in v <=> i \in w
  PROVE  v = w
BY DEF Word

(* Exclusive or and shift stay within sixteen bits.                        *)
LEMMA WordOps ==
  /\ \A a, b \in Word : Xor(a, b) \in Word
  /\ \A w \in Word, k \in 0 .. 15 : ShiftLeft(w, k) \in Word
BY DEF Word, Xor, ShiftLeft

(* One step of the division, bit by bit: the register moves up, and the    *)
(* polynomial is subtracted when the bits at the top differ.               *)
LEMMA DividedBits ==
  ASSUME NEW w \in Word, NEW b \in Byte, NEW k \in 0 .. 7
  PROVE  /\ Divided(w, k \in b) \in Word
         /\ \A i \in 0 .. 15 :
              i \in Divided(w, k \in b) <=>
                IF (15 \in w <=> k \in b) \/ i \notin {0, 5, 12} THEN i - 1 \in w ELSE i - 1 \notin w
<1>0. ShiftLeft(w, 1) \in Word /\ \A i \in 0 .. 15 : i \in ShiftLeft(w, 1) <=> i - 1 \in w
  BY DEF ShiftLeft, Word
<1>p. Polynomial \in Word
  BY DEF Polynomial, Word
<1>1. CASE ~(15 \in w <=> k \in b)
  <2>1. Divided(w, k \in b) = Xor(ShiftLeft(w, 1), Polynomial)
    BY <1>1, Zenon DEF Divided
  <2> QED BY <2>1, <1>1, <1>0, <1>p DEF Xor, Polynomial, Word
<1>2. CASE 15 \in w <=> k \in b
  <2>1. Divided(w, k \in b) = ShiftLeft(w, 1)
    BY <1>2, Zenon DEF Divided
  <2> QED BY <2>1, <1>2, <1>0
<1> QED BY <1>1, <1>2

(* The register r after k bits of the byte whose mixed form is x went into *)
(* the register w: w moved up by k, and for each bit 8 - j of x that has   *)
(* entered the polynomial, moved up by the k - j steps since.              *)
Fed(r, w, x, k) ==
  /\ r \in Word
  /\ \A i \in 0 .. 15 :
       i \in r <=> ~ ( (i - k \in w <=> (i < k /\ 8 - k + i \in x)) <=>
                      ((i - 5 \in 0 .. k - 1 /\ 3 - k + i \in x) <=>
                       (i - 12 \in 0 .. k - 1 /\ i - 4 - k \in x)) )

(* The bits of x: those of the byte and of the register's upper half, the  *)
(* lower four with the upper four folded in.                               *)
LEMMA MixedBits ==
  ASSUME NEW w \in Word, NEW b \in Byte
  PROVE  /\ Mixed(w, b) \in Byte
         /\ \A i \in 4 .. 7 : i \in Mixed(w, b) <=> ~(i + 8 \in w <=> i \in b)
         /\ \A i \in 0 .. 3 :
              i \in Mixed(w, b) <=> ((i + 8 \in w <=> i \in b) <=> i + 4 \in Mixed(w, b))
<1> DEFINE m == Xor(HighByte(w), b)
<1>1. m \in Byte /\ \A i \in 0 .. 7 : i \in m <=> ~(i + 8 \in w <=> i \in b)
  BY DEF Byte, Word, Xor, HighByte
<1>2. ShiftRight(m, 4) \in Byte /\ \A i \in 0 .. 7 : i \in ShiftRight(m, 4) <=> i + 4 \in m
  BY <1>1 DEF ShiftRight, Byte
<1>3. Mixed(w, b) = Xor(m, ShiftRight(m, 4))
  BY DEF Mixed
<1> HIDE DEF m
<1>4. Mixed(w, b) \in Byte /\ \A i \in 0 .. 7 : i \in Mixed(w, b) <=> ~(i \in m <=> i + 4 \in m)
  BY <1>1, <1>2, <1>3 DEF Xor, Byte
<1>5. \A i \in 4 .. 7 : i \in Mixed(w, b) <=> i \in m
  BY <1>4, <1>1 DEF Byte
<1>6. \A i \in 0 .. 3 : i \in Mixed(w, b) <=> ~(i \in m <=> i + 4 \in Mixed(w, b))
  BY <1>4, <1>5
<1>7. ASSUME NEW i \in 4 .. 7
      PROVE  i \in Mixed(w, b) <=> ~(i + 8 \in w <=> i \in b)
  BY <1>1, <1>5
<1>8. ASSUME NEW i \in 0 .. 3
      PROVE  i \in Mixed(w, b) <=> ((i + 8 \in w <=> i \in b) <=> i + 4 \in Mixed(w, b))
  <2>1. i \in m <=> ~(i + 8 \in w <=> i \in b)
    BY <1>1
  <2>2. i \in Mixed(w, b) <=> ~(i \in m <=> i + 4 \in Mixed(w, b))
    BY <1>6
  <2> QED BY <2>1, <2>2
<1> QED BY <1>4, <1>7, <1>8

(* The next bit, number j, brings a register that was fed 7 - j bits to    *)
(* one that was fed one more; bit j of x is what the division feeds back.  *)
LEMMA FeedBit ==
  ASSUME NEW w \in Word, NEW b \in Byte, NEW j \in 0 .. 7, NEW r, Fed(r, w, Mixed(w, b), 7 - j)
  PROVE  Fed(Divided(r, j \in b), w, Mixed(w, b), 8 - j)
<1> DEFINE k == 7 - j
           x == Mixed(w, b)
           d == Divided(r, j \in b)
<1>k. k \in 0 .. 7 /\ k + 1 = 8 - j /\ j = 7 - k
  OBVIOUS
<1>x. x \in Byte
  BY MixedBits
<1>r. /\ r \in Word
      /\ \A i \in 0 .. 15 :
       i \in r <=> ~ ( (i - k \in w <=> (i < k /\ 8 - k + i \in x)) <=>
                      ((i - 5 \in 0 .. k - 1 /\ 3 - k + i \in x) <=>
                       (i - 12 \in 0 .. k - 1 /\ i - 4 - k \in x)) )
  BY DEF Fed
<1>m. /\ j \in 4 .. 7 => (j \in x <=> ~(j + 8 \in w <=> j \in b))
      /\ j \in 0 .. 3 => (j \in x <=> ((j + 8 \in w <=> j \in b) <=> j + 4 \in x))
  BY MixedBits
<1>1. j \in x <=> ~(15 \in r <=> j \in b)
  <2> HIDE DEF x
  <2>1. CASE j \in 4 .. 7
    <3>1. 15 \in r <=> j + 8 \in w
      BY <2>1, <1>r, <1>k
    <3> QED BY <2>1, <1>m, <3>1
  <2>2. CASE j \in 0 .. 3
    <3>1. 15 \in r <=> ~ (j + 8 \in w <=> j + 4 \in x)
      BY <2>2, <1>r, <1>k
    <3> QED BY <2>2, <1>m, <3>1
  <2> QED BY <2>1, <2>2
<1>2. /\ d \in Word
      /\ \A i \in 0 .. 15 :
           i \in d <=> IF j \notin x \/ i \notin {0, 5, 12} THEN i - 1 \in r ELSE i - 1 \notin r
  <2>1. /\ d \in Word
        /\ \A i \in 0 .. 15 :
             i \in d <=> IF (15 \in r <=> j \in b) \/ i \notin {0, 5, 12}
                       THEN i - 1 \in r ELSE i - 1 \notin r
    BY <1>r, DividedBits, Zenon
  <2> QED BY <2>1, <1>1
<1> HIDE DEF x, d, k
<1>3. ASSUME NEW i \in 0 .. 15
      PROVE  i \in d <=> ~ ( (i - (k + 1) \in w <=> (i < k + 1 /\ 8 - (k + 1) + i \in x)) <=>
                      ((i - 5 \in 0 .. k /\ 3 - (k + 1) + i \in x) <=>
                       (i - 12 \in 0 .. k /\ i - 4 - (k + 1) \in x)) )
  <2>1. CASE i = 0
    BY <1>2, <1>x, <1>k, <1>r, <2>1 DEF Word, Byte
  <2>2. CASE i # 0
    <3>1. i - 1 \in 0 .. 15 BY <2>2
    <3>2. i - 1 \in r <=> ~ ( (i - 1 - k \in w <=> (i - 1 < k /\ 8 - k + (i - 1) \in x)) <=>
                      ((i - 1 - 5 \in 0 .. k - 1 /\ 3 - k + (i - 1) \in x) <=>
                       (i - 1 - 12 \in 0 .. k - 1 /\ i - 1 - 4 - k \in x)) )
      BY <3>1, <1>r
    <3> QED BY <1>2, <1>x, <1>k, <2>2, <3>2 DEF Byte
  <2> QED BY <2>1, <2>2
<1> QED BY <1>2, <1>3, <1>k DEF Fed, x, d

(* The three shifts of the loop body, bit by bit.                          *)
LEMMA ElementBits ==
  ASSUME NEW w \in Word, NEW b \in Byte
  PROVE  /\ Element(w, b) \in Word
         /\ \A i \in 0 .. 15 :
              i \in Element(w, b) <=>
                ~ ( (i - 8 \in w <=> i \in Mixed(w, b)) <=>
                    (i - 5 \in Mixed(w, b) <=> i - 12 \in Mixed(w, b)) )
<1> DEFINE x == Mixed(w, b)
<1>1. x \in Byte /\ x \in Word
  BY MixedBits DEF Byte, Word
<1>2. Element(w, b) = Xor(Xor(Xor(ShiftLeft(w, 8), ShiftLeft(x, 12)), ShiftLeft(x, 5)), x)
  BY Zenon DEF Element
<1> HIDE DEF x
<1>3. Element(w, b) \in Word
  BY <1>1, <1>2, WordOps
<1>4. ASSUME NEW i \in 0 .. 15
      PROVE  i \in Element(w, b) <=>
                ~ ( (i - 8 \in w <=> i \in x) <=> (i - 5 \in x <=> i - 12 \in x) )
  BY <1>1, <1>2 DEF Xor, ShiftLeft, Byte
<1> QED BY <1>3, <1>4 DEF x

(* The loop body of genCRC16() is the polynomial division of crc16.h, for  *)
(* every register and every byte.                                          *)
THEOREM ElementDivides ==
  ASSUME NEW w \in Word, NEW b \in Byte
  PROVE  Element(w, b) = Division(w, b)
<1> DEFINE x  == Mixed(w, b)
           r1 == Divided(w, 7 \in b)
           r2 == Divided(r1, 6 \in b)
           r3 == Divided(r2, 5 \in b)
           r4 == Divided(r3, 4 \in b)
           r5 == Divided(r4, 3 \in b)
           r6 == Divided(r5, 2 \in b)
           r7 == Divided(r6, 1 \in b)
           r8 == Divided(r7, 0 \in b)
<1>0. Fed(w, w, x, 0)
  BY DEF Fed, Word
<1>d. Division(w, b) = r8
  BY Zenon DEF Division
<1>1. Fed(r1, w, x, 1)
  <2> QED BY <1>0, FeedBit, 7 \in 0 .. 7, 7 - 7 = 0, 8 - 7 = 1
<1>2. Fed(r2, w, x, 2)
  <2> HIDE DEF r1
  <2> QED BY <1>1, FeedBit, 6 \in 0 .. 7, 7 - 6 = 1, 8 - 6 = 2
<1>3. Fed(r3, w, x, 3)
  <2> HIDE DEF r2
  <2> QED BY <1>2, FeedBit, 5 \in 0 .. 7, 7 - 5 = 2, 8 - 5 = 3
<1>4. Fed(r4, w, x, 4)
  <2> HIDE DEF r3
  <2> QED BY <1>3, FeedBit, 4 \in 0 .. 7, 7 - 4 = 3, 8 - 4 = 4
<1>5. Fed(r5, w, x, 5)
  <2> HIDE DEF r4
  <2> QED BY <1>4, FeedBit, 3 \in 0 .. 7, 7 - 3 = 4, 8 - 3 = 5
<1>6. Fed(r6, w, x, 6)
  <2> HIDE DEF r5
  <2> QED BY <1>5, FeedBit, 2 \in 0 .. 7, 7 - 2 = 5, 8 - 2 = 6
<1>7. Fed(r7, w, x, 7)
  <2> HIDE DEF r6
  <2> QED BY <1>6, FeedBit, 1 \in 0 .. 7, 7 - 1 = 6, 8 - 1 = 7
<1>8. Fed(r8, w, x, 8)
  <2> HIDE DEF r7
  <2> QED BY <1>7, FeedBit, 0 \in 0 .. 7, 7 - 0 = 7, 8 - 0 = 8
<1>9. x \in Byte
  BY MixedBits
<1>10. /\ Element(w, b) \in Word
       /\ \A i \in 0 .. 15 :
            i \in Element(w, b) <=>
              ~ ( (i - 8 \in w <=> i \in x) <=> (i - 5 \in x <=> i - 12 \in x) )
  BY ElementBits
<1> HIDE DEF x, r8
<1>11. ASSUME NEW i \in 0 .. 15
       PROVE  i \in Element(w, b) <=> i \in r8
  <2>1. i \in r8 <=> ~ ( (i - 8 \in w <=> i \in x) <=> (i - 5 \in x <=> i - 12 \in x) )
    BY <1>8, <1>9 DEF Fed, Byte
  <2> QED BY <2>1, <1>10
<1>12. r8 \in Word
  BY <1>8 DEF Fed
<1>13. Element(w, b) = r8
  BY <1>10, <1>11, <1>12, SameBits
<1> QED BY <1>13, <1>d

(* A step of the division loses nothing.                                   *)
LEMMA DividedInjective ==
  ASSUME NEW w1 \in Word, NEW w2 \in Word, NEW b \in Byte, NEW k \in 0 .. 7,
         Divided(w1, k \in b) = Divided(w2, k \in b)
  PROVE  w1 = w2
<1> DEFINE d == Divided(w1, k \in b)
<1>1. \A i \in 0 .. 15 :
        i \in d <=> IF (15 \in w1 <=> k \in b) \/ i \notin {0, 5, 12} THEN i - 1 \in w1 ELSE i - 1 \notin w1
  BY DividedBits, Zenon
<1>2. \A i \in 0 .. 15 :
        i \in d <=> IF (15 \in w2 <=> k \in b) \/ i \notin {0, 5, 12} THEN i - 1 \in w2 ELSE i - 1 \notin w2
  <2> DEFINE e == Divided(w2, k \in b)
  <2>1. \A i \in 0 .. 15 :
          i \in e <=> IF (15 \in w2 <=> k \in b) \/ i \notin {0, 5, 12} THEN i - 1 \in w2 ELSE i - 1 \notin w2
    BY DividedBits, Zenon
  <2>2. d = e
    OBVIOUS
  <2> HIDE DEF d, e
  <2> QED BY <2>1, <2>2
<1> HIDE DEF d
<1>3. 15 \in w1 <=> 15 \in w2
  BY <1>1, <1>2 DEF Word
<1>4. ASSUME NEW i \in 0 .. 14
      PROVE  i \in w1 <=> i \in w2
  <2>1. i + 1 \in 0 .. 15 /\ (i + 1) - 1 = i
    OBVIOUS
  <2> QED BY <2>1, <1>1, <1>2, <1>3
<1>5. ASSUME NEW i \in 0 .. 15
      PROVE  i \in w1 <=> i \in w2
  BY <1>3, <1>4
<1> QED BY <1>5, SameBits

(* Two registers that differ still do after the same byte: once the bytes  *)
(* of a damaged packet have changed the register, the rest of the packet,  *)
(* undamaged, cannot hide it.                                              *)
THEOREM DifferencePersists ==
  ASSUME NEW w1 \in Word, NEW w2 \in Word, NEW b \in Byte, w1 # w2
  PROVE  Element(w1, b) # Element(w2, b)
<1> SUFFICES ASSUME Division(w1, b) = Division(w2, b) PROVE FALSE
  BY ElementDivides
<1>w. \A w \in Word, k \in 0 .. 7 : Divided(w, k \in b) \in Word
  BY DividedBits, Zenon
<1> DEFINE D(w, k) == Divided(w, k \in b)
<1>d. \A v1, v2 \in Word, k \in 0 .. 7 : D(v1, k) = D(v2, k) => v1 = v2
  BY DividedInjective, Zenon
<1>1. /\ Division(w1, b) = D(D(D(D(D(D(D(D(w1, 7), 6), 5), 4), 3), 2), 1), 0)
      /\ Division(w2, b) = D(D(D(D(D(D(D(D(w2, 7), 6), 5), 4), 3), 2), 1), 0)
  BY Zenon DEF Division
<1>2. \A v \in Word, k \in 0 .. 7 : D(v, k) \in Word
  BY <1>w
<1> HIDE DEF D
<1>3. ASSUME NEW v1 \in Word, NEW v2 \in Word, NEW k \in 0 .. 7, NEW l \in 0 .. 7,
            D(D(v1, k), l) = D(D(v2, k), l)
      PROVE  v1 = v2
  <2>1. D(v1, k) \in Word /\ D(v2, k) \in Word
    BY <1>2
  <2>2. D(v1, k) = D(v2, k)
    BY <2>1, <1>3, <1>d, Zenon
  <2> QED BY <2>2, <1>d, Zenon
<1>4. ASSUME NEW v1 \in Word, NEW v2 \in Word,
            D(D(D(D(v1, 7), 6), 5), 4) = D(D(D(D(v2, 7), 6), 5), 4)
      PROVE  v1 = v2
  <2> DEFINE p1 == D(D(v1, 7), 6)
             p2 == D(D(v2, 7), 6)
  <2>1. p1 \in Word /\ p2 \in Word
    BY <1>2
  <2>2. D(D(p1, 5), 4) = D(D(p2, 5), 4)
    BY <1>4
  <2> HIDE DEF p1, p2
  <2>3. p1 = p2
    BY <2>1, <2>2, <1>3
  <2> QED BY <2>3, <1>3 DEF p1, p2
<1>5. ASSUME NEW v1 \in Word, NEW v2 \in Word,
            D(D(D(D(v1, 3), 2), 1), 0) = D(D(D(D(v2, 3), 2), 1), 0)
      PROVE  v1 = v2
  <2> DEFINE p1 == D(D(v1, 3), 2)
             p2 == D(D(v2, 3), 2)
  <2>1. p1 \in Word /\ p2 \in Word
    BY <1>2
  <2>2. D(D(p1, 1), 0) = D(D(p2, 1), 0)
    BY <1>5
  <2> HIDE DEF p1, p2
  <2>3. p1 = p2
    BY <2>1, <2>2, <1>3
  <2> QED BY <2>3, <1>3 DEF p1, p2
<1>6. \A v \in Word : D(D(D(D(v, 7), 6), 5), 4) \in Word
  BY <1>2
<1> QED BY <1>1, <1>4, <1>5, <1>6

(* Two bytes that differ take one register to two that differ: with the    *)
(* theorem above, a packet with a single damaged byte never passes.        *)
THEOREM ChangedByteTells ==
  ASSUME NEW w \in Word, NEW b1 \in Byte, NEW b2 \in Byte, b1 # b2
  PROVE  Element(w, b1) # Element(w, b2)
<1> SUFFICES ASSUME Element(w, b1) = Element(w, b2) PROVE FALSE
  OBVIOUS
<1> DEFINE x1 == Mixed(w, b1)
           x2 == Mixed(w, b2)
<1>1. x1 \in Byte /\ x2 \in Byte
  BY MixedBits
<1>2. \A i \in 0 .. 15 :
        (i \in x1 <=> (i - 5 \in x1 <=> i - 12 \in x1)) <=> (i \in x2 <=> (i - 5 \in x2 <=> i - 12 \in x2))
  <2>1. \A i \in 0 .. 15 :
          i \in Element(w, b1) <=>
            ~ ( (i - 8 \in w <=> i \in x1) <=> (i - 5 \in x1 <=> i - 12 \in x1) )
    BY ElementBits
  <2>2. \A i \in 0 .. 15 :
          i \in Element(w, b2) <=>
            ~ ( (i - 8 \in w <=> i \in x2) <=> (i - 5 \in x2 <=> i - 12 \in x2) )
    BY ElementBits
  <2> HIDE DEF x1, x2
  <2> QED BY <2>1, <2>2
<1>3. ASSUME NEW i \in 0 .. 7
      PROVE  i \in b1 <=> i \in b2
  <2>m. /\ \A k \in 4 .. 7 : k \in x1 <=> ~(k + 8 \in w <=> k \in b1)
        /\ \A k \in 0 .. 3 : k \in x1 <=> ((k + 8 \in w <=> k \in b1) <=> k + 4 \in x1)
        /\ \A k \in 4 .. 7 : k \in x2 <=> ~(k + 8 \in w <=> k \in b2)
        /\ \A k \in 0 .. 3 : k \in x2 <=> ((k + 8 \in w <=> k \in b2) <=> k + 4 \in x2)
    BY MixedBits
  <2> HIDE DEF x1, x2
  <2>1. \A k \in 0 .. 4 : k \in x1 <=> k \in x2
    BY <1>1, <1>2 DEF Byte
  <2>2. \A k \in 5 .. 7 : k \in x1 <=> k \in x2
    <3> TAKE k \in 5 .. 7
    <3>1. k - 5 \in x1 <=> k - 5 \in x2
      BY <2>1
    <3> QED BY <3>1, <1>1, <1>2 DEF Byte
  <2>3. \A k \in 0 .. 7 : k \in x1 <=> k \in x2
    BY <2>1, <2>2
  <2>4. CASE i \in 4 .. 7
    BY <2>4, <2>m, <2>3
  <2>5. CASE i \in 0 .. 3
    <3>1. i + 4 \in x1 <=> i + 4 \in x2
      BY <2>5, <2>3
    <3> QED BY <2>5, <3>1, <2>m, <2>3
  <2> QED BY <2>4, <2>5
<1> QED BY <1>3 DEF Byte

-----------------------------------------------------------------------------
(* The turns of the loop, one after the other.                             *)

(* r is the walk of n steps from s; step[i] is what the i-th step does.    *)
Walks(r, n, s, step) ==
  r = [i \in 0 .. n |-> IF i = 0 THEN s ELSE step[i][r[i - 1]]]

Steppers(n, S) == [1 .. n -> [S -> S]]

(* There is one, for steps within a set.                                   *)
LEMMA WalkExists ==
  ASSUME NEW n \in Nat, NEW S, NEW s \in S, NEW step \in Steppers(n, S)
  PROVE  \E r \in [0 .. n -> S] : Walks(r, n, s, step)
<1> DEFINE P == {m \in 0 .. n : \E r \in [0 .. m -> S] : Walks(r, m, s, step)}
<1>1. 0 \in P
  <2> DEFINE r == [i \in 0 .. 0 |-> s]
  <2>1. r \in [0 .. 0 -> S] /\ Walks(r, 0, s, step)
    BY DEF Walks
  <2> QED BY <2>1
<1>2. ASSUME NEW i \in 1 .. n, i - 1 \in P
      PROVE  i \in P
  <2>1. PICK q \in [0 .. i - 1 -> S] : Walks(q, i - 1, s, step)
    BY <1>2
  <2> DEFINE r == [j \in 0 .. i |-> IF j = i THEN step[i][q[i - 1]] ELSE q[j]]
  <2>2. step[i][q[i - 1]] \in S
    BY DEF Steppers
  <2>3. r \in [0 .. i -> S]
    BY <2>2
  <2>4. ASSUME NEW j \in 0 .. i
        PROVE  r[j] = IF j = 0 THEN s ELSE step[j][r[j - 1]]
    <3>1. CASE j = i
      BY <3>1
    <3>2. CASE j # i
      <4>1. q[j] = IF j = 0 THEN s ELSE step[j][q[j - 1]]
        BY <2>1, <3>2 DEF Walks
      <4> QED BY <4>1, <3>2
    <3> QED BY <3>1, <3>2
  <2>5. Walks(r, i, s, step)
    BY <2>4 DEF Walks
  <2> QED BY <2>3, <2>5
<1> HIDE DEF P
<1>3. n \in P
  BY <1>1, <1>2, Upwards
<1> QED BY <1>3 DEF P

(* And it stays in the set.                                                *)
LEMMA WalkTyped ==
  ASSUME NEW n \in Nat, NEW S, NEW s \in S, NEW step \in Steppers(n, S), NEW r, Walks(r, n, s, step)
  PROVE  /\ r \in [0 .. n -> S]
         /\ r[0] = s /\ \A i \in 1 .. n : r[i] = step[i][r[i - 1]]
<1> DEFINE P == {i \in 0 .. n : r[i] \in S}
<1>1. r[0] = s /\ \A i \in 1 .. n : r[i] = step[i][r[i - 1]]
  BY DEF Walks
<1>2. 0 \in P /\ \A i \in 1 .. n : i - 1 \in P => i \in P
  BY <1>1 DEF Steppers
<1>3. \A i \in 0 .. n : i \in P
  <2> HIDE DEF P
  <2> QED BY <1>2, Upwards
<1>4. r \in [0 .. n -> S]
  BY <1>3 DEF Walks
<1> QED BY <1>1, <1>4

(* The turns of the loop: the register they start from, what each does.    *)
LEMMA TurnsAre ==
  ASSUME NEW input \in Seq(Byte)
  PROVE  /\ Turns(input) \in [0 .. Len(input) -> Word]
         /\ Turns(input)[0] = Initial
         /\ \A n \in 1 .. Len(input) : Turns(input)[n] = Element(Turns(input)[n - 1], input[n])
<1> DEFINE L == Len(input)
           turn == [n \in 1 .. L |-> [init \in Word |-> Element(init, input[n])]]
<1>1. L \in Nat /\ \A n \in 1 .. L : input[n] \in Byte
  OBVIOUS
<1>2. Initial \in Word
  BY DEF Initial, Word
<1>3. turn \in Steppers(L, Word)
  <2>1. \A w \in Word, b \in Byte : Element(w, b) \in Word
    BY ElementBits
  <2> HIDE DEF L
  <2> QED BY <1>1, <2>1 DEF Steppers
<1>4. Turns(input) = CHOOSE r : Walks(r, L, Initial, turn)
  BY Zenon DEF Turns, Walks
<1>5. \A n \in 1 .. L, w \in Word : turn[n][w] = Element(w, input[n])
  OBVIOUS
<1> HIDE DEF L, turn
<1>6. \E r : Walks(r, L, Initial, turn)
  BY <1>1, <1>2, <1>3, WalkExists
<1>7. Walks(Turns(input), L, Initial, turn)
  BY <1>4, <1>6
<1> DEFINE t == Turns(input)
<1> HIDE DEF t
<1>8. /\ t \in [0 .. L -> Word]
      /\ t[0] = Initial /\ \A n \in 1 .. L : t[n] = turn[n][t[n - 1]]
  <2>1. Walks(t, L, Initial, turn)
    BY <1>7 DEF t
  <2> QED BY <1>1, <1>2, <1>3, <2>1, WalkTyped
<1>9. \A n \in 1 .. L : t[n - 1] \in Word
  BY <1>1, <1>8
<1>10. \A n \in 1 .. L : t[n] = Element(t[n - 1], input[n])
  BY <1>5, <1>8, <1>9
<1> QED BY <1>8, <1>10 DEF t, L

(* genCRC16()'s loop goes through the remainders of the message, byte by   *)
(* byte, whatever the message and its length.                              *)
THEOREM TurnsAreRemainders ==
  ASSUME NEW input \in Seq(Byte)
  PROVE  Turns(input) = Remainders(input)
<1> DEFINE L == Len(input)
           turn == [n \in 1 .. L |-> [w \in Word |-> Element(w, input[n])]]
           divide == [n \in 1 .. L |-> [w \in Word |-> Division(w, input[n])]]
<1>1. turn = divide
  <2>1. \A n \in 1 .. L : input[n] \in Byte
    OBVIOUS
  <2>2. \A n \in 1 .. L, w \in Word : Element(w, input[n]) = Division(w, input[n])
    BY <2>1, ElementDivides
  <2> HIDE DEF L
  <2>3. \A n \in 1 .. L : [w \in Word |-> Element(w, input[n])] = [w \in Word |-> Division(w, input[n])]
    BY <2>2
  <2> QED BY <2>3
<1>2. Turns(input) = CHOOSE r : Walks(r, L, Initial, turn)
  BY Zenon DEF Turns, Walks
<1>3. Remainders(input) = CHOOSE r : Walks(r, L, Initial, divide)
  BY Zenon DEF Remainders, Walks
<1> HIDE DEF turn, divide
<1> QED BY <1>1, <1>2, <1>3, Zenon

(* The register after k turns depends on the first k bytes only.           *)
LEMMA PrefixTurns ==
  ASSUME NEW a \in Seq(Byte), NEW b \in Seq(Byte), NEW k \in Nat, k <= Len(a), k <= Len(b),
         \A i \in 1 .. k : a[i] = b[i]
  PROVE  Turns(a)[k] = Turns(b)[k]
<1> DEFINE P == {n \in 0 .. k : Turns(a)[n] = Turns(b)[n]}
<1>1. Len(a) \in Nat /\ Len(b) \in Nat
  OBVIOUS
<1>2. /\ Turns(a)[0] = Initial /\ Turns(b)[0] = Initial
      /\ \A n \in 1 .. Len(a) : Turns(a)[n] = Element(Turns(a)[n - 1], a[n])
  BY TurnsAre
<1>3. \A n \in 1 .. Len(b) : Turns(b)[n] = Element(Turns(b)[n - 1], b[n])
  BY TurnsAre
<1>4. 0 \in P
  BY <1>1, <1>2
<1>5. \A n \in 1 .. k : n - 1 \in P => n \in P
  BY <1>1, <1>2, <1>3
<1> HIDE DEF P
<1>6. Climbs(P, k)
  BY <1>4, <1>5 DEF Climbs
<1>7. k \in P
  BY <1>6, Top, Zenon
<1> QED BY <1>7 DEF P

(* The bits of a message in the order they are divided.                    *)
Bit(input, p) == (7 - ((p - 1) % 8)) \in input[(p - 1) \div 8 + 1]

(* Bit k of the n-th byte of a message.                                    *)
LEMMA BitIs ==
  \A n \in Nat \ {0}, k \in 1 .. 8 : \A input : Bit(input, 8 * (n - 1) + k) <=> 8 - k \in input[n]
<1> SUFFICES ASSUME NEW n \in Nat \ {0}, NEW k \in 1 .. 8, NEW input
             PROVE  Bit(input, 8 * (n - 1) + k) <=> 8 - k \in input[n]
  OBVIOUS
<1>1. (8 * (n - 1) + k - 1) % 8 = k - 1 /\ (8 * (n - 1) + k - 1) \div 8 = n - 1
  OBVIOUS
<1>2. 7 - (k - 1) = 8 - k /\ (n - 1) + 1 = n
  OBVIOUS
<1> QED BY <1>1, <1>2 DEF Bit

(* Every bit of a message is one of a byte.                                *)
LEMMA BitOf ==
  ASSUME NEW input \in Seq(Byte), NEW p \in 1 .. 8 * Len(input)
  PROVE  \E b \in Byte, k \in 0 .. 7 : \E n \in 1 .. Len(input) :
            b = input[n] /\ p = 8 * (n - 1) + 8 - k /\ (Bit(input, p) <=> k \in b)
<1> DEFINE n == (p - 1) \div 8 + 1
           k == 7 - ((p - 1) % 8)
<1>1. n \in 1 .. Len(input) /\ k \in 0 .. 7 /\ p = 8 * (n - 1) + 8 - k
  OBVIOUS
<1>2. input[n] \in Byte
  BY <1>1
<1>3. Bit(input, p) <=> k \in input[n]
  BY DEF Bit
<1> HIDE DEF n, k
<1> QED BY <1>1, <1>2, <1>3

-----------------------------------------------------------------------------
(* Bursts.                                                                 *)

(* The division of a whole message, one bit at a time.                     *)
BitRun(input, r) ==
  /\ r \in [0 .. 8 * Len(input) -> Word]
  /\ r[0] = Initial
  /\ \A p \in 1 .. 8 * Len(input) : r[p] = Divided(r[p - 1], Bit(input, p))
  /\ r[8 * Len(input)] = Register(input)

(* d is w after a step of the division that takes in this bit.             *)
Advances(d, w, bit) ==
  \A i \in 0 .. 15 :
    i \in d <=> IF (15 \in w <=> bit) \/ i \notin {0, 5, 12} THEN i - 1 \in w ELSE i - 1 \notin w

(* A step of the division, for a bit of a message.                         *)
LEMMA DividedBit ==
  ASSUME NEW input \in Seq(Byte), NEW w \in Word, NEW p \in 1 .. 8 * Len(input)
  PROVE  /\ Divided(w, Bit(input, p)) \in Word
         /\ Advances(Divided(w, Bit(input, p)), w, Bit(input, p))
<1>1. PICK b \in Byte, k \in 0 .. 7 : Bit(input, p) <=> k \in b
  BY BitOf
<1> DEFINE d == Divided(w, k \in b)
<1>2. /\ d \in Word
      /\ \A i \in 0 .. 15 :
           i \in d <=> IF (15 \in w <=> k \in b) \/ i \notin {0, 5, 12} THEN i - 1 \in w ELSE i - 1 \notin w
  BY DividedBits, Zenon
<1>3. Divided(w, Bit(input, p)) = d
  BY <1>1, Zenon DEF Divided
<1> HIDE DEF d
<1> QED BY <1>1, <1>2, <1>3 DEF Advances

(* Dividing bit by bit comes to what the loop comes to.                    *)
LEMMA BitRunExists ==
  ASSUME NEW input \in Seq(Byte)
  PROVE  \E r : BitRun(input, r)
<1> DEFINE L == Len(input)
           step == [p \in 1 .. 8 * L |-> [w \in Word |-> Divided(w, Bit(input, p))]]
<1>1. L \in Nat /\ 8 * L \in Nat /\ \A n \in 1 .. L : input[n] \in Byte
  OBVIOUS
<1>2. Initial \in Word
  BY DEF Initial, Word
<1>3. step \in Steppers(8 * L, Word)
  <2>1. \A p \in 1 .. 8 * L, w \in Word : Divided(w, Bit(input, p)) \in Word
    BY DividedBit
  <2> HIDE DEF L
  <2> QED BY <2>1 DEF Steppers
<1>4. \A p \in 1 .. 8 * L, w \in Word : step[p][w] = Divided(w, Bit(input, p))
  OBVIOUS
<1> HIDE DEF step
<1>5. PICK r : Walks(r, 8 * L, Initial, step)
  BY <1>1, <1>2, <1>3, WalkExists
<1>6. r \in [0 .. 8 * L -> Word] /\ r[0] = Initial /\ \A p \in 1 .. 8 * L : r[p] = step[p][r[p - 1]]
  BY <1>1, <1>2, <1>3, <1>5, WalkTyped
<1>7. \A p \in 1 .. 8 * L : r[p] = Divided(r[p - 1], Bit(input, p))
  <2>1. \A p \in 1 .. 8 * L : r[p - 1] \in Word
    BY <1>1, <1>6
  <2> QED BY <1>4, <1>6, <2>1
<1> DEFINE t == Turns(input)
           P == {n \in 0 .. L : r[8 * n] = t[n]}
<1>8. t[0] = Initial /\ \A n \in 1 .. L : t[n] = Element(t[n - 1], input[n])
  BY TurnsAre
<1>9. 0 \in P
  BY <1>1, <1>6, <1>8
<1>10. ASSUME NEW n \in 1 .. L, n - 1 \in P
       PROVE  n \in P
  <2> DEFINE o == 8 * (n - 1)
             b == input[n]
             w == r[o]
  <2>1. /\ o + 0 = o /\ o + 8 = 8 * n /\ o \in 0 .. 8 * L
        /\ \A k \in 1 .. 8 : o + k \in 1 .. 8 * L /\ (o + k) - 1 = o + (k - 1)
    BY <1>1
  <2>2. w = t[n - 1] /\ w \in Word /\ b \in Byte
    <3>1. w = t[n - 1]
      BY <1>10
    <3>2. w \in Word
      BY <1>6, <2>1
    <3> QED BY <1>1, <3>1, <3>2
  <2>3. \A k \in 1 .. 8 : Bit(input, o + k) <=> 8 - k \in b
    <3>1. n \in Nat \ {0}
      BY <1>1
    <3> QED BY <3>1, BitIs, Zenon
  <2> HIDE DEF o, b, w
  <2>4. ASSUME NEW k \in 1 .. 8
        PROVE  r[o + k] = Divided(r[o + (k - 1)], 8 - k \in b)
    <3>1. r[o + k] = Divided(r[o + (k - 1)], Bit(input, o + k))
      BY <1>7, <2>1
    <3>2. Divided(r[o + (k - 1)], Bit(input, o + k)) = Divided(r[o + (k - 1)], 8 - k \in b)
      BY <2>3, Zenon DEF Divided
    <3> QED BY <3>1, <3>2
  <2>5. r[o + 0] = w
    BY <2>1 DEF w
  <2>6. /\ r[o + 1] = Divided(r[o + 0], 7 \in b) /\ r[o + 2] = Divided(r[o + 1], 6 \in b)
        /\ r[o + 3] = Divided(r[o + 2], 5 \in b) /\ r[o + 4] = Divided(r[o + 3], 4 \in b)
        /\ r[o + 5] = Divided(r[o + 4], 3 \in b) /\ r[o + 6] = Divided(r[o + 5], 2 \in b)
        /\ r[o + 7] = Divided(r[o + 6], 1 \in b) /\ r[o + 8] = Divided(r[o + 7], 0 \in b)
    BY <2>4
  <2>7. r[o + 8] = Division(w, b)
    BY <2>5, <2>6, Zenon DEF Division
  <2>8. Element(w, b) = Division(w, b)
    BY <2>2, ElementDivides
  <2>9. t[n] = Element(w, b)
    BY <1>8, <2>2 DEF b
  <2> QED BY <2>1, <2>7, <2>8, <2>9
<1>11. L \in P
  <2>1. \A n \in 1 .. L : n - 1 \in P => n \in P
    BY <1>10
  <2> HIDE DEF P
  <2>2. Climbs(P, L)
    BY <1>1, <1>9, <2>1 DEF Climbs
  <2> QED BY <2>2, Top, Zenon
<1>12. r[8 * L] = Register(input)
  BY <1>11 DEF Register
<1> QED BY <1>6, <1>7, <1>12 DEF BitRun

(* Two messages that first differ in bit s, and only within the sixteen    *)
(* bits from there, leave different registers. If they left the same, the  *)
(* registers would agree at the end of the window already, since a step    *)
(* can be undone. From there backwards they agree on one bit less at the   *)
(* top with each step, but down to the step of bit s always on bit 0, into *)
(* which every step feeds what it subtracts. So both divisions subtract at *)
(* the same steps, and since the registers agreed before bit s, bit s is   *)
(* the same.                                                               *)
LEMMA WindowTells ==
  ASSUME NEW a \in Seq(Byte), NEW b \in Seq(Byte), Len(a) = Len(b),
         NEW s \in 1 .. 8 * Len(a), ~(Bit(a, s) <=> Bit(b, s)),
         \A p \in 1 .. 8 * Len(a) : p \notin s .. s + 15 => (Bit(a, p) <=> Bit(b, p))
  PROVE  Register(a) # Register(b)
<1> SUFFICES ASSUME Register(a) = Register(b)
             PROVE  FALSE
  OBVIOUS
<1> DEFINE N == 8 * Len(a)
<1>n. N \in Nat /\ s \in 1 .. N
  OBVIOUS
<1>r. PICK r : BitRun(a, r)
  BY BitRunExists
<1>q. PICK q : BitRun(b, q)
  BY BitRunExists
<1>1. /\ r \in [0 .. N -> Word] /\ q \in [0 .. N -> Word]
      /\ r[0] = Initial /\ q[0] = Initial /\ r[N] = q[N]
      /\ \A p \in 1 .. N : r[p] = Divided(r[p - 1], Bit(a, p)) /\ q[p] = Divided(q[p - 1], Bit(b, p))
  BY <1>r, <1>q DEF BitRun
<1>b. \A p \in 1 .. N, w \in Word :
        Advances(Divided(w, Bit(a, p)), w, Bit(a, p)) /\ Advances(Divided(w, Bit(b, p)), w, Bit(b, p))
  BY DividedBit
<1>i. ASSUME NEW p \in 1 .. N, NEW v \in Word, NEW w \in Word,
             Divided(v, Bit(a, p)) = Divided(w, Bit(a, p))
      PROVE  v = w
  <2>1. PICK c \in Byte, k \in 0 .. 7 : Bit(a, p) <=> k \in c
    BY BitOf
  <2>2. Divided(v, k \in c) = Divided(w, k \in c)
    <3>1. Divided(v, k \in c) = Divided(v, Bit(a, p)) /\ Divided(w, k \in c) = Divided(w, Bit(a, p))
      BY <2>1, Zenon DEF Divided
    <3> QED BY <1>i, <3>1
  <2> QED BY <2>2, DividedInjective, Zenon
<1>s. \A p \in 1 .. N : p \notin s .. s + 15 =>
        \A w : Divided(w, Bit(b, p)) = Divided(w, Bit(a, p))
  <2> SUFFICES ASSUME NEW p \in 1 .. N, p \notin s .. s + 15, NEW w
               PROVE  Divided(w, Bit(b, p)) = Divided(w, Bit(a, p))
    OBVIOUS
  <2>1. Bit(a, p) <=> Bit(b, p)
    OBVIOUS
  <2> QED BY <2>1, Zenon DEF Divided
<1>w. \A p \in 0 .. N : r[p] \in Word /\ q[p] \in Word
  BY <1>1
<1> DEFINE t == IF s + 15 < N THEN s + 15 ELSE N
<1>t. t \in s .. s + 15 /\ t \in 1 .. N /\ \A p \in t + 1 .. N : p \notin s .. s + 15
  BY <1>n
<1> DEFINE agree(p) == r[p] = q[p]
(* Before the damage the registers agree. *)
<1>2. agree(s - 1)
  <2> DEFINE P == {p \in 0 .. s - 1 : agree(p)}
  <2>1. 0 \in P
    BY <1>1, <1>n
  <2>2. ASSUME NEW p \in 1 .. s - 1, p - 1 \in P
        PROVE  p \in P
    <3>1. p \in 1 .. N /\ p \notin s .. s + 15
      BY <1>n
    <3>2. r[p] = Divided(r[p - 1], Bit(a, p)) /\ q[p] = Divided(q[p - 1], Bit(b, p))
      BY <1>1, <3>1
    <3>3. r[p - 1] = q[p - 1]
      BY <2>2
    <3> QED BY <3>1, <3>2, <3>3, <1>s
  <2>3. \A p \in 1 .. s - 1 : p - 1 \in P => p \in P
    BY <2>2
  <2> HIDE DEF P
  <2>4. Climbs(P, s - 1)
    BY <1>n, <2>1, <2>3 DEF Climbs
  <2>5. s - 1 \in P
    BY <2>4, Top, Zenon
  <2> QED BY <2>5 DEF P
(* Since they agree at the end, they agree where the window ends. *)
<1>3. agree(t)
  <2> DEFINE P == {j \in 0 .. N - t : agree(N - j)}
  <2>1. 0 \in P
    BY <1>1, <1>n, <1>t
  <2>2. ASSUME NEW j \in 1 .. N - t, j - 1 \in P
        PROVE  j \in P
    <3> DEFINE p == N - (j - 1)
    <3>1. p \in 1 .. N /\ p \notin s .. s + 15 /\ p - 1 = N - j /\ p - 1 \in 0 .. N
      BY <1>n, <1>t
    <3>2. r[p] = q[p]
      BY <2>2
    <3> HIDE DEF p, N, t
    <3>3. r[p] = Divided(r[p - 1], Bit(a, p)) /\ q[p] = Divided(q[p - 1], Bit(b, p))
      BY <1>1, <3>1
    <3>4. Divided(q[p - 1], Bit(b, p)) = Divided(q[p - 1], Bit(a, p))
      BY <1>s, <3>1
    <3>5. r[p - 1] = q[p - 1]
      BY <1>i, <1>w, <3>1, <3>2, <3>3, <3>4
    <3> QED BY <3>1, <3>5
  <2>3. N - t \in Nat
    BY <1>n, <1>t
  <2>4. N - t \in P
    <3>1. \A j \in 1 .. N - t : j - 1 \in P => j \in P
      BY <2>2
    <3> HIDE DEF P, N, t
    <3>2. Climbs(P, N - t)
      BY <2>1, <2>3, <3>1 DEF Climbs
    <3> QED BY <3>2, Top, Zenon
  <2>5. N - (N - t) = t
    BY <1>n, <1>t
  <2> QED BY <2>4, <2>5
(* Going back from there, they agree on ever fewer of the lower bits, but on bit 0 throughout. *)
<1> DEFINE alike(j) == \A i \in 0 .. 15 - j : i \in r[t - j] <=> i \in q[t - j]
<1>4. ASSUME NEW j \in 0 .. t - s, alike(j)
      PROVE  /\ (15 \in r[t - j - 1] <=> Bit(a, t - j)) <=> (15 \in q[t - j - 1] <=> Bit(b, t - j))
             /\ \A i \in 0 .. 15 - (j + 1) : i \in r[t - j - 1] <=> i \in q[t - j - 1]
  <2> DEFINE p == t - j
  <2>1. p \in 1 .. N /\ p - 1 \in 0 .. N /\ j \in 0 .. 15
    BY <1>n, <1>t
  <2>2. \A i \in 0 .. 15 - j : i \in r[p] <=> i \in q[p]
    BY <1>4
  <2> HIDE DEF p, N, t
  <2>3. r[p] = Divided(r[p - 1], Bit(a, p)) /\ q[p] = Divided(q[p - 1], Bit(b, p))
    BY <1>1, <2>1
  <2>4. r[p - 1] \in Word /\ q[p - 1] \in Word
    BY <1>w, <2>1
  <2> DEFINE v == r[p - 1]
             u == q[p - 1]
             x == Bit(a, p)
             y == Bit(b, p)
  <2>5. Advances(r[p], v, x)
    <3>1. r[p] = Divided(v, x)
      BY <2>3
    <3>2. Advances(Divided(v, x), v, x)
      BY <1>b, <2>1, <2>4, Zenon
    <3> QED BY <3>1, <3>2, Zenon
  <2>6. Advances(q[p], u, y)
    <3>1. q[p] = Divided(u, y)
      BY <2>3
    <3>2. Advances(Divided(u, y), u, y)
      BY <1>b, <2>1, <2>4, Zenon
    <3> QED BY <3>1, <3>2, Zenon
  <2>7. v \in Word /\ u \in Word
    BY <2>4
  <2> HIDE DEF v, u, x, y
  <2>8. (15 \in v <=> x) <=> (15 \in u <=> y)
    <3>1. -1 \notin v /\ -1 \notin u
      BY <2>7 DEF Word
    <3>2. 0 \in r[p] <=> 0 \in q[p]
      BY <2>1, <2>2
    <3> QED BY <2>5, <2>6, <3>1, <3>2, SMTT(60) DEF Advances
  <2>9. ASSUME NEW i \in 0 .. 15 - (j + 1)
        PROVE  i \in v <=> i \in u
    <3>1. i + 1 \in 0 .. 15 - j /\ i + 1 \in 0 .. 15 /\ (i + 1) - 1 = i
      BY <2>1
    <3>2. i + 1 \in r[p] <=> i + 1 \in q[p]
      BY <2>2, <3>1
    <3> QED BY <2>5, <2>6, <2>8, <3>1, <3>2 DEF Advances
  <2> QED BY <2>8, <2>9 DEF v, u, x, y, p
<1>5. alike(t - s)
  <2> DEFINE P == {j \in 0 .. t - s : alike(j)}
  <2>0. t - s \in Nat /\ t - s <= 15 /\ t \in Int /\ s \in Int
    BY <1>t, <1>n
  <2>1. 0 \in P
    <3>1. t - 0 = t
      BY <2>0
    <3> QED BY <1>3, <2>0, <3>1
  <2>2. ASSUME NEW j \in 1 .. t - s, j - 1 \in P
        PROVE  j \in P
    <3>1. j - 1 \in 0 .. t - s /\ alike(j - 1) /\ t - (j - 1) - 1 = t - j /\ (j - 1) + 1 = j
      BY <2>0, <2>2
    <3> HIDE DEF t, N
    <3>2. \A i \in 0 .. 15 - ((j - 1) + 1) : i \in r[t - (j - 1) - 1] <=> i \in q[t - (j - 1) - 1]
      BY <3>1, <1>4
    <3> QED BY <3>1, <3>2
  <2>3. t - s \in P
    <3>1. \A j \in 1 .. t - s : j - 1 \in P => j \in P
      BY <2>2
    <3> HIDE DEF P, t, N
    <3>2. Climbs(P, t - s)
      BY <2>0, <2>1, <3>1 DEF Climbs
    <3> QED BY <3>2, Top, Zenon
  <2> QED BY <2>3
<1>6. t - s \in 0 .. t - s /\ t - (t - s) = s
  BY <1>t, <1>n
<1>7. (15 \in r[s - 1] <=> Bit(a, s)) <=> (15 \in q[s - 1] <=> Bit(b, s))
  <2> HIDE DEF alike
  <2>1. /\ (15 \in r[t - (t - s) - 1] <=> Bit(a, t - (t - s)))
           <=> (15 \in q[t - (t - s) - 1] <=> Bit(b, t - (t - s)))
    BY <1>4, <1>5, <1>6
  <2> HIDE DEF t
  <2> QED BY <1>6, <2>1
<1> QED BY <1>2, <1>7

(* got is what a burst of at most sixteen bits made of sent.             *)
Burst(sent, got) ==
  /\ got \in Seq(Byte) /\ Len(got) = Len(sent) /\ got # sent
  /\ \E s \in Int : \A p \in 1 .. 8 * Len(sent) :
       p \notin s .. s + 15 => (Bit(got, p) <=> Bit(sent, p))

(* Messages that differ do in some bit.                                    *)
LEMMA SomeBitDiffers ==
  ASSUME NEW a \in Seq(Byte), NEW b \in Seq(Byte), Len(a) = Len(b), a # b
  PROVE  \E p \in 1 .. 8 * Len(a) : ~(Bit(a, p) <=> Bit(b, p))
<1>1. PICK n \in 1 .. Len(a) : a[n] # b[n]
  <2>1. a = [n \in 1 .. Len(a) |-> a[n]] /\ b = [n \in 1 .. Len(b) |-> b[n]]
    OBVIOUS
  <2> QED BY <2>1
<1>2. a[n] \in Byte /\ b[n] \in Byte /\ Len(a) \in Nat
  OBVIOUS
<1>3. PICK j \in 0 .. 7 : ~(j \in a[n] <=> j \in b[n])
  BY <1>1, <1>2 DEF Byte
<1> DEFINE k == 8 - j
           p == 8 * (n - 1) + k
<1>4. k \in 1 .. 8 /\ 8 - k = j /\ n \in Nat \ {0} /\ p \in 1 .. 8 * Len(a)
  BY <1>2
<1>5. (Bit(a, p) <=> j \in a[n]) /\ (Bit(b, p) <=> j \in b[n])
  <2> HIDE DEF k
  <2>1. (Bit(a, p) <=> 8 - k \in a[n]) /\ (Bit(b, p) <=> 8 - k \in b[n])
    BY <1>4, BitIs, Zenon
  <2>2. 8 - k = j
    BY <1>4
  <2> HIDE DEF p
  <2> QED BY <2>1, <2>2
<1> HIDE DEF p
<1> QED BY <1>3, <1>4, <1>5

(* A burst of at most sixteen bits changes the register, however long the  *)
(* message and however much of it follows.                                 *)
THEOREM BurstTells ==
  ASSUME NEW a \in Seq(Byte), NEW b, Burst(a, b)
  PROVE  Register(a) # Register(b)
<1> DEFINE N == 8 * Len(a)
           D == {p \in 1 .. N : ~(Bit(a, p) <=> Bit(b, p))}
<1>1. b \in Seq(Byte) /\ Len(b) = Len(a) /\ b # a /\ Len(a) \in Nat
  BY DEF Burst
<1>2. PICK o \in Int : \A p \in 1 .. N : p \notin o .. o + 15 => (Bit(b, p) <=> Bit(a, p))
  BY DEF Burst
<1>3. D # {}
  BY <1>1, SomeBitDiffers
<1>4. D \in SUBSET Nat
  BY <1>1
<1>5. PICK s \in D : \A p \in D : ~(p < s)
  <2> HIDE DEF D
  <2> QED BY <1>3, <1>4, NoLeast
<1>6. s \in 1 .. N /\ ~(Bit(a, s) <=> Bit(b, s)) /\ N \in Nat
  BY <1>1
<1>7. s \in o .. o + 15
  BY <1>2, <1>6
<1>8. \A p \in 1 .. N : p \notin s .. s + 15 => (Bit(a, p) <=> Bit(b, p))
  <2> SUFFICES ASSUME NEW p \in 1 .. N, p \notin s .. s + 15, ~(Bit(a, p) <=> Bit(b, p))
               PROVE  FALSE
    OBVIOUS
  <2>1. p \in D
    OBVIOUS
  <2>2. ~(p < s)
    BY <1>5, <2>1
  <2>3. p \in o .. o + 15
    BY <1>2
  <2> QED BY <1>6, <1>7, <2>2, <2>3
<1> QED BY <1>1, <1>6, <1>8, WindowTells

(* What the register then comes to: 0x1D0F.                                *)
Residue == {0, 1, 2, 3, 8, 10, 11, 12}

(* A CRC is the complement of the register. Taken in by the loop, its      *)
(* first byte meets a mixed byte of four ones, whatever the register was.  *)
LEMMA FirstTurn ==
  ASSUME NEW w \in Word, NEW c \in Byte, c = (0 .. 7) \ HighByte(w)
  PROVE  /\ Element(w, c) \in Word
         /\ \A i \in 0 .. 7 : i \in Element(w, c) <=> i \in 4 .. 7
         /\ \A i \in 8 .. 15 : i \in Element(w, c) <=> ~(i - 8 \in w <=> i \in 9 .. 12)
<1> DEFINE x == Mixed(w, c)
           v == Element(w, c)
<1>1. /\ x \in Byte
      /\ \A i \in 4 .. 7 : i \in x <=> ~(i + 8 \in w <=> i \in c)
      /\ \A i \in 0 .. 3 : i \in x <=> ((i + 8 \in w <=> i \in c) <=> i + 4 \in x)
  BY MixedBits
<1>2. /\ v \in Word
      /\ \A i \in 0 .. 15 : i \in v <=> ~ ( (i - 8 \in w <=> i \in x) <=> (i - 5 \in x <=> i - 12 \in x) )
  BY ElementBits
<1> HIDE DEF x, v
<1>3. \A i \in 0 .. 7 : i \in c <=> ~(i + 8 \in w)
  BY DEF HighByte
<1>4. \A i \in 4 .. 7 : i \in x
  BY <1>1, <1>3
<1>5. \A i \in 0 .. 3 : i \notin x
  <2> SUFFICES ASSUME NEW i \in 0 .. 3
               PROVE  i \notin x
    OBVIOUS
  <2>1. i + 4 \in x
    BY <1>4
  <2> QED BY <1>1, <1>3, <2>1
<1>6. \A i \in Int : i \in x <=> i \in 4 .. 7
  BY <1>1, <1>4, <1>5 DEF Byte
<1>7. ASSUME NEW i \in 0 .. 7
      PROVE  i \in v <=> i \in 4 .. 7
  <2>1. i - 8 \notin w
    BY DEF Word
  <2>2. i - 5 \notin x /\ i - 12 \notin x
    BY <1>6
  <2>3. i \in x <=> i \in 4 .. 7
    BY <1>6
  <2> QED BY <1>2, <2>1, <2>2, <2>3
<1>8. ASSUME NEW i \in 8 .. 15
      PROVE  i \in v <=> ~(i - 8 \in w <=> i \in 9 .. 12)
  <2>1. i \notin x /\ i - 12 \notin x /\ (i - 5 \in x <=> i \in 9 .. 12)
    BY <1>6
  <2> QED BY <1>2, <2>1
<1> QED BY <1>2, <1>7, <1>8 DEF v

(* The second meets one of three, whatever the register was.               *)
LEMMA SecondTurn ==
  ASSUME NEW w \in Word, NEW c \in Byte, c = (0 .. 7) \ LowByte(w), NEW v \in Word,
         \A i \in 0 .. 7 : i \in v <=> i \in 4 .. 7,
         \A i \in 8 .. 15 : i \in v <=> ~(i - 8 \in w <=> i \in 9 .. 12)
  PROVE  /\ Element(v, c) \in Word
         /\ \A i \in 0 .. 15 : i \in Element(v, c) <=> i \in Residue
<1> DEFINE x == Mixed(v, c)
           e == Element(v, c)
<1>1. /\ x \in Byte
      /\ \A i \in 4 .. 7 : i \in x <=> ~(i + 8 \in v <=> i \in c)
      /\ \A i \in 0 .. 3 : i \in x <=> ((i + 8 \in v <=> i \in c) <=> i + 4 \in x)
  BY MixedBits
<1>2. /\ e \in Word
      /\ \A i \in 0 .. 15 : i \in e <=> ~ ( (i - 8 \in v <=> i \in x) <=> (i - 5 \in x <=> i - 12 \in x) )
  BY ElementBits
<1> HIDE DEF x, e
<1>3. \A i \in 0 .. 7 : (i + 8 \in v <=> i \in c) <=> i \in 1 .. 4
  <2> SUFFICES ASSUME NEW i \in 0 .. 7
               PROVE  (i + 8 \in v <=> i \in c) <=> i \in 1 .. 4
    OBVIOUS
  <2>1. i \in c <=> i \notin w
    BY DEF LowByte
  <2>2. i + 8 \in 8 .. 15 /\ (i + 8) - 8 = i /\ (i + 8 \in 9 .. 12 <=> i \in 1 .. 4)
    OBVIOUS
  <2>3. i + 8 \in v <=> ~(i \in w <=> i \in 1 .. 4)
    BY <2>2
  <2> QED BY <2>1, <2>3
<1>4. \A i \in 4 .. 7 : i \in x <=> i \in 5 .. 7
  BY <1>1, <1>3
<1>5. \A i \in 0 .. 3 : i \in x
  <2> SUFFICES ASSUME NEW i \in 0 .. 3
               PROVE  i \in x
    OBVIOUS
  <2>1. i + 4 \in x <=> i # 0
    BY <1>4
  <2>2. (i + 8 \in v <=> i \in c) <=> i # 0
    BY <1>3
  <2> QED BY <1>1, <2>1, <2>2
<1>6. \A i \in Int : i \in x <=> i \in 0 .. 3 \/ i \in 5 .. 7
  BY <1>1, <1>4, <1>5 DEF Byte
<1>7. ASSUME NEW i \in 0 .. 15
      PROVE  i \in e <=> i \in Residue
  <2>1. i - 8 \in v <=> i \in 12 .. 15
    <3>1. CASE i < 8
      BY <3>1 DEF Word
    <3>2. CASE i >= 8
      <4>1. i - 8 \in 0 .. 7
        BY <3>2
      <4>2. i - 8 \in v <=> i - 8 \in 4 .. 7
        BY <4>1
      <4> QED BY <4>2
    <3> QED BY <3>1, <3>2
  <2>2. /\ i \in x <=> i \in 0 .. 3 \/ i \in 5 .. 7
        /\ i - 5 \in x <=> i \in 5 .. 8 \/ i \in 10 .. 12
        /\ i - 12 \in x <=> i \in 12 .. 15
    BY <1>6
  <2> QED BY <1>2, <2>1, <2>2 DEF Residue
<1> QED BY <1>2, <1>7 DEF e

(* Together the two bytes of a CRC always leave the residue.               *)
LEMMA ComplementTurns ==
  ASSUME NEW w \in Word, NEW c1 \in Byte, c1 = (0 .. 7) \ HighByte(w),
         NEW c2 \in Byte, c2 = (0 .. 7) \ LowByte(w)
  PROVE  Element(Element(w, c1), c2) = Residue
<1> DEFINE v == Element(w, c1)
<1>1. /\ v \in Word
      /\ \A i \in 0 .. 7 : i \in v <=> i \in 4 .. 7
      /\ \A i \in 8 .. 15 : i \in v <=> ~(i - 8 \in w <=> i \in 9 .. 12)
  BY FirstTurn
<1> HIDE DEF v
<1>2. /\ Element(v, c2) \in Word
      /\ \A i \in 0 .. 15 : i \in Element(v, c2) <=> i \in Residue
  BY <1>1, SecondTurn
<1>3. Residue \in Word
  BY DEF Residue, Word
<1>4. Element(v, c2) = Residue
  BY <1>2, <1>3, SameBits
<1> QED BY <1>4 DEF v

(* What a receiver compares, byte by byte.                                 *)
LEMMA VerifiesWhen ==
  ASSUME NEW m \in Seq(Byte), Len(m) >= 2
  PROVE  LET n == Len(m) - 2
             w == Turns(m)[n]
         IN  /\ w \in Word
             /\ Verifies(m) <=> /\ m[n + 1] = (0 .. 7) \ HighByte(w)
                               /\ m[n + 2] = (0 .. 7) \ LowByte(w)
<1> DEFINE n == Len(m) - 2
           w == Turns(m)[n]
           c1 == m[n + 1]
           c2 == m[n + 2]
<1>1. n \in 0 .. Len(m) /\ c1 \in Byte /\ c2 \in Byte
  OBVIOUS
<1>2. w \in Word
  BY <1>1, TurnsAre
<1>3. Verifies(m) <=> {8 + k : k \in c1} \cup c2 = (0 .. 15) \ w
  <2>1. Turns(m) = Remainders(m)
    BY TurnsAreRemainders
  <2> QED BY <2>1 DEF Verifies
<1> HIDE DEF n, w, c1, c2
<1>4. ASSUME {8 + k : k \in c1} \cup c2 = (0 .. 15) \ w
      PROVE  c1 = (0 .. 7) \ HighByte(w) /\ c2 = (0 .. 7) \ LowByte(w)
  <2>1. \A i \in 0 .. 7 : i \in c1 <=> i + 8 \notin w
    BY <1>1, <1>4 DEF Byte
  <2>2. \A i \in 0 .. 7 : i \in c2 <=> i \notin w
    BY <1>1, <1>4, SMTT(60) DEF Byte
  <2> QED BY <1>1, <2>1, <2>2 DEF Byte, HighByte, LowByte
<1>5. ASSUME c1 = (0 .. 7) \ HighByte(w), c2 = (0 .. 7) \ LowByte(w)
      PROVE  {8 + k : k \in c1} \cup c2 = (0 .. 15) \ w
  <2>1. \A i \in 0 .. 7 : i \in c1 <=> i + 8 \notin w
    BY <1>5 DEF HighByte
  <2>2. \A i \in 0 .. 7 : i \in c2 <=> i \notin w
    BY <1>5 DEF LowByte
  <2>3. \A i \in 0 .. 15 : i \in {8 + k : k \in c1} \cup c2 <=> i \notin w
    BY <1>1, <2>1, <2>2 DEF Byte
  <2>4. {8 + k : k \in c1} \cup c2 \subseteq 0 .. 15
    <3>1. (\A k \in c1 : 8 + k \in 0 .. 15) /\ (\A k \in c2 : k \in 0 .. 15)
      BY <1>1 DEF Byte
    <3> QED BY <3>1
  <2> QED BY <2>3, <2>4
<1> QED BY <1>2, <1>3, <1>4, <1>5 DEF n, w, c1, c2

(* The last two turns.                                                     *)
LEMMA LastTurns ==
  ASSUME NEW m \in Seq(Byte), Len(m) >= 2
  PROVE  Register(m) = Element(Element(Turns(m)[Len(m) - 2], m[Len(m) - 1]), m[Len(m)])
<1> DEFINE L == Len(m)
<1>1. L \in Nat /\ L - 1 \in 1 .. L /\ L \in 1 .. L /\ (L - 1) - 1 = L - 2
  OBVIOUS
<1>2. \A n \in 1 .. L : Turns(m)[n] = Element(Turns(m)[n - 1], m[n])
  BY TurnsAre
<1> HIDE DEF L
<1>3. Turns(m)[L] = Element(Turns(m)[L - 1], m[L])
  BY <1>1, <1>2
<1>4. Turns(m)[L - 1] = Element(Turns(m)[L - 2], m[L - 1])
  <2>1. Turns(m)[L - 1] = Element(Turns(m)[(L - 1) - 1], m[L - 1])
    BY <1>1, <1>2
  <2> QED BY <1>1, <2>1
<1> QED BY <1>3, <1>4 DEF Register, L
(* A message verifies exactly when the loop, run over all of it, the CRC   *)
(* included, leaves the residue: with other last bytes it would differ     *)
(* from the one that verifies by a burst.                                  *)
LEMMA VerifiesResidue ==
  ASSUME NEW m \in Seq(Byte), Len(m) >= 2
  PROVE  Verifies(m) <=> Register(m) = Residue
<1> DEFINE n == Len(m) - 2
           w == Turns(m)[n]
<1>1. /\ w \in Word
      /\ Verifies(m) <=> /\ m[n + 1] = (0 .. 7) \ HighByte(w)
                        /\ m[n + 2] = (0 .. 7) \ LowByte(w)
  BY VerifiesWhen
<1>2. /\ n \in Nat /\ n <= Len(m) /\ n + 1 = Len(m) - 1 /\ n + 2 = Len(m)
      /\ m[n + 1] \in Byte /\ m[n + 2] \in Byte
  OBVIOUS
<1>3. Register(m) = Element(Element(w, m[n + 1]), m[n + 2])
  <2>1. Register(m) = Element(Element(Turns(m)[Len(m) - 2], m[Len(m) - 1]), m[Len(m)])
    BY LastTurns
  <2>2. Len(m) - 1 = n + 1 /\ Len(m) = n + 2
    BY <1>2
  <2> QED BY <2>1, <2>2
<1>4. ASSUME Verifies(m)
      PROVE  Register(m) = Residue
  <2>1. m[n + 1] = (0 .. 7) \ HighByte(w) /\ m[n + 2] = (0 .. 7) \ LowByte(w)
    BY <1>1, <1>4
  <2> HIDE DEF n, w
  <2> QED BY <1>1, <1>2, <1>3, <2>1, ComplementTurns
<1>5. ASSUME Register(m) = Residue, ~Verifies(m)
      PROVE  FALSE
  <2> DEFINE c1 == (0 .. 7) \ HighByte(w)
             c2 == (0 .. 7) \ LowByte(w)
             other == [i \in 1 .. Len(m) |-> IF i = n + 1 THEN c1 ELSE IF i = n + 2 THEN c2 ELSE m[i]]
  <2>1. c1 \in Byte /\ c2 \in Byte
    BY DEF Byte
  <2>2. \A i \in 1 .. Len(m) : m[i] \in Byte
    OBVIOUS
  <2> HIDE DEF c1, c2
  <2>3. other \in Seq(Byte) /\ Len(other) = Len(m)
    <3>1. other \in [1 .. Len(m) -> Byte]
      BY <2>1, <2>2
    <3> HIDE DEF other
    <3> QED BY <3>1
  <2>4. /\ other[n + 1] = c1 /\ other[n + 2] = c2
        /\ \A i \in 1 .. n : other[i] = m[i]
    <3>1. /\ n + 1 \in 1 .. Len(m) /\ n + 2 \in 1 .. Len(m) /\ n + 2 # n + 1
          /\ \A i \in 1 .. n : i \in 1 .. Len(m) /\ i # n + 1 /\ i # n + 2
      <4>1. Len(m) = n + 2
        BY <1>2
      <4> HIDE DEF n
      <4> QED BY <1>2, <4>1
    <3> HIDE DEF n
    <3> QED BY <3>1
  <2> HIDE DEF other, n
  <2>5. Turns(other)[n] = w
    <3>1. Turns(other)[n] = Turns(m)[n]
      BY <1>2, <2>3, <2>4, PrefixTurns
    <3> QED BY <3>1
  <2> HIDE DEF w
  <2>6. Register(other) = Residue
    <3>1. Register(other) = Element(Element(Turns(other)[Len(other) - 2], other[Len(other) - 1]), other[Len(other)])
      BY <2>3, LastTurns
    <3>2. Len(other) - 2 = n /\ Len(other) - 1 = n + 1 /\ Len(other) = n + 2
      BY <1>2, <2>3 DEF n
    <3>3. Register(other) = Element(Element(w, c1), c2)
      BY <2>4, <2>5, <3>1, <3>2
    <3> QED BY <1>1, <2>1, <3>3, ComplementTurns DEF c1, c2
  <2>7. other # m
    BY <1>1, <1>5, <2>4 DEF c1, c2
  <2>8. \A p \in 1 .. 8 * Len(m) : p \notin 8 * n + 1 .. 8 * n + 1 + 15 => (Bit(other, p) <=> Bit(m, p))
    <3> SUFFICES ASSUME NEW p \in 1 .. 8 * Len(m), p \notin 8 * n + 1 .. 8 * n + 1 + 15
                 PROVE  Bit(other, p) <=> Bit(m, p)
      OBVIOUS
    <3>1. p \in 1 .. 8 * n
      BY <1>2
    <3>2. (p - 1) \div 8 + 1 \in 1 .. n
      BY <1>2, <3>1
    <3> QED BY <2>4, <3>2 DEF Bit
  <2>9. Burst(m, other)
    <3>1. 8 * n + 1 \in Int
      BY <1>2
    <3> QED BY <2>3, <2>7, <2>8, <3>1 DEF Burst
  <2> QED BY <1>5, <2>6, <2>9, BurstTells
<1> QED BY <1>4, <1>5

(* Whatever bytes genCRC16() is given, the message its result completes is *)
(* one that a receiver accepts, by division alone.                         *)
THEOREM SealedVerifies ==
  ASSUME NEW input \in Seq(Byte)
  PROVE  Verifies(input \o Crc(input))
<1> DEFINE m == input \o Crc(input)
           n == Len(input)
           w == Turns(input)[n]
<1>1. w \in Word /\ n \in Nat
  BY TurnsAre
<1>2. Crc(input) = <<HighByte((0 .. 15) \ w), LowByte((0 .. 15) \ w)>>
  BY DEF Crc, Register, Complement
<1>3. HighByte((0 .. 15) \ w) = (0 .. 7) \ HighByte(w) /\ LowByte((0 .. 15) \ w) = (0 .. 7) \ LowByte(w)
  BY DEF HighByte, LowByte
<1> DEFINE c1 == (0 .. 7) \ HighByte(w)
           c2 == (0 .. 7) \ LowByte(w)
<1>4. c1 \in Byte /\ c2 \in Byte /\ Crc(input) = <<c1, c2>>
  BY <1>2, <1>3 DEF Byte
<1> HIDE DEF c1, c2, w
<1>5. /\ m \in Seq(Byte) /\ Len(m) = n + 2
      /\ m[n + 1] = c1 /\ m[n + 2] = c2
      /\ \A i \in 1 .. n : m[i] = input[i]
  BY <1>4
<1> HIDE DEF m
<1>6. Turns(m)[n] = w
  <2>1. Turns(input)[n] = Turns(m)[n]
    BY <1>1, <1>5, PrefixTurns
  <2> QED BY <2>1 DEF w
<1> DEFINE k == Len(m) - 2
<1>7. k = n /\ Len(m) >= 2
  BY <1>1, <1>5
<1>8. Verifies(m) <=> /\ m[k + 1] = (0 .. 7) \ HighByte(Turns(m)[k])
                      /\ m[k + 2] = (0 .. 7) \ LowByte(Turns(m)[k])
  BY <1>5, <1>7, VerifiesWhen
<1> HIDE DEF k, n
<1>9. Verifies(m)
  BY <1>5, <1>6, <1>7, <1>8 DEF c1, c2
<1> QED BY <1>9 DEF m

(* What genCRC16() completes and a burst of at most sixteen bits damages   *)
(* is not accepted, wherever the burst falls: on the message, on the CRC   *)
(* or across both, and however long the message is.                        *)
THEOREM BurstsAreNoticed ==
  ASSUME NEW input \in Seq(Byte), NEW got, Burst(input \o Crc(input), got)
  PROVE  ~Verifies(got)
<1> DEFINE sent == input \o Crc(input)
<1>1. sent \in Seq(Byte) /\ Len(sent) >= 2
  <2>1. Crc(input) \in Seq(Byte) /\ Len(Crc(input)) = 2
    <3>1. HighByte(Complement(Register(input))) \in Byte /\ LowByte(Complement(Register(input))) \in Byte
      BY DEF HighByte, LowByte, Byte
    <3> QED BY <3>1 DEF Crc
  <2>2. \A c \in Seq(Byte) : Len(c) = 2 => input \o c \in Seq(Byte) /\ Len(input \o c) >= 2
    BY SMTT(60)
  <2> QED BY <2>1, <2>2
<1>2. Verifies(sent)
  BY SealedVerifies
<1> HIDE DEF sent
<1>3. Register(sent) = Residue
  BY <1>1, <1>2, VerifiesResidue
<1>4. Burst(sent, got)
  BY DEF sent
<1>5. got \in Seq(Byte) /\ Len(got) >= 2
  BY <1>1, <1>4 DEF Burst
<1>6. Register(got) # Residue
  BY <1>1, <1>3, <1>4, BurstTells
<1> QED BY <1>5, <1>6, VerifiesResidue

-----------------------------------------------------------------------------
(***************************************************************************)
(* Numbers and sets of bits: Crc16 computes with sets of bits, Wire with   *)
(* numbers. Number and Bits undo each other, byte by byte.                 *)
(***************************************************************************)

(* The value of bit k.                                                     *)
Digit(b, k) == IF k \in b THEN 2^k ELSE 0

(* A byte as a number is the sum of its digits.                            *)
LEMMA NumberDigits ==
  ASSUME NEW b \in Byte
  PROVE  Number(b) = Digit(b, 0) + Digit(b, 1) + Digit(b, 2) + Digit(b, 3)
                     + Digit(b, 4) + Digit(b, 5) + Digit(b, 6) + Digit(b, 7)
<1> DEFINE low(k) == {i \in b : i < k}
           f(k) == [i \in low(k) |-> 2^i]
<1>0. \A i \in b : i \in 0 .. 7
  BY DEF Byte
<1>1. ASSUME NEW k \in 0 .. 7
      PROVE  Total(f(k + 1)) = Total(f(k)) + Digit(b, k)
  <2>1. 2^k \in Int /\ \A i \in low(k + 1) : 2^i \in Int
    <3>1. \A i \in 0 .. 7 : 2^i \in Int
      <4>1. 2^0 = 1 /\ 2^1 = 2 /\ 2^2 = 4 /\ 2^3 = 8 /\ 2^4 = 16 /\ 2^5 = 32 /\ 2^6 = 64 /\ 2^7 = 128
        OBVIOUS
      <4> QED BY <4>1
    <3> QED BY <1>0, <3>1
  <2>2. IsFiniteSet(low(k))
    <3>1. IsFiniteSet(0 .. 7)
      <4>1. \A m \in Nat : IsFiniteSet(0 .. m)
        BY FS_Interval
      <4> QED BY <4>1
    <3>2. low(k) \subseteq 0 .. 7
      BY <1>0
    <3> HIDE DEF low
    <3> QED BY <3>1, <3>2, FS_Subset
  <2>3. CASE k \in b
    <3>1. low(k + 1) = low(k) \cup {k} /\ k \notin low(k)
      <4>1. \A i \in b : i < k + 1 <=> i < k \/ i = k
        BY <1>0
      <4>2. ~(k < k)
        OBVIOUS
      <4> QED BY <2>3, <4>1, <4>2, Zenon
    <3>2. /\ f(k) \in [low(k) -> Int] /\ f(k + 1) \in [low(k) \cup {k} -> Int]
          /\ \A i \in low(k) : f(k + 1)[i] = f(k)[i]
          /\ f(k + 1)[k] = 2^k
      BY <2>1, <3>1
    <3>3. Extends(f(k + 1), f(k), low(k), k)
      <4> HIDE DEF low, f
      <4> QED BY <2>2, <3>1, <3>2 DEF Extends
    <3> HIDE DEF f, low
    <3>4. Total(f(k + 1)) = Total(f(k)) + f(k + 1)[k]
      BY <3>3, ExtensionAdds, Zenon
    <3> QED BY <2>3, <3>2, <3>4 DEF Digit
  <2>4. CASE k \notin b
    <3>1. low(k + 1) = low(k)
      BY <1>0, <2>4
    <3>2. f(k + 1) = f(k)
      BY <3>1
    <3>3. f(k) \in [low(k) -> Int]
      BY <2>1, <3>1
    <3> HIDE DEF f, low
    <3>4. Total(f(k)) \in Int
      BY <2>2, <3>3, TotalIsInteger
    <3> QED BY <2>4, <3>2, <3>4 DEF Digit
  <2> QED BY <2>3, <2>4
<1>2. Total(f(0)) = 0
  <2>1. DOMAIN f(0) = {}
    BY <1>0
  <2> HIDE DEF f
  <2> QED BY <2>1, TotalOfNone
<1>3. Number(b) = Total(f(8))
  <2>1. low(8) = b
    BY <1>0
  <2>2. f(8) = [i \in b |-> 2^i]
    BY <2>1
  <2> HIDE DEF f, low
  <2> QED BY <2>2, Zenon DEF Number, Total
<1> HIDE DEF f, low
<1>4. /\ Total(f(1)) = Total(f(0)) + Digit(b, 0) /\ Total(f(2)) = Total(f(1)) + Digit(b, 1)
      /\ Total(f(3)) = Total(f(2)) + Digit(b, 2) /\ Total(f(4)) = Total(f(3)) + Digit(b, 3)
      /\ Total(f(5)) = Total(f(4)) + Digit(b, 4) /\ Total(f(6)) = Total(f(5)) + Digit(b, 5)
      /\ Total(f(7)) = Total(f(6)) + Digit(b, 6) /\ Total(f(8)) = Total(f(7)) + Digit(b, 7)
  <2>1. 0 + 1 = 1 /\ 1 + 1 = 2 /\ 2 + 1 = 3 /\ 3 + 1 = 4 /\ 4 + 1 = 5 /\ 5 + 1 = 6 /\ 6 + 1 = 7 /\ 7 + 1 = 8
    OBVIOUS
  <2> QED BY <1>1, <2>1
<1>5. \A k \in 0 .. 7 : Digit(b, k) \in Int
  BY DEF Digit
<1> QED BY <1>2, <1>3, <1>4, <1>5

(* The digits as the numbers they are.                                     *)
LEMMA NumberIs ==
  ASSUME NEW b \in Byte
  PROVE  Number(b) =   (IF 0 \in b THEN 1 ELSE 0)  + (IF 1 \in b THEN 2 ELSE 0)
                     + (IF 2 \in b THEN 4 ELSE 0)  + (IF 3 \in b THEN 8 ELSE 0)
                     + (IF 4 \in b THEN 16 ELSE 0) + (IF 5 \in b THEN 32 ELSE 0)
                     + (IF 6 \in b THEN 64 ELSE 0) + (IF 7 \in b THEN 128 ELSE 0)
<1>1. 2^0 = 1 /\ 2^1 = 2 /\ 2^2 = 4 /\ 2^3 = 8 /\ 2^4 = 16 /\ 2^5 = 32 /\ 2^6 = 64 /\ 2^7 = 128
  OBVIOUS
<1>2. /\ Digit(b, 0) = IF 0 \in b THEN 1 ELSE 0
      /\ Digit(b, 1) = IF 1 \in b THEN 2 ELSE 0
      /\ Digit(b, 2) = IF 2 \in b THEN 4 ELSE 0
      /\ Digit(b, 3) = IF 3 \in b THEN 8 ELSE 0
      /\ Digit(b, 4) = IF 4 \in b THEN 16 ELSE 0
      /\ Digit(b, 5) = IF 5 \in b THEN 32 ELSE 0
      /\ Digit(b, 6) = IF 6 \in b THEN 64 ELSE 0
      /\ Digit(b, 7) = IF 7 \in b THEN 128 ELSE 0
  BY <1>1 DEF Digit
<1> QED BY <1>2, NumberDigits

(* The bits of a number, one by one: b is n in binary.                     *)
Binary(n, b) ==
  /\ 0 \in b <=> n % 2 = 1
  /\ 1 \in b <=> (n \div 2) % 2 = 1
  /\ 2 \in b <=> (n \div 4) % 2 = 1
  /\ 3 \in b <=> (n \div 8) % 2 = 1
  /\ 4 \in b <=> (n \div 16) % 2 = 1
  /\ 5 \in b <=> (n \div 32) % 2 = 1
  /\ 6 \in b <=> (n \div 64) % 2 = 1
  /\ 7 \in b <=> (n \div 128) % 2 = 1

(* Bits gives a number in binary.                                          *)
LEMMA BitsAre ==
  ASSUME NEW n \in 0 .. 255
  PROVE  Bits[n] \in Byte /\ Binary(n, Bits[n])
<1>1. Bits[n] = {i \in 0 .. 7 : (n \div 2^i) % 2 = 1}
  BY DEF Bits
<1>2. n \div 2^0 = n /\ 2^1 = 2 /\ 2^2 = 4 /\ 2^3 = 8 /\ 2^4 = 16 /\ 2^5 = 32 /\ 2^6 = 64 /\ 2^7 = 128
  OBVIOUS
<1> QED BY <1>1, <1>2 DEF Byte, Binary

(* There is one way to write a number in binary.                           *)
LEMMA BinaryTells ==
  ASSUME NEW n, NEW b \in Byte, NEW c \in Byte, Binary(n, b), Binary(n, c)
  PROVE  b = c
<1>1. /\ 0 \in b <=> 0 \in c
      /\ 1 \in b <=> 1 \in c
      /\ 2 \in b <=> 2 \in c
      /\ 3 \in b <=> 3 \in c
      /\ 4 \in b <=> 4 \in c
      /\ 5 \in b <=> 5 \in c
      /\ 6 \in b <=> 6 \in c
      /\ 7 \in b <=> 7 \in c
  BY SMT DEF Binary
<1>2. \A i \in 0 .. 7 : i = 0 \/ i = 1 \/ i = 2 \/ i = 3 \/ i = 4 \/ i = 5 \/ i = 6 \/ i = 7
  OBVIOUS
<1>3. \A i \in 0 .. 7 : i \in b <=> i \in c
  BY ONLY <1>1, <1>2, SMT
<1> QED BY <1>3, Zenon DEF Byte

(* Writing a byte as a number loses nothing.                               *)
THEOREM NumbersAreBytes ==
  /\ \A n \in 0 .. 255 : Bits[n] \in Byte /\ Number(Bits[n]) = n
  /\ \A b \in Byte : Number(b) \in 0 .. 255 /\ Bits[Number(b)] = b
<1>1. ASSUME NEW n \in 0 .. 255
      PROVE  Bits[n] \in Byte /\ Number(Bits[n]) = n
  <2>1. n =   (n % 2) + 2 * ((n \div 2) % 2) + 4 * ((n \div 4) % 2) + 8 * ((n \div 8) % 2)
            + 16 * ((n \div 16) % 2) + 32 * ((n \div 32) % 2) + 64 * ((n \div 64) % 2)
            + 128 * ((n \div 128) % 2)
    BY SMTT(60)
  <2>2. n \in Int
    OBVIOUS
  <2> DEFINE B == Bits[n]
  <2>3. B \in Byte /\ Binary(n, B)
    BY BitsAre
  <2>4. Number(B) =   (IF 0 \in B THEN 1 ELSE 0)  + (IF 1 \in B THEN 2 ELSE 0)
                    + (IF 2 \in B THEN 4 ELSE 0)  + (IF 3 \in B THEN 8 ELSE 0)
                    + (IF 4 \in B THEN 16 ELSE 0) + (IF 5 \in B THEN 32 ELSE 0)
                    + (IF 6 \in B THEN 64 ELSE 0) + (IF 7 \in B THEN 128 ELSE 0)
    BY <2>3, NumberIs
  <2> HIDE DEF B
  <2>5. /\ (IF 0 \in B THEN 1 ELSE 0) = n % 2
        /\ (IF 1 \in B THEN 2 ELSE 0) = 2 * ((n \div 2) % 2)
        /\ (IF 2 \in B THEN 4 ELSE 0) = 4 * ((n \div 4) % 2)
        /\ (IF 3 \in B THEN 8 ELSE 0) = 8 * ((n \div 8) % 2)
    BY ONLY <2>2, <2>3 DEF Binary
  <2>6. /\ (IF 4 \in B THEN 16 ELSE 0) = 16 * ((n \div 16) % 2)
        /\ (IF 5 \in B THEN 32 ELSE 0) = 32 * ((n \div 32) % 2)
        /\ (IF 6 \in B THEN 64 ELSE 0) = 64 * ((n \div 64) % 2)
        /\ (IF 7 \in B THEN 128 ELSE 0) = 128 * ((n \div 128) % 2)
    BY ONLY <2>2, <2>3 DEF Binary
  <2>7. Number(B) = n
    BY ONLY <2>1, <2>4, <2>5, <2>6
  <2> QED BY <2>3, <2>7 DEF B
<1>2. ASSUME NEW b \in Byte
      PROVE  Number(b) \in 0 .. 255 /\ Bits[Number(b)] = b
  <2> DEFINE n == Number(b)
  <2>1. n =   (IF 0 \in b THEN 1 ELSE 0)  + (IF 1 \in b THEN 2 ELSE 0)
            + (IF 2 \in b THEN 4 ELSE 0)  + (IF 3 \in b THEN 8 ELSE 0)
            + (IF 4 \in b THEN 16 ELSE 0) + (IF 5 \in b THEN 32 ELSE 0)
            + (IF 6 \in b THEN 64 ELSE 0) + (IF 7 \in b THEN 128 ELSE 0)
    BY NumberIs
  <2> HIDE DEF n
  <2>2. n \in 0 .. 255
    BY <2>1
  <2>3. /\ n % 2 = 1 <=> 0 \in b
        /\ (n \div 2) % 2 = 1 <=> 1 \in b
        /\ (n \div 4) % 2 = 1 <=> 2 \in b
        /\ (n \div 8) % 2 = 1 <=> 3 \in b
    BY <2>1
  <2>4. /\ (n \div 16) % 2 = 1 <=> 4 \in b
        /\ (n \div 32) % 2 = 1 <=> 5 \in b
        /\ (n \div 64) % 2 = 1 <=> 6 \in b
        /\ (n \div 128) % 2 = 1 <=> 7 \in b
    BY <2>1
  <2>5. Binary(n, b)
    BY ONLY <2>3, <2>4, SMTT(60) DEF Binary
  <2>6. Bits[n] = b
    BY <2>2, <2>5, BitsAre, BinaryTells
  <2> QED BY <2>2, <2>6 DEF n
<1> QED BY <1>1, <1>2

(* Where two numbers have no digit in common, | adds them: a multiple of a *)
(* power of two and a number below it.                                     *)
LEMMA OrAdds ==
  ASSUME NEW x \in 0 .. 255, NEW y \in 0 .. 255,
         \/ x % 4 = 0 /\ y < 4
         \/ x % 16 = 0 /\ y < 16
         \/ x % 64 = 0 /\ y < 64
         \/ x = 0
  PROVE  Or(x, y) = x + y
<1> DEFINE A == Bits[x]
           B == Bits[y]
<1>0. A \in Byte /\ B \in Byte /\ A \cup B \in Byte /\ Number(A) = x /\ Number(B) = y
  BY NumbersAreBytes DEF Byte
<1>b. Binary(x, A) /\ Binary(y, B)
  BY BitsAre
<1>1. \A i \in 0 .. 7 : ~(i \in A /\ i \in B)
  <2>1. CASE x % 4 = 0 /\ y < 4
    <3>1. x % 2 # 1 /\ (x \div 2) % 2 # 1
      BY <2>1
    <3>2. /\ (y \div 4) % 2 # 1 /\ (y \div 8) % 2 # 1 /\ (y \div 16) % 2 # 1 /\ (y \div 32) % 2 # 1
          /\ (y \div 64) % 2 # 1 /\ (y \div 128) % 2 # 1
      BY <2>1
    <3>3. 0 \notin A /\ 1 \notin A
      BY ONLY <1>b, <3>1 DEF Binary
    <3>4. 2 \notin B /\ 3 \notin B /\ 4 \notin B /\ 5 \notin B /\ 6 \notin B /\ 7 \notin B
      BY ONLY <1>b, <3>2 DEF Binary
    <3> HIDE DEF A, B
    <3> QED BY <3>3, <3>4
  <2>2. CASE x % 16 = 0 /\ y < 16
    <3>1. x % 2 # 1 /\ (x \div 2) % 2 # 1 /\ (x \div 4) % 2 # 1 /\ (x \div 8) % 2 # 1
      BY <2>2
    <3>2. (y \div 16) % 2 # 1 /\ (y \div 32) % 2 # 1 /\ (y \div 64) % 2 # 1 /\ (y \div 128) % 2 # 1
      BY <2>2
    <3>3. 0 \notin A /\ 1 \notin A /\ 2 \notin A /\ 3 \notin A
      BY ONLY <1>b, <3>1 DEF Binary
    <3>4. 4 \notin B /\ 5 \notin B /\ 6 \notin B /\ 7 \notin B
      BY ONLY <1>b, <3>2 DEF Binary
    <3> HIDE DEF A, B
    <3> QED BY <3>3, <3>4
  <2>3. CASE x % 64 = 0 /\ y < 64
    <3>1. /\ x % 2 # 1 /\ (x \div 2) % 2 # 1 /\ (x \div 4) % 2 # 1 /\ (x \div 8) % 2 # 1
          /\ (x \div 16) % 2 # 1 /\ (x \div 32) % 2 # 1
      BY <2>3
    <3>2. (y \div 64) % 2 # 1 /\ (y \div 128) % 2 # 1
      BY <2>3
    <3>3. 0 \notin A /\ 1 \notin A /\ 2 \notin A /\ 3 \notin A /\ 4 \notin A /\ 5 \notin A
      BY ONLY <1>b, <3>1 DEF Binary
    <3>4. 6 \notin B /\ 7 \notin B
      BY ONLY <1>b, <3>2 DEF Binary
    <3> HIDE DEF A, B
    <3> QED BY <3>3, <3>4
  <2>4. CASE x = 0
    BY <1>b, <2>4 DEF Binary
  <2> QED BY <2>1, <2>2, <2>3, <2>4
<1> HIDE DEF A, B
<1>2. Number(A \cup B) = Number(A) + Number(B)
  <2> DEFINE d(b, i, w) == IF i \in b THEN w ELSE 0
  <2>1. \A b \in Byte : Number(b) = d(b, 0, 1) + d(b, 1, 2) + d(b, 2, 4) + d(b, 3, 8)
                                    + d(b, 4, 16) + d(b, 5, 32) + d(b, 6, 64) + d(b, 7, 128)
    BY NumberIs
  <2>3. /\ Number(A) = d(A, 0, 1) + d(A, 1, 2) + d(A, 2, 4) + d(A, 3, 8)
                       + d(A, 4, 16) + d(A, 5, 32) + d(A, 6, 64) + d(A, 7, 128)
        /\ Number(B) = d(B, 0, 1) + d(B, 1, 2) + d(B, 2, 4) + d(B, 3, 8)
                       + d(B, 4, 16) + d(B, 5, 32) + d(B, 6, 64) + d(B, 7, 128)
        /\ Number(A \cup B) = d(A \cup B, 0, 1) + d(A \cup B, 1, 2) + d(A \cup B, 2, 4) + d(A \cup B, 3, 8)
                       + d(A \cup B, 4, 16) + d(A \cup B, 5, 32) + d(A \cup B, 6, 64) + d(A \cup B, 7, 128)
    BY <1>0, <2>1
  <2>4. /\ d(A \cup B, 0, 1) = d(A, 0, 1) + d(B, 0, 1) /\ d(A \cup B, 1, 2) = d(A, 1, 2) + d(B, 1, 2)
        /\ d(A \cup B, 2, 4) = d(A, 2, 4) + d(B, 2, 4) /\ d(A \cup B, 3, 8) = d(A, 3, 8) + d(B, 3, 8)
    <3>1. \A i \in {0, 1, 2, 3} : ~(i \in A /\ i \in B)
      BY <1>1
    <3> QED BY <3>1
  <2>5. /\ d(A \cup B, 4, 16) = d(A, 4, 16) + d(B, 4, 16) /\ d(A \cup B, 5, 32) = d(A, 5, 32) + d(B, 5, 32)
        /\ d(A \cup B, 6, 64) = d(A, 6, 64) + d(B, 6, 64) /\ d(A \cup B, 7, 128) = d(A, 7, 128) + d(B, 7, 128)
    <3>1. \A i \in {4, 5, 6, 7} : ~(i \in A /\ i \in B)
      BY <1>1
    <3> QED BY <3>1
  <2>6. /\ d(A, 0, 1) \in Int /\ d(A, 1, 2) \in Int /\ d(A, 2, 4) \in Int /\ d(A, 3, 8) \in Int
        /\ d(A, 4, 16) \in Int /\ d(A, 5, 32) \in Int /\ d(A, 6, 64) \in Int /\ d(A, 7, 128) \in Int
        /\ d(B, 0, 1) \in Int /\ d(B, 1, 2) \in Int /\ d(B, 2, 4) \in Int /\ d(B, 3, 8) \in Int
        /\ d(B, 4, 16) \in Int /\ d(B, 5, 32) \in Int /\ d(B, 6, 64) \in Int /\ d(B, 7, 128) \in Int
    OBVIOUS
  <2> HIDE DEF d
  <2> QED BY <2>3, <2>4, <2>5, <2>6
<1> QED BY <1>0, <1>2 DEF Or, A, B

-----------------------------------------------------------------------------
(***************************************************************************)
(* Sequences of bytes: their parts, and the CRC at their end, read as a    *)
(* receiver does from the numbers.                                         *)
(***************************************************************************)

(* Sequences of bytes.                                                     *)
Octets == Seq(Octet)

(* What is used of sequences.                                              *)
LEMMA Concat ==
  \A S : \A s, t \in Seq(S) :
    /\ s \o t \in Seq(S) /\ Len(s \o t) = Len(s) + Len(t) /\ Len(s) \in Nat
    /\ \A i \in 1 .. Len(s) : (s \o t)[i] = s[i]
    /\ \A i \in 1 .. Len(t) : (s \o t)[Len(s) + i] = t[i]
OBVIOUS

(* The same of bytes.                                                      *)
LEMMA ConcatOctets ==
  \A s, t \in Octets :
    /\ s \o t \in Octets /\ Len(s \o t) = Len(s) + Len(t) /\ Len(s) \in Nat
    /\ \A i \in 1 .. Len(s) : (s \o t)[i] = s[i]
    /\ \A i \in 1 .. Len(t) : (s \o t)[Len(s) + i] = t[i]
BY Concat DEF Octets

(* Bytes joined to bytes are bytes.                                          *)
LEMMA Joined ==
  \A s, t \in Octets : s \o t \in Octets /\ Len(s \o t) = Len(s) + Len(t) /\ Len(s) \in Nat
BY ConcatOctets

(* Bytes and the sets of bits that Crc16 computes with.                    *)
LEMMA BitsOfBytes ==
  ASSUME NEW s \in Octets
  PROVE  /\ BitsOf(s) \in Seq(Byte) /\ Len(BitsOf(s)) = Len(s)
         /\ \A i \in 1 .. Len(s) : BitsOf(s)[i] = Bits[s[i]]
<1>1. s \in [1 .. Len(s) -> Octet] /\ Len(s) \in Nat
  BY DEF Octets
<1>2. \A n \in Octet : Bits[n] \in Byte
  BY NumbersAreBytes DEF Octet
<1>3. BitsOf(s) \in [1 .. Len(s) -> Byte]
  BY <1>1, <1>2 DEF BitsOf
<1>4. \A m \in Nat : \A b : b \in [1 .. m -> Byte] => b \in Seq(Byte) /\ Len(b) = m
  OBVIOUS
<1> QED BY <1>1, <1>3, <1>4 DEF BitsOf

(* Different bytes have different bits.                                    *)
LEMMA BitsOfTell ==
  ASSUME NEW s \in Octets, NEW t \in Octets, BitsOf(s) = BitsOf(t)
  PROVE  s = t
<1>1. /\ Len(s) = Len(t) /\ Len(s) \in Nat
      /\ \A i \in 1 .. Len(s) : Bits[s[i]] = Bits[t[i]]
      /\ \A i \in 1 .. Len(s) : s[i] \in Octet /\ t[i] \in Octet
  <2>1. Len(s) = Len(t) /\ Len(s) \in Nat
    BY BitsOfBytes DEF Octets
  <2>2. \A i \in 1 .. Len(s) : Bits[s[i]] = Bits[t[i]]
    BY <2>1, BitsOfBytes
  <2> QED BY <2>1, <2>2 DEF Octets
<1>2. \A i \in 1 .. Len(s) : s[i] = t[i]
  <2>1. \A n \in Octet : Number(Bits[n]) = n
    BY NumbersAreBytes DEF Octet
  <2> QED BY <1>1, <2>1
<1> QED BY <1>1, <1>2 DEF Octets

(* The bits of two parts.                                                  *)
LEMMA BitsOfParts ==
  ASSUME NEW s \in Octets, NEW t \in Octets
  PROVE  s \o t \in Octets /\ BitsOf(s \o t) = BitsOf(s) \o BitsOf(t)
<1>1. /\ s \o t \in Octets /\ Len(s \o t) = Len(s) + Len(t)
      /\ Len(s) \in Nat /\ Len(t) \in Nat
  BY DEF Octets
<1>2. /\ \A i \in 1 .. Len(s) : (s \o t)[i] = s[i]
      /\ \A i \in 1 .. Len(t) : (s \o t)[Len(s) + i] = t[i]
  BY Concat DEF Octets
<1> DEFINE a == BitsOf(s)
           b == BitsOf(t)
           c == BitsOf(s \o t)
<1>3. a \in Seq(Byte) /\ Len(a) = Len(s) /\ \A i \in 1 .. Len(s) : a[i] = Bits[s[i]]
  BY BitsOfBytes
<1>4. b \in Seq(Byte) /\ Len(b) = Len(t) /\ \A i \in 1 .. Len(t) : b[i] = Bits[t[i]]
  BY BitsOfBytes
<1>5. c \in Seq(Byte) /\ Len(c) = Len(s) + Len(t) /\ \A i \in 1 .. Len(s) + Len(t) : c[i] = Bits[(s \o t)[i]]
  BY <1>1, BitsOfBytes
<1> HIDE DEF a, b, c
<1>6. \A i \in 1 .. Len(s) + Len(t) : c[i] = (a \o b)[i]
  <2>1. ASSUME NEW i \in 1 .. Len(s)
        PROVE  c[i] = (a \o b)[i]
    <3>1. (a \o b)[i] = a[i]
      BY <1>3, <1>4, Concat
    <3> QED BY <1>1, <1>2, <1>3, <1>5, <3>1
  <2>2. ASSUME NEW i \in 1 .. Len(t)
        PROVE  c[Len(s) + i] = (a \o b)[Len(s) + i]
    <3>1. (a \o b)[Len(s) + i] = b[i]
      BY <1>3, <1>4, Concat
    <3>2. Len(s) + i \in 1 .. Len(s) + Len(t)
      BY <1>1
    <3> QED BY <1>2, <1>4, <1>5, <3>1, <3>2
  <2>3. ASSUME NEW i \in 1 .. Len(s) + Len(t), i \notin 1 .. Len(s)
        PROVE  i - Len(s) \in 1 .. Len(t) /\ Len(s) + (i - Len(s)) = i
    BY <1>1, <2>3
  <2>4. ASSUME NEW i \in 1 .. Len(s) + Len(t)
        PROVE  c[i] = (a \o b)[i]
    <3>1. CASE i \in 1 .. Len(s)
      BY <2>1, <3>1
    <3>2. CASE i \notin 1 .. Len(s)
      <4>1. c[Len(s) + (i - Len(s))] = (a \o b)[Len(s) + (i - Len(s))]
        BY <2>2, <2>3, <3>2
      <4> QED BY <2>3, <3>2, <4>1
    <3> QED BY <3>1, <3>2
  <2> QED BY <2>4
<1>7. a \o b \in Seq(Byte) /\ Len(a \o b) = Len(s) + Len(t)
  BY <1>1, <1>3, <1>4
<1> QED BY <1>1, <1>5, <1>6, <1>7 DEF a, b, c

(* What genCRC16() returns, as numbers.                                    *)
LEMMA CrcBytes ==
  ASSUME NEW s \in Octets
  PROVE  /\ genCRC16(s) \in Octets /\ Len(genCRC16(s)) = 2
         /\ BitsOf(genCRC16(s)) = Crc(BitsOf(s))
<1> DEFINE c == Crc(BitsOf(s))
<1>1. c = <<c[1], c[2]>> /\ c[1] \in Byte /\ c[2] \in Byte
  BY DEF Crc, HighByte, LowByte, Byte
<1>2. genCRC16(s) = <<Number(c[1]), Number(c[2])>>
  BY DEF genCRC16
<1> HIDE DEF c
<1>3. /\ Number(c[1]) \in 0 .. 255 /\ Bits[Number(c[1])] = c[1]
      /\ Number(c[2]) \in 0 .. 255 /\ Bits[Number(c[2])] = c[2]
  BY <1>1, NumbersAreBytes
<1>4. genCRC16(s) \in Octets /\ Len(genCRC16(s)) = 2
  BY <1>2, <1>3 DEF Octets, Octet
<1>5. BitsOf(genCRC16(s)) = <<c[1], c[2]>>
  <2> DEFINE g == genCRC16(s)
  <2>1. g \in Octets /\ Len(g) = 2 /\ g[1] = Number(c[1]) /\ g[2] = Number(c[2])
    BY <1>2, <1>4
  <2> HIDE DEF g
  <2>2. BitsOf(g) \in Seq(Byte) /\ Len(BitsOf(g)) = 2 /\ BitsOf(g)[1] = c[1] /\ BitsOf(g)[2] = c[2]
    <3>1. /\ BitsOf(g) \in Seq(Byte) /\ Len(BitsOf(g)) = 2
          /\ \A i \in 1 .. 2 : BitsOf(g)[i] = Bits[g[i]]
      BY <2>1, BitsOfBytes
    <3> QED BY <1>3, <2>1, <3>1
  <2> HIDE DEF g
  <2>3. \A b \in Seq(Byte) : Len(b) = 2 => b = <<b[1], b[2]>>
    OBVIOUS
  <2> QED BY <2>2, <2>3 DEF g
<1> QED BY <1>1, <1>4, <1>5 DEF c

(* A receiver accepts what ends in its CRC.                                *)
LEMMA SealedFits ==
  ASSUME NEW s \in Octets
  PROVE  /\ s \o genCRC16(s) \in Octets /\ Len(s \o genCRC16(s)) = Len(s) + 2
         /\ CrcFits(s \o genCRC16(s))
<1> DEFINE b == BitsOf(s)
           g == genCRC16(s)
<1>1. b \in Seq(Byte) /\ g \in Octets /\ Len(g) = 2 /\ BitsOf(g) = Crc(b)
  BY BitsOfBytes, CrcBytes
<1> HIDE DEF g
<1>2. s \o g \in Octets /\ BitsOf(s \o g) = b \o Crc(b)
  BY <1>1, BitsOfParts
<1> HIDE DEF b
<1>3. Verifies(b \o Crc(b))
  BY <1>1, SealedVerifies
<1>4. CrcFits(s \o g)
  BY <1>2, <1>3 DEF CrcFits
<1>5. Len(s \o g) = Len(s) + 2
  <2>1. s \in Octets /\ g \in Octets
    BY <1>1
  <2>2. Len(s \o g) = Len(s) + Len(g)
    BY <2>1, ConcatOctets
  <2> QED BY <1>1, <2>2
<1> QED BY <1>2, <1>4, <1>5 DEF g

(* Bit p of what is sent, the highest of a byte first.                     *)
SentBit(s, p) == Bit(BitsOf(s), p)

(* It does not accept it with a burst of errors.                           *)
LEMMA DamageFails ==
  ASSUME NEW s \in Octets, NEW got \in Octets, Len(got) = Len(s) + 2, got # s \o genCRC16(s),
         NEW o \in Int,
         \A p \in 1 .. 8 * Len(got) :
            p \notin o .. o + 15 => (SentBit(got, p) <=> SentBit(s \o genCRC16(s), p))
  PROVE  ~CrcFits(got)
<1> DEFINE b == BitsOf(s)
           sealed == s \o genCRC16(s)
<1>1. b \in Seq(Byte)
  BY BitsOfBytes
<1>2. sealed \in Octets /\ Len(sealed) = Len(s) + 2
  BY SealedFits
<1>3. BitsOf(sealed) = b \o Crc(b)
  <2>1. genCRC16(s) \in Octets /\ BitsOf(genCRC16(s)) = Crc(b)
    BY CrcBytes
  <2> QED BY <2>1, BitsOfParts, ZenonT(60)
<1>4. /\ BitsOf(got) \in Seq(Byte) /\ Len(BitsOf(got)) = Len(got)
      /\ Len(BitsOf(sealed)) = Len(got)
  BY <1>2, BitsOfBytes
<1>5. BitsOf(got) # BitsOf(sealed)
  BY <1>2, BitsOfTell
<1>6. \A p \in 1 .. 8 * Len(got) : p \notin o .. o + 15 => (Bit(BitsOf(got), p) <=> Bit(BitsOf(sealed), p))
  BY DEF SentBit
<1> HIDE DEF b, sealed
<1>7. Burst(b \o Crc(b), BitsOf(got))
  <2> DEFINE m == b \o Crc(b)
  <2>1. m = BitsOf(sealed)
    BY <1>3
  <2> HIDE DEF m
  <2>2. Burst(m, BitsOf(got))
    BY <1>4, <1>5, <1>6, <2>1 DEF Burst
  <2> QED BY <2>2 DEF m
<1>8. ~Verifies(BitsOf(got))
  BY <1>1, <1>7, BurstsAreNoticed
<1> QED BY <1>8 DEF CrcFits

-----------------------------------------------------------------------------
(***************************************************************************)
(* Sums of words. The code of libtins sums words in the order of the       *)
(* machine and swaps the bytes of the result; a receiver sums them in the  *)
(* order of the network. The two sums differ by a factor of 256 modulo     *)
(* 65535, whose square is 1, so both are multiples of it or neither is.    *)
(***************************************************************************)

(* A byte is a number below 256.                                           *)
LEMMA OctetIs ==
  \A n : n \in Octet <=> n \in Int /\ 0 <= n /\ n <= 255
BY DEF Octet

(* The words of a sequence of bytes, as libtins sums them and as a receiver*)
(* does: byte by byte, each at its place in a word.                        *)
LittleTerms(s) == [i \in DOMAIN s |-> IF i % 2 = 1 THEN s[i] ELSE 256 * s[i]]
BigTerms(s)    == [i \in DOMAIN s |-> IF i % 2 = 1 THEN 256 * s[i] ELSE s[i]]

(* The two sums by name.                                                   *)
LEMMA SumsAre ==
  ASSUME NEW s
  PROVE  /\ WordSum(s) = Total(LittleTerms(s))
         /\ BigSum(s) = Total(BigTerms(s))
<1>1. WordSum(s) = Total(LittleTerms(s))
  BY Zenon DEF WordSum, Total, LittleTerms
<1>2. BigSum(s) = Total(BigTerms(s))
  BY Zenon DEF BigSum, Total, BigTerms
<1> QED BY <1>1, <1>2

(* The terms are numbers.                                                  *)
LEMMA TermsAre ==
  ASSUME NEW s \in Octets
  PROVE  /\ Len(s) \in Nat
         /\ LittleTerms(s) \in [1 .. Len(s) -> Int]
         /\ BigTerms(s) \in [1 .. Len(s) -> Int]
<1>1. /\ Len(s) \in Nat /\ DOMAIN s = 1 .. Len(s)
      /\ \A i \in 1 .. Len(s) : s[i] \in Octet
  BY DEF Octets
<1>2. \A i \in 1 .. Len(s) : s[i] \in Int
  BY <1>1, OctetIs
<1> QED BY <1>1, <1>2 DEF LittleTerms, BigTerms

(* ... of 16 bits.                                                         *)
LEMMA TermsBounded ==
  ASSUME NEW s \in Octets
  PROVE  \A i \in 1 .. Len(s) : /\ 0 <= LittleTerms(s)[i] /\ LittleTerms(s)[i] <= 65280
                                /\ 0 <= BigTerms(s)[i] /\ BigTerms(s)[i] <= 65280
<1>1. DOMAIN s = 1 .. Len(s) /\ \A i \in 1 .. Len(s) : s[i] \in Octet
  BY DEF Octets
<1>2. \A i \in 1 .. Len(s) : s[i] \in Int /\ 0 <= s[i] /\ s[i] <= 255
  BY <1>1, OctetIs
<1>3. ASSUME NEW i \in 1 .. Len(s)
      PROVE  /\ LittleTerms(s)[i] = IF i % 2 = 1 THEN s[i] ELSE 256 * s[i]
             /\ BigTerms(s)[i] = IF i % 2 = 1 THEN 256 * s[i] ELSE s[i]
  BY <1>1 DEF LittleTerms, BigTerms
<1> QED BY <1>2, <1>3, SMT

(* Their sums are bounded.                                                 *)
MaxWord == 65280

(* A sum of words grows with the bytes summed, no faster.                    *)
LEMMA SumsBounded ==
  ASSUME NEW s \in Octets
  PROVE  /\ WordSum(s) \in Int /\ 0 <= WordSum(s) /\ WordSum(s) <= MaxWord * Len(s)
         /\ BigSum(s) \in Int /\ 0 <= BigSum(s) /\ BigSum(s) <= MaxWord * Len(s)
<1> DEFINE c == MaxWord
           n == Len(s)
           l == LittleTerms(s)
           b == BigTerms(s)
<1>1. /\ n \in Nat /\ l \in [1 .. n -> Int] /\ b \in [1 .. n -> Int]
      /\ \A i \in 1 .. n : 0 <= l[i] /\ l[i] <= c /\ 0 <= b[i] /\ b[i] <= c
  BY TermsAre, TermsBounded, SMT DEF MaxWord
<1>2. c \in Nat
  BY SMT DEF MaxWord
<1> HIDE DEF c, n, l, b
<1>3. Total(l) \in Int /\ 0 <= Total(l) /\ Total(l) <= c * n
  BY <1>1, <1>2, TotalBounded
<1>4. Total(b) \in Int /\ 0 <= Total(b) /\ Total(b) <= c * n
  BY <1>1, <1>2, TotalBounded
<1>5. WordSum(s) = Total(l) /\ BigSum(s) = Total(b)
  BY SumsAre DEF l, b
<1> QED BY <1>3, <1>4, <1>5, SMT DEF c, n

(* Seen the other way round, the words sum to 256 times as much, but for a *)
(* multiple of 65535.                                                      *)
LEMMA SumsSwap ==
  ASSUME NEW s \in Octets
  PROVE  \E e \in Nat : 256 * WordSum(s) = BigSum(s) + 65535 * e
<1> DEFINE n == Len(s)
           x == 256
           y == 65535
           even == [i \in 1 .. n |-> IF i % 2 = 1 THEN 0 ELSE s[i]]
           l == LittleTerms(s)
           b == BigTerms(s)
<1>1. n \in Nat /\ l \in [1 .. n -> Int] /\ b \in [1 .. n -> Int] /\ x \in Int /\ y \in Int
  BY TermsAre, SMT
<1>2. \A i \in 1 .. n : s[i] \in Int /\ 0 <= s[i] /\ s[i] <= 255
  <2>1. \A i \in 1 .. n : s[i] \in Octet
    BY DEF Octets
  <2> QED BY <2>1, OctetIs
<1>3. /\ even \in [1 .. n -> Int]
      /\ \A i \in 1 .. n : 0 <= even[i] /\ even[i] <= 255
  BY <1>2
<1>4. ASSUME NEW i \in 1 .. n
      PROVE  x * l[i] = b[i] + y * even[i]
  <2>1. /\ l[i] = IF i % 2 = 1 THEN s[i] ELSE 256 * s[i]
        /\ b[i] = IF i % 2 = 1 THEN 256 * s[i] ELSE s[i]
        /\ even[i] = IF i % 2 = 1 THEN 0 ELSE s[i]
    BY DEF LittleTerms, BigTerms, Octets
  <2> HIDE DEF l, b, even
  <2> QED BY <1>2, <2>1, SMT
<1> HIDE DEF n, even, l, b, x, y
<1>5. x * Total(l) = Total(b) + y * Total(even)
  <2>1. Related(n, l, b, even, x, y)
    BY <1>1, <1>3, <1>4, Zenon DEF Related
  <2> QED BY <2>1, TotalsRelate
<1>6. Total(even) \in Nat
  <2>1. Total(even) \in Int /\ 0 <= Total(even)
    <3> DEFINE c == 255
    <3>1. c \in Nat /\ \A i \in 1 .. n : 0 <= even[i] /\ even[i] <= c
      BY <1>3
    <3> HIDE DEF c
    <3> QED BY <1>1, <1>3, <3>1, TotalBounded
  <2> QED BY <2>1
<1>7. WordSum(s) = Total(l) /\ BigSum(s) = Total(b)
  BY SumsAre DEF l, b
<1>8. 256 * WordSum(s) = BigSum(s) + 65535 * Total(even)
  BY <1>5, <1>7, SMT DEF x, y
<1> QED BY <1>6, <1>8, SMT

(* A sequence may be summed in two parts when the first is one of words.   *)
LEMMA SumsOfParts ==
  ASSUME NEW s \in Octets, NEW t \in Octets, Len(s) % 2 = 0
  PROVE  /\ WordSum(s \o t) = WordSum(s) + WordSum(t)
         /\ BigSum(s \o t) = BigSum(s) + BigSum(t)
<1> DEFINE m == Len(s)
           n == Len(t)
           u == s \o t
<1>1. /\ u \in Octets /\ Len(u) = m + n /\ m \in Nat /\ n \in Nat
      /\ \A i \in 1 .. m : u[i] = s[i]
      /\ \A i \in 1 .. n : u[m + i] = t[i]
  BY ConcatOctets
<1>2. /\ LittleTerms(s) \in [1 .. m -> Int] /\ BigTerms(s) \in [1 .. m -> Int]
      /\ LittleTerms(t) \in [1 .. n -> Int] /\ BigTerms(t) \in [1 .. n -> Int]
  BY TermsAre
<1> HIDE DEF u
<1>3. LittleTerms(u) \in [1 .. m + n -> Int] /\ BigTerms(u) \in [1 .. m + n -> Int]
  BY <1>1, TermsAre
<1>4. DOMAIN s = 1 .. m /\ DOMAIN t = 1 .. n /\ DOMAIN u = 1 .. m + n
  BY <1>1 DEF Octets
<1>5. ASSUME NEW i \in 1 .. m
      PROVE  LittleTerms(u)[i] = LittleTerms(s)[i] /\ BigTerms(u)[i] = BigTerms(s)[i]
  <2>1. i \in 1 .. m + n
    BY <1>1
  <2> QED BY <1>1, <1>4, <2>1 DEF LittleTerms, BigTerms
<1>6. ASSUME NEW i \in 1 .. n
      PROVE  LittleTerms(u)[m + i] = LittleTerms(t)[i] /\ BigTerms(u)[m + i] = BigTerms(t)[i]
  <2>1. m + i \in 1 .. m + n /\ (m + i) % 2 = i % 2
    <3>1. m \in Nat /\ n \in Nat /\ m % 2 = 0
      BY <1>1
    <3> HIDE DEF m, n
    <3> QED BY <3>1
  <2> HIDE DEF m, n
  <2> QED BY <1>1, <1>4, <2>1 DEF LittleTerms, BigTerms
<1> HIDE DEF m, n
<1>7. Total(LittleTerms(u)) = Total(LittleTerms(s)) + Total(LittleTerms(t))
  BY <1>1, <1>2, <1>3, <1>5, <1>6, TotalOfParts, ZenonT(60)
<1>8. Total(BigTerms(u)) = Total(BigTerms(s)) + Total(BigTerms(t))
  BY <1>1, <1>2, <1>3, <1>5, <1>6, TotalOfParts, ZenonT(60)
<1> QED BY <1>7, <1>8, SumsAre DEF u

(* A single word.                                                          *)
LEMMA SumOfWord ==
  ASSUME NEW x \in Octet, NEW y \in Octet
  PROVE  /\ <<x, y>> \in Octets /\ Len(<<x, y>>) = 2
         /\ WordSum(<<x, y>>) = x + 256 * y
         /\ BigSum(<<x, y>>) = 256 * x + y
<1> DEFINE s == <<x, y>>
           l == LittleTerms(s)
           b == BigTerms(s)
<1>1. s \in Octets /\ Len(s) = 2 /\ s[1] = x /\ s[2] = y /\ DOMAIN s = 1 .. 2
  BY DEF Octets
<1>2. x \in Int /\ y \in Int
  BY OctetIs
<1> HIDE DEF s
<1>3. l \in [1 .. 2 -> Int] /\ b \in [1 .. 2 -> Int]
  <2>1. l \in [1 .. Len(s) -> Int] /\ b \in [1 .. Len(s) -> Int]
    BY <1>1, TermsAre
  <2> HIDE DEF l, b
  <2> QED BY <1>1, <2>1
<1>4. l[1] = x /\ l[2] = 256 * y /\ b[1] = 256 * x /\ b[2] = y
  BY <1>1 DEF LittleTerms, BigTerms
<1> HIDE DEF l, b
<1>5. \A f \in [1 .. 2 -> Int] : Total(f) = f[1] + f[2]
  <2> SUFFICES ASSUME NEW f \in [1 .. 2 -> Int]
               PROVE  Total(f) = f[1] + f[2]
    OBVIOUS
  <2>1. /\ Total(Upto(f, 0)) = 0 /\ Total(Upto(f, 2)) = Total(f)
        /\ \A k \in 1 .. 2 : Total(Upto(f, k)) = Total(Upto(f, k - 1)) + f[k]
    BY Totals
  <2>2. Total(Upto(f, 1)) = Total(Upto(f, 1 - 1)) + f[1] /\ Total(Upto(f, 2)) = Total(Upto(f, 2 - 1)) + f[2]
    BY <2>1
  <2>3. 1 - 1 = 0 /\ 2 - 1 = 1 /\ f[1] \in Int /\ f[2] \in Int
    OBVIOUS
  <2> QED BY <2>1, <2>2, <2>3
<1>6. Total(l) = x + 256 * y /\ Total(b) = 256 * x + y
  BY <1>3, <1>4, <1>5
<1> QED BY <1>1, <1>6, SumsAre DEF s, l, b

(* Reading a part of a concatenation.                                      *)
LEMMA PartsOf ==
  ASSUME NEW s \in Octets, NEW t \in Octets
  PROVE  /\ SubSeq(s \o t, 1, Len(s)) = s
         /\ SubSeq(s \o t, Len(s) + 1, Len(s) + Len(t)) = t
         /\ \A i \in 1 .. Len(s) + 1, j \in 0 .. Len(s) : SubSeq(s \o t, i, j) = SubSeq(s, i, j)
         /\ \A i \in 1 .. Len(t) + 1, j \in 0 .. Len(t) :
              SubSeq(s \o t, Len(s) + i, Len(s) + j) = SubSeq(t, i, j)
<1>1. \A S : \A a, b \in Seq(S) : SubSeq(a \o b, 1, Len(a)) = a
  OBVIOUS
<1>2. \A S : \A a, b \in Seq(S) : SubSeq(a \o b, Len(a) + 1, Len(a) + Len(b)) = b
  OBVIOUS
<1>3. \A S : \A a, b \in Seq(S) : \A i \in 1 .. Len(a) + 1, j \in 0 .. Len(a) :
        SubSeq(a \o b, i, j) = SubSeq(a, i, j)
  OBVIOUS
<1>4. \A S : \A a, b \in Seq(S) : \A i \in 1 .. Len(b) + 1, j \in 0 .. Len(b) :
        SubSeq(a \o b, Len(a) + i, Len(a) + j) = SubSeq(b, i, j)
  OBVIOUS
<1> QED BY <1>1, <1>2, <1>3, <1>4, SMTT(60) DEF Octets

(* Folding takes multiples of 65535 away.                                  *)
LEMMA FoldedIs ==
  ASSUME NEW n \in Nat, n < 1073741824
  PROVE  /\ Folded(n) \in Nat /\ Folded(n) <= 65535
         /\ \E q \in Int : n = Folded(n) + 65535 * q
<1> DEFINE a == n \div 65536
           m == (n % 65536) + a
           b == m \div 65536
           f == (m % 65536) + b
<1>1. a \in Nat /\ a < 16384 /\ m \in Nat /\ m = n - 65535 * a /\ m < 65536 + 16384
  BY SMT
<1>2. Folded(n) = f
  BY SMT DEF Folded
<1> HIDE DEF a, m
<1>3. b \in Nat /\ b < 2 /\ f \in Nat /\ f = m - 65535 * b /\ f <= 65535
  BY <1>1, SMT
<1> HIDE DEF b, f
<1>4. n = f + 65535 * (a + b) /\ a + b \in Int
  BY <1>1, <1>3, SMT
<1> QED BY <1>2, <1>3, <1>4, SMT

(* A word seen the other way round.                                        *)
LEMMA SwappedIs ==
  ASSUME NEW n \in Nat, n <= 65535
  PROVE  /\ Swapped(n) \in Nat /\ Swapped(n) <= 65535
         /\ \E q \in Int : 256 * n = Swapped(n) + 65535 * q
<1> DEFINE h == n \div 256
           l == n % 256
<1>1. h \in Nat /\ h <= 255 /\ l \in Nat /\ l <= 255 /\ n = 256 * h + l
  BY SMT
<1>2. Swapped(n) = 256 * l + h
  BY SMT DEF Swapped
<1> HIDE DEF h, l
<1>3. 256 * n = Swapped(n) + 65535 * h /\ h \in Int
  BY <1>1, <1>2, SMT
<1> QED BY <1>1, <1>2, <1>3, SMT

(* A 16-bit number in either order of its bytes.                           *)
LEMMA BigEndianIs ==
  ASSUME NEW n \in Nat, n <= 65535
  PROVE  /\ BigEndian(n) \in Octets /\ Len(BigEndian(n)) = 2
         /\ 256 * BigEndian(n)[1] + BigEndian(n)[2] = n
         /\ BigSum(BigEndian(n)) = n
<1> DEFINE x == (n \div 256) % 256
           y == n % 256
<1>1. x \in Nat /\ x <= 255 /\ y \in Nat /\ y <= 255 /\ n = 256 * x + y
  BY SMT
<1>2. BigEndian(n) = <<x, y>>
  BY DEF BigEndian
<1> HIDE DEF x, y
<1>3. x \in Octet /\ y \in Octet
  BY <1>1, OctetIs
<1>4. <<x, y>> \in Octets /\ Len(<<x, y>>) = 2 /\ BigSum(<<x, y>>) = 256 * x + y
  BY <1>3, SumOfWord
<1> QED BY <1>1, <1>2, <1>4, SMT

(* A number in two bytes, the lower one first.                               *)
LEMMA LittleEndianIs ==
  ASSUME NEW n \in Nat, n <= 65535
  PROVE  /\ LittleEndian(n) \in Octets /\ Len(LittleEndian(n)) = 2
         /\ n # 0 => 256 * LittleEndian(n)[1] + LittleEndian(n)[2] # 0
         /\ WordSum(LittleEndian(n)) = n
<1> DEFINE x == n % 256
           y == n \div 256
<1>1. x \in Nat /\ x <= 255 /\ y \in Nat /\ y <= 255 /\ n = 256 * y + x
  BY SMT
<1>2. LittleEndian(n) = <<x, y>>
  BY DEF LittleEndian
<1> HIDE DEF x, y
<1>3. x \in Octet /\ y \in Octet
  BY <1>1, OctetIs
<1>4. <<x, y>> \in Octets /\ Len(<<x, y>>) = 2 /\ WordSum(<<x, y>>) = x + 256 * y
  BY <1>3, SumOfWord
<1> QED BY <1>1, <1>2, <1>4, SMT

(* The checksum of zero that is summed adds nothing.                       *)
LEMMA SumOfZeros ==
  <<0, 0>> \in Octets /\ Len(<<0, 0>>) = 2 /\ WordSum(<<0, 0>>) = 0 /\ BigSum(<<0, 0>>) = 0
<1> DEFINE z == 0
<1>1. z \in Octet
  BY OctetIs
<1>2. 256 * z + z = 0 /\ z + 256 * z = 0
  OBVIOUS
<1> HIDE DEF z
<1>3. /\ <<z, z>> \in Octets /\ Len(<<z, z>>) = 2 /\ WordSum(<<z, z>>) = z + 256 * z
      /\ BigSum(<<z, z>>) = 256 * z + z
  BY <1>1, SumOfWord
<1> QED BY <1>2, <1>3 DEF z

(* What sums to a positive multiple of 65535 verifies.                     *)
LEMMA MultiplesVerify ==
  ASSUME NEW s, NEW q \in Int, BigSum(s) = 65535 * q, BigSum(s) > 0
  PROVE  OnesSum(s) = 65535
<1> DEFINE b == BigSum(s)
<1>1. b = 65535 * q /\ b > 0
  OBVIOUS
<1> HIDE DEF b
<1>2. b # 0 /\ (b - 1) % 65535 = 65534
  BY <1>1, SMT
<1> QED BY <1>2, SMT DEF OnesSum, b

-----------------------------------------------------------------------------
(***************************************************************************)
(* The headers that IP and UDP write: what each of their bytes is, and     *)
(* that their checksums verify.                                            *)
(***************************************************************************)

(* Two bytes.                                                              *)
LEMMA TwoBytes ==
  \A x, y \in Octet : <<x, y>> \in Octets /\ Len(<<x, y>>) = 2
BY DEF Octets

(* Addresses of four bytes.                                                *)
LEMMA Addresses ==
  /\ Conf.source_address \in Octets /\ Len(Conf.source_address) = 4
  /\ Conf.destination_address \in Octets /\ Len(Conf.destination_address) = 4
<1>1. \A n \in Nat : \A a : a \in [1 .. n -> Octet] => a \in Seq(Octet) /\ Len(a) = n
  OBVIOUS
<1>2. Conf.source_address \in [1 .. 4 -> Octet] /\ Conf.destination_address \in [1 .. 4 -> Octet]
  BY ConfAssumption
<1> QED BY <1>1, <1>2 DEF Octets

(* A number of sixteen bits.                                               *)
LEMMA Word16Is ==
  \A n : n \in Word16 <=> n \in Nat /\ n <= 65535
<1> DEFINE k == 65535
<1>1. k \in Nat
  BY SMT
<1>2. Word16 = 0 .. k
  BY SMT DEF Word16
<1>3. k = 65535
  BY SMT
<1> HIDE DEF k
<1>4. \A n : n \in 0 .. k <=> n \in Nat /\ n <= k
  BY <1>1
<1>5. \A n : n \in Word16 <=> n \in Nat /\ n <= k
  BY <1>2, <1>4
<1> QED BY <1>3, <1>5, SMT

(* Ports are numbers of sixteen bits.                                      *)
LEMMA Ports ==
  /\ Conf.source_port \in Nat /\ Conf.source_port <= 65535
  /\ Conf.destination_port \in Nat /\ Conf.destination_port <= 65535
  /\ Conf.packet_address \in Nat /\ Conf.packet_address <= 65535
<1>1. Conf.source_port \in Word16 /\ Conf.destination_port \in Word16 /\ Conf.packet_address \in Word16
  BY ConfAssumption
<1> QED BY <1>1, Word16Is, SMT

(* The header of an IP datagram, before and after its checksum.            *)
IpBefore(size) == <<4 * 16 + 5, 0>> \o BigEndian(size % 65536) \o <<0, 1, 0, 0>>
                  \o <<DEFAULT_TTL, PROTO_UDP>>
IpAfter == Conf.source_address \o Conf.destination_address

(* They are ten bytes of fixed meaning, and their sum is not zero.           *)
LEMMA IpBeforeIs ==
  ASSUME NEW size \in Word16
  PROVE  /\ IpBefore(size) \in Octets /\ Len(IpBefore(size)) = 10
         /\ IpBefore(size)[1] = 69 /\ IpBefore(size)[10] = 17
         /\ 256 * IpBefore(size)[3] + IpBefore(size)[4] = size
         /\ BigSum(IpBefore(size)) > 0
<1> DEFINE h == BigEndian(size)
           v == <<69, 0>>
           w == <<0, 1, 0, 0>>
           z == <<128, 17>>
<1>1. v \in Octets /\ Len(v) = 2 /\ v[1] = 69 /\ BigSum(v) > 0
  <2> DEFINE a == 69
             b == 0
  <2>1. a \in Octet /\ b \in Octet /\ 256 * a + b > 0
    BY OctetIs
  <2> HIDE DEF a, b
  <2>2. <<a, b>> \in Octets /\ Len(<<a, b>>) = 2 /\ BigSum(<<a, b>>) = 256 * a + b
    BY <2>1, SumOfWord
  <2> QED BY <2>1, <2>2 DEF a, b
<1>2. /\ h \in Octets /\ Len(h) = 2 /\ 256 * h[1] + h[2] = size
  BY BigEndianIs, Word16Is, SMT
<1>3. w \in Octets /\ Len(w) = 4
  <2>1. 0 \in Octet /\ 1 \in Octet
    BY OctetIs
  <2> QED BY <2>1 DEF Octets
<1>4. z \in Octets /\ Len(z) = 2 /\ z[2] = 17
  <2>1. 128 \in Octet /\ 17 \in Octet
    BY OctetIs
  <2> QED BY <2>1 DEF Octets
<1>5. IpBefore(size) = ((v \o h) \o w) \o z
  <2>1. size % 65536 = size
    BY Word16Is, SMT
  <2>2. h = BigEndian(size % 65536)
    BY <2>1
  <2>3. v = <<4 * 16 + 5, 0>>
    BY SMT
  <2>4. z = <<DEFAULT_TTL, PROTO_UDP>>
    BY DEF DEFAULT_TTL, PROTO_UDP
  <2> HIDE DEF h, v, z
  <2> QED BY <2>2, <2>3, <2>4 DEF IpBefore
<1> HIDE DEF h, v, w, z
<1>0. v \in Octets /\ h \in Octets /\ Len(v) = 2 /\ Len(h) = 2 /\ Len(v) % 2 = 0
  BY <1>1, <1>2
<1> DEFINE vh == v \o h
           vhw == vh \o w
           all == vhw \o z
<1>6. /\ vh \in Octets /\ Len(vh) = 4 /\ vh[1] = v[1] /\ vh[2 + 1] = h[1] /\ vh[2 + 2] = h[2]
      /\ BigSum(vh) = BigSum(v) + BigSum(h)
  <2>1. vh \in Octets /\ Len(vh) = Len(v) + Len(h)
    BY <1>0, Joined
  <2>2. /\ \A i \in 1 .. Len(v) : vh[i] = v[i]
        /\ \A i \in 1 .. Len(h) : vh[Len(v) + i] = h[i]
    BY <1>0, ConcatOctets
  <2>3. BigSum(vh) = BigSum(v) + BigSum(h)
    BY <1>0, SumsOfParts
  <2> QED BY <1>1, <1>2, <2>1, <2>2, <2>3
<1> HIDE DEF vh
<1>7. /\ vhw \in Octets /\ Len(vhw) = 8
      /\ \A i \in 1 .. 4 : vhw[i] = vh[i]
      /\ BigSum(vhw) = BigSum(vh) + BigSum(w)
  <2>1. vhw \in Octets /\ Len(vhw) = Len(vh) + Len(w)
    BY <1>3, <1>6, Joined
  <2>2. \A i \in 1 .. Len(vh) : vhw[i] = vh[i]
    BY <1>3, <1>6, ConcatOctets
  <2>3. BigSum(vhw) = BigSum(vh) + BigSum(w)
    <3>1. vh \in Octets /\ w \in Octets /\ Len(vh) % 2 = 0
      BY <1>3, <1>6
    <3> QED BY <3>1, SumsOfParts
  <2> QED BY <1>3, <1>6, <2>1, <2>2, <2>3
<1> HIDE DEF vhw
<1>8. /\ all \in Octets /\ Len(all) = 10
      /\ \A i \in 1 .. 8 : all[i] = vhw[i]
      /\ all[8 + 2] = z[2]
      /\ BigSum(all) = BigSum(vhw) + BigSum(z)
  <2>1. all \in Octets /\ Len(all) = Len(vhw) + Len(z)
    BY <1>4, <1>7, Joined
  <2>2. /\ \A i \in 1 .. Len(vhw) : all[i] = vhw[i]
        /\ \A i \in 1 .. Len(z) : all[Len(vhw) + i] = z[i]
    BY <1>4, <1>7, ConcatOctets, ZenonT(60)
  <2>3. BigSum(all) = BigSum(vhw) + BigSum(z)
    <3>1. vhw \in Octets /\ z \in Octets /\ Len(vhw) % 2 = 0
      BY <1>4, <1>7
    <3> QED BY <3>1, SumsOfParts
  <2> QED BY <1>4, <1>7, <2>1, <2>2, <2>3, SMTT(60)
<1> HIDE DEF all
<1>9. BigSum(all) > 0
  <2>1. /\ BigSum(h) \in Int /\ BigSum(h) >= 0 /\ BigSum(w) \in Int /\ BigSum(w) >= 0
        /\ BigSum(z) \in Int /\ BigSum(z) >= 0 /\ BigSum(v) \in Int
    BY <1>1, <1>2, <1>3, <1>4, SumsBounded, SMT
  <2> QED BY <1>1, <1>6, <1>7, <1>8, <2>1
<1>10. all[1] = 69 /\ all[10] = 17 /\ all[3] = h[1] /\ all[4] = h[2]
  BY <1>1, <1>4, <1>6, <1>7, <1>8
<1>11. IpBefore(size) = all
  BY <1>5 DEF all, vhw, vh
<1> QED BY <1>2, <1>8, <1>9, <1>10, <1>11

(* The addresses after the checksum.                                       *)
LEMMA IpAfterIs ==
  /\ IpAfter \in Octets /\ Len(IpAfter) = 8
  /\ SubSeq(IpAfter, 1, 4) = Conf.source_address
  /\ SubSeq(IpAfter, 5, 8) = Conf.destination_address
<1> DEFINE s == Conf.source_address
           d == Conf.destination_address
<1>1. s \in Octets /\ Len(s) = 4 /\ d \in Octets /\ Len(d) = 4
  BY Addresses
<1> HIDE DEF s, d
<1>2. s \o d \in Octets /\ Len(s \o d) = 4 + 4
  BY <1>1, Joined
<1>3. SubSeq(s \o d, 1, Len(s)) = s /\ SubSeq(s \o d, Len(s) + 1, Len(s) + Len(d)) = d
  BY <1>1, PartsOf
<1>4. SubSeq(s \o d, 1, 4) = s /\ SubSeq(s \o d, 4 + 1, 4 + 4) = d
  BY <1>1, <1>3
<1>5. 4 + 1 = 5 /\ 4 + 4 = 8
  OBVIOUS
<1> QED BY <1>2, <1>4, <1>5 DEF IpAfter, s, d

(* The checksum of the header, and the header.                             *)
IpCheck(size)  == 65535 - do_checksum(IpBefore(size) \o <<0, 0>> \o IpAfter)
IpHeader(size) == IpBefore(size) \o BigEndian(IpCheck(size)) \o IpAfter

(* The checksum completes the sum of the header to a multiple of 65535.      *)
LEMMA IpCheckIs ==
  ASSUME NEW size \in Word16
  PROVE  /\ IpCheck(size) \in Word16
         /\ \E q \in Int : BigSum(IpBefore(size)) + IpCheck(size) + BigSum(IpAfter) = 65535 * q
<1> DEFINE b == IpBefore(size)
           a == IpAfter
           z == <<0, 0>>
           h == b \o z \o a
           n == WordSum(h)
           f == Folded(n)
           w == Swapped(f)
<1>1. b \in Octets /\ Len(b) = 10 /\ a \in Octets /\ Len(a) = 8
  BY IpBeforeIs, IpAfterIs
<1>2. z \in Octets /\ Len(z) = 2 /\ BigSum(z) = 0
  BY SumOfZeros
<1>3. IpCheck(size) = 65535 - w
  BY SMT DEF IpCheck, do_checksum, sum_range
<1> HIDE DEF b, a, z
<1>4. b \o z \in Octets /\ Len(b \o z) = 12 /\ BigSum(b \o z) = BigSum(b) + BigSum(z)
  <2>1. b \o z \in Octets /\ Len(b \o z) = 10 + 2
    BY <1>1, <1>2, Joined
  <2>2. Len(b) % 2 = 0
    BY <1>1
  <2>3. BigSum(b \o z) = BigSum(b) + BigSum(z)
    BY <1>1, <1>2, <2>2, SumsOfParts
  <2> QED BY <2>1, <2>3
<1>5. h \in Octets /\ Len(h) = 20 /\ BigSum(h) = BigSum(b \o z) + BigSum(a)
  <2> DEFINE bz == b \o z
  <2>0. bz \in Octets /\ Len(bz) = 12 /\ Len(bz) % 2 = 0
    BY <1>4
  <2> HIDE DEF bz
  <2>1. bz \o a \in Octets /\ Len(bz \o a) = 12 + 8
    BY <1>1, <2>0, Joined
  <2>2. BigSum(bz \o a) = BigSum(bz) + BigSum(a)
    BY <1>1, <2>0, SumsOfParts
  <2> QED BY <2>1, <2>2 DEF bz
<1> HIDE DEF h
<1>6. n \in Nat /\ n < 1073741824
  <2>1. n \in Int /\ 0 <= n /\ n <= MaxWord * Len(h)
    BY <1>5, SumsBounded
  <2>2. Len(h) = 20
    BY <1>5
  <2> HIDE DEF n
  <2> QED BY <2>1, <2>2, SMT DEF MaxWord
<1>7. PICK e \in Nat : 256 * n = BigSum(h) + 65535 * e
  BY <1>5, SumsSwap, SMT
<1> HIDE DEF n
<1>8. f \in Nat /\ f <= 65535 /\ \E q \in Int : n = f + 65535 * q
  BY <1>6, FoldedIs, SMT
<1>9. PICK q \in Int : n = f + 65535 * q
  BY <1>8, SMT
<1> HIDE DEF f
<1>10. w \in Nat /\ w <= 65535 /\ \E r \in Int : 256 * f = w + 65535 * r
  BY <1>8, SwappedIs, SMT
<1>11. PICK r \in Int : 256 * f = w + 65535 * r
  BY <1>10, SMT
<1> HIDE DEF w
<1>12. IpCheck(size) \in Nat /\ IpCheck(size) <= 65535
  BY <1>3, <1>10, SMT
<1>13. BigSum(b) \in Int /\ BigSum(a) \in Int /\ BigSum(h) = BigSum(b) + BigSum(a)
  <2>1. BigSum(b) \in Int /\ BigSum(a) \in Int
    BY <1>1, SumsBounded, SMT
  <2> QED BY <1>2, <1>4, <1>5, <2>1, SMT
<1>14. BigSum(b) + IpCheck(size) + BigSum(a) = 65535 * (r + 256 * q - e + 1)
  <2> DEFINE A == BigSum(a)
             B == BigSum(b)
             C == IpCheck(size)
  <2>1. n \in Int /\ f \in Int /\ w \in Int /\ A \in Int /\ B \in Int
    BY <1>6, <1>8, <1>10, <1>13, SMT
  <2>2. 256 * n = (B + A) + 65535 * e
    BY <1>7, <1>13, SMT
  <2>3. n = f + 65535 * q /\ 256 * f = w + 65535 * r /\ C = 65535 - w
    BY <1>3, <1>9, <1>11, SMT
  <2> HIDE DEF A, B, C
  <2>4. B + C + A = 65535 * (r + 256 * q - e + 1)
    BY <2>1, <2>2, <2>3, SMT
  <2> QED BY <2>4, SMT DEF A, B, C
<1>15. r + 256 * q - e + 1 \in Int
  BY SMT
<1>16. IpCheck(size) \in Word16
  BY <1>12, Word16Is, SMT
<1>17. \E x \in Int : BigSum(b) + IpCheck(size) + BigSum(a) = 65535 * x
  <2> DEFINE x == r + 256 * q - e + 1
             y == BigSum(b) + IpCheck(size) + BigSum(a)
  <2>1. x \in Int /\ y = 65535 * x
    BY <1>14, <1>15, SMT
  <2> HIDE DEF x, y
  <2>2. \E u \in Int : y = 65535 * u
    BY <2>1, SMT
  <2> QED BY <2>2, SMT DEF y
<1> QED BY <1>16, <1>17, SMT DEF a, b

(* The header: its bytes, and the sum that verifies.                       *)
LEMMA IpHeaderIs ==
  ASSUME NEW size \in Word16
  PROVE  /\ IpHeader(size) \in Octets /\ Len(IpHeader(size)) = 20
         /\ IpHeader(size)[1] = 69 /\ IpHeader(size)[10] = 17
         /\ 256 * IpHeader(size)[3] + IpHeader(size)[4] = size
         /\ SubSeq(IpHeader(size), 13, 20) = IpAfter
         /\ OnesSum(IpHeader(size)) = 65535
<1> DEFINE b == IpBefore(size)
           a == IpAfter
           c == BigEndian(IpCheck(size))
           bc == b \o c
           h == bc \o a
<1>1. b \in Octets /\ Len(b) = 10 /\ a \in Octets /\ Len(a) = 8 /\ Len(b) % 2 = 0
  <2>1. b \in Octets /\ Len(b) = 10
    BY IpBeforeIs
  <2>2. a \in Octets /\ Len(a) = 8
    BY IpAfterIs
  <2> HIDE DEF a, b
  <2> QED BY <2>1, <2>2
<1>2. b[1] = 69 /\ b[10] = 17 /\ 256 * b[3] + b[4] = size
  BY IpBeforeIs
<1>3. c \in Octets /\ Len(c) = 2 /\ BigSum(c) = IpCheck(size)
  BY IpCheckIs, Word16Is, BigEndianIs, SMT
<1>4. PICK q \in Int : BigSum(b) + IpCheck(size) + BigSum(a) = 65535 * q
  BY IpCheckIs, SMT
<1>5. BigSum(b) > 0 /\ BigSum(b) \in Int /\ BigSum(a) \in Int /\ 0 <= BigSum(a) /\ IpCheck(size) \in Nat
  <2>1. BigSum(b) > 0
    BY IpBeforeIs
  <2>2. BigSum(b) \in Int /\ BigSum(a) \in Int /\ 0 <= BigSum(a)
    BY <1>1, SumsBounded
  <2>3. IpCheck(size) \in Nat
    BY IpCheckIs, Word16Is, SMT
  <2> QED BY <2>1, <2>2, <2>3, SMT
<1>6. IpHeader(size) = h
  BY DEF IpHeader
<1> HIDE DEF a, b, c
<1>7. bc \in Octets /\ Len(bc) = 12 /\ Len(bc) % 2 = 0
  <2>1. bc \in Octets /\ Len(bc) = 10 + 2
    BY <1>1, <1>3, Joined
  <2> HIDE DEF bc
  <2> QED BY <2>1
<1>8. \A i \in 1 .. 10 : bc[i] = b[i]
  <2>1. \A i \in 1 .. Len(b) : bc[i] = b[i]
    BY <1>1, <1>3, ConcatOctets
  <2> HIDE DEF bc
  <2> QED BY <1>1, <2>1
<1>9. BigSum(bc) = BigSum(b) + BigSum(c)
  BY <1>1, <1>3, SumsOfParts
<1> HIDE DEF bc
<1>10. h \in Octets /\ Len(h) = 20
  <2>1. h \in Octets /\ Len(h) = 12 + 8
    BY <1>1, <1>7, Joined
  <2> HIDE DEF h
  <2> QED BY <2>1
<1>11. \A i \in 1 .. 12 : h[i] = bc[i]
  <2>1. \A i \in 1 .. Len(bc) : h[i] = bc[i]
    BY <1>1, <1>7, ConcatOctets
  <2> HIDE DEF h
  <2> QED BY <1>7, <2>1
<1>12. BigSum(h) = BigSum(bc) + BigSum(a)
  BY <1>1, <1>7, SumsOfParts
<1>13. SubSeq(h, 13, 20) = a
  <2>1. SubSeq(h, Len(bc) + 1, Len(bc) + Len(a)) = a
    BY <1>1, <1>7, PartsOf
  <2>2. Len(bc) + 1 = 13 /\ Len(bc) + Len(a) = 20
    BY <1>1, <1>7
  <2> HIDE DEF h
  <2> QED BY <2>1, <2>2
<1> HIDE DEF h
<1>14. OnesSum(h) = 65535
  <2>1. BigSum(h) = BigSum(b) + IpCheck(size) + BigSum(a)
    BY <1>3, <1>5, <1>9, <1>12
  <2>2. BigSum(h) = 65535 * q
    BY <1>4, <2>1, SMT
  <2>3. BigSum(h) > 0
    BY <1>5, <2>1
  <2> QED BY <2>2, <2>3, MultiplesVerify, SMT
<1>15. h[1] = 69 /\ h[10] = 17 /\ h[3] = b[3] /\ h[4] = b[4]
  BY <1>2, <1>8, <1>11
<1>16. 256 * h[3] + h[4] = size
  BY <1>2, <1>15
<1> QED BY <1>6, <1>10, <1>13, <1>14, <1>15, <1>16, SMT DEF a

(* The datagram is the header and the segment.                             *)
LEMMA IpPacketIs ==
  ASSUME NEW s \in Octets, 20 + Len(s) \in Word16
  PROVE  IpPacket(Conf, s) = IpHeader(20 + Len(s)) \o s
BY SMT DEF IpPacket, IpHeader, IpCheck, IpBefore, IpAfter

(* What UDP's checksum covers besides the data, and the checksum.          *)
UdpPorts == BigEndian(Conf.source_port) \o BigEndian(Conf.destination_port)
UdpBefore(size) == UdpPorts \o BigEndian(size)
Pseudo(size) == IpAfter \o BigEndian(PROTO_UDP) \o BigEndian(size)

UdpCheck(data) ==
  UdpChecksum(WordSum(Pseudo(8 + Len(data)))
              + sum_range(UdpBefore(8 + Len(data)) \o <<0, 0>> \o data))
UdpHeader(data) == UdpBefore(8 + Len(data)) \o LittleEndian(UdpCheck(data))

(* A payload's length leaves room for the headers.                         *)
LEMMA SizesFit ==
  ASSUME NEW n \in Nat, n <= 1024
  PROVE  8 + n \in Word16 /\ 28 + n \in Word16 /\ (8 + n) % 65536 = 8 + n /\ (28 + n) % 65536 = 28 + n
<1>1. 8 + n \in Nat /\ 8 + n <= 65535 /\ 28 + n \in Nat /\ 28 + n <= 65535
  BY SMT
<1>2. (8 + n) % 65536 = 8 + n /\ (28 + n) % 65536 = 28 + n
  BY SMT
<1> QED BY <1>1, <1>2, Word16Is, SMT

(* They are six bytes: the two ports and the length.                         *)
LEMMA UdpBeforeIs ==
  ASSUME NEW size \in Word16
  PROVE  /\ UdpBefore(size) \in Octets /\ Len(UdpBefore(size)) = 6
         /\ 256 * UdpBefore(size)[1] + UdpBefore(size)[2] = Conf.source_port
         /\ 256 * UdpBefore(size)[3] + UdpBefore(size)[4] = Conf.destination_port
         /\ 256 * UdpBefore(size)[5] + UdpBefore(size)[6] = size
         /\ SubSeq(UdpBefore(size), 5, 6) = BigEndian(size)
<1> DEFINE a == BigEndian(Conf.source_port)
           b == BigEndian(Conf.destination_port)
           c == BigEndian(size)
           ab == a \o b
           u == ab \o c
<1>1. a \in Octets /\ Len(a) = 2 /\ 256 * a[1] + a[2] = Conf.source_port
  BY Ports, BigEndianIs, SMT
<1>2. b \in Octets /\ Len(b) = 2 /\ 256 * b[1] + b[2] = Conf.destination_port
  BY Ports, BigEndianIs, SMT
<1>3. c \in Octets /\ Len(c) = 2 /\ 256 * c[1] + c[2] = size
  BY Word16Is, BigEndianIs, SMT
<1>4. UdpBefore(size) = u
  BY DEF UdpBefore, UdpPorts
<1>0. a \in Octets /\ b \in Octets /\ c \in Octets /\ Len(a) = 2 /\ Len(b) = 2 /\ Len(c) = 2
  BY <1>1, <1>2, <1>3
<1> HIDE DEF a, b, c
<1>5. ab \in Octets /\ Len(ab) = 4
  <2>1. ab \in Octets /\ Len(ab) = 2 + 2
    BY ONLY <1>0, Joined, ZenonT(60)
  <2> HIDE DEF ab
  <2> QED BY <2>1
<1>6. ab[1] = a[1] /\ ab[2] = a[2] /\ ab[3] = b[1] /\ ab[4] = b[2]
  <2>1. /\ \A i \in 1 .. Len(a) : ab[i] = a[i]
        /\ \A i \in 1 .. Len(b) : ab[Len(a) + i] = b[i]
    BY <1>0, ConcatOctets
  <2> HIDE DEF ab
  <2>2. ab[2 + 1] = b[1] /\ ab[2 + 2] = b[2]
    BY <1>0, <2>1
  <2> QED BY <1>0, <2>1, <2>2
<1> HIDE DEF ab
<1>7. u \in Octets /\ Len(u) = 6
  <2>1. u \in Octets /\ Len(u) = 4 + 2
    BY <1>0, <1>5, Joined
  <2> HIDE DEF u
  <2> QED BY <2>1
<1>8. /\ u[1] = ab[1] /\ u[2] = ab[2] /\ u[3] = ab[3] /\ u[4] = ab[4]
      /\ u[5] = c[1] /\ u[6] = c[2]
  <2>1. /\ \A i \in 1 .. Len(ab) : u[i] = ab[i]
        /\ \A i \in 1 .. Len(c) : u[Len(ab) + i] = c[i]
    BY <1>0, <1>5, ConcatOctets
  <2> HIDE DEF u
  <2>2. u[4 + 1] = c[1] /\ u[4 + 2] = c[2]
    BY <1>0, <1>5, <2>1
  <2> QED BY <1>5, <2>1, <2>2
<1>9. SubSeq(u, 5, 6) = c
  <2>1. SubSeq(u, Len(ab) + 1, Len(ab) + Len(c)) = c
    BY <1>0, <1>5, PartsOf
  <2>2. Len(ab) + 1 = 5 /\ Len(ab) + Len(c) = 6
    BY <1>0, <1>5
  <2> HIDE DEF u
  <2> QED BY <2>1, <2>2
<1> HIDE DEF u
<1>10. /\ 256 * u[1] + u[2] = Conf.source_port
       /\ 256 * u[3] + u[4] = Conf.destination_port
       /\ 256 * u[5] + u[6] = size
  BY <1>1, <1>2, <1>3, <1>6, <1>8
<1> QED BY <1>4, <1>7, <1>9, <1>10 DEF c

(* The pseudo header of the configured addresses, and its sum.               *)
LEMMA PseudoIs ==
  ASSUME NEW size \in Word16
  PROVE  /\ Pseudo(size) \in Octets /\ Len(Pseudo(size)) = 12 /\ BigSum(Pseudo(size)) > 0
         /\ Pseudo(size) = IpAfter \o <<0, 17>> \o BigEndian(size)
<1> DEFINE a == IpAfter
           b == <<0, 17>>
           c == BigEndian(size)
           ab == a \o b
           p == ab \o c
<1>1. a \in Octets /\ Len(a) = 8 /\ Len(a) % 2 = 0
  <2>1. a \in Octets /\ Len(a) = 8
    BY IpAfterIs
  <2> HIDE DEF a
  <2> QED BY <2>1
<1>2. b \in Octets /\ Len(b) = 2 /\ BigSum(b) > 0 /\ BigSum(b) \in Int
  <2> DEFINE x == 0
             y == 17
  <2>1. x \in Octet /\ y \in Octet /\ 256 * x + y > 0 /\ 256 * x + y \in Int
    BY OctetIs
  <2> HIDE DEF x, y
  <2>2. <<x, y>> \in Octets /\ Len(<<x, y>>) = 2 /\ BigSum(<<x, y>>) = 256 * x + y
    BY <2>1, SumOfWord
  <2> QED BY <2>1, <2>2 DEF x, y
<1>3. c \in Octets /\ Len(c) = 2
  BY Word16Is, BigEndianIs, SMT
<1>4. BigEndian(PROTO_UDP) = b
  BY DEF BigEndian, PROTO_UDP
<1>5. Pseudo(size) = p
  BY <1>4 DEF Pseudo
<1> HIDE DEF a, b, c
<1>6. ab \in Octets /\ Len(ab) = 10 /\ Len(ab) % 2 = 0
  <2>1. ab \in Octets /\ Len(ab) = 8 + 2
    BY <1>1, <1>2, Joined
  <2> HIDE DEF ab
  <2> QED BY <2>1
<1>7. BigSum(ab) = BigSum(a) + BigSum(b)
  BY <1>1, <1>2, SumsOfParts
<1> HIDE DEF ab
<1>8. p \in Octets /\ Len(p) = 12
  <2>1. p \in Octets /\ Len(p) = 10 + 2
    BY <1>3, <1>6, Joined
  <2> HIDE DEF p
  <2> QED BY <2>1
<1>9. BigSum(p) = BigSum(ab) + BigSum(c)
  BY <1>3, <1>6, SumsOfParts
<1>10. BigSum(p) > 0
  <2>1. BigSum(a) \in Int /\ 0 <= BigSum(a) /\ BigSum(c) \in Int /\ 0 <= BigSum(c)
    BY <1>1, <1>3, SumsBounded
  <2> HIDE DEF p
  <2> QED BY <1>2, <1>7, <1>9, <2>1
<1> QED BY <1>5, <1>8, <1>10 DEF p, ab, a, b, c

(* What the checksum of zero is replaced by keeps the sum a multiple.      *)
LEMMA UdpChecksumIs ==
  ASSUME NEW n \in Nat, n < 1073741824
  PROVE  /\ UdpChecksum(n) \in Word16 /\ UdpChecksum(n) # 0
         /\ \E q \in Int : n + UdpChecksum(n) = 65535 * q
<1> DEFINE f == Folded(n)
           c == UdpChecksum(n)
<1>1. f \in Nat /\ f <= 65535 /\ \E q \in Int : n = f + 65535 * q
  BY FoldedIs, SMT
<1>2. PICK q \in Int : n = f + 65535 * q
  BY <1>1, SMT
<1>3. c = IF 65535 - f = 0 THEN 65535 ELSE 65535 - f
  BY SMT DEF UdpChecksum
<1> HIDE DEF f, c
<1>4. c \in Nat /\ c <= 65535 /\ c # 0 /\ c \in Word16
  BY <1>1, <1>3, Word16Is, SMT
<1>5. n + c = 65535 * (q + 1) \/ n + c = 65535 * (q + 2)
  BY <1>1, <1>2, <1>3, SMT
<1>6. \E x \in Int : n + c = 65535 * x
  <2>1. q + 1 \in Int /\ q + 2 \in Int
    OBVIOUS
  <2> DEFINE x == q + 1
             y == q + 2
             z == n + c
  <2>2. x \in Int /\ y \in Int /\ (z = 65535 * x \/ z = 65535 * y)
    BY <1>5, SMT
  <2> HIDE DEF x, y, z
  <2>3. \E u \in Int : z = 65535 * u
    BY <2>2, SMT
  <2> QED BY <2>3, SMT DEF z
<1> QED BY <1>4, <1>6, SMT DEF c

(* The checksum of a payload, over all it covers.                          *)
LEMMA UdpCheckIs ==
  ASSUME NEW data \in Octets, Len(data) <= 1024
  PROVE  /\ UdpCheck(data) \in Word16 /\ UdpCheck(data) # 0
         /\ \E q \in Int : WordSum(Pseudo(8 + Len(data))) + WordSum(UdpBefore(8 + Len(data)))
                           + UdpCheck(data) + WordSum(data) = 65535 * q
<1> DEFINE n == Len(data)
           size == 8 + n
           b == UdpBefore(size)
           p == Pseudo(size)
           z == <<0, 0>>
           bz == b \o z
           all == bz \o data
           w == WordSum(all)
           f == Folded(w)
           wp == WordSum(p)
           sum == wp + f
           c == UdpChecksum(sum)
<1>0. n \in Nat /\ n <= 1024 /\ size \in Word16
  BY SizesFit DEF Octets
<1>1. b \in Octets /\ Len(b) = 6 /\ Len(b) % 2 = 0
  <2>1. b \in Octets /\ Len(b) = 6
    BY <1>0, UdpBeforeIs
  <2> HIDE DEF b
  <2> QED BY <2>1
<1>2. p \in Octets /\ Len(p) = 12
  BY <1>0, PseudoIs
<1>3. z \in Octets /\ Len(z) = 2 /\ WordSum(z) = 0
  BY SumOfZeros
<1>4. UdpCheck(data) = c
  BY DEF UdpCheck, sum_range
<1> HIDE DEF size, b, p, z
<1>5. bz \in Octets /\ Len(bz) = 8 /\ Len(bz) % 2 = 0
  <2>1. bz \in Octets /\ Len(bz) = 6 + 2
    BY ONLY <1>1, <1>3, Joined
  <2> HIDE DEF bz
  <2> QED BY <2>1
<1>6. WordSum(bz) = WordSum(b) + WordSum(z)
  BY <1>1, <1>3, SumsOfParts, ZenonT(60)
<1> HIDE DEF bz
<1>7. all \in Octets /\ Len(all) = 8 + n
  BY <1>5, Joined, ZenonT(60)
<1>8. WordSum(all) = WordSum(bz) + WordSum(data)
  BY <1>5, SumsOfParts, ZenonT(60)
<1> HIDE DEF all
<1>9. w \in Nat /\ w < 1073741824
  <2>1. w \in Int /\ 0 <= w /\ w <= MaxWord * Len(all)
    BY <1>7, SumsBounded
  <2> HIDE DEF w
  <2>2. w <= MaxWord * (8 + n)
    BY <1>7, <2>1
  <2> HIDE DEF n
  <2> QED BY <1>0, <2>1, <2>2, SMT DEF MaxWord
<1>10. wp \in Nat /\ wp <= 783360
  <2>1. wp \in Int /\ 0 <= wp /\ wp <= MaxWord * Len(p)
    BY <1>2, SumsBounded, ZenonT(60)
  <2> HIDE DEF wp
  <2>2. wp <= MaxWord * 12
    BY <1>2, <2>1
  <2> QED BY <2>1, <2>2, SMT DEF MaxWord
<1> HIDE DEF w, wp, n
<1>11. f \in Nat /\ f <= 65535 /\ \E q \in Int : w = f + 65535 * q
  BY ONLY <1>9, FoldedIs, SMT
<1>12. PICK q \in Int : w = f + 65535 * q
  BY <1>11, SMT
<1> HIDE DEF f
<1>13. sum \in Nat /\ sum < 1073741824
  BY <1>10, <1>11, SMT
<1> HIDE DEF sum
<1>14. c \in Word16 /\ c # 0 /\ \E r \in Int : sum + c = 65535 * r
  BY <1>13, UdpChecksumIs, SMT
<1>15. PICK r \in Int : sum + c = 65535 * r
  BY <1>14, SMT
<1>16. c \in Nat
  BY <1>14, Word16Is, SMT
<1> HIDE DEF c
<1>17. WordSum(b) \in Int /\ WordSum(data) \in Int
  BY <1>1, SumsBounded
<1> DEFINE wb == WordSum(b)
           wd == WordSum(data)
           x == r + q
           y == wp + wb + c + wd
<1>18. y \in Int /\ x \in Int /\ y = 65535 * x
  <2>1. w = wb + wd /\ sum = wp + f
    BY <1>3, <1>6, <1>8, <1>17, SMT DEF w, sum
  <2> HIDE DEF wb, wd
  <2>2. wb \in Int /\ wd \in Int
    BY <1>17 DEF wb, wd
  <2> QED BY <1>9, <1>10, <1>11, <1>12, <1>13, <1>15, <1>16, <2>1, <2>2, SMT
<1> HIDE DEF x, y
<1>19. \E u \in Int : y = 65535 * u
  BY <1>18, SMT
<1> QED BY <1>4, <1>14, <1>19, SMT DEF y, wp, wb, wd, p, b, size, n

(* The UDP header, and the sum that verifies.                              *)
LEMMA UdpHeaderIs ==
  ASSUME NEW data \in Octets, Len(data) <= 1024
  PROVE  /\ UdpHeader(data) \in Octets /\ Len(UdpHeader(data)) = 8
         /\ 256 * UdpHeader(data)[1] + UdpHeader(data)[2] = Conf.source_port
         /\ 256 * UdpHeader(data)[3] + UdpHeader(data)[4] = Conf.destination_port
         /\ 256 * UdpHeader(data)[5] + UdpHeader(data)[6] = 8 + Len(data)
         /\ 256 * UdpHeader(data)[7] + UdpHeader(data)[8] # 0
         /\ SubSeq(UdpHeader(data), 5, 6) = BigEndian(8 + Len(data))
         /\ OnesSum(Pseudo(8 + Len(data)) \o (UdpHeader(data) \o data)) = 65535
<1> DEFINE n == Len(data)
           size == 8 + n
           b == UdpBefore(size)
           p == Pseudo(size)
           k == UdpCheck(data)
           c == LittleEndian(k)
           u == b \o c
           ud == u \o data
           all == p \o ud
<1>0. n \in Nat /\ n <= 1024 /\ size \in Word16
  BY SizesFit DEF Octets
<1>1. b \in Octets /\ Len(b) = 6 /\ Len(b) % 2 = 0
  <2>1. b \in Octets /\ Len(b) = 6
    BY <1>0, UdpBeforeIs
  <2> HIDE DEF b
  <2> QED BY <2>1
<1>2. /\ 256 * b[1] + b[2] = Conf.source_port
      /\ 256 * b[3] + b[4] = Conf.destination_port
      /\ 256 * b[5] + b[6] = size
      /\ SubSeq(b, 5, 6) = BigEndian(size)
  BY <1>0, UdpBeforeIs
<1>3. p \in Octets /\ Len(p) = 12 /\ Len(p) % 2 = 0
  <2>1. p \in Octets /\ Len(p) = 12
    BY <1>0, PseudoIs
  <2> HIDE DEF p
  <2> QED BY <2>1
<1>4. BigSum(p) > 0
  BY <1>0, PseudoIs
<1>5. k \in Word16 /\ k # 0 /\ \E q \in Int : WordSum(p) + WordSum(b) + k + WordSum(data) = 65535 * q
  BY UdpCheckIs
<1>6. PICK x \in Int : WordSum(p) + WordSum(b) + k + WordSum(data) = 65535 * x
  BY ONLY <1>5
<1>7. k \in Nat /\ k <= 65535
  BY <1>5, Word16Is, SMT
<1> HIDE DEF k
<1>8. c \in Octets /\ Len(c) = 2 /\ 256 * c[1] + c[2] # 0 /\ WordSum(c) = k
  BY ONLY <1>5, <1>7, LittleEndianIs, SMT
<1>9. UdpHeader(data) = u
  BY DEF UdpHeader, k
<1> HIDE DEF size, b, p, c
<1>10. u \in Octets /\ Len(u) = 8 /\ Len(u) % 2 = 0
  <2>1. u \in Octets /\ Len(u) = 6 + 2
    BY ONLY <1>1, <1>8, Joined, ZenonT(60)
  <2> HIDE DEF u
  <2> QED BY <2>1
<1>11. /\ u[1] = b[1] /\ u[2] = b[2] /\ u[3] = b[3] /\ u[4] = b[4] /\ u[5] = b[5] /\ u[6] = b[6]
       /\ u[7] = c[1] /\ u[8] = c[2]
  <2>1. /\ \A i \in 1 .. Len(b) : u[i] = b[i]
        /\ \A i \in 1 .. Len(c) : u[Len(b) + i] = c[i]
    BY ONLY <1>1, <1>8, ConcatOctets
  <2> HIDE DEF u
  <2>2. u[6 + 1] = c[1] /\ u[6 + 2] = c[2]
    BY ONLY <1>1, <1>8, <2>1
  <2> QED BY ONLY <1>1, <2>1, <2>2
<1>12. WordSum(u) = WordSum(b) + WordSum(c)
  BY <1>1, <1>8, SumsOfParts, ZenonT(60)
<1>13. SubSeq(u, 5, 6) = SubSeq(b, 5, 6)
  <2>1. \A i \in 1 .. Len(b) + 1, j \in 0 .. Len(b) : SubSeq(u, i, j) = SubSeq(b, i, j)
    BY ONLY <1>1, <1>8, PartsOf, ZenonT(60)
  <2> HIDE DEF u
  <2>2. 5 \in 1 .. Len(b) + 1 /\ 6 \in 0 .. Len(b)
    BY <1>1
  <2> QED BY ONLY <2>1, <2>2
<1> HIDE DEF u
<1>14. ud \in Octets
  BY <1>10, Joined
<1>15. WordSum(ud) = WordSum(u) + WordSum(data)
  BY <1>10, SumsOfParts, ZenonT(60)
<1> HIDE DEF ud
<1>16. all \in Octets
  BY <1>3, <1>14, Joined
<1>17. WordSum(all) = WordSum(p) + WordSum(ud) /\ BigSum(all) = BigSum(p) + BigSum(ud)
  BY <1>3, <1>14, SumsOfParts
<1> HIDE DEF all
<1>18. PICK e \in Nat : 256 * WordSum(all) = BigSum(all) + 65535 * e
  BY ONLY <1>16, SumsSwap, SMT
<1> DEFINE wp == WordSum(p)
           wb == WordSum(b)
           wd == WordSum(data)
           wa == WordSum(all)
           ba == BigSum(all)
           y == 256 * x - e
<1>19. wp \in Int /\ wb \in Int /\ wd \in Int /\ wa \in Int /\ ba \in Int
  BY <1>1, <1>3, <1>16, SumsBounded
<1>20. ba > 0
  <2>1. BigSum(p) \in Int /\ BigSum(ud) \in Int /\ 0 <= BigSum(ud)
    BY <1>3, <1>14, SumsBounded
  <2> QED BY ONLY <1>4, <1>17, <2>1
<1>21. y \in Int /\ ba = 65535 * y
  <2>1. wa = wp + ((wb + k) + wd)
    BY <1>8, <1>12, <1>15, <1>17
  <2>2. wp + wb + k + wd = 65535 * x /\ 256 * wa = ba + 65535 * e
    BY ONLY <1>6, <1>18, SMT
  <2> HIDE DEF wp, wb, wd, wa, ba
  <2> QED BY ONLY <1>7, <1>19, <2>1, <2>2, SMT
<1> HIDE DEF y
<1>22. OnesSum(all) = 65535
  BY ONLY <1>20, <1>21, MultiplesVerify, SMT DEF ba
<1>23. /\ 256 * u[1] + u[2] = Conf.source_port
       /\ 256 * u[3] + u[4] = Conf.destination_port
       /\ 256 * u[5] + u[6] = size
       /\ 256 * u[7] + u[8] # 0
  BY ONLY <1>2, <1>8, <1>11
<1>24. SubSeq(u, 5, 6) = BigEndian(size)
  BY ONLY <1>2, <1>13
<1> QED BY ONLY <1>9, <1>10, <1>22, <1>23, <1>24, SMT DEF all, ud, p, size, n

(* The segment is the header and the payload.                              *)
LEMMA UdpSegmentIs ==
  ASSUME NEW data \in Octets, Len(data) <= 1024
  PROVE  UdpSegment(Conf, data) = UdpHeader(data) \o data
<1> DEFINE n == Len(data)
<1>1. n \in Nat /\ (8 + n) % 65536 = 8 + n
  BY SizesFit DEF Octets
<1>2. IpAfter \in Octets
  BY IpAfterIs
<1> DEFINE size == 8 + n
           before == BigEndian(Conf.source_port) \o BigEndian(Conf.destination_port) \o BigEndian(size % 65536)
           sum == pseudoheader_checksum(Conf.source_address, Conf.destination_address,
                                        size % 65536, PROTO_UDP)
                  + sum_range(before \o <<0, 0>> \o data)
<1>3. UdpSegment(Conf, data) = before \o LittleEndian(UdpChecksum(sum)) \o data
  BY SMT DEF UdpSegment
<1>4. before = UdpBefore(size)
  BY <1>1 DEF UdpBefore, UdpPorts
<1> HIDE DEF before
<1>5. sum = WordSum(Pseudo(size)) + sum_range(UdpBefore(size) \o <<0, 0>> \o data)
  <2>1. size % 65536 = size
    BY <1>1, SMT
  <2>2. pseudoheader_checksum(Conf.source_address, Conf.destination_address, size, PROTO_UDP)
        = WordSum(Pseudo(size))
    BY SMT DEF Pseudo, pseudoheader_checksum, IpAfter
  <2> HIDE DEF size
  <2> QED BY ONLY <1>4, <2>1, <2>2, SMT DEF sum
<1> HIDE DEF sum
<1> QED BY <1>3, <1>4, <1>5 DEF UdpHeader, UdpCheck

-----------------------------------------------------------------------------
(***************************************************************************)
(* What a receiver reads from the bytes of a datagram: the sizes, the      *)
(* addresses, the ports and the payload.                                   *)
(***************************************************************************)

(* The datagram a payload becomes.                                         *)
Made(data) == IpPacket(Conf, UdpSegment(Conf, data))

(* What a receiver of a datagram reads in it beside lengths and checksums. *)
Reads(d, data) ==
  /\ d[1] = 69 /\ d[10] = 17
  /\ SubSeq(d, 13, 16) = Conf.source_address
  /\ SubSeq(d, 17, 20) = Conf.destination_address
  /\ At(d, 21) = Conf.source_port
  /\ At(d, 23) = Conf.destination_port
  /\ From(d, 29) = data

(* The datagram of any payload that receive() can return: its lengths, its   *)
(* two checksums, and what a receiver reads in it.                           *)
LEMMA MadeIs ==
  ASSUME NEW data \in Octets, Len(data) <= 1024
  PROVE  /\ Made(data) \in Octets /\ Len(Made(data)) = 28 + Len(data)
         /\ At(Made(data), 3) = Len(Made(data)) /\ At(Made(data), 25) = Len(Made(data)) - 20
         /\ OnesSum(SubSeq(Made(data), 1, 20)) = 65535
         /\ At(Made(data), 27) # 0
         /\ OnesSum(PseudoHeader(Made(data)) \o From(Made(data), 21)) = 65535
         /\ Reads(Made(data), data)
<1> DEFINE n == Len(data)
           u == UdpHeader(data)
           s == u \o data
           h == IpHeader(28 + n)
           d == h \o s
<1>0. n \in Nat /\ n <= 1024 /\ 8 + n \in Word16 /\ 28 + n \in Word16
  BY SizesFit DEF Octets
<1>1. /\ u \in Octets /\ Len(u) = 8
      /\ 256 * u[1] + u[2] = Conf.source_port
      /\ 256 * u[3] + u[4] = Conf.destination_port
      /\ 256 * u[5] + u[6] = 8 + n
      /\ 256 * u[7] + u[8] # 0
      /\ SubSeq(u, 5, 6) = BigEndian(8 + n)
  BY UdpHeaderIs
<1>2. OnesSum(Pseudo(8 + n) \o s) = 65535
  BY UdpHeaderIs
<1>3. /\ h \in Octets /\ Len(h) = 20
      /\ h[1] = 69 /\ h[10] = 17
      /\ 256 * h[3] + h[4] = 28 + n
      /\ SubSeq(h, 13, 20) = IpAfter
  BY <1>0, IpHeaderIs
<1>4. OnesSum(h) = 65535
  BY <1>0, IpHeaderIs
<1>5. Pseudo(8 + n) = IpAfter \o <<0, 17>> \o BigEndian(8 + n)
  BY <1>0, PseudoIs, SMTT(60)
<1>a. u \in Octets /\ Len(u) = 8 /\ data \in Octets
  BY <1>1
<1>b. h \in Octets /\ Len(h) = 20
  BY <1>3
<1> HIDE DEF u, h
<1>6. s \in Octets /\ Len(s) = 8 + n
  BY ONLY <1>a, Joined
<1>7. \A i \in 1 .. 8 : s[i] = u[i]
  <2>1. \A i \in 1 .. Len(u) : s[i] = u[i]
    BY ONLY <1>a, ConcatOctets
  <2> HIDE DEF s
  <2> QED BY ONLY <1>1, <2>1
<1>8. SubSeq(s, 5, 6) = BigEndian(8 + n) /\ SubSeq(s, 9, 8 + n) = data
  <2>1. /\ \A i \in 1 .. Len(u) + 1, j \in 0 .. Len(u) : SubSeq(s, i, j) = SubSeq(u, i, j)
        /\ SubSeq(s, Len(u) + 1, Len(u) + Len(data)) = data
    BY ONLY <1>a, PartsOf, ZenonT(60)
  <2> HIDE DEF s
  <2>2. 5 \in 1 .. Len(u) + 1 /\ 6 \in 0 .. Len(u) /\ Len(u) + 1 = 9 /\ Len(u) = 8
    BY ONLY <1>a
  <2> QED BY ONLY <1>1, <2>1, <2>2
<1>9. Made(data) = d
  <2>1. UdpSegment(Conf, data) = s
    BY UdpSegmentIs DEF u
  <2> HIDE DEF s
  <2>2. IpPacket(Conf, s) = IpHeader(20 + Len(s)) \o s
    <3>1. s \in Octets /\ 20 + Len(s) = 28 + n
      BY ONLY <1>0, <1>6
    <3>2. 20 + Len(s) \in Word16
      BY ONLY <1>0, <3>1
    <3> QED BY ONLY <3>1, <3>2, IpPacketIs
  <2>3. 20 + Len(s) = 28 + n
    BY <1>0, <1>6
  <2> QED BY ONLY <2>1, <2>2, <2>3 DEF Made, h
<1> HIDE DEF s
<1>10. d \in Octets /\ Len(d) = 28 + n
  <2>1. d \in Octets /\ Len(d) = 20 + (8 + n)
    BY ONLY <1>b, <1>6, Joined
  <2> HIDE DEF d
  <2> QED BY <1>0, <2>1
<1>11. /\ \A i \in 1 .. 20 : d[i] = h[i]
       /\ \A i \in 1 .. 8 : d[20 + i] = u[i]
  <2>1. /\ \A i \in 1 .. Len(h) : d[i] = h[i]
        /\ \A i \in 1 .. Len(s) : d[Len(h) + i] = s[i]
    BY ONLY <1>b, <1>6, ConcatOctets, ZenonT(60)
  <2> HIDE DEF d
  <2>2. \A i \in 1 .. 8 : i \in 1 .. Len(s)
    BY ONLY <1>0, <1>6, SMTT(60)
  <2> QED BY ONLY <1>3, <1>7, <2>1, <2>2
<1>12. /\ SubSeq(d, 1, 20) = h /\ SubSeq(d, 21, 28 + n) = s
       /\ SubSeq(d, 13, 20) = IpAfter
       /\ SubSeq(d, 25, 26) = BigEndian(8 + n)
       /\ SubSeq(d, 29, 28 + n) = data
  <2>1. /\ SubSeq(d, 1, Len(h)) = h
        /\ SubSeq(d, Len(h) + 1, Len(h) + Len(s)) = s
        /\ \A i \in 1 .. Len(h) + 1, j \in 0 .. Len(h) : SubSeq(d, i, j) = SubSeq(h, i, j)
        /\ \A i \in 1 .. Len(s) + 1, j \in 0 .. Len(s) : SubSeq(d, Len(h) + i, Len(h) + j) = SubSeq(s, i, j)
    BY ONLY <1>b, <1>6, PartsOf, ZenonT(60)
  <2> HIDE DEF d
  <2>2. Len(h) = 20 /\ Len(h) + 1 = 21 /\ Len(h) + Len(s) = 28 + n
    BY ONLY <1>0, <1>3, <1>6
  <2>3. SubSeq(d, 13, 20) = SubSeq(h, 13, 20)
    <3>1. 13 \in 1 .. Len(h) + 1 /\ 20 \in 0 .. Len(h)
      BY ONLY <1>3
    <3> QED BY ONLY <2>1, <3>1
  <2>4. SubSeq(d, 25, 26) = SubSeq(s, 5, 6)
    <3>1. 5 \in 1 .. Len(s) + 1 /\ 6 \in 0 .. Len(s) /\ Len(h) + 5 = 25 /\ Len(h) + 6 = 26
      BY ONLY <1>0, <1>3, <1>6, SMTT(60)
    <3>2. SubSeq(d, Len(h) + 5, Len(h) + 6) = SubSeq(s, 5, 6)
      BY ONLY <2>1, <3>1
    <3> QED BY ONLY <3>1, <3>2
  <2>5. SubSeq(d, 29, 28 + n) = SubSeq(s, 9, 8 + n)
    <3>1. 9 \in 1 .. Len(s) + 1 /\ 8 + n \in 0 .. Len(s) /\ Len(h) + 9 = 29 /\ Len(h) + (8 + n) = 28 + n
      BY ONLY <1>0, <1>3, <1>6
    <3>2. SubSeq(d, Len(h) + 9, Len(h) + (8 + n)) = SubSeq(s, 9, 8 + n)
      BY ONLY <2>1, <3>1
    <3> QED BY ONLY <3>1, <3>2
  <2> QED BY ONLY <1>3, <1>8, <2>1, <2>2, <2>3, <2>4, <2>5, ZenonT(60)
<1> HIDE DEF d
<1>13. SubSeq(d, 13, 16) = Conf.source_address /\ SubSeq(d, 17, 20) = Conf.destination_address
  <2>1. \A S : \A q \in Seq(S) : Len(q) >= 20 =>
          /\ SubSeq(q, 13, 16) = SubSeq(SubSeq(q, 13, 20), 1, 4)
          /\ SubSeq(q, 17, 20) = SubSeq(SubSeq(q, 13, 20), 5, 8)
    OBVIOUS
  <2>2. d \in Seq(Octet) /\ Len(d) >= 20
    BY ONLY <1>0, <1>10 DEF Octets
  <2> QED BY ONLY <1>12, <2>1, <2>2, IpAfterIs
<1>14. /\ d[1] = 69 /\ d[10] = 17
       /\ d[3] = h[3] /\ d[4] = h[4]
  BY ONLY <1>3, <1>11
<1>15. /\ d[21] = u[1] /\ d[22] = u[2] /\ d[23] = u[3] /\ d[24] = u[4]
       /\ d[25] = u[5] /\ d[26] = u[6] /\ d[27] = u[7] /\ d[28] = u[8]
  <2>1. /\ d[20 + 1] = u[1] /\ d[20 + 2] = u[2] /\ d[20 + 3] = u[3] /\ d[20 + 4] = u[4]
        /\ d[20 + 5] = u[5] /\ d[20 + 6] = u[6] /\ d[20 + 7] = u[7] /\ d[20 + 8] = u[8]
    BY ONLY <1>11
  <2> QED BY ONLY <2>1
<1>16. /\ At(d, 3) = 28 + n /\ At(d, 25) = 8 + n /\ At(d, 27) # 0
       /\ At(d, 21) = Conf.source_port /\ At(d, 23) = Conf.destination_port
  <2>1. 3 + 1 = 4 /\ 25 + 1 = 26 /\ 27 + 1 = 28 /\ 21 + 1 = 22 /\ 23 + 1 = 24
    OBVIOUS
  <2>2. /\ At(d, 3) = 256 * d[3] + d[4] /\ At(d, 25) = 256 * d[25] + d[26]
        /\ At(d, 27) = 256 * d[27] + d[28]
        /\ At(d, 21) = 256 * d[21] + d[22] /\ At(d, 23) = 256 * d[23] + d[24]
    BY ONLY <2>1, Zenon DEF At
  <2>3. At(d, 3) = 28 + n
    BY ONLY <1>3, <1>14, <2>2
  <2>4. At(d, 25) = 8 + n /\ At(d, 27) # 0
    BY ONLY <1>1, <1>15, <2>2
  <2>5. At(d, 21) = Conf.source_port /\ At(d, 23) = Conf.destination_port
    BY ONLY <1>1, <1>15, <2>2
  <2> QED BY <2>3, <2>4, <2>5
<1>17. From(d, 21) = s /\ From(d, 29) = data
  BY ONLY <1>10, <1>12 DEF From
<1>18. PseudoHeader(d) = Pseudo(8 + n)
  BY ONLY <1>5, <1>12, <1>14 DEF PseudoHeader
<1>19. OnesSum(SubSeq(d, 1, 20)) = 65535 /\ OnesSum(PseudoHeader(d) \o From(d, 21)) = 65535
  <2>1. OnesSum(SubSeq(d, 1, 20)) = OnesSum(h)
    BY ONLY <1>12
  <2>2. OnesSum(PseudoHeader(d) \o From(d, 21)) = OnesSum(Pseudo(8 + n) \o s)
    BY ONLY <1>17, <1>18
  <2> QED BY ONLY <1>2, <1>4, <2>1, <2>2, SMT
<1>20. 8 + n = (28 + n) - 20
  BY ONLY <1>0
<1>21. Reads(d, data)
  BY ONLY <1>13, <1>14, <1>16, <1>17 DEF Reads
<1> QED BY ONLY <1>9, <1>10, <1>16, <1>19, <1>20, <1>21, SMT DEF n

-----------------------------------------------------------------------------
(***************************************************************************)
(* The headers of data groups and packets, and the bytes of a packet.      *)
(***************************************************************************)

(* The two bits of each length.                                            *)
LEMMA LengthBitsAre ==
  \A k \in 0 .. 3 : LengthBits(24 * (k + 1)) = 64 * k
<1>1. LengthBits(24) = 0 /\ LengthBits(48) = 64 /\ LengthBits(72) = 128 /\ LengthBits(96) = 192
  BY DEF LengthBits
<1>2. ASSUME NEW k \in 0 .. 3
      PROVE  LengthBits(24 * (k + 1)) = 64 * k
  <2>1. k = 0 \/ k = 1 \/ k = 2 \/ k = 3
    OBVIOUS
  <2>2. /\ k = 0 => 24 * (k + 1) = 24 /\ 64 * k = 0
        /\ k = 1 => 24 * (k + 1) = 48 /\ 64 * k = 64
        /\ k = 2 => 24 * (k + 1) = 72 /\ 64 * k = 128
        /\ k = 3 => 24 * (k + 1) = 96 /\ 64 * k = 192
    OBVIOUS
  <2> QED BY <1>1, <2>1, <2>2
<1> QED BY <1>2

(* The bytes of a packet's header, for any fields that fit their bits.     *)
LEMMA FirstByte ==
  ASSUME NEW k \in 0 .. 3, NEW c \in 0 .. 3, NEW f \in 0 .. 3, NEW a \in 0 .. 3
  PROVE  Or(Or(Or(64 * k, (c * 16) % 256), (f * 4) % 256), a) = 64 * k + 16 * c + 4 * f + a
<1>1. (c * 16) % 256 = 16 * c /\ (f * 4) % 256 = 4 * f
  BY SMT
<1>2. Or(64 * k, 16 * c) = 64 * k + 16 * c
  <2> DEFINE x == 64 * k
             y == 16 * c
  <2>1. x \in 0 .. 255 /\ y \in 0 .. 255 /\ x % 64 = 0 /\ y < 64
    BY SMT
  <2> HIDE DEF x, y
  <2> QED BY ONLY <2>1, OrAdds DEF x, y
<1>3. Or(64 * k + 16 * c, 4 * f) = 64 * k + 16 * c + 4 * f
  <2> DEFINE x == 64 * k + 16 * c
             y == 4 * f
  <2>1. x \in 0 .. 255 /\ y \in 0 .. 255 /\ x % 16 = 0 /\ y < 16
    BY SMT
  <2> HIDE DEF x, y
  <2> QED BY ONLY <2>1, OrAdds DEF x, y
<1>4. Or(64 * k + 16 * c + 4 * f, a) = 64 * k + 16 * c + 4 * f + a
  <2> DEFINE x == 64 * k + 16 * c + 4 * f
  <2>1. x \in 0 .. 255 /\ a \in 0 .. 255 /\ x % 4 = 0 /\ a < 4
    BY SMT
  <2> HIDE DEF x
  <2> QED BY ONLY <2>1, OrAdds DEF x
<1> QED BY <1>1, <1>2, <1>3, <1>4

(* The header of a group.                                                  *)
LEMMA GroupHeaderIs ==
  ASSUME NEW g, g.continuity \in 0 .. 15, g.repetition \in 0 .. 15
  PROVE  /\ GroupHeader(g) \in Octets /\ Len(GroupHeader(g)) = 2
         /\ GroupHeader(g)[1] = 64 /\ GroupHeader(g)[2] = 16 * g.continuity + g.repetition
<1> DEFINE c == g.continuity
           r == g.repetition
           b == 16 * c + r
<1>0. c \in 0 .. 15 /\ r \in 0 .. 15
  OBVIOUS
<1> HIDE DEF c, r
<1>1. (c * 16) % 256 = 16 * c
  BY <1>0, SMT
<1>2. Or(0, 16 * c) = 16 * c
  <2> DEFINE x == 0
             y == 16 * c
  <2>1. x \in 0 .. 255 /\ y \in 0 .. 255 /\ x = 0 /\ x + y = y
    BY <1>0, SMT
  <2> HIDE DEF x, y
  <2>2. Or(x, y) = x + y
    BY ONLY <2>1, OrAdds
  <2>3. Or(x, y) = y
    BY ONLY <2>1, <2>2
  <2> QED BY ONLY <2>3 DEF x, y
<1>3. Or(16 * c, r) = b
  <2> DEFINE x == 16 * c
  <2>1. x \in 0 .. 255 /\ r \in 0 .. 255 /\ x % 16 = 0 /\ r < 16
    BY <1>0, SMT
  <2> HIDE DEF x
  <2> QED BY ONLY <2>1, OrAdds DEF x, b
<1>4. 2^6 = 64
  OBVIOUS
<1>5. GroupHeader(g) = <<64, b>>
  BY ONLY <1>1, <1>2, <1>3, <1>4 DEF GroupHeader, c, r
<1>6. b \in Octet /\ 64 \in Octet
  BY <1>0, OctetIs
<1> HIDE DEF b
<1>7. GroupHeader(g) \in Octets /\ Len(GroupHeader(g)) = 2
  <2> DEFINE x == 64
  <2>1. x \in Octet /\ GroupHeader(g) = <<x, b>>
    BY <1>5, <1>6
  <2> HIDE DEF x
  <2> QED BY ONLY <1>6, <2>1, TwoBytes
<1> QED BY <1>5, <1>7 DEF b, c, r

(* A packet of a slice of bytes that the packet takes.                     *)
Fits(p, bytes) ==
  /\ p.length \in {24, 48, 72, 96} /\ p.continuity \in 0 .. 3 /\ p.first_last \in 0 .. 3
  /\ p.useful \in 0 .. 127 /\ p.padding \in Nat /\ 5 + p.useful + p.padding = p.length
  /\ p.data.from \in Nat /\ p.data.to \in Nat /\ p.useful = p.data.to - p.data.from
  /\ p.data.to <= Len(bytes)

(* Its header, and what a receiver reads in it.                            *)
LEMMA PacketHeaderIs ==
  ASSUME NEW bytes, NEW p, Fits(p, bytes)
  PROVE  LET h == PacketHeader(p)
         IN  /\ h \in Octets /\ Len(h) = 3
             /\ 24 * (h[1] \div 64 + 1) = p.length
             /\ (h[1] \div 16) % 4 = p.continuity /\ (h[1] \div 4) % 4 = p.first_last
             /\ Conf.packet_address < 1024 => (256 * h[1] + h[2]) % 1024 = Conf.packet_address
             /\ h[3] = p.useful
<1> DEFINE c == p.continuity
           f == p.first_last
           u == p.useful
           adr == Conf.packet_address
           a == (adr \div 256) % 4
           n == adr % 256
           h == PacketHeader(p)
<1>1. PICK k \in 0 .. 3 : p.length = 24 * (k + 1)
  <2>1. p.length \in {24, 48, 72, 96}
    BY DEF Fits
  <2>2. 24 = 24 * (0 + 1) /\ 48 = 24 * (1 + 1) /\ 72 = 24 * (2 + 1) /\ 96 = 24 * (3 + 1)
    OBVIOUS
  <2>3. 0 \in 0 .. 3 /\ 1 \in 0 .. 3 /\ 2 \in 0 .. 3 /\ 3 \in 0 .. 3
    OBVIOUS
  <2> QED BY ONLY <2>1, <2>2, <2>3
<1>2. c \in 0 .. 3 /\ f \in 0 .. 3 /\ u \in 0 .. 127
  BY DEF Fits
<1>3. a \in 0 .. 3 /\ n \in 0 .. 255 /\ (adr < 1024 => 256 * a + n = adr)
  <2>1. adr \in Nat
    BY Ports
  <2> HIDE DEF adr
  <2> QED BY ONLY <2>1, SMT DEF a, n
<1> DEFINE b == 64 * k + 16 * c + 4 * f + a
<1>4. h = <<b, n, u>>
  <2>1. LengthBits(p.length) = 64 * k
    BY ONLY <1>1, LengthBitsAre
  <2>2. Or(Or(Or(64 * k, (c * 16) % 256), (f * 4) % 256), a) = b
    <3> HIDE DEF c, f, a
    <3> QED BY ONLY <1>1, <1>2, <1>3, FirstByte DEF b
  <2>3. Or(0, u) = u
    <3> DEFINE x == 0
    <3>1. x \in 0 .. 255 /\ u \in 0 .. 255 /\ x = 0 /\ x + u = u
      <4> HIDE DEF u
      <4> QED BY <1>2
    <3> HIDE DEF x, u
    <3>2. Or(x, u) = x + u
      BY ONLY <3>1, OrAdds
    <3>3. Or(x, u) = u
      BY ONLY <3>1, <3>2
    <3> QED BY ONLY <3>3 DEF x
  <2> HIDE DEF b
  <2> QED BY ONLY <2>1, <2>2, <2>3 DEF PacketHeader, h, c, f, u, a, n, adr
<1> HIDE DEF c, f, u, a, n, adr, h
<1>5. /\ b \in Octet /\ b \div 64 = k /\ (b \div 16) % 4 = c /\ (b \div 4) % 4 = f
      /\ (256 * b + n) % 1024 = 256 * a + n
  <2>1. b = 64 * k + 16 * c + 4 * f + a
    OBVIOUS
  <2> HIDE DEF b
  <2>2. b \in Nat /\ b <= 255
    BY ONLY <1>1, <1>2, <1>3, <2>1, SMT
  <2>3. b \div 64 = k /\ (b \div 16) % 4 = c /\ (b \div 4) % 4 = f
    BY ONLY <1>1, <1>2, <1>3, <2>1, SMT
  <2>4. (256 * b + n) % 1024 = 256 * a + n
    BY ONLY <1>1, <1>2, <1>3, <2>1, SMT
  <2>5. b \in Octet
    BY ONLY <2>2, OctetIs
  <2> QED BY <2>3, <2>4, <2>5
<1> HIDE DEF b
<1>6. n \in Octet /\ u \in Octet
  BY ONLY <1>2, <1>3, OctetIs
<1>7. h \in Octets /\ Len(h) = 3 /\ h[1] = b /\ h[2] = n /\ h[3] = u
  <2>1. <<b, n, u>> \in Seq(Octet)
    BY ONLY <1>5, <1>6
  <2> QED BY ONLY <1>4, <2>1 DEF Octets
<1>8. adr < 1024 => (256 * h[1] + h[2]) % 1024 = adr
  BY ONLY <1>3, <1>5, <1>7
<1>9. 24 * (h[1] \div 64 + 1) = p.length
  BY ONLY <1>1, <1>5, <1>7
<1> QED BY ONLY <1>5, <1>7, <1>8, <1>9 DEF c, f, u, adr, h

(* A slice of bytes, and bytes of padding.                                 *)
LEMMA SliceIs ==
  ASSUME NEW s \in Octets, NEW i \in Nat, NEW j \in Nat, i <= j, j <= Len(s)
  PROVE  /\ SubSeq(s, i + 1, j) \in Octets /\ Len(SubSeq(s, i + 1, j)) = j - i
         /\ \A k \in 1 .. j - i : SubSeq(s, i + 1, j)[k] = s[i + k]
<1>1. \A S : \A q \in Seq(S) : \A a, b \in Nat : a <= b /\ b <= Len(q) =>
        /\ SubSeq(q, a + 1, b) \in Seq(S) /\ Len(SubSeq(q, a + 1, b)) = b - a
        /\ \A k \in 1 .. b - a : SubSeq(q, a + 1, b)[k] = q[a + k]
  OBVIOUS
<1> QED BY <1>1 DEF Octets

(* Padding is bytes.                                                         *)
LEMMA PaddingIs ==
  ASSUME NEW n \in Nat
  PROVE  [i \in 1 .. n |-> 0] \in Octets /\ Len([i \in 1 .. n |-> 0]) = n
<1>1. 0 \in Octet
  BY OctetIs
<1>2. \A S : \A x \in S : [i \in 1 .. n |-> x] \in Seq(S) /\ Len([i \in 1 .. n |-> x]) = n
  OBVIOUS
<1> QED BY <1>1, <1>2 DEF Octets

(* The bytes of a packet, sealed by their CRC.                             *)
LEMMA PacketBytesIs ==
  ASSUME NEW bytes \in Octets, NEW p, Fits(p, bytes)
  PROVE  LET b == PacketBytes(p, bytes)
             q == PacketFields(b)
         IN  /\ b \in Octets /\ Len(b) = p.length /\ CrcFits(b)
             /\ LengthAt(b, 1) = p.length
             /\ q.continuity = p.continuity /\ q.first_last = p.first_last /\ q.command = 0
             /\ Conf.packet_address < 1024 => q.address = Conf.packet_address
             /\ q.data = SubSeq(bytes, p.data.from + 1, p.data.to)
             /\ \E s \in Octets : b = s \o genCRC16(s)
<1> DEFINE h == PacketHeader(p)
           d == SubSeq(bytes, p.data.from + 1, p.data.to)
           z == [i \in 1 .. p.padding |-> 0]
           hd == h \o d
           s == hd \o z
           g == genCRC16(s)
           b == s \o g
           u == p.useful
           m == p.padding
<1>0. /\ u \in 0 .. 127 /\ m \in Nat /\ 5 + u + m = p.length
      /\ p.data.from \in Nat /\ p.data.to \in Nat /\ u = p.data.to - p.data.from
      /\ p.data.to <= Len(bytes)
  BY DEF Fits
<1>u. u \in Nat /\ u <= 127 /\ m \in Nat
  <2>1. u \in 0 .. 127 /\ m \in Nat
    BY <1>0
  <2> HIDE DEF u, m
  <2> QED BY ONLY <2>1
<1>1. /\ h \in Octets /\ Len(h) = 3
      /\ 24 * (h[1] \div 64 + 1) = p.length
      /\ (h[1] \div 16) % 4 = p.continuity /\ (h[1] \div 4) % 4 = p.first_last
      /\ Conf.packet_address < 1024 => (256 * h[1] + h[2]) % 1024 = Conf.packet_address
      /\ h[3] = u
  BY PacketHeaderIs
<1>2. d \in Octets /\ Len(d) = u
  <2> DEFINE i == p.data.from
             j == p.data.to
  <2>1. i \in Nat /\ j \in Nat /\ u = j - i /\ j <= Len(bytes)
    BY <1>0
  <2> HIDE DEF u, i, j
  <2>2. i <= j
    BY ONLY <1>u, <2>1
  <2>3. SubSeq(bytes, i + 1, j) \in Octets /\ Len(SubSeq(bytes, i + 1, j)) = j - i
    BY <2>1, <2>2, SliceIs
  <2> QED BY ONLY <2>1, <2>3 DEF d, i, j
<1>3. z \in Octets /\ Len(z) = m
  BY <1>0, PaddingIs
<1>4. PacketBytes(p, bytes) = b
  BY DEF PacketBytes
<1> HIDE DEF h, z, u, m
<1>a. h \in Octets /\ Len(h) = 3
  BY <1>1
<1> HIDE DEF d
<1>5. hd \in Octets /\ Len(hd) = 3 + u
  BY ONLY <1>a, <1>2, Joined
<1>6. hd[1] = h[1] /\ hd[2] = h[2] /\ hd[3] = h[3]
  <2>1. \A i \in 1 .. Len(h) : hd[i] = h[i]
    BY ONLY <1>a, <1>2, ConcatOctets
  <2> HIDE DEF hd
  <2> QED BY ONLY <1>a, <2>1
<1>7. SubSeq(hd, 4, 3 + u) = d
  <2>1. SubSeq(hd, Len(h) + 1, Len(h) + Len(d)) = d
    BY ONLY <1>a, <1>2, PartsOf
  <2>2. Len(h) + 1 = 4 /\ Len(h) + Len(d) = 3 + u
    BY <1>0, <1>1, <1>2
  <2> HIDE DEF hd
  <2> QED BY ONLY <2>1, <2>2
<1> HIDE DEF hd
<1>8. s \in Octets /\ Len(s) = 3 + u + m
  BY ONLY <1>5, <1>3, Joined
<1>9. s[1] = hd[1] /\ s[2] = hd[2] /\ s[3] = hd[3]
  <2>1. \A i \in 1 .. Len(hd) : s[i] = hd[i]
    BY ONLY <1>5, <1>3, ConcatOctets
  <2> HIDE DEF s
  <2> QED BY ONLY <1>u, <1>5, <2>1
<1>10. SubSeq(s, 4, 3 + u) = SubSeq(hd, 4, 3 + u)
  <2>1. \A i \in 1 .. Len(hd) + 1, j \in 0 .. Len(hd) : SubSeq(s, i, j) = SubSeq(hd, i, j)
    BY ONLY <1>5, <1>3, PartsOf
  <2>2. 4 \in 1 .. Len(hd) + 1 /\ 3 + u \in 0 .. Len(hd)
    BY ONLY <1>u, <1>5
  <2> HIDE DEF s
  <2> QED BY ONLY <2>1, <2>2
<1> HIDE DEF s
<1>11. g \in Octets /\ Len(g) = 2
  BY <1>8, CrcBytes
<1>12. b \in Octets /\ Len(b) = Len(s) + 2 /\ CrcFits(b)
  BY <1>8, SealedFits
<1>13. \E t \in Octets : b = t \o genCRC16(t)
  BY <1>8
<1> HIDE DEF g
<1>14. b[1] = s[1] /\ b[2] = s[2] /\ b[3] = s[3]
  <2>1. \A i \in 1 .. Len(s) : b[i] = s[i]
    BY ONLY <1>8, <1>11, ConcatOctets
  <2> HIDE DEF b
  <2> QED BY ONLY <1>u, <1>8, <2>1
<1>15. SubSeq(b, 4, 3 + u) = SubSeq(s, 4, 3 + u)
  <2>1. \A i \in 1 .. Len(s) + 1, j \in 0 .. Len(s) : SubSeq(b, i, j) = SubSeq(s, i, j)
    BY ONLY <1>8, <1>11, PartsOf
  <2>2. 4 \in 1 .. Len(s) + 1 /\ 3 + u \in 0 .. Len(s)
    BY ONLY <1>u, <1>8
  <2> HIDE DEF b
  <2> QED BY ONLY <2>1, <2>2
<1> HIDE DEF b
<1>16. b[1] = h[1] /\ b[2] = h[2] /\ b[3] = u
  BY ONLY <1>1, <1>6, <1>9, <1>14
<1>17. SubSeq(b, 4, 3 + u) = d
  BY ONLY <1>7, <1>10, <1>15
<1>18. LengthAt(b, 1) = p.length
  BY ONLY <1>1, <1>16 DEF LengthAt
<1> DEFINE q == PacketFields(b)
<1>19. u % 128 = u /\ u \div 128 = 0
  BY ONLY <1>u, SMT
<1>20. /\ q.continuity = p.continuity /\ q.first_last = p.first_last
       /\ q.command = 0 /\ q.data = d
  BY ONLY <1>1, <1>16, <1>17, <1>19 DEF PacketFields
<1>21. Conf.packet_address < 1024 => q.address = Conf.packet_address
  <2>1. q.address = (256 * b[1] + b[2]) % 1024
    BY DEF PacketFields, At
  <2>2. b[1] = h[1] /\ b[2] = h[2]
    BY ONLY <1>16, Zenon
  <2>3. Conf.packet_address < 1024 => (256 * h[1] + h[2]) % 1024 = Conf.packet_address
    BY ONLY <1>1
  <2> HIDE DEF q
  <2> QED BY ONLY <2>1, <2>2, <2>3
<1> HIDE DEF q
<1>22. Len(b) = p.length
  BY ONLY <1>0, <1>8, <1>12
<1> QED BY ONLY <1>4, <1>12, <1>13, <1>18, <1>20, <1>21, <1>22, ZenonT(60) DEF q, d

-----------------------------------------------------------------------------
(***************************************************************************)
(* Packets that follow each other: where a receiver finds them to begin,   *)
(* and the group it joins them to.                                         *)
(***************************************************************************)

(* Bytes that are n packets, all but the last of full length, each telling *)
(* its length.                                                             *)
Train(w, n, last) ==
  /\ w \in Octets /\ n \in Nat /\ n > 0 /\ last \in {24, 48, 72, 96}
  /\ Len(w) = 96 * (n - 1) + last
  /\ \A i \in 1 .. n : LengthAt(w, 96 * (i - 1) + 1) = IF i = n THEN last ELSE 96

(* Where a receiver finds the packets to begin.                            *)
LEMMA StartsAre ==
  ASSUME NEW w, NEW n, NEW last, Train(w, n, last)
  PROVE  /\ DOMAIN Starts(w) = 0 .. Len(w) /\ n \in 1 .. Len(w)
         /\ \A i \in 0 .. Len(w) : Starts(w)[i] = IF i < n THEN 96 * i + 1 ELSE Len(w) + 1
<1> DEFINE L == Len(w)
           next == [k \in 1 .. L |->
                      [at \in Nat |-> IF at \in DOMAIN w THEN at + LengthAt(w, at) ELSE at]]
           start == Starts(w)
<1>1. w \in Octets /\ n \in Nat /\ n > 0 /\ last \in {24, 48, 72, 96}
      /\ L = 96 * (n - 1) + last
  BY DEF Train
<1>2. \A i \in 1 .. n : LengthAt(w, 96 * (i - 1) + 1) = IF i = n THEN last ELSE 96
  BY DEF Train
<1>3. L \in Nat /\ DOMAIN w = 1 .. L /\ \A i \in 1 .. L : w[i] \in Octet
  BY <1>1 DEF Octets
<1>4. \A i \in 1 .. L : LengthAt(w, i) \in Nat
  <2>1. \A x \in Octet : 24 * (x \div 64 + 1) \in Nat
    BY SMT DEF Octet
  <2> QED BY <1>3, <2>1 DEF LengthAt
<1>5. next \in Steppers(L, Nat)
  <2>1. \A at \in Nat : (IF at \in DOMAIN w THEN at + LengthAt(w, at) ELSE at) \in Nat
    BY <1>3, <1>4
  <2> HIDE DEF L
  <2> QED BY <2>1 DEF Steppers
<1>6. start = CHOOSE r : Walks(r, L, 1, next)
  BY Zenon DEF Starts, Walks
<1>7. \A k \in 1 .. L, at \in Nat : next[k][at] = IF at \in 1 .. L THEN at + LengthAt(w, at) ELSE at
  BY <1>3
<1> HIDE DEF next
<1>8. \E r : Walks(r, L, 1, next)
  BY <1>3, <1>5, WalkExists
<1> HIDE DEF start
<1>9. Walks(start, L, 1, next)
  BY <1>6, <1>8, Zenon
<1>10. /\ start \in [0 .. L -> Nat] /\ start[0] = 1
       /\ \A i \in 1 .. L : start[i] = next[i][start[i - 1]]
  <2>1. 1 \in Nat
    OBVIOUS
  <2> HIDE DEF L
  <2>2. L \in Nat
    BY <1>3
  <2>3. start[0] = 1 /\ \A i \in 1 .. L : start[i] = next[i][start[i - 1]]
    BY ONLY <1>9, <2>2 DEF Walks
  <2>4. \A S, s : s \in S => \A m \in Nat : \A f \in Steppers(m, S) : \A r :
          Walks(r, m, s, f) => r \in [0 .. m -> S]
    BY WalkTyped, Zenon
  <2>5. \A f \in Steppers(L, Nat) : \A r : Walks(r, L, 1, f) => r \in [0 .. L -> Nat]
    BY ONLY <2>1, <2>2, <2>4, Zenon
  <2> QED BY ONLY <1>5, <1>9, <2>3, <2>5, Zenon
<1>11. n \in 1 .. L
  <2> HIDE DEF L
  <2> QED BY <1>1, <1>3
<1> DEFINE spot(i) == IF i < n THEN 96 * i + 1 ELSE L + 1
           P == {i \in 0 .. L : start[i] = spot(i)}
<1>12. 0 \in P
  BY <1>1, <1>3, <1>10
<1>13. ASSUME NEW i \in 1 .. L, i - 1 \in P
       PROVE  i \in P
  <2>1. start[i - 1] = spot(i - 1) /\ start[i] = next[i][start[i - 1]]
    BY <1>10, <1>13
  <2>2. i \in Nat /\ i > 0 /\ spot(i - 1) \in Nat
    BY <1>1, <1>3
  <2>3. start[i] = IF spot(i - 1) \in 1 .. L THEN spot(i - 1) + LengthAt(w, spot(i - 1)) ELSE spot(i - 1)
    BY <1>7, <2>1, <2>2
  <2>4. CASE i - 1 >= n
    <3> HIDE DEF L
    <3>1. spot(i - 1) = L + 1 /\ spot(i) = L + 1 /\ L + 1 \notin 1 .. L
      BY <1>1, <1>3, <2>4, <2>2
    <3> QED BY <2>3, <3>1
  <2>5. CASE i - 1 < n
    <3>1. i \in 1 .. n
      BY <1>1, <2>2, <2>5
    <3>2. spot(i - 1) = 96 * (i - 1) + 1
      BY <2>5
    <3>3. LengthAt(w, spot(i - 1)) = IF i = n THEN last ELSE 96
      BY <1>2, <3>1, <3>2
    <3> HIDE DEF L
    <3>4. 96 * (i - 1) + 1 \in 1 .. L
      BY <1>1, <1>3, <3>1
    <3>5. start[i] = 96 * (i - 1) + 1 + (IF i = n THEN last ELSE 96)
      <4> HIDE DEF spot
      <4> QED BY <2>3, <3>2, <3>3, <3>4
    <3>6. start[i] = spot(i)
      BY <1>1, <1>3, <3>1, <3>5
    <3> QED BY <3>6
  <2> QED BY <1>1, <2>2, <2>4, <2>5
<1>14. \A i \in 0 .. L : i \in P
  <2> HIDE DEF P
  <2> QED BY <1>3, <1>12, <1>13, Upwards
<1> QED BY <1>10, <1>11, <1>14 DEF start

(* Which bytes are the n-th packet.                                        *)
Place(w, n) ==
  [i \in 1 .. n |-> [from |-> 96 * (i - 1) + 1, to |-> IF i = n THEN Len(w) ELSE 96 * i]]

(* The receiver finds exactly the packets.                                 *)
LEMMA FramesAre ==
  ASSUME NEW w, NEW n, NEW last, Train(w, n, last)
  PROVE  Frames(w) = Place(w, n)
<1> DEFINE L == Len(w)
           start == Starts(w)
           first(k) == start[k] > L /\ \A m \in 0 .. k - 1 : start[m] <= L
           count == CHOOSE k \in DOMAIN start : first(k)
<1>1. n \in Nat /\ n > 0 /\ last \in {24, 48, 72, 96} /\ L = 96 * (n - 1) + last
  BY DEF Train
<1>2. /\ DOMAIN start = 0 .. L /\ n \in 1 .. L
      /\ \A i \in 0 .. L : start[i] = IF i < n THEN 96 * i + 1 ELSE L + 1
  BY StartsAre
<1>3. L \in Nat
  BY <1>1
<1> HIDE DEF L, start
<1>4. \A i \in 0 .. n - 1 : 96 * i + 1 <= L
  BY <1>1
<1>5. first(n)
  BY <1>1, <1>2, <1>3, <1>4
<1>6. \A k \in 0 .. L : first(k) => k = n
  <2> SUFFICES ASSUME NEW k \in 0 .. L, first(k) PROVE k = n
    OBVIOUS
  <2>1. ~(k < n)
    BY <1>1, <1>2, <1>3, <1>4
  <2>2. ~(n < k)
    <3> SUFFICES ASSUME n < k PROVE FALSE
      OBVIOUS
    <3>1. n \in 0 .. k - 1
      BY <1>1, <1>3
    <3> QED BY <1>1, <1>2, <1>3, <3>1
  <2> QED BY <1>1, <1>3, <2>1, <2>2
<1>7. n \in DOMAIN start
  BY <1>2
<1> HIDE DEF first
<1>8. count = n
  BY <1>2, <1>5, <1>6, <1>7
<1>9. Frames(w) = [i \in 1 .. count |-> [from |-> start[i - 1], to |-> start[i] - 1]]
  BY Zenon DEF Frames, L, start, first
<1> HIDE DEF count
<1>10. ASSUME NEW i \in 1 .. n
       PROVE  start[i - 1] = 96 * (i - 1) + 1 /\ start[i] - 1 = IF i = n THEN L ELSE 96 * i
  <2>1. i - 1 \in 0 .. L /\ i \in 0 .. L
    BY <1>1, <1>2, <1>3
  <2>2. start[i - 1] = IF i - 1 < n THEN 96 * (i - 1) + 1 ELSE L + 1
    BY <1>2, <2>1
  <2>3. start[i] = IF i < n THEN 96 * i + 1 ELSE L + 1
    BY <1>2, <2>1
  <2> QED BY <1>1, <1>3, <2>2, <2>3
<1>11. [i \in 1 .. n |-> [from |-> start[i - 1], to |-> start[i] - 1]] = Place(w, n)
  BY <1>10 DEF Place, L
<1> QED BY <1>8, <1>9, <1>11

(* w is the packets ps of a group of these bytes, one after the other, all *)
(* of full length but perhaps the last.                                    *)
Carries(w, ps, bytes) ==
  /\ w \in Octets
  /\ Len(w) = IF Len(ps) = 0 THEN 0 ELSE 96 * (Len(ps) - 1) + ps[Len(ps)].length
  /\ \A i \in 1 .. Len(ps) :
       /\ Fits(ps[i], bytes)
       /\ i < Len(ps) => ps[i].length = 96
       /\ SubSeq(w, 96 * (i - 1) + 1, 96 * (i - 1) + ps[i].length) = PacketBytes(ps[i], bytes)

(* What is used of Append.                                                   *)
LEMMA Appending ==
  \A S : \A s \in Seq(S), x \in S :
    /\ Len(Append(s, x)) = Len(s) + 1 /\ Len(s) \in Nat
    /\ \A i \in 1 .. Len(s) : Append(s, x)[i] = s[i]
    /\ Append(s, x)[Len(s) + 1] = x
OBVIOUS

(* One more packet, after none but full ones.                              *)
LEMMA CarriesMore ==
  ASSUME NEW S, NEW ps \in Seq(S), NEW p \in S, NEW bytes \in Octets, NEW w,
         Carries(w, ps, bytes), \A i \in 1 .. Len(ps) : ps[i].length = 96, Fits(p, bytes)
  PROVE  Carries(w \o PacketBytes(p, bytes), Append(ps, p), bytes)
<1> DEFINE n == Len(ps)
           b == PacketBytes(p, bytes)
           v == w \o b
           qs == Append(ps, p)
<1>1. w \in Octets /\ b \in Octets /\ Len(b) = p.length /\ n \in Nat
  BY PacketBytesIs DEF Carries
<1>2. Len(w) = 96 * n
  <2>1. Len(w) = IF Len(ps) = 0 THEN 0 ELSE 96 * (Len(ps) - 1) + ps[Len(ps)].length
    BY DEF Carries
  <2>2. CASE Len(ps) = 0
    BY <2>1, <2>2
  <2>3. CASE Len(ps) # 0
    <3>1. Len(ps) \in 1 .. Len(ps)
      BY <1>1, <2>3
    <3>2. ps[Len(ps)].length = 96
      BY <3>1
    <3> QED BY <1>1, <2>1, <2>3, <3>2
  <2> QED BY <2>2, <2>3
<1>3. /\ Len(qs) = n + 1 /\ qs[n + 1] = p
      /\ \A i \in 1 .. n : qs[i] = ps[i]
  BY Appending
<1>4. p.length \in Nat
  BY DEF Fits
<1> HIDE DEF b
<1>5. v \in Octets /\ Len(v) = Len(w) + Len(b)
  BY ONLY <1>1, Joined
<1>6. /\ SubSeq(v, Len(w) + 1, Len(w) + Len(b)) = b
      /\ \A i \in 1 .. Len(w) + 1, j \in 0 .. Len(w) : SubSeq(v, i, j) = SubSeq(w, i, j)
  BY ONLY <1>1, PartsOf
<1> HIDE DEF v, qs, n
<1>7. ASSUME NEW i \in 1 .. n + 1
      PROVE  /\ Fits(qs[i], bytes)
             /\ i < n + 1 => qs[i].length = 96
             /\ SubSeq(v, 96 * (i - 1) + 1, 96 * (i - 1) + qs[i].length) = PacketBytes(qs[i], bytes)
  <2>1. CASE i = n + 1
    <3>1. qs[i] = p /\ 96 * (i - 1) = Len(w) /\ qs[i].length = Len(b)
      BY <1>1, <1>2, <1>3, <2>1
    <3>2. SubSeq(v, 96 * (i - 1) + 1, 96 * (i - 1) + qs[i].length) = b
      BY ONLY <1>6, <3>1
    <3>3. Fits(qs[i], bytes) /\ ~(i < n + 1)
      BY <1>1, <2>1, <3>1
    <3>4. PacketBytes(qs[i], bytes) = b
      BY <3>1 DEF b
    <3> QED BY ONLY <3>2, <3>3, <3>4
  <2>2. CASE i # n + 1
    <3>1. i \in 1 .. n
      BY <1>1, <2>2
    <3>2. qs[i] = ps[i] /\ ps[i].length = 96 /\ Fits(ps[i], bytes)
      BY <1>3, <3>1 DEF Carries, n
    <3>3. SubSeq(w, 96 * (i - 1) + 1, 96 * (i - 1) + ps[i].length) = PacketBytes(ps[i], bytes)
      BY <3>1 DEF Carries, n
    <3>4. 96 * (i - 1) + 1 \in 1 .. Len(w) + 1 /\ 96 * (i - 1) + 96 \in 0 .. Len(w)
      BY <1>1, <1>2, <3>1
    <3>5. SubSeq(v, 96 * (i - 1) + 1, 96 * (i - 1) + 96) = SubSeq(w, 96 * (i - 1) + 1, 96 * (i - 1) + 96)
      BY ONLY <1>6, <3>4
    <3> QED BY ONLY <3>2, <3>3, <3>5
  <2> QED BY <2>1, <2>2
<1>8. Len(v) = IF Len(qs) = 0 THEN 0 ELSE 96 * (Len(qs) - 1) + qs[Len(qs)].length
  BY <1>1, <1>2, <1>3, <1>4, <1>5
<1>9. Carries(v, qs, bytes)
  BY ONLY <1>3, <1>5, <1>7, <1>8 DEF Carries
<1> QED BY <1>9 DEF v, qs, b

(* What the receiver finds are the packets.                                *)
LEMMA CarriesFrames ==
  ASSUME NEW ps, NEW w, NEW bytes \in Octets, Carries(w, ps, bytes), Len(ps) \in Nat, Len(ps) > 0
  PROVE  /\ Frames(w) = Place(w, Len(ps))
         /\ DOMAIN Frames(w) = 1 .. Len(ps) /\ Len(Frames(w)) = Len(ps)
         /\ \A i \in 1 .. Len(ps) :
              /\ FrameBytes(w, Frames(w)[i]) = PacketBytes(ps[i], bytes)
              /\ Frames(w)[i].from = 96 * (i - 1) + 1
              /\ Frames(w)[i].to = 96 * (i - 1) + ps[i].length
              /\ Frames(w)[i].to <= Len(w)
<1> DEFINE n == Len(ps)
           last == ps[n].length
           spot(i) == 96 * (i - 1)
<1>1. w \in Octets /\ Len(w) = 96 * (n - 1) + last
  BY DEF Carries
<1>2. \A i \in 1 .. n : /\ Fits(ps[i], bytes)
                        /\ ps[i].length = IF i = n THEN last ELSE 96
                        /\ SubSeq(w, spot(i) + 1, spot(i) + ps[i].length) = PacketBytes(ps[i], bytes)
  <2> SUFFICES ASSUME NEW i \in 1 .. n
               PROVE  /\ Fits(ps[i], bytes)
                      /\ ps[i].length = IF i = n THEN last ELSE 96
                      /\ SubSeq(w, spot(i) + 1, spot(i) + ps[i].length) = PacketBytes(ps[i], bytes)
    OBVIOUS
  <2>1. /\ Fits(ps[i], bytes)
        /\ i < n => ps[i].length = 96
        /\ SubSeq(w, spot(i) + 1, spot(i) + ps[i].length) = PacketBytes(ps[i], bytes)
    BY DEF Carries
  <2>2. ps[i].length = IF i = n THEN last ELSE 96
    BY <2>1
  <2> QED BY <2>1, <2>2
<1>3. last \in {24, 48, 72, 96}
  BY <1>2 DEF Fits
<1> HIDE DEF last
<1>4. ASSUME NEW i \in 1 .. n
      PROVE  /\ LengthAt(w, spot(i) + 1) = ps[i].length
             /\ ps[i].length \in {24, 48, 72, 96} /\ spot(i) + ps[i].length <= Len(w)
  <2> DEFINE b == PacketBytes(ps[i], bytes)
             l == ps[i].length
             a == spot(i)
  <2>1. LengthAt(b, 1) = l
    BY <1>2, PacketBytesIs
  <2>2. b = SubSeq(w, a + 1, a + l)
    BY <1>2
  <2>3. l \in {24, 48, 72, 96}
    BY <1>2 DEF Fits
  <2>4. l = IF i = n THEN last ELSE 96
    BY <1>2
  <2>5. a \in Nat /\ l \in Nat /\ l >= 24 /\ a + l <= Len(w) /\ Len(w) \in Nat
    <3> HIDE DEF l
    <3> QED BY <1>1, <1>3, <2>3, <2>4
  <2> HIDE DEF b, l, a
  <2>6. SubSeq(w, a + 1, a + l)[1] = w[a + 1]
    <3>1. \A k \in 1 .. (a + l) - a : SubSeq(w, a + 1, a + l)[k] = w[a + k]
      BY <1>1, <2>5, SliceIs
    <3>2. 1 \in 1 .. (a + l) - a
      BY <2>5
    <3> QED BY <3>1, <3>2
  <2>7. LengthAt(w, a + 1) = LengthAt(b, 1)
    BY <2>2, <2>6 DEF LengthAt
  <2> QED BY <2>1, <2>3, <2>5, <2>7 DEF l, a
<1>5. \A i \in 1 .. n : LengthAt(w, 96 * (i - 1) + 1) = IF i = n THEN last ELSE 96
  BY <1>2, <1>4
<1>6. Train(w, n, last)
  BY ONLY <1>1, <1>3, <1>5, Len(ps) \in Nat, Len(ps) > 0 DEF Train
<1>7. Frames(w) = Place(w, n)
  BY <1>6, FramesAre
<1>8. DOMAIN Place(w, n) = 1 .. n /\ Len(Place(w, n)) = n
  BY DEF Place
<1>9. ASSUME NEW i \in 1 .. n
      PROVE  /\ Place(w, n)[i].from = 96 * (i - 1) + 1
             /\ Place(w, n)[i].to = 96 * (i - 1) + ps[i].length
  <2>1. Place(w, n)[i] = [from |-> 96 * (i - 1) + 1, to |-> IF i = n THEN Len(w) ELSE 96 * i]
    BY DEF Place
  <2>2. ps[i].length = IF i = n THEN last ELSE 96
    BY <1>2
  <2> HIDE DEF n
  <2> QED BY <1>1, <2>1, <2>2
<1>10. ASSUME NEW i \in 1 .. n
       PROVE  FrameBytes(w, Place(w, n)[i]) = PacketBytes(ps[i], bytes)
  BY <1>2, <1>9, Zenon DEF FrameBytes
<1> QED BY <1>4, <1>7, <1>8, <1>9, <1>10

(* The slices follow each other from the first byte to the last.           *)
Covers(ps, bytes) ==
  /\ \A i \in 1 .. Len(ps) : ps[i].data.from = IF i = 1 THEN 0 ELSE ps[i - 1].data.to
  /\ ps[Len(ps)].data.to = Len(bytes)

(* A sequence of bytes grows by the slice that follows.                      *)
LEMMA Prefixes ==
  ASSUME NEW s \in Octets, NEW i \in Nat, NEW j \in Nat, i <= j, j <= Len(s)
  PROVE  /\ SubSeq(s, 1, i) \o SubSeq(s, i + 1, j) = SubSeq(s, 1, j)
         /\ SubSeq(s, 1, 0) = <<>> /\ SubSeq(s, 1, Len(s)) = s
         /\ SubSeq(s, 1, i) \in Octets /\ SubSeq(s, i + 1, j) \in Octets
<1>1. \A S : \A q \in Seq(S) : \A a, b \in Nat : a <= b /\ b <= Len(q) =>
        SubSeq(q, 1, a) \o SubSeq(q, a + 1, b) = SubSeq(q, 1, b)
  OBVIOUS
<1>2. \A S : \A q \in Seq(S) : SubSeq(q, 1, 0) = <<>> /\ SubSeq(q, 1, Len(q)) = q
  OBVIOUS
<1>3. \A S : \A q \in Seq(S) : \A a, b \in Nat : a <= b /\ b <= Len(q) =>
        SubSeq(q, 1, a) \in Seq(S) /\ SubSeq(q, a + 1, b) \in Seq(S)
  OBVIOUS
<1> QED BY <1>1, <1>2, <1>3 DEF Octets

(* The data of the packets join to the group.                              *)
LEMMA GroupOfIs ==
  ASSUME NEW ps, NEW w, NEW bytes \in Octets, Carries(w, ps, bytes), Covers(ps, bytes),
         Len(ps) \in Nat, Len(ps) > 0
  PROVE  GroupOf(w) = bytes
<1> DEFINE n == Len(ps)
           fs == Frames(w)
           part(i) == PacketFields(FrameBytes(w, fs[i])).data
           join == [k \in 1 .. Len(fs) |-> [before \in Octets |-> before \o part(k)]]
           joined == CHOOSE r : Walks(r, Len(fs), <<>>, join)
           upto(i) == IF i = 0 THEN 0 ELSE ps[i].data.to
<1>1. GroupOf(w) = joined[Len(fs)]
  BY Zenon DEF GroupOf, Walks, Octets
<1>2. Len(fs) = n /\ \A i \in 1 .. n : FrameBytes(w, fs[i]) = PacketBytes(ps[i], bytes)
  BY CarriesFrames
<1>n. n \in Nat /\ n > 0 /\ Len(bytes) \in Nat
  BY DEF Octets
<1>3. \A i \in 1 .. n : part(i) = SubSeq(bytes, ps[i].data.from + 1, ps[i].data.to)
  <2> SUFFICES ASSUME NEW i \in 1 .. n
               PROVE  part(i) = SubSeq(bytes, ps[i].data.from + 1, ps[i].data.to)
    OBVIOUS
  <2>1. Fits(ps[i], bytes)
    BY DEF Carries
  <2>2. PacketFields(PacketBytes(ps[i], bytes)).data = SubSeq(bytes, ps[i].data.from + 1, ps[i].data.to)
    BY ONLY <2>1, PacketBytesIs, SMTT(60)
  <2> QED BY ONLY <1>2, <2>2
<1>4. \A i \in 1 .. n : upto(i) \in Nat /\ upto(i - 1) \in Nat /\ upto(i - 1) <= upto(i)
                        /\ upto(i) <= Len(bytes) /\ ps[i].data.from = upto(i - 1)
                        /\ ps[i].data.to = upto(i)
  <2> SUFFICES ASSUME NEW i \in 1 .. n
               PROVE  upto(i) \in Nat /\ upto(i - 1) \in Nat /\ upto(i - 1) <= upto(i)
                        /\ upto(i) <= Len(bytes) /\ ps[i].data.from = upto(i - 1)
                        /\ ps[i].data.to = upto(i)
    OBVIOUS
  <2>1. /\ ps[i].data.from \in Nat /\ ps[i].data.to \in Nat /\ ps[i].useful = ps[i].data.to - ps[i].data.from
        /\ ps[i].data.to <= Len(bytes) /\ ps[i].useful \in 0 .. 127
    BY DEF Carries, Fits
  <2>2. ps[i].data.from = IF i = 1 THEN 0 ELSE ps[i - 1].data.to
    BY DEF Covers
  <2>3. ps[i].data.from = upto(i - 1) /\ upto(i) = ps[i].data.to
    BY <2>2
  <2> DEFINE a == ps[i].data.from
             b == ps[i].data.to
             u == ps[i].useful
  <2>4. a \in Nat /\ b \in Nat /\ u = b - a /\ u \in 0 .. 127
    BY <2>1
  <2> HIDE DEF a, b, u
  <2>5. a <= b
    BY ONLY <2>4
  <2> QED BY ONLY <2>1, <2>3, <2>4, <2>5 DEF a, b
<1>5. upto(0) = 0 /\ upto(n) = Len(bytes)
  BY <1>n DEF Covers
<1> HIDE DEF upto, part, fs, n
<1>6. \A i \in 1 .. n : part(i) = SubSeq(bytes, upto(i - 1) + 1, upto(i))
  BY <1>3, <1>4
<1>7. \A i \in 1 .. n : part(i) \in Octets
  <2> SUFFICES ASSUME NEW i \in 1 .. n PROVE part(i) \in Octets
    OBVIOUS
  <2>1. SubSeq(bytes, upto(i - 1) + 1, upto(i)) \in Octets
    BY <1>4, Prefixes
  <2> QED BY <1>6, <2>1
<1>8. join \in Steppers(n, Octets)
  <2>1. \A i \in 1 .. n : \A b \in Octets : b \o part(i) \in Octets
    BY <1>7, Joined
  <2> QED BY <1>2, <2>1 DEF Steppers
<1>9. \A i \in 1 .. n, b \in Octets : join[i][b] = b \o part(i)
  BY <1>2
<1>10. <<>> \in Octets
  BY DEF Octets
<1> HIDE DEF join
<1>11. \E r : Walks(r, n, <<>>, join)
  BY <1>n, <1>8, <1>10, WalkExists
<1>12. Walks(joined, n, <<>>, join)
  BY <1>2, <1>11, Zenon
<1> HIDE DEF joined
<1>13. /\ joined[0] = <<>> /\ \A i \in 1 .. n : joined[i] = join[i][joined[i - 1]]
  BY ONLY <1>n, <1>8, <1>10, <1>12, WalkTyped
<1> DEFINE P == {i \in 0 .. n : joined[i] = SubSeq(bytes, 1, upto(i))}
<1>14. 0 \in P
  <2>1. SubSeq(bytes, 1, 0) = <<>>
    <3>1. 0 \in Nat /\ 0 <= 0 /\ 0 <= Len(bytes)
      BY <1>n
    <3> QED BY <3>1, Prefixes
  <2>2. 0 \in 0 .. n
    BY <1>n
  <2> QED BY ONLY <1>5, <1>13, <2>1, <2>2
<1>15. ASSUME NEW i \in 1 .. n, i - 1 \in P PROVE i \in P
  <2>1. joined[i - 1] = SubSeq(bytes, 1, upto(i - 1))
    BY <1>15
  <2>2. /\ SubSeq(bytes, 1, upto(i - 1)) \o SubSeq(bytes, upto(i - 1) + 1, upto(i)) = SubSeq(bytes, 1, upto(i))
        /\ SubSeq(bytes, 1, upto(i - 1)) \in Octets
    BY <1>4, Prefixes
  <2>3. joined[i] = SubSeq(bytes, 1, upto(i - 1)) \o part(i)
    BY ONLY <1>9, <1>13, <2>1, <2>2, i \in 1 .. n
  <2>4. joined[i] = SubSeq(bytes, 1, upto(i))
    BY ONLY <1>6, <2>2, <2>3, i \in 1 .. n
  <2> QED BY <1>n, <2>4
<1>16. n \in P
  <2> HIDE DEF P
  <2>1. Climbs(P, n)
    BY <1>n, <1>14, <1>15 DEF Climbs
  <2> QED BY <2>1, Top, Zenon
<1>17. SubSeq(bytes, 1, Len(bytes)) = bytes
  <2>1. 0 \in Nat /\ 0 <= 0 /\ 0 <= Len(bytes)
    BY <1>n
  <2> QED BY <2>1, Prefixes
<1> QED BY <1>1, <1>2, <1>5, <1>16, <1>17

-----------------------------------------------------------------------------
(***************************************************************************)
(* The invariant. The proofs about the two generators are brought to the   *)
(* variables that stand for their members; the parts after them relate     *)
(* what each step of wrap_data() hands to the next.                        *)
(***************************************************************************)

PP == INSTANCE PacketGenerator_proofs
        WITH Groups <- Grouper!Groups, kAddress <- Conf.packet_address

GP == INSTANCE MscDataGroupGenerator_proofs WITH m_continuity_index <- group_index

-----------------------------------------------------------------------------
(* What the generators build of is bytes and their number.                 *)
Sized(bytes) == [bytes |-> bytes, size |-> Len(bytes)]

(* Where wrap_data() is, and what it has been given.                       *)
Called ==
  /\ pc \in {"receive", "udp", "ip", "group", "split", "pack", "write", "damaged"}
  /\ payload \in Octets /\ Len(payload) <= 1024
  /\ pc \notin {"receive", "damaged"} => payload \in Payloads
  /\ calls \in Nat /\ (pc = "damaged" => calls > 0)

(* The layers, each from when it is serialised.                            *)
Layers ==
  /\ pc = "ip" => segment = UdpSegment(Conf, payload)
  /\ pc \in {"group", "split", "pack", "write"} => datagram = Made(payload)

(* The data group is the one of the datagram.                              *)
GroupMade ==
  /\ group_bytes \in Octets
  /\ pc \in {"split", "pack", "write"} =>
       /\ group \in Grouper!Groups
       /\ group.datagram = Sized(Made(payload))
       /\ group.size = 4 + Len(Made(payload))
       /\ group.continuity = group_index /\ group.repetition = m_repetition_index
       /\ group_bytes = GroupBytes(group)

(* The packets so far are what is written so far, full ones until the      *)
(* last; a call that returned leaves them until the next one splits.       *)
PacketsWritten ==
  /\ building <=> pc = "pack"
  /\ pc \in {"pack", "write"} =>
       rest.group = group /\ rest.to = group.size /\ Carries(written, packets, group_bytes)
  /\ pc = "pack" => \A i \in 1 .. Len(packets) : packets[i].length = 96
  /\ pc = "write" => packets # <<>>
  /\ pc \in {"receive", "damaged"} /\ calls > 0 =>
       packets # <<>> /\ Carries(written, packets, group_bytes)

(* The positions of a burst that begins somewhere.                         *)
Hit(start, burst) == {start + o : o \in burst}

(* The receiver gets what was written, or what a burst made of it.         *)
BytesTaken ==
  /\ pc = "receive" => taken = written
  /\ pc = "damaged" =>
       \E start \in Nat, burst \in Bursts : taken = Flipped(written, Hit(start, burst))

Inv ==
  /\ PP!Inv /\ GP!Inv
  /\ Called /\ Layers /\ GroupMade /\ PacketsWritten /\ BytesTaken

-----------------------------------------------------------------------------
(* The generators, with what is proved of them.                            *)

(* The assumptions of the modules they are in.                             *)
LEMMA DatagramsHaveSize ==
  /\ \A p \in Payloads : p \in Octets /\ Len(p) <= 1024 /\ Sized(Made(p)) \in Datagrams
  /\ \A d \in Datagrams : d.size \in Nat
<1>1. \A p \in Payloads : p \in Octets /\ Len(p) <= 1024
  BY PayloadsAssumption DEF Octets
<1>2. \A p \in Payloads : Len(Made(p)) \in Nat
  <2>1. \A p \in Payloads : Made(p) \in Octets
    BY <1>1, MadeIs
  <2> QED BY <2>1 DEF Octets
<1>3. Datagrams = {Sized(Made(p)) : p \in Payloads}
  BY DEF Datagrams, Sized, Made
<1>4. \A p \in Payloads : Sized(Made(p)).size = Len(Made(p))
  BY DEF Sized
<1> QED BY ONLY <1>1, <1>2, <1>3, <1>4

(* A data group has a size and is not the value for none.                    *)
LEMMA GroupsHaveSize ==
  (\A g \in Grouper!Groups : g.size \in Nat) /\ NoGroup \notin Grouper!Groups
BY OutsidersAssumption DEF Grouper!Groups

(* The configured packet address is what the generator takes.                *)
LEMMA AddressFits == Conf.packet_address \in Nat /\ Conf.packet_address < 65536
<1>1. Conf.packet_address \in Word16
  BY ONLY ConfAssumption, ZenonT(60)
<1>2. \A n \in Word16 : n \in Nat /\ n < 65536
  BY ONLY SMTT(60) DEF Word16
<1> QED BY <1>1, <1>2

(* They start in their own invariants.                                     *)
LEMMA GeneratorsInit == (Grouper!Init => GP!Inv) /\ (Packer!Init => PP!Inv)
<1>1. Grouper!Init => GP!Init
  BY DEF Grouper!Init, GP!Init
<1>2. Packer!Init => PP!Init
  BY DEF Packer!Init, PP!Init, Packer!OneAndOnly, PP!OneAndOnly
<1>3. GP!Init => GP!Inv
  BY DatagramsHaveSize, OutsidersAssumption, GP!InitInv
<1>4. PP!Init => PP!Inv
  BY GroupsHaveSize, AddressFits, PP!InitInv
<1> QED BY <1>1, <1>2, <1>3, <1>4

(* What wrap_data() knows of a data group it had built.                    *)
LEMMA GrouperBuild ==
  ASSUME GP!Inv, NEW d \in Datagrams, Grouper!Build(d)
  PROVE  /\ GP!Inv' /\ group' \in Grouper!Groups
         /\ group'.datagram = d /\ group'.size = 2 + d.size + 2
         /\ group'.continuity = group_index' /\ group'.repetition = m_repetition_index'
<1>1. GP!Build(d)
  BY DEF Grouper!Build, GP!Build, Grouper!NextIndex, GP!NextIndex, Grouper!Remember,
         GP!Remember, Grouper!Group, GP!Group
<1>2. GP!Inv'
  <2>1. GP!Next
    BY <1>1 DEF GP!Next
  <2> QED
    BY <2>1, DatagramsHaveSize, OutsidersAssumption, GP!NextInv
<1>3. /\ group'.datagram = d /\ group'.size = 2 + d.size + 2
      /\ group'.continuity = group_index' /\ group'.repetition = m_repetition_index'
  BY <1>1 DEF GP!Build, GP!Group
<1>4. group' \in GP!Groups
  BY <1>1, <1>2, DatagramsHaveSize DEF GP!Build, GP!Group, GP!Groups, GP!Inv, GP!TypeOK
<1> QED
  BY <1>2, <1>3, <1>4 DEF GP!Groups, Grouper!Groups

(* The module of the packer is instantiated twice, by Wire and here with   *)
(* the proofs about it; both mean the same.                                *)
LEMMA PackerSame ==
  /\ \A g : Packer!Build(g) => PP!Build(g)
  /\ Packer!BuildSplit => PP!BuildSplit
  /\ Packer!BuildLast => PP!BuildLast
<1> USE DEF Packer!NeedsSplit, PP!NeedsSplit, Packer!SizeOf, PP!SizeOf,
      Packer!SplitFirstLast, PP!SplitFirstLast, Packer!LastFirstLast, PP!LastFirstLast,
      Packer!kPacketDataLengths, PP!kPacketDataLengths, Packer!kPacketLengths,
      PP!kPacketLengths, Packer!Assemble, PP!Assemble, Packer!SplitHead, PP!SplitHead,
      Packer!SplitTail, PP!SplitTail, Packer!LastLength, PP!LastLength,
      Packer!NextContinuity, PP!NextContinuity, Packer!LastOfGroup, PP!LastOfGroup,
      Packer!OneAndOnly, PP!OneAndOnly, Packer!FirstOfGroup, PP!FirstOfGroup,
      Packer!Intermediate, PP!Intermediate
<1>2. \A g : Packer!Build(g) => PP!Build(g)
  BY DEF Packer!Build, PP!Build
<1>3. Packer!BuildSplit => PP!BuildSplit
  BY Zenon DEF Packer!BuildSplit, PP!BuildSplit
<1>4. Packer!BuildLast => PP!BuildLast
  BY Zenon DEF Packer!BuildLast, PP!BuildLast
<1> QED
  BY <1>2, <1>3, <1>4

(* A call of the packet generator starts with the whole group and no       *)
(* packets.                                                                *)
LEMMA PackerBuild ==
  ASSUME PP!Inv, NEW g \in Grouper!Groups, Packer!Build(g)
  PROVE  /\ PP!Inv' /\ building' /\ packets' = <<>>
         /\ rest'.group = g /\ rest'.to = g.size
<1>1. PP!Build(g)
  BY PackerSame
<1>2. PP!Next
  BY <1>1 DEF PP!Next
<1>3. PP!Inv'
  BY <1>2, GroupsHaveSize, AddressFits, PP!NextInv
<1> QED
  BY <1>1, <1>3 DEF PP!Build

(* Both kinds of invocation add one packet, a full one when it is not the  *)
(* last.                                                                   *)
LEMMA PackerInvocation ==
  ASSUME PP!Inv, Packer!BuildSplit \/ Packer!BuildLast
  PROVE  /\ PP!Inv'
         /\ rest'.group = rest.group /\ rest'.to = rest.to
         /\ packets \in Seq(PP!Packet)
         /\ \E p \in PP!Packet : /\ packets' = Append(packets, p)
                                 /\ Packer!BuildSplit => p.length = 96
         /\ Packer!BuildSplit => building'
         /\ Packer!BuildLast => ~building'
<1>1. PP!BuildSplit \/ PP!BuildLast
  BY PackerSame
<1>2. PP!Inv'
  <2>1. PP!Next
    BY <1>1 DEF PP!Next
  <2> QED
    BY <2>1, GroupsHaveSize, AddressFits, PP!NextInv
<1>3. rest \in PP!Slice /\ packets \in Seq(PP!Packet) /\ packets' \in Seq(PP!Packet)
  BY <1>2 DEF PP!Inv, PP!TypeOK
<1>4. rest'.group = rest.group /\ rest'.to = rest.to
  BY <1>1, <1>3 DEF PP!BuildSplit, PP!BuildLast, PP!SplitTail, PP!Slice
<1>5. PICK p : packets' = Append(packets, p) /\ (PP!BuildSplit => p.length = 96)
  <2>1. PP!kPacketDataLengths[3] + 5 = 96
    BY DEF PP!kPacketDataLengths, PP!kPacketLengths
  <2>2. CASE PP!BuildSplit
    BY <2>1, <2>2 DEF PP!BuildSplit, PP!Assemble
  <2>3. CASE ~PP!BuildSplit
    BY <1>1, <2>3 DEF PP!BuildLast
  <2> QED BY <2>2, <2>3
<1>6. p \in PP!Packet
  <2>1. \A S, x : \A s \in Seq(S) : Append(s, x)[Len(s) + 1] = x /\ Len(Append(s, x)) = Len(s) + 1 /\ Len(s) \in Nat
    OBVIOUS
  <2>2. packets'[Len(packets) + 1] = p /\ Len(packets) + 1 \in 1 .. Len(packets')
    BY <1>3, <1>5, <2>1
  <2> QED BY <1>3, <2>2
<1>7. Packer!BuildSplit => p.length = 96
  BY <1>5, PackerSame
<1>8. (Packer!BuildSplit => building') /\ (Packer!BuildLast => ~building')
  <2>1. Packer!BuildSplit => building'
    BY DEF Packer!BuildSplit, PP!Inv, PP!TypeOK
  <2> QED BY <2>1 DEF Packer!BuildLast
<1> QED
  BY <1>2, <1>3, <1>4, <1>5, <1>6, <1>7, <1>8

(* The generators' invariants when they are not called.                    *)
LEMMA GeneratorsRest ==
  /\ PP!Inv /\ UNCHANGED packerVars => PP!Inv'
  /\ GP!Inv /\ UNCHANGED grouperVars => GP!Inv'
<1>1. ASSUME PP!Inv, UNCHANGED packerVars PROVE PP!Inv'
  <2>1. UNCHANGED PP!vars
    BY <1>1 DEF packerVars, PP!vars
  <2> QED
    BY <1>1, <2>1, GroupsHaveSize, AddressFits, PP!NextInv
<1>2. ASSUME GP!Inv, UNCHANGED grouperVars PROVE GP!Inv'
  <2>1. UNCHANGED GP!vars
    BY <1>2 DEF grouperVars, GP!vars
  <2> QED
    BY <1>2, <2>1, DatagramsHaveSize, OutsidersAssumption, GP!NextInv
<1> QED
  BY <1>1, <1>2

(* The bytes of a data group.                                              *)
LEMMA GroupBytesIs ==
  ASSUME NEW g, g.continuity \in 0 .. 15, g.repetition \in 0 .. 15, g.datagram.bytes \in Octets
  PROVE  LET b == GroupBytes(g)
         IN  /\ b \in Octets /\ Len(b) = 4 + Len(g.datagram.bytes) /\ CrcFits(b)
             /\ b[1] = 64 /\ b[2] = 16 * g.continuity + g.repetition
             /\ SubSeq(b, 3, Len(b) - 2) = g.datagram.bytes
<1> DEFINE h == GroupHeader(g)
           d == g.datagram.bytes
           s == h \o d
           c == genCRC16(s)
           b == s \o c
<1>1. h \in Octets /\ Len(h) = 2 /\ h[1] = 64 /\ h[2] = 16 * g.continuity + g.repetition
  BY GroupHeaderIs
<1>2. d \in Octets /\ Len(d) \in Nat
  BY DEF Octets
<1>3. GroupBytes(g) = b
  BY DEF GroupBytes
<1>h. h \in Octets /\ Len(h) = 2
  BY <1>1
<1> HIDE DEF h, d
<1>4. s \in Octets /\ Len(s) = 2 + Len(d)
  BY ONLY <1>h, <1>2, Joined
<1>5. (\A i \in 1 .. Len(h) : s[i] = h[i]) /\ SubSeq(s, Len(h) + 1, Len(h) + Len(d)) = d
  BY ONLY <1>h, <1>2, ConcatOctets, PartsOf
<1> HIDE DEF s
<1>6. c \in Octets /\ Len(c) = 2
  BY <1>4, CrcBytes
<1>7. b \in Octets /\ Len(b) = Len(s) + 2 /\ CrcFits(b)
  BY <1>4, SealedFits
<1> HIDE DEF c
<1>8. (\A i \in 1 .. Len(s) : b[i] = s[i])
  BY ONLY <1>4, <1>6, ConcatOctets
<1>9. \A i \in 1 .. Len(s) + 1, j \in 0 .. Len(s) : SubSeq(b, i, j) = SubSeq(s, i, j)
  BY ONLY <1>4, <1>6, PartsOf
<1> HIDE DEF b
<1>10. b[1] = h[1] /\ b[2] = h[2]
  <2>1. 1 \in 1 .. Len(h) /\ 2 \in 1 .. Len(h) /\ 1 \in 1 .. Len(s) /\ 2 \in 1 .. Len(s)
    BY ONLY <1>h, <1>2, <1>4
  <2> QED BY ONLY <1>5, <1>8, <2>1
<1>11. SubSeq(b, 3, Len(b) - 2) = d
  <2>1. Len(b) - 2 = Len(h) + Len(d) /\ Len(h) + 1 = 3
    BY ONLY <1>h, <1>2, <1>4, <1>7
  <2>2. 3 \in 1 .. Len(s) + 1 /\ 2 + Len(d) \in 0 .. Len(s) /\ Len(b) - 2 = 2 + Len(d)
    BY ONLY <1>2, <1>4, <1>7
  <2> QED BY ONLY <1>5, <1>9, <2>1, <2>2
<1>12. Len(b) = 4 + Len(d)
  BY ONLY <1>2, <1>4, <1>7
<1> QED BY ONLY <1>1, <1>3, <1>7, <1>10, <1>11, <1>12 DEF d

(* A packet of the generator is one of the bytes of its group.             *)
LEMMA PacketFits ==
  ASSUME NEW p \in PP!Packet, NEW bytes, p.padding >= 0, p.useful = PP!SizeOf(p.data),
         p.useful < 128, 5 + p.useful + p.padding = p.length, p.data.to <= Len(bytes)
  PROVE  Fits(p, bytes)
<1>1. /\ p.length \in {24, 48, 72, 96} /\ p.continuity \in 0 .. 3 /\ p.first_last \in 0 .. 3
      /\ p.useful \in 0 .. 255 /\ p.data \in PP!Slice /\ p.padding \in Int
  BY DEF PP!Packet
<1>2. p.data.from \in Nat /\ p.data.to \in Nat
  BY <1>1 DEF PP!Slice
<1>3. p.useful = p.data.to - p.data.from
  BY DEF PP!SizeOf
<1>4. p.padding \in Nat
  BY <1>1
<1>5. p.useful \in 0 .. 127
  <2> DEFINE u == p.useful
  <2>1. u \in 0 .. 255 /\ u < 128
    BY <1>1
  <2> HIDE DEF u
  <2>2. u \in 0 .. 127
    BY ONLY <2>1
  <2> QED BY ONLY <2>2 DEF u
<1> QED BY <1>1, <1>2, <1>3, <1>4, <1>5 DEF Fits

-----------------------------------------------------------------------------
(* The invariant holds at first, and every action keeps it.                *)

(* Nothing was received, built or written.                                   *)
LEMMA InitInv == Init => Inv
<1> SUFFICES ASSUME Init PROVE Inv
  OBVIOUS
<1>1. PP!Inv /\ GP!Inv
  BY GeneratorsInit DEF Init
<1>2. <<>> \in Octets /\ Len(<<>>) = 0
  BY DEF Octets
<1>3. Called /\ Layers /\ GroupMade /\ BytesTaken
  BY <1>2 DEF Init, Called, Layers, GroupMade, BytesTaken
<1>4. PacketsWritten
  BY DEF Init, Packer!Init, PacketsWritten
<1> QED BY <1>1, <1>3, <1>4 DEF Inv

(* A payload received leaves everything else as the last call left it.       *)
LEMMA ReceiveInv ==
  ASSUME Inv, NEW p \in Payloads, Receive(p)
  PROVE  Inv'
<1> USE DEF Inv, Receive, Goto, grouperVars, packerVars
<1>1. PP!Inv' /\ GP!Inv'
  BY GeneratorsRest
<1>2. Called'
  BY DatagramsHaveSize DEF Called
<1>3. Layers' /\ GroupMade' /\ PacketsWritten' /\ BytesTaken'
  BY DEF Layers, GroupMade, PacketsWritten, BytesTaken
<1> QED BY <1>1, <1>2, <1>3

(* The inner layer is the segment of the payload.                            *)
LEMMA SerializeUdpInv ==
  ASSUME Inv, SerializeUdp
  PROVE  Inv'
<1> USE DEF Inv, SerializeUdp, Goto, grouperVars, packerVars
<1>1. PP!Inv' /\ GP!Inv'
  BY GeneratorsRest
<1>2. Called' /\ Layers'
  BY DEF Called, Layers
<1>3. GroupMade' /\ PacketsWritten' /\ BytesTaken'
  BY DEF GroupMade, PacketsWritten, BytesTaken
<1> QED BY <1>1, <1>2, <1>3

(* The outer layer makes the datagram of it.                                 *)
LEMMA SerializeIpInv ==
  ASSUME Inv, SerializeIp
  PROVE  Inv'
<1> USE DEF Inv, SerializeIp, Goto, grouperVars, packerVars
<1>1. PP!Inv' /\ GP!Inv'
  BY GeneratorsRest
<1>2. Called' /\ Layers'
  BY DEF Called, Layers, Made
<1>3. GroupMade' /\ PacketsWritten' /\ BytesTaken'
  BY DEF GroupMade, PacketsWritten, BytesTaken
<1> QED BY <1>1, <1>2, <1>3

(* The group is of that datagram, and its bytes are those of the group.      *)
LEMMA BuildGroupInv ==
  ASSUME Inv, BuildGroup
  PROVE  Inv'
<1> DEFINE d == [bytes |-> datagram, size |-> Len(datagram)]
<1>0. /\ pc = "group" /\ pc' = "split" /\ UNCHANGED packerVars
      /\ Grouper!Build(d) /\ group_bytes' = GroupBytes(group')
      /\ UNCHANGED <<payload, segment, datagram, written, taken, calls, packerVars>>
  BY DEF BuildGroup, Goto
<1>1. payload \in Payloads /\ datagram = Made(payload) /\ d = Sized(Made(payload))
  BY <1>0 DEF Inv, Called, Layers, Sized
<1>2. d \in Datagrams
  BY <1>1, DatagramsHaveSize
<1>3. Made(payload) \in Octets
  BY <1>1, DatagramsHaveSize, MadeIs
<1> HIDE DEF d
<1>4. /\ GP!Inv' /\ group' \in Grouper!Groups
      /\ group'.datagram = d /\ group'.size = 2 + d.size + 2
      /\ group'.continuity = group_index' /\ group'.repetition = m_repetition_index'
  BY <1>0, <1>2, GrouperBuild DEF Inv
<1>5. PP!Inv'
  BY <1>0, GeneratorsRest DEF Inv
<1>6. d.bytes = Made(payload) /\ d.size = Len(Made(payload)) /\ Len(Made(payload)) \in Nat
  BY <1>1, <1>3 DEF Sized, Octets
<1>7. group_bytes' \in Octets
  <2>1. group'.continuity \in 0 .. 15 /\ group'.repetition \in 0 .. 15
    BY <1>4 DEF Grouper!Groups
  <2>2. group'.datagram.bytes \in Octets
    BY <1>3, <1>4, <1>6
  <2> QED BY <1>0, <2>1, <2>2, GroupBytesIs
<1>8. GroupMade'
  <2>1. group'.size = 4 + Len(Made(payload))
    BY <1>4, <1>6
  <2> QED BY <1>0, <1>1, <1>4, <1>7, <2>1 DEF GroupMade
<1>9. Called' /\ Layers' /\ BytesTaken'
  BY <1>0 DEF Inv, Called, Layers, BytesTaken
<1>10. PacketsWritten'
  BY <1>0 DEF Inv, PacketsWritten, packerVars
<1> QED BY <1>4, <1>5, <1>8, <1>9, <1>10 DEF Inv

(* A call of the packet generator begins with no packet and no byte.         *)
LEMMA SplitInv ==
  ASSUME Inv, Split
  PROVE  Inv'
<1>0. /\ pc = "split" /\ pc' = "pack" /\ UNCHANGED grouperVars
      /\ Packer!Build(group) /\ written' = <<>>
      /\ UNCHANGED <<payload, segment, datagram, group_bytes, taken, calls>>
  BY DEF Split, Goto
<1>1. group \in Grouper!Groups
  BY <1>0 DEF Inv, GroupMade
<1>2. /\ PP!Inv' /\ building' /\ packets' = <<>>
      /\ rest'.group = group /\ rest'.to = group.size
  BY <1>0, <1>1, PackerBuild DEF Inv
<1>3. GP!Inv'
  BY <1>0, GeneratorsRest DEF Inv
<1>4. Called' /\ Layers' /\ BytesTaken'
  BY <1>0 DEF Inv, Called, Layers, BytesTaken
<1>5. GroupMade'
  BY <1>0 DEF Inv, GroupMade, grouperVars
<1>6. Carries(written', packets', group_bytes')
  BY <1>0, <1>2 DEF Carries, Octets
<1>7. PacketsWritten'
  <2>1. group' = group
    BY <1>0 DEF grouperVars
  <2>2. \A i \in 1 .. Len(packets') : packets'[i].length = 96
    BY <1>2
  <2> QED BY <1>0, <1>2, <1>6, <2>1, <2>2 DEF PacketsWritten
<1> QED BY <1>2, <1>3, <1>4, <1>5, <1>7 DEF Inv

(* What a group in hand has to do with its bytes.                          *)
LEMMA GroupInHand ==
  ASSUME Inv, pc \in {"split", "pack", "write"}
  PROVE  /\ payload \in Payloads /\ payload \in Octets /\ Len(payload) <= 1024
         /\ group_bytes \in Octets /\ Len(group_bytes) = group.size /\ CrcFits(group_bytes)
         /\ group_bytes[1] = 64 /\ group_bytes[2] = 16 * group_index + m_repetition_index
         /\ SubSeq(group_bytes, 3, Len(group_bytes) - 2) = Made(payload)
<1>1. payload \in Payloads /\ payload \in Octets /\ Len(payload) <= 1024
  BY DEF Inv, Called
<1>2. /\ group \in Grouper!Groups /\ group.datagram = Sized(Made(payload))
      /\ group.size = 4 + Len(Made(payload))
      /\ group.continuity = group_index /\ group.repetition = m_repetition_index
      /\ group_bytes = GroupBytes(group) /\ group_bytes \in Octets
  BY DEF Inv, GroupMade
<1>3. group.continuity \in 0 .. 15 /\ group.repetition \in 0 .. 15
  BY <1>2 DEF Grouper!Groups
<1>4. group.datagram.bytes = Made(payload) /\ Made(payload) \in Octets
  BY <1>1, <1>2, MadeIs DEF Sized
<1>5. /\ Len(group_bytes) = 4 + Len(Made(payload)) /\ CrcFits(group_bytes)
      /\ group_bytes[1] = 64 /\ group_bytes[2] = 16 * group.continuity + group.repetition
      /\ SubSeq(group_bytes, 3, Len(group_bytes) - 2) = Made(payload)
  BY <1>2, <1>3, <1>4, GroupBytesIs
<1> QED BY ONLY <1>1, <1>2, <1>5

(* Every invocation adds a packet and its bytes, a full one but for the      *)
(* last.                                                                     *)
LEMMA PackInv ==
  ASSUME Inv, Pack
  PROVE  Inv'
<1>0. /\ pc = "pack" /\ UNCHANGED grouperVars
      /\ \/ pc' = "pack" /\ Packer!BuildSplit
         \/ pc' = "write" /\ Packer!BuildLast
      /\ written' = written \o PacketBytes(packets'[Len(packets')], group_bytes)
      /\ UNCHANGED <<payload, segment, datagram, group_bytes, taken, calls>>
  BY DEF Pack, Goto
<1>1. /\ PP!Inv'
      /\ rest'.group = rest.group /\ rest'.to = rest.to
      /\ packets \in Seq(PP!Packet)
      /\ \E p \in PP!Packet : /\ packets' = Append(packets, p)
                              /\ Packer!BuildSplit => p.length = 96
      /\ Packer!BuildSplit => building'
      /\ Packer!BuildLast => ~building'
  BY <1>0, PackerInvocation DEF Inv
<1>2. PICK p \in PP!Packet : /\ packets' = Append(packets, p)
                             /\ Packer!BuildSplit => p.length = 96
  BY <1>1
<1>3. GP!Inv' /\ UNCHANGED <<group, group_index, m_repetition_index>>
  BY <1>0, GeneratorsRest DEF Inv, grouperVars
<1> DEFINE n == Len(packets')
<1>4. /\ n = Len(packets) + 1 /\ n \in Nat /\ n > 0 /\ packets'[n] = p
      /\ \A i \in 1 .. Len(packets) : packets'[i] = packets[i]
  BY <1>1, <1>2, Appending
<1>5. rest.group = group /\ rest.to = group.size /\ Carries(written, packets, group_bytes)
  BY <1>0 DEF Inv, PacketsWritten
<1>6. \A i \in 1 .. Len(packets) : packets[i].length = 96
  BY <1>0 DEF Inv, PacketsWritten
<1>7. group_bytes \in Octets /\ Len(group_bytes) = group.size
  BY <1>0, GroupInHand
<1>8. Fits(p, group_bytes)
  <2>1. n \in 1 .. n
    BY <1>4
  <2>2. /\ p.padding >= 0 /\ p.useful = PP!SizeOf(p.data) /\ p.useful < 128
        /\ 5 + p.useful + p.padding = p.length
    BY <1>1, <1>4, <2>1 DEF PP!Inv, PP!PacketsFit
  <2>3. packets' # <<>>
    BY <1>4
  <2>4. p.data.to = rest'.from
    BY <1>1, <1>4, <2>3 DEF PP!Inv, PP!PacketsCoverGroup
  <2>5. rest'.from <= rest'.to
    BY <1>1 DEF PP!Inv, PP!RestIsSuffix
  <2>6. p.data.to <= Len(group_bytes)
    BY <1>1, <1>5, <1>7, <2>4, <2>5
  <2> QED BY <2>2, <2>6, PacketFits
<1>9. Carries(written', packets', group_bytes')
  <2>1. written' = written \o PacketBytes(p, group_bytes)
    BY <1>0, <1>4
  <2>2. Carries(written \o PacketBytes(p, group_bytes), Append(packets, p), group_bytes)
    BY <1>1, <1>5, <1>6, <1>7, <1>8, CarriesMore
  <2> QED BY <1>0, <1>2, <2>1, <2>2
<1>10. pc' = "pack" => \A i \in 1 .. Len(packets') : packets'[i].length = 96
  <2> SUFFICES ASSUME pc' = "pack", NEW i \in 1 .. Len(packets')
               PROVE  packets'[i].length = 96
    OBVIOUS
  <2>1. p.length = 96
    BY <1>0, <1>2
  <2>2. Len(packets) \in Nat
    BY <1>1
  <2>3. i \in 1 .. Len(packets) \/ i = n
    BY <1>4, <2>2
  <2> QED BY <1>4, <1>6, <2>1, <2>3
<1>11. PacketsWritten'
  <2>1. rest'.group = group' /\ rest'.to = group'.size
    BY <1>1, <1>3, <1>5
  <2>2. building' <=> pc' = "pack"
    BY <1>0, <1>1
  <2>3. packets' # <<>>
    BY <1>4
  <2>4. pc' \in {"pack", "write"}
    BY <1>0
  <2> QED BY <1>9, <1>10, <2>1, <2>2, <2>3, <2>4 DEF PacketsWritten
<1>12. Called' /\ Layers' /\ BytesTaken'
  BY <1>0 DEF Inv, Called, Layers, BytesTaken
<1>13. GroupMade'
  BY <1>0, <1>3 DEF Inv, GroupMade
<1> QED BY <1>1, <1>3, <1>11, <1>12, <1>13 DEF Inv

(* What is written is what the receiver gets.                                *)
LEMMA WriteInv ==
  ASSUME Inv, Write
  PROVE  Inv'
<1> USE DEF Inv, Write, Goto, grouperVars, packerVars
<1>1. PP!Inv' /\ GP!Inv'
  BY GeneratorsRest
<1>2. Called' /\ Layers'
  BY DEF Called, Layers
<1>3. GroupMade' /\ PacketsWritten' /\ BytesTaken'
  BY DEF GroupMade, PacketsWritten, BytesTaken
<1> QED BY <1>1, <1>2, <1>3

(* Unless a burst hits it.                                                   *)
LEMMA DamageInv ==
  ASSUME Inv, NEW start \in Nat, NEW burst \in Bursts, Damage(start, burst)
  PROVE  Inv'
<1>0. /\ pc = "receive" /\ pc' = "damaged" /\ calls = 1
      /\ taken' = Flipped(taken, Hit(start, burst))
      /\ UNCHANGED <<payload, segment, datagram, group_bytes, written, calls, grouperVars, packerVars>>
  BY DEF Damage, Goto, Hit
<1>1. PP!Inv' /\ GP!Inv'
  BY <1>0, GeneratorsRest DEF Inv
<1>2. Called' /\ Layers'
  BY <1>0 DEF Inv, Called, Layers
<1>3. GroupMade'
  BY <1>0 DEF Inv, GroupMade, grouperVars
<1>4. PacketsWritten'
  BY <1>0 DEF Inv, PacketsWritten, packerVars
<1>5. taken = written /\ written' = written
  BY <1>0 DEF Inv, BytesTaken
<1>6. BytesTaken'
  BY <1>0, <1>5 DEF BytesTaken
<1> QED BY <1>1, <1>2, <1>3, <1>4, <1>6 DEF Inv

(* Together: every step keeps the invariant.                                 *)
LEMMA NextInv == Inv /\ [Next]_vars => Inv'
<1> SUFFICES ASSUME Inv, [Next]_vars PROVE Inv'
  OBVIOUS
<1>1. ASSUME NEW p \in Payloads, Receive(p) PROVE Inv'
  BY <1>1, ReceiveInv
<1>2. CASE SerializeUdp
  BY <1>2, SerializeUdpInv
<1>3. CASE SerializeIp
  BY <1>3, SerializeIpInv
<1>4. CASE BuildGroup
  BY <1>4, BuildGroupInv
<1>5. CASE Split
  BY <1>5, SplitInv
<1>6. CASE Pack
  BY <1>6, PackInv
<1>7. CASE Write
  BY <1>7, WriteInv
<1>8. ASSUME NEW start \in 0 .. 8 * Len(taken) - 1, NEW burst \in Bursts, Damage(start, burst)
      PROVE  Inv'
  <2>1. start \in Nat
    OBVIOUS
  <2> QED BY <1>8, <2>1, DamageInv
<1>9. CASE UNCHANGED vars
  <2> USE <1>9 DEF vars, bytesVars
  <2>1. PP!Inv' /\ GP!Inv'
    BY GeneratorsRest DEF Inv
  <2>2. Called' /\ Layers' /\ BytesTaken'
    BY DEF Inv, Called, Layers, BytesTaken
  <2>3. GroupMade' /\ PacketsWritten'
    BY DEF Inv, GroupMade, PacketsWritten, grouperVars, packerVars
  <2> QED BY <2>1, <2>2, <2>3 DEF Inv
<1> QED BY <1>1, <1>2, <1>3, <1>4, <1>5, <1>6, <1>7, <1>8, <1>9 DEF Next

(* What wrap_data() and its generators hold, in every state.               *)
THEOREM Invariance == Spec => []Inv
<1>1. Init => Inv
  BY InitInv
<1>2. Inv /\ [Next]_vars => Inv'
  BY NextInv
<1> QED BY <1>1, <1>2, PTL DEF Spec

(* The datagram in hand is what the payload becomes.                       *)
LEMMA ChecksumsHold == Inv => ChecksumsVerify
<1> SUFFICES ASSUME Inv, pc \in {"group", "split", "pack", "write"}
             PROVE  /\ \A i \in DOMAIN datagram : datagram[i] \in Octet
                    /\ At(datagram, 3) = Len(datagram)
                    /\ At(datagram, 25) = Len(datagram) - 20
                    /\ OnesSum(SubSeq(datagram, 1, 20)) = 65535
                    /\ At(datagram, 27) # 0
                    /\ OnesSum(PseudoHeader(datagram) \o From(datagram, 21)) = 65535
  BY SMT DEF ChecksumsVerify
<1>1. payload \in Octets /\ Len(payload) <= 1024 /\ datagram = Made(payload)
  BY ONLY Inv, pc \in {"group", "split", "pack", "write"} DEF Inv, Called, Layers
<1>2. Made(payload) \in Octets
  BY ONLY <1>1, MadeIs
<1>3. \A i \in DOMAIN Made(payload) : Made(payload)[i] \in Octet
  BY ONLY <1>2 DEF Octets
<1> QED BY SMT, <1>1, <1>3, MadeIs

(* The last call's packets are in what it returned.                        *)
LEMMA PacketsInHand ==
  ASSUME Inv, pc \in {"write", "damaged"}
  PROVE  /\ Carries(written, packets, group_bytes) /\ group_bytes \in Octets /\ written \in Octets
         /\ Len(packets) \in Nat /\ Len(packets) > 0
<1>1. Carries(written, packets, group_bytes) /\ packets # <<>>
  BY DEF Inv, PacketsWritten, Called
<1>2. packets \in Seq(PP!Packet)
  BY DEF Inv, PP!Inv, PP!TypeOK
<1>3. Len(packets) \in Nat /\ Len(packets) > 0
  BY <1>1, <1>2
<1> QED BY <1>1, <1>3 DEF Inv, GroupMade, Carries

(* The group and every packet end in the CRC that division gives.            *)
LEMMA CrcsHold == Inv => CrcsAreRemainders
<1> SUFFICES ASSUME Inv, pc = "write"
             PROVE  /\ CrcFits(group_bytes)
                    /\ \A i \in DOMAIN Frames(written) :
                         /\ Frames(written)[i].to <= Len(written)
                         /\ CrcFits(FrameBytes(written, Frames(written)[i]))
  BY Zenon DEF CrcsAreRemainders
<1>1. CrcFits(group_bytes)
  BY GroupInHand
<1>2. /\ Carries(written, packets, group_bytes) /\ group_bytes \in Octets
      /\ Len(packets) \in Nat /\ Len(packets) > 0
  BY PacketsInHand
<1>3. /\ DOMAIN Frames(written) = 1 .. Len(packets)
      /\ \A i \in 1 .. Len(packets) :
           /\ FrameBytes(written, Frames(written)[i]) = PacketBytes(packets[i], group_bytes)
           /\ Frames(written)[i].to <= Len(written)
  BY <1>2, CarriesFrames
<1>4. \A i \in 1 .. Len(packets) : CrcFits(PacketBytes(packets[i], group_bytes))
  <2>1. \A i \in 1 .. Len(packets) : Fits(packets[i], group_bytes)
    BY <1>2 DEF Carries
  <2> QED BY <1>2, <2>1, PacketBytesIs
<1> QED BY <1>1, <1>3, <1>4

(* The bytes that a burst leaves, bit by bit.                              *)
LEMMA FlippedIs ==
  ASSUME NEW w \in Octets, NEW start \in Nat, NEW burst \in SUBSET (0 .. 15)
  PROVE  LET t == Flipped(w, Hit(start, burst))
         IN  /\ t \in Octets /\ Len(t) = Len(w)
             /\ \A j \in 1 .. Len(w), k \in 0 .. 7 :
                  8 * (j - 1) + 7 - k \notin start .. start + 15 =>
                    (k \in Bits[t[j]] <=> k \in Bits[w[j]])
<1> DEFINE hit == Hit(start, burst)
           t == Flipped(w, hit)
           mask(j) == {k \in 0 .. 7 : 8 * (j - 1) + 7 - k \in hit}
           x(j) == Xor(Bits[w[j]], mask(j))
<1>1. DOMAIN w = 1 .. Len(w) /\ Len(w) \in Nat /\ \A j \in 1 .. Len(w) : w[j] \in Octet
  BY DEF Octets
<1>2. \A j \in 1 .. Len(w) : x(j) \in Byte
  <2>1. \A n \in Octet : Bits[n] \in Byte
    BY NumbersAreBytes DEF Octet
  <2>2. \A j \in 1 .. Len(w) : mask(j) \in Byte
    BY DEF Byte
  <2>3. \A a, b \in Byte : Xor(a, b) \in Byte
    BY DEF Byte, Xor
  <2> HIDE DEF mask
  <2> QED BY <1>1, <2>1, <2>2, <2>3
<1>3. t = [j \in 1 .. Len(w) |-> Number(x(j))]
  BY <1>1 DEF Flipped
<1>4. \A j \in 1 .. Len(w) : Number(x(j)) \in Octet /\ Bits[Number(x(j))] = x(j)
  <2> HIDE DEF x
  <2> QED BY <1>2, NumbersAreBytes DEF Octet
<1>5. hit \subseteq start .. start + 15
  BY DEF Hit
<1>6. ASSUME NEW j \in 1 .. Len(w), NEW k \in 0 .. 7, 8 * (j - 1) + 7 - k \notin start .. start + 15
      PROVE  k \in x(j) <=> k \in Bits[w[j]]
  <2>1. k \notin mask(j)
    BY <1>5, <1>6
  <2> HIDE DEF mask
  <2> QED BY <2>1 DEF Xor
<1> HIDE DEF x, t
<1>7. t \in Octets /\ Len(t) = Len(w)
  <2>1. \A m \in Nat : \A b : b \in [1 .. m -> Octet] => b \in Seq(Octet) /\ Len(b) = m
    OBVIOUS
  <2>2. t \in [1 .. Len(w) -> Octet]
    BY <1>3, <1>4
  <2> QED BY <1>1, <2>1, <2>2 DEF Octets
<1>8. \A j \in 1 .. Len(w) : Bits[t[j]] = x(j)
  BY <1>3, <1>4
<1> QED BY <1>6, <1>7, <1>8 DEF t, hit

(* Which bit of which byte is sent p-th.                                   *)
LEMMA SentBitIs ==
  ASSUME NEW m \in Nat, NEW p \in 1 .. 8 * m
  PROVE  \E n \in 1 .. m, k \in 0 .. 7 :
           /\ p = 8 * (n - 1) + 8 - k
           /\ \A s \in Octets : Len(s) = m => (SentBit(s, p) <=> k \in Bits[s[n]])
<1> DEFINE n == (p - 1) \div 8 + 1
           k == 7 - ((p - 1) % 8)
<1>1. n \in 1 .. m /\ k \in 0 .. 7 /\ p = 8 * (n - 1) + 8 - k
  OBVIOUS
<1>2. ASSUME NEW s \in Octets, Len(s) = m PROVE SentBit(s, p) <=> k \in Bits[s[n]]
  <2>1. SentBit(s, p) <=> k \in BitsOf(s)[n]
    BY DEF SentBit, Bit
  <2> HIDE DEF n, k
  <2>2. BitsOf(s)[n] = Bits[s[n]]
    BY <1>1, <1>2, BitsOfBytes
  <2> QED BY <2>1, <2>2
<1> HIDE DEF n, k
<1> QED BY <1>1, <1>2

(* A packet that a burst has touched fails its CRC, any other passes.        *)
LEMMA BurstShows == Inv => BurstIsNoticed
<1> SUFFICES ASSUME Inv, pc = "damaged", NEW i \in DOMAIN Frames(written)
             PROVE  CrcFits(FrameBytes(taken, Frames(written)[i])) <=>
                      FrameBytes(taken, Frames(written)[i]) = FrameBytes(written, Frames(written)[i])
  BY Zenon DEF BurstIsNoticed
<1>1. /\ Carries(written, packets, group_bytes) /\ group_bytes \in Octets /\ written \in Octets
      /\ Len(packets) \in Nat /\ Len(packets) > 0
  BY PacketsInHand
<1> DEFINE f == Frames(written)[i]
           a == 96 * (i - 1)
           l == packets[i].length
           b == PacketBytes(packets[i], group_bytes)
           got == FrameBytes(taken, f)
<1>2. /\ i \in 1 .. Len(packets) /\ FrameBytes(written, f) = b
      /\ f.from = a + 1 /\ f.to = a + l /\ f.to <= Len(written)
  BY <1>1, CarriesFrames
<1>3. Fits(packets[i], group_bytes)
  BY <1>1, <1>2 DEF Carries
<1>4. b \in Octets /\ Len(b) = l /\ CrcFits(b) /\ \E s \in Octets : b = s \o genCRC16(s)
  BY <1>1, <1>3, PacketBytesIs
<1>5. a \in Nat /\ l \in Nat /\ a + l <= Len(written)
  <2>1. a \in Nat
    BY <1>1, <1>2
  <2>2. l \in Nat
    BY <1>3 DEF Fits
  <2> QED BY <1>2, <2>1, <2>2
<1>6. PICK start \in Nat, burst \in Bursts : taken = Flipped(written, Hit(start, burst))
  BY DEF Inv, BytesTaken
<1>7. burst \in SUBSET (0 .. 15)
  BY BurstsAssumption
<1>8. /\ taken \in Octets /\ Len(taken) = Len(written)
      /\ \A j \in 1 .. Len(written), k \in 0 .. 7 :
           8 * (j - 1) + 7 - k \notin start .. start + 15 =>
             (k \in Bits[taken[j]] <=> k \in Bits[written[j]])
  BY <1>1, <1>6, <1>7, FlippedIs
<1>9. got = SubSeq(taken, a + 1, a + l) /\ b = SubSeq(written, a + 1, a + l)
  BY <1>2 DEF FrameBytes
<1> HIDE DEF f, a, l, b, got
<1>10. a <= a + l /\ a + l \in Nat /\ a + l <= Len(taken) /\ (a + l) - a = l
  BY ONLY <1>5, <1>8
<1>11. got \in Octets /\ Len(got) = l /\ \A n \in 1 .. l : got[n] = taken[a + n]
  BY ONLY <1>5, <1>8, <1>9, <1>10, SliceIs
<1>12. \A n \in 1 .. l : b[n] = written[a + n]
  BY ONLY <1>1, <1>5, <1>9, <1>10, SliceIs
<1> DEFINE o == start - 8 * a + 1
<1>13. ASSUME NEW p \in 1 .. 8 * l, p \notin o .. o + 15
       PROVE  SentBit(got, p) <=> SentBit(b, p)
  <2>1. PICK n \in 1 .. l, k \in 0 .. 7 :
           /\ p = 8 * (n - 1) + 8 - k
           /\ \A s \in Octets : Len(s) = l => (SentBit(s, p) <=> k \in Bits[s[n]])
    BY <1>5, SentBitIs
  <2> DEFINE j == a + n
  <2>2. j \in 1 .. Len(written)
    BY <1>5, <2>1
  <2>3. 8 * (j - 1) + 7 - k \notin start .. start + 15
    <3>1. a \in Int /\ n \in Int /\ k \in Int /\ start \in Int /\ p \in Int
      BY <1>5, <1>6, <1>13, <2>1
    <3>2. p < o \/ p > o + 15
      <4>1. o \in Int
        BY <3>1
      <4> HIDE DEF o
      <4> QED BY ONLY <1>13, <3>1, <4>1
    <3>3. p < start - 8 * a + 1 \/ p > start - 8 * a + 16
      BY ONLY <3>1, <3>2
    <3>4. p = 8 * (n - 1) + 8 - k
      BY <2>1
    <3>5. 8 * (a + n - 1) + 7 - k < start \/ 8 * (a + n - 1) + 7 - k > start + 15
      BY ONLY <3>1, <3>3, <3>4
    <3> QED BY ONLY <3>1, <3>5
  <2> HIDE DEF j
  <2>4. k \in Bits[taken[j]] <=> k \in Bits[written[j]]
    BY ONLY <1>8, <2>1, <2>2, <2>3
  <2>5. got[n] = taken[j] /\ b[n] = written[j]
    BY <1>11, <1>12, <2>1 DEF j
  <2> QED BY <1>4, <1>11, <2>1, <2>4, <2>5
<1>14. o \in Int
  BY <1>5, <1>6
<1> HIDE DEF o
<1>15. got # b => ~CrcFits(got)
  <2> SUFFICES ASSUME got # b PROVE ~CrcFits(got)
    OBVIOUS
  <2>1. PICK s \in Octets : b = s \o genCRC16(s)
    BY <1>4
  <2>2. Len(b) = Len(s) + 2
    BY <2>1, SealedFits
  <2>3. \A p \in 1 .. 8 * Len(got) : p \notin o .. o + 15 => (SentBit(got, p) <=> SentBit(s \o genCRC16(s), p))
    BY <1>11, <1>13, <2>1
  <2>4. Len(got) = Len(s) + 2 /\ got # s \o genCRC16(s)
    BY <1>4, <1>11, <2>1, <2>2
  <2> QED BY ONLY <1>11, <1>14, <2>1, <2>3, <2>4, DamageFails
<1>16. CrcFits(got) <=> got = b
  BY <1>4, <1>15
<1> QED BY <1>2, <1>16 DEF f, got

(* What the packets of a finished call are.                                *)
LEMMA FinishedCall ==
  ASSUME Inv, pc = "write"
  PROVE  /\ Covers(packets, group_bytes)
         /\ \A i \in 1 .. Len(packets) :
              packets[i].first_last = (IF i = 1 THEN 2 ELSE 0) + (IF i = Len(packets) THEN 1 ELSE 0)
         /\ \A i \in 2 .. Len(packets) : packets[i].continuity = (packets[i - 1].continuity + 1) % 4
         /\ (packets[Len(packets)].continuity + 1) % 4 = m_continuity_index
<1> DEFINE n == Len(packets)
<1>1. /\ packets \in Seq(PP!Packet) /\ packets # <<>> /\ ~building
      /\ rest.group = group /\ rest.to = group.size
  BY DEF Inv, PacketsWritten, PP!Inv, PP!TypeOK
<1>2. n \in Nat /\ n > 0 /\ \A i \in 1 .. n : packets[i] \in PP!Packet
  BY <1>1
<1>3. Covers(packets, group_bytes)
  <2>1. \A i \in 1 .. n : packets[i].data.from = IF i = 1 THEN 0 ELSE packets[i - 1].data.to
    BY DEF Inv, PP!Inv, PP!PacketsCoverGroup
  <2>2. packets[n].data.to = rest.to
    BY <1>1 DEF Inv, PP!Inv, PP!PacketsCoverGroup
  <2>3. Len(group_bytes) = group.size
    BY GroupInHand
  <2> QED BY <1>1, <2>1, <2>2, <2>3 DEF Covers
<1>4. ASSUME NEW i \in 1 .. n
      PROVE  packets[i].first_last = (IF i = 1 THEN 2 ELSE 0) + (IF i = n THEN 1 ELSE 0)
  <2>1. packets[i].first_last =
          CASE i = 1 /\ i = n -> 3 [] i = 1 /\ i < n -> 2
            [] i > 1 /\ i = n -> 1 [] i > 1 /\ i < n -> 0
    BY <1>1 DEF Inv, PP!Inv, PP!FlagsDelimitGroup
  <2> HIDE DEF n
  <2> QED BY <1>2, <2>1
<1>5. \A i \in 1 .. n : packets[i].continuity \in 0 .. 3
  BY <1>2 DEF PP!Packet
<1>6. \A c \in 0 .. 3 : (c + 1) % 4 = IF c = 3 THEN 0 ELSE c + 1
  OBVIOUS
<1>7. ASSUME NEW i \in 2 .. n
      PROVE  packets[i].continuity = (packets[i - 1].continuity + 1) % 4
  <2>1. i - 1 \in 1 .. n
    BY <1>2
  <2> QED
    BY <1>5, <1>6, <2>1 DEF Inv, PP!Inv, PP!ContinuityUnbroken
<1>8. m_continuity_index = (packets[n].continuity + 1) % 4
  <2>1. n \in 1 .. n
    BY <1>2
  <2> QED
    BY <1>1, <1>5, <1>6, <2>1 DEF Inv, PP!Inv, PP!ContinuityUnbroken
<1> QED BY <1>3, <1>4, <1>7, <1>8

(* What the receiver reads in the packets is the payload and what the        *)
(* packets were sent with.                                                   *)
LEMMA PayloadArrives ==
  ASSUME Conf.packet_address < 1024, Inv
  PROVE  PayloadSurvives
<1> SUFFICES ASSUME pc = "write"
             PROVE  LET fs == Frames(written)
                        p  == [i \in DOMAIN fs |-> PacketFields(FrameBytes(written, fs[i]))]
                        g  == GroupOf(written)
                        ip == SubSeq(g, 3, Len(g) - 2)
                    IN  /\ \A i \in DOMAIN p :
                             /\ p[i].address = Conf.packet_address
                             /\ p[i].command = 0
                             /\ p[i].first_last = (IF i = 1 THEN 2 ELSE 0) + (IF i = Len(p) THEN 1 ELSE 0)
                             /\ i > 1 => p[i].continuity = (p[i - 1].continuity + 1) % 4
                        /\ (p[Len(p)].continuity + 1) % 4 = m_continuity_index
                        /\ g[1] = 64
                        /\ g[2] = 16 * group_index + m_repetition_index
                        /\ ip[1] = 69 /\ ip[10] = 17
                        /\ SubSeq(ip, 13, 16) = Conf.source_address
                        /\ SubSeq(ip, 17, 20) = Conf.destination_address
                        /\ At(ip, 21) = Conf.source_port
                        /\ At(ip, 23) = Conf.destination_port
                        /\ From(ip, 29) = payload
  BY Zenon DEF PayloadSurvives
<1> DEFINE fs == Frames(written)
           p  == [i \in DOMAIN fs |-> PacketFields(FrameBytes(written, fs[i]))]
           g  == GroupOf(written)
           ip == SubSeq(g, 3, Len(g) - 2)
           n  == Len(packets)
<1>1. /\ Carries(written, packets, group_bytes) /\ group_bytes \in Octets
      /\ n \in Nat /\ n > 0
  BY PacketsInHand
<1>2. /\ Covers(packets, group_bytes)
      /\ \A i \in 1 .. n :
           packets[i].first_last = (IF i = 1 THEN 2 ELSE 0) + (IF i = n THEN 1 ELSE 0)
      /\ \A i \in 2 .. n : packets[i].continuity = (packets[i - 1].continuity + 1) % 4
      /\ (packets[n].continuity + 1) % 4 = m_continuity_index
  BY FinishedCall
<1>3. /\ payload \in Octets /\ Len(payload) <= 1024
      /\ group_bytes[1] = 64 /\ group_bytes[2] = 16 * group_index + m_repetition_index
      /\ SubSeq(group_bytes, 3, Len(group_bytes) - 2) = Made(payload)
  BY GroupInHand
<1>4. g = group_bytes
  BY <1>1, <1>2, GroupOfIs
<1>5. ip = Made(payload)
  BY <1>3, <1>4
<1>6. /\ Made(payload)[1] = 69 /\ Made(payload)[10] = 17
      /\ SubSeq(Made(payload), 13, 16) = Conf.source_address
      /\ SubSeq(Made(payload), 17, 20) = Conf.destination_address
      /\ At(Made(payload), 21) = Conf.source_port
      /\ At(Made(payload), 23) = Conf.destination_port
      /\ From(Made(payload), 29) = payload
  <2>1. Reads(Made(payload), payload)
    BY <1>3, MadeIs, SMT
  <2> QED BY ONLY <2>1 DEF Reads
<1>7. /\ DOMAIN fs = 1 .. n
      /\ \A i \in 1 .. n : FrameBytes(written, fs[i]) = PacketBytes(packets[i], group_bytes)
  BY <1>1, CarriesFrames
<1>8. DOMAIN p = 1 .. n /\ Len(p) = n
  BY <1>1, <1>7
<1>9. ASSUME NEW i \in 1 .. n
      PROVE  /\ p[i].continuity = packets[i].continuity /\ p[i].first_last = packets[i].first_last
             /\ p[i].command = 0 /\ p[i].address = Conf.packet_address
  <2>1. p[i] = PacketFields(PacketBytes(packets[i], group_bytes))
    BY <1>7
  <2>2. Fits(packets[i], group_bytes)
    BY <1>1 DEF Carries
  <2> HIDE DEF p
  <2> QED BY <1>1, <2>1, <2>2, PacketBytesIs
<1> HIDE DEF p, g, ip, n, fs
<1>10. ASSUME NEW i \in DOMAIN p
       PROVE  /\ p[i].address = Conf.packet_address
              /\ p[i].command = 0
              /\ p[i].first_last = (IF i = 1 THEN 2 ELSE 0) + (IF i = Len(p) THEN 1 ELSE 0)
              /\ i > 1 => p[i].continuity = (p[i - 1].continuity + 1) % 4
  <2>1. i \in 1 .. n
    BY <1>8
  <2>2. i > 1 => i \in 2 .. n /\ i - 1 \in 1 .. n
    BY <1>1, <2>1
  <2> QED BY <1>2, <1>8, <1>9, <2>1, <2>2, ZenonT(60)
<1>11. (p[Len(p)].continuity + 1) % 4 = m_continuity_index
  <2>1. n \in 1 .. n
    BY <1>1
  <2> QED BY <1>2, <1>8, <1>9, <2>1
<1>12. g[1] = 64 /\ g[2] = 16 * group_index + m_repetition_index
  BY <1>3, <1>4
<1>13. /\ ip[1] = 69 /\ ip[10] = 17
       /\ SubSeq(ip, 13, 16) = Conf.source_address
       /\ SubSeq(ip, 17, 20) = Conf.destination_address
       /\ At(ip, 21) = Conf.source_port
       /\ At(ip, 23) = Conf.destination_port
       /\ From(ip, 29) = payload
  BY <1>5, <1>6
<1> QED BY <1>10, <1>11, <1>12, <1>13, ZenonT(60) DEF p, g, ip, fs

-----------------------------------------------------------------------------
(* The lengths and checksums of every datagram that wrap_data() makes are    *)
(* right, for every payload and every configuration, the UDP checksum that   *)
(* comes out as zero included.                                               *)
THEOREM ChecksumsAreRight == Spec => []ChecksumsVerify
BY Invariance, ChecksumsHold, PTL

(* The CRCs of every data group and of every packet that wrap_data()         *)
(* returns are the remainders of polynomial division.                        *)
THEOREM CrcsAreRight == Spec => []CrcsAreRemainders
BY Invariance, CrcsHold, PTL

(* Whatever burst of at most sixteen bits hits what was written, wherever    *)
(* it begins, a receiver that checks the CRCs refuses exactly the packets    *)
(* it has changed.                                                           *)
THEOREM BurstsShow == Spec => []BurstIsNoticed
BY Invariance, BurstShows, PTL

(* With a packet address of the documented interval, a receiver that knows   *)
(* only the format gets every payload back from the bytes wrap_data()        *)
(* returns, unchanged and in packets that are flagged and counted as the     *)
(* format has it.                                                            *)
THEOREM PayloadsArrive ==
  ASSUME Conf.packet_address < 1024
  PROVE  Spec => []PayloadSurvives
<1>1. Inv => PayloadSurvives
  BY PayloadArrives
<1> QED BY <1>1, Invariance, PTL
=============================================================================
