--------------------------- MODULE SmqCodec_proofs ---------------------------
(***************************************************************************)
(* Proofs about SmqCodec, for every set of numbers, texts, headers,        *)
(* schemes and times: what one side writes, the other side reads.          *)
(*                                                                         *)
(* A frame is looked at as fragments at places (At): each writer puts its  *)
(* fragments one behind the other, and each reader reads a fragment that   *)
(* lies whole where it looks.                                              *)
(***************************************************************************)
EXTENDS SmqCodec, SmqLists

Bits == Seq({0, 1})

-----------------------------------------------------------------------------
(* Numbers and their bits.                                                 *)

\* The powers of two that the fields need.
LEMMA Powers ==
    /\ 2^0 = 1 /\ 2^1 = 2 /\ 2^2 = 4 /\ 2^3 = 8
    /\ 2^4 = 16 /\ 2^5 = 32 /\ 2^6 = 64 /\ 2^7 = 128
OBVIOUS

\* A bit is 0 or 1.
LEMMA BitTypes ==
    ASSUME NEW v \in Nat, NEW k \in 0..7
    PROVE  Bit(v, k) \in {0, 1}
<1>1. k = 0 \/ k = 1 \/ k = 2 \/ k = 3 \/ k = 4 \/ k = 5 \/ k = 6 \/ k = 7
    OBVIOUS
<1>2. QED
    BY <1>1, Powers DEF Bit

\* The bits of a number, each of them by a division of its own.
LEMMA BitValues ==
    ASSUME NEW v \in Nat
    PROVE  /\ Bit(v, 0) = v % 2
           /\ Bit(v, 1) = (v \div 2) % 2 /\ Bit(v, 2) = (v \div 4) % 2
           /\ Bit(v, 3) = (v \div 8) % 2 /\ Bit(v, 4) = (v \div 16) % 2
           /\ Bit(v, 5) = (v \div 32) % 2 /\ Bit(v, 6) = (v \div 64) % 2
           /\ Bit(v, 7) = (v \div 128) % 2
BY Powers DEF Bit

\* A number of up to eight bits is the sum of its bits.
LEMMA SumOfBits ==
    ASSUME NEW v \in Nat
    PROVE  /\ v % 8 = 4 * Bit(v, 2) + 2 * Bit(v, 1) + Bit(v, 0)
           /\ v % 16 = 8 * Bit(v, 3) + 4 * Bit(v, 2) + 2 * Bit(v, 1) + Bit(v, 0)
           /\ v % 128 = 64 * Bit(v, 6) + 32 * Bit(v, 5) + 16 * Bit(v, 4) + 8 * Bit(v, 3)
                        + 4 * Bit(v, 2) + 2 * Bit(v, 1) + Bit(v, 0)
           /\ v % 256 = 128 * Bit(v, 7) + 64 * Bit(v, 6) + 32 * Bit(v, 5) + 16 * Bit(v, 4)
                        + 8 * Bit(v, 3) + 4 * Bit(v, 2) + 2 * Bit(v, 1) + Bit(v, 0)
<1>1. \A x \in Nat : \E u \in Nat, b \in {0, 1} : x = 2 * u + b
    <2>1. SUFFICES ASSUME NEW x \in Nat PROVE \E u \in Nat, b \in {0, 1} : x = 2 * u + b
        OBVIOUS
    <2>2. x \div 2 \in Nat /\ x % 2 \in {0, 1} /\ x = 2 * (x \div 2) + (x % 2)
        OBVIOUS
    <2>3. QED
        BY <2>2
<1>2. PICK u1 \in Nat, b0 \in {0, 1} : v = 2 * u1 + b0
    BY <1>1
<1>3. PICK u2 \in Nat, b1 \in {0, 1} : u1 = 2 * u2 + b1
    BY <1>1
<1>4. PICK u3 \in Nat, b2 \in {0, 1} : u2 = 2 * u3 + b2
    BY <1>1
<1>5. PICK u4 \in Nat, b3 \in {0, 1} : u3 = 2 * u4 + b3
    BY <1>1
<1>6. PICK u5 \in Nat, b4 \in {0, 1} : u4 = 2 * u5 + b4
    BY <1>1
<1>7. PICK u6 \in Nat, b5 \in {0, 1} : u5 = 2 * u6 + b5
    BY <1>1
<1>8. PICK u7 \in Nat, b6 \in {0, 1} : u6 = 2 * u7 + b6
    BY <1>1
<1>9. PICK u8 \in Nat, b7 \in {0, 1} : u7 = 2 * u8 + b7
    BY <1>1
<1>10. /\ v = 2 * u1 + b0 /\ v = 4 * u2 + (2 * b1 + b0)
       /\ v = 8 * u3 + (4 * b2 + 2 * b1 + b0)
       /\ v = 16 * u4 + (8 * b3 + 4 * b2 + 2 * b1 + b0)
       /\ v = 32 * u5 + (16 * b4 + 8 * b3 + 4 * b2 + 2 * b1 + b0)
    BY <1>2, <1>3, <1>4, <1>5, <1>6
<1>11. /\ v = 64 * u6 + (32 * b5 + 16 * b4 + 8 * b3 + 4 * b2 + 2 * b1 + b0)
       /\ v = 128 * u7 + (64 * b6 + 32 * b5 + 16 * b4 + 8 * b3 + 4 * b2 + 2 * b1 + b0)
       /\ v = 256 * u8 + (128 * b7 + 64 * b6 + 32 * b5 + 16 * b4 + 8 * b3 + 4 * b2 + 2 * b1 + b0)
    BY <1>7, <1>8, <1>9, <1>10
<1>12. /\ v \div 2 = u1 /\ v \div 4 = u2 /\ v \div 8 = u3 /\ v \div 16 = u4
       /\ v \div 32 = u5 /\ v \div 64 = u6 /\ v \div 128 = u7
       /\ v % 8 = 4 * b2 + 2 * b1 + b0
       /\ v % 16 = 8 * b3 + 4 * b2 + 2 * b1 + b0
       /\ v % 128 = 64 * b6 + 32 * b5 + 16 * b4 + 8 * b3 + 4 * b2 + 2 * b1 + b0
       /\ v % 256 = 128 * b7 + 64 * b6 + 32 * b5 + 16 * b4 + 8 * b3 + 4 * b2 + 2 * b1 + b0
    BY <1>10, <1>11
<1>13. /\ Bit(v, 0) = b0 /\ Bit(v, 1) = b1 /\ Bit(v, 2) = b2 /\ Bit(v, 3) = b3
       /\ Bit(v, 4) = b4 /\ Bit(v, 5) = b5 /\ Bit(v, 6) = b6 /\ Bit(v, 7) = b7
    <2>1. v % 2 = b0 /\ u1 % 2 = b1 /\ u2 % 2 = b2 /\ u3 % 2 = b3
        BY <1>2, <1>3, <1>4, <1>5
    <2>2. u4 % 2 = b4 /\ u5 % 2 = b5 /\ u6 % 2 = b6 /\ u7 % 2 = b7
        BY <1>6, <1>7, <1>8, <1>9
    <2>3. /\ v \div 2 = u1 /\ v \div 4 = u2 /\ v \div 8 = u3 /\ v \div 16 = u4
          /\ v \div 32 = u5 /\ v \div 64 = u6 /\ v \div 128 = u7
        BY <1>12
    <2>4. /\ Bit(v, 0) = v % 2
          /\ Bit(v, 1) = (v \div 2) % 2 /\ Bit(v, 2) = (v \div 4) % 2
          /\ Bit(v, 3) = (v \div 8) % 2 /\ Bit(v, 4) = (v \div 16) % 2
          /\ Bit(v, 5) = (v \div 32) % 2 /\ Bit(v, 6) = (v \div 64) % 2
          /\ Bit(v, 7) = (v \div 128) % 2
        BY BitValues
    <2>5. QED
        BY <2>1, <2>2, <2>3, <2>4, Zenon
<1>14. QED
    BY <1>12, <1>13, ZenonT(60)

-----------------------------------------------------------------------------
(* The value of digits.                                                    *)

ValuesOf(digits, base, f) ==
    /\ f \in [0..Len(digits) -> Nat]
    /\ f[0] = 0
    /\ \A n \in 1..Len(digits) : f[n] = base * f[n - 1] + digits[n]
    /\ Value(digits, base) = f[Len(digits)]

\* The loop that adds up a number's digits has its partial sums.
LEMMA ValueLoop ==
    ASSUME NEW digits \in Seq(Nat), NEW base \in {2, 10}
    PROVE  \E f : ValuesOf(digits, base, f)
<1> DEFINE N == Len(digits)
           step == [p \in (1..N) \X Nat |-> base * p[2] + digits[p[1]]]
           Loop(f) == f = [n \in 0..N |-> IF n = 0 THEN 0 ELSE base * f[n - 1] + digits[n]]
           f == CHOOSE f : Loop(f)
<1>1. N \in Nat
    OBVIOUS
<1>2. N \in Nat /\ (\A n \in 1..N : digits[n] \in Nat) /\ \A a \in Nat : base * a \in Nat
    OBVIOUS
<1>3. step \in [(1..N) \X Nat -> Nat]
    BY <1>2
<1>4. 0 \in Nat
    OBVIOUS
<1>5. \A n \in 1..N, a \in Nat : step[<<n, a>>] = base * a + digits[n]
    OBVIOUS
<1>6. Value(digits, base) = f[N]
    BY DEF Value
<1> HIDE DEF step, N
<1>7. PICK g : LoopValues(g, N, Nat, 0, step)
    BY <1>1, <1>3, <1>4, LoopExists, Zenon
<1>8. /\ g \in [0..N -> Nat] /\ g[0] = 0
      /\ \A n \in 1..N : g[n] = base * g[n - 1] + digits[n]
    <2>1. /\ g \in [0..N -> Nat] /\ g[0] = 0
          /\ \A n \in 1..N : g[n] = step[<<n, g[n - 1]>>]
        BY <1>7, Zenon DEF LoopValues
    <2>2. \A n \in 1..N : n - 1 \in 0..N /\ g[n - 1] \in Nat
        BY <1>1, <2>1
    <2>3. QED
        BY <1>5, <2>1, <2>2, Zenon
<1>9. Loop(g)
    BY <1>2, <1>8
<1>10. Loop(f)
    BY <1>9, Zenon
<1> HIDE DEF f
<1>11. f[0] = 0 /\ \A n \in 1..N : f[n] = base * f[n - 1] + digits[n]
    BY <1>2, <1>10
<1> DEFINE P == {n \in 0..N : f[n] \in Nat}
<1>12. 0 \in P
    BY <1>2, <1>11
<1>13. ASSUME NEW n \in 1..N, n - 1 \in P PROVE n \in P
    <2>1. base * f[n - 1] \in Nat /\ digits[n] \in Nat
        BY <1>2, <1>13
    <2>2. f[n] \in Nat
        BY <1>11, <2>1
    <2>3. QED
        BY <1>2, <2>2
<1> HIDE DEF P
<1>14. 0..N \subseteq P
    BY <1>2, <1>12, <1>13, LoopInduction
<1>15. f \in [0..N -> Nat]
    BY <1>10, <1>14 DEF P
<1>16. QED
    BY <1>6, <1>11, <1>15 DEF ValuesOf, N

\* The value of up to eight bits, written out.
LEMMA ValueOfBits ==
    ASSUME NEW b \in Bits
    PROVE  /\ Value(b, 2) \in Nat
           /\ Len(b) = 1 => Value(b, 2) = b[1]
           /\ Len(b) = 2 => Value(b, 2) = 2 * b[1] + b[2]
           /\ Len(b) = 3 => Value(b, 2) = 4 * b[1] + 2 * b[2] + b[3]
           /\ Len(b) = 4 => Value(b, 2) = 8 * b[1] + 4 * b[2] + 2 * b[3] + b[4]
           /\ Len(b) = 7 => Value(b, 2) = 64 * b[1] + 32 * b[2] + 16 * b[3] + 8 * b[4]
                                          + 4 * b[5] + 2 * b[6] + b[7]
           /\ Len(b) = 8 => Value(b, 2) = 128 * b[1] + 64 * b[2] + 32 * b[3] + 16 * b[4]
                                          + 8 * b[5] + 4 * b[6] + 2 * b[7] + b[8]
<1>1. b \in Seq(Nat) /\ Len(b) \in Nat /\ \A i \in 1..Len(b) : b[i] \in Nat
    BY DEF Bits
<1>2. PICK f : ValuesOf(b, 2, f)
    BY <1>1, ValueLoop
<1>3. /\ f[0] = 0 /\ Value(b, 2) = f[Len(b)] /\ f \in [0..Len(b) -> Nat]
      /\ \A n \in 1..Len(b) : f[n] = 2 * f[n - 1] + b[n]
    BY <1>2 DEF ValuesOf
<1>4. Value(b, 2) \in Nat /\ \A i \in 0..Len(b) : f[i] \in Nat
    <2>1. Len(b) \in 0..Len(b)
        BY <1>1
    <2>2. QED
        BY <1>3, <2>1, Zenon
<1> DEFINE N == Len(b)
<1>5. /\ N \in Nat /\ \A n \in 1..N : f[n - 1] \in Nat /\ f[n] = 2 * f[n - 1] + b[n]
      /\ \A n \in 1..N : b[n] \in Nat
    BY <1>1, <1>3, <1>4
<1> HIDE DEF Bits, N
<1>6. 1 <= N => f[1] = b[1]
    <2>1. 1 <= N => 1 \in 1..N /\ f[1] = 2 * f[0] + b[1]
        BY <1>5
    <2>2. QED
        BY <1>3, <1>5, <2>1
<1>7. 2 <= N => f[2] = 2 * f[1] + b[2] /\ f[1] \in Nat /\ b[2] \in Nat
    BY <1>5
<1>8. 3 <= N => f[3] = 2 * f[2] + b[3] /\ f[2] \in Nat /\ b[3] \in Nat
    BY <1>5
<1>9. 4 <= N => f[4] = 2 * f[3] + b[4] /\ f[3] \in Nat /\ b[4] \in Nat
    BY <1>5
<1>10. 5 <= N => f[5] = 2 * f[4] + b[5] /\ f[4] \in Nat /\ b[5] \in Nat
    BY <1>5
<1>11. 6 <= N => f[6] = 2 * f[5] + b[6] /\ f[5] \in Nat /\ b[6] \in Nat
    BY <1>5
<1>12. 7 <= N => f[7] = 2 * f[6] + b[7] /\ f[6] \in Nat /\ b[7] \in Nat
    BY <1>5
<1>13. 8 <= N => f[8] = 2 * f[7] + b[8] /\ f[7] \in Nat /\ b[8] \in Nat
    BY <1>5
<1>14. 2 <= N => f[2] = 2 * b[1] + b[2]
    BY <1>5, <1>6, <1>7
<1>15. 3 <= N => f[3] = 4 * b[1] + 2 * b[2] + b[3]
    BY <1>5, <1>8, <1>14
<1>16. 4 <= N => f[4] = 8 * b[1] + 4 * b[2] + 2 * b[3] + b[4]
    BY <1>5, <1>9, <1>15
<1> DEFINE Five == 16 * b[1] + 8 * b[2] + 4 * b[3] + 2 * b[4] + b[5]
<1>17. 5 <= N => f[5] = Five /\ Five \in Nat
    BY <1>5, <1>10, <1>16
<1> HIDE DEF Five
<1>18. 6 <= N => f[6] = 2 * Five + b[6] /\ Five \in Nat /\ b[6] \in Nat
    BY <1>5, <1>11, <1>17
<1>19. 7 <= N => f[7] = 4 * Five + 2 * b[6] + b[7]
    BY <1>5, <1>12, <1>18
<1> USE DEF Five
<1>20. 7 <= N => f[7] = 64 * b[1] + 32 * b[2] + 16 * b[3] + 8 * b[4]
                        + 4 * b[5] + 2 * b[6] + b[7]
    <2>1. 7 <= N => /\ b[1] \in Nat /\ b[2] \in Nat /\ b[3] \in Nat /\ b[4] \in Nat
                    /\ b[5] \in Nat /\ b[6] \in Nat /\ b[7] \in Nat
        BY <1>5
    <2>2. QED
        BY <1>19, <2>1
<1>21. 8 <= N => f[8] = 128 * b[1] + 64 * b[2] + 32 * b[3] + 16 * b[4]
                        + 8 * b[5] + 4 * b[6] + 2 * b[7] + b[8]
    BY <1>5, <1>13, <1>20
<1>22. Value(b, 2) \in Nat /\ Value(b, 2) = f[N]
    BY <1>3, <1>4 DEF N
<1> SUFFICES /\ Value(b, 2) \in Nat
             /\ N = 1 => f[N] = b[1]
             /\ N = 2 => f[N] = 2 * b[1] + b[2]
             /\ N = 3 => f[N] = 4 * b[1] + 2 * b[2] + b[3]
             /\ N = 4 => f[N] = 8 * b[1] + 4 * b[2] + 2 * b[3] + b[4]
             /\ N = 7 => f[N] = 64 * b[1] + 32 * b[2] + 16 * b[3] + 8 * b[4]
                                + 4 * b[5] + 2 * b[6] + b[7]
             /\ N = 8 => f[N] = 128 * b[1] + 64 * b[2] + 32 * b[3] + 16 * b[4]
                                + 8 * b[5] + 4 * b[6] + 2 * b[7] + b[8]
    BY <1>22, ZenonT(60) DEF N
<1>23. (N = 1 => f[N] = b[1]) /\ (N = 2 => f[N] = 2 * b[1] + b[2])
    BY <1>6, <1>14
<1>24. N = 3 => f[N] = 4 * b[1] + 2 * b[2] + b[3]
    BY <1>15
<1>25. N = 4 => f[N] = 8 * b[1] + 4 * b[2] + 2 * b[3] + b[4]
    BY <1>16
<1>26. N = 7 => f[N] = 64 * b[1] + 32 * b[2] + 16 * b[3] + 8 * b[4]
                       + 4 * b[5] + 2 * b[6] + b[7]
    BY <1>20
<1>27. N = 8 => f[N] = 128 * b[1] + 64 * b[2] + 32 * b[3] + 16 * b[4]
                       + 8 * b[5] + 4 * b[6] + 2 * b[7] + b[8]
    BY <1>21
<1>28. QED
    BY <1>22, <1>23, <1>24, <1>25, <1>26, <1>27, Zenon

-----------------------------------------------------------------------------
(* Fragments and their places in a frame.                                  *)

\* The fragment s lies in f behind p bits.
At(f, p, s) == p + Len(s) <= Len(f) /\ \A i \in 1..Len(s) : f[p + i] = s[i]

\* The elements of a frame are bits.
LEMMA BitsAre ==
    ASSUME NEW f \in Bits
    PROVE  Len(f) \in Nat /\ \A i \in 1..Len(f) : f[i] \in {0, 1} /\ f[i] \in Nat
BY DEF Bits

\* A function on 1..n is a sequence.
LEMMA AreBits ==
    ASSUME NEW n \in Nat, NEW f, f \in [1..n -> {0, 1}]
    PROVE  f \in Bits /\ Len(f) = n
BY DEF Bits

\* writeField() writes w bits, the highest one first.
LEMMA WriteField ==
    ASSUME NEW v \in Nat, NEW w \in 1..8
    PROVE  /\ writeField(v, w) \in Bits /\ Len(writeField(v, w)) = w
           /\ \A i \in 1..w : writeField(v, w)[i] = Bit(v, w - i)
<1>1. \A i \in 1..w : w - i \in 0..7
    OBVIOUS
<1>2. \A i \in 1..w : Bit(v, w - i) \in {0, 1}
    BY <1>1, BitTypes
<1>3. w \in Nat /\ writeField(v, w) \in [1..w -> {0, 1}]
    BY <1>2 DEF writeField
<1>4. \A i \in 1..w : writeField(v, w)[i] = Bit(v, w - i)
    BY DEF writeField
<1>5. QED
    BY <1>3, <1>4, AreBits

\* Two fragments, one behind the other, lie where they were put.
LEMMA Behind ==
    ASSUME NEW a \in Bits, NEW b \in Bits
    PROVE  /\ a \o b \in Bits /\ Len(a \o b) = Len(a) + Len(b)
           /\ At(a \o b, 0, a) /\ At(a \o b, Len(a), b)
<1>1. a \in Seq({0, 1}) /\ b \in Seq({0, 1}) /\ Len(a) \in Nat /\ Len(b) \in Nat
    BY DEF Bits
<1>2. a \o b \in Seq({0, 1}) /\ Len(a \o b) = Len(a) + Len(b)
    BY <1>1
<1>3. \A i \in 1..Len(a) : (a \o b)[0 + i] = a[i]
    BY <1>1
<1>4. \A i \in 1..Len(b) : (a \o b)[Len(a) + i] = b[i]
    BY <1>1
<1>5. QED
    BY <1>1, <1>2, <1>3, <1>4 DEF At, Bits

\* A fragment of a fragment lies in the frame.
LEMMA AtAt ==
    ASSUME NEW f \in Bits, NEW a \in Bits, NEW s \in Bits, NEW p \in Nat, NEW q \in Nat,
           At(f, p, a), At(a, q, s)
    PROVE  At(f, p + q, s)
<1>1. Len(f) \in Nat /\ Len(a) \in Nat /\ Len(s) \in Nat
    BY BitsAre
<1>2. /\ p + Len(a) <= Len(f) /\ \A i \in 1..Len(a) : f[p + i] = a[i]
      /\ q + Len(s) <= Len(a) /\ \A i \in 1..Len(s) : a[q + i] = s[i]
    BY Zenon DEF At
<1>3. ASSUME NEW i \in 1..Len(s) PROVE f[(p + q) + i] = s[i]
    <2>1. q + i \in 1..Len(a) /\ p + (q + i) = (p + q) + i
        BY <1>1, <1>2
    <2>2. QED
        BY <1>2, <2>1, Zenon
<1>4. (p + q) + Len(s) <= Len(f)
    BY <1>1, <1>2
<1>5. QED
    BY <1>3, <1>4, Zenon DEF At

\* What readField() reads: w bits behind the first p.
LEMMA Slice ==
    ASSUME NEW f \in Bits, NEW p \in Nat, NEW w \in Nat, p + w <= Len(f)
    PROVE  /\ SubSeq(f, p + 1, p + w) \in Bits /\ Len(SubSeq(f, p + 1, p + w)) = w
           /\ \A i \in 1..w : SubSeq(f, p + 1, p + w)[i] = f[p + i]
<1> DEFINE r == [i \in 1..w |-> f[p + i]]
<1>1. Len(f) \in Nat /\ \A i \in 1..w : p + i \in 1..Len(f) /\ f[p + i] \in {0, 1}
    BY BitsAre
<1>2. SubSeq(f, p + 1, p + w) = r
    <2>1. SubSeq(f, p + 1, p + w) = [i \in 1..((p + w) - (p + 1) + 1) |-> f[i + (p + 1) - 1]]
        BY <1>1 DEF Bits
    <2>2. (p + w) - (p + 1) + 1 = w /\ \A i \in 1..w : i + (p + 1) - 1 = p + i
        OBVIOUS
    <2>3. QED
        BY <2>1, <2>2
<1>3. r \in [1..w -> {0, 1}]
    BY <1>1
<1>4. QED
    BY <1>2, <1>3, AreBits

\* A fragment is read as it was written.
LEMMA SliceAt ==
    ASSUME NEW f \in Bits, NEW p \in Nat, NEW s \in Bits, At(f, p, s)
    PROVE  SubSeq(f, p + 1, p + Len(s)) = s
<1>1. Len(s) \in Nat /\ p + Len(s) <= Len(f) /\ \A i \in 1..Len(s) : f[p + i] = s[i]
    BY BitsAre DEF At
<1> DEFINE r == SubSeq(f, p + 1, p + Len(s))
<1>2. r \in Bits /\ Len(r) = Len(s) /\ \A i \in 1..Len(s) : r[i] = s[i]
    BY <1>1, Slice
<1> HIDE DEF r
<1>3. r \in Seq({0, 1}) /\ s \in Seq({0, 1})
    BY <1>2 DEF Bits
<1>4. r = s
    BY <1>2, <1>3
<1>5. QED
    BY <1>4 DEF r

\* A field, read bit by bit.
LEMMA ReadBits ==
    ASSUME NEW f \in Bits, NEW p \in Nat
    PROVE  /\ \A w \in Nat : p + w <= Len(f) => readField(f, p, w) \in Nat
           /\ p + 1 <= Len(f) => readField(f, p, 1) = f[p + 1]
           /\ p + 2 <= Len(f) => readField(f, p, 2) = 2 * f[p + 1] + f[p + 2]
           /\ p + 3 <= Len(f) => readField(f, p, 3) = 4 * f[p + 1] + 2 * f[p + 2] + f[p + 3]
           /\ p + 4 <= Len(f) => readField(f, p, 4) = 8 * f[p + 1] + 4 * f[p + 2]
                                                      + 2 * f[p + 3] + f[p + 4]
           /\ p + 8 <= Len(f) => readField(f, p, 8) = 128 * f[p + 1] + 64 * f[p + 2]
                                    + 32 * f[p + 3] + 16 * f[p + 4] + 8 * f[p + 5]
                                    + 4 * f[p + 6] + 2 * f[p + 7] + f[p + 8]
<1>1. \A w \in {1, 2, 3, 4, 8} : w \in Nat
    OBVIOUS
<1>2. \A w \in Nat : p + w <= Len(f) => readField(f, p, w) \in Nat
    BY Slice, ValueOfBits, Zenon DEF readField
<1>3. ASSUME p + 1 <= Len(f)
      PROVE  readField(f, p, 1) = f[p + 1]
    <2> DEFINE b == SubSeq(f, p + 1, p + 1)
    <2>1. b \in Bits /\ Len(b) = 1 /\ \A i \in 1..1 : b[i] = f[p + i]
        BY <1>1, <1>3, Slice, Zenon
    <2>2. readField(f, p, 1) = Value(b, 2)
        BY DEF readField
    <2> HIDE DEF b
    <2>3. readField(f, p, 1) = b[1]
        BY <2>1, <2>2, ValueOfBits, Zenon
    <2>4. b[1] = f[p + 1]
        BY <2>1
    <2>5. QED
        BY <2>3, <2>4, Zenon
<1>4. ASSUME p + 2 <= Len(f)
      PROVE  readField(f, p, 2) = 2 * f[p + 1] + f[p + 2]
    <2> DEFINE b == SubSeq(f, p + 1, p + 2)
    <2>1. b \in Bits /\ Len(b) = 2 /\ \A i \in 1..2 : b[i] = f[p + i]
        BY <1>1, <1>4, Slice, Zenon
    <2>2. readField(f, p, 2) = Value(b, 2)
        BY DEF readField
    <2> HIDE DEF b
    <2>3. readField(f, p, 2) = 2 * b[1] + b[2]
        BY <2>1, <2>2, ValueOfBits, Zenon
    <2>4. b[1] = f[p + 1] /\ b[2] = f[p + 2]
        BY <2>1
    <2>5. QED
        BY <2>3, <2>4, Zenon
<1>5. ASSUME p + 3 <= Len(f)
      PROVE  readField(f, p, 3) = 4 * f[p + 1] + 2 * f[p + 2] + f[p + 3]
    <2> DEFINE b == SubSeq(f, p + 1, p + 3)
    <2>1. b \in Bits /\ Len(b) = 3 /\ \A i \in 1..3 : b[i] = f[p + i]
        BY <1>1, <1>5, Slice, Zenon
    <2>2. readField(f, p, 3) = Value(b, 2)
        BY DEF readField
    <2> HIDE DEF b
    <2>3. readField(f, p, 3) = 4 * b[1] + 2 * b[2] + b[3]
        BY <2>1, <2>2, ValueOfBits, Zenon
    <2>4. b[1] = f[p + 1] /\ b[2] = f[p + 2] /\ b[3] = f[p + 3]
        BY <2>1
    <2>5. QED
        BY <2>3, <2>4, Zenon
<1>6. ASSUME p + 4 <= Len(f)
      PROVE  readField(f, p, 4) = 8 * f[p + 1] + 4 * f[p + 2] + 2 * f[p + 3] + f[p + 4]
    <2> DEFINE b == SubSeq(f, p + 1, p + 4)
    <2>1. b \in Bits /\ Len(b) = 4 /\ \A i \in 1..4 : b[i] = f[p + i]
        BY <1>1, <1>6, Slice, Zenon
    <2>2. readField(f, p, 4) = Value(b, 2)
        BY DEF readField
    <2> HIDE DEF b
    <2>3. readField(f, p, 4) = 8 * b[1] + 4 * b[2] + 2 * b[3] + b[4]
        BY <2>1, <2>2, ValueOfBits, Zenon
    <2>4. b[1] = f[p + 1] /\ b[2] = f[p + 2] /\ b[3] = f[p + 3] /\ b[4] = f[p + 4]
        BY <2>1
    <2>5. QED
        BY <2>3, <2>4, Zenon
<1>7. ASSUME p + 8 <= Len(f)
      PROVE  readField(f, p, 8) = 128 * f[p + 1] + 64 * f[p + 2] + 32 * f[p + 3] + 16 * f[p + 4]
                                + 8 * f[p + 5] + 4 * f[p + 6] + 2 * f[p + 7] + f[p + 8]
    <2> DEFINE b == SubSeq(f, p + 1, p + 8)
    <2>1. b \in Bits /\ Len(b) = 8 /\ \A i \in 1..8 : b[i] = f[p + i]
        BY <1>1, <1>7, Slice, Zenon
    <2>2. readField(f, p, 8) = Value(b, 2)
        BY DEF readField
    <2> HIDE DEF b
    <2>3. readField(f, p, 8) = 128 * b[1] + 64 * b[2] + 32 * b[3] + 16 * b[4]
                             + 8 * b[5] + 4 * b[6] + 2 * b[7] + b[8]
        BY <2>1, <2>2, ValueOfBits, Zenon
    <2>4. /\ b[1] = f[p + 1] /\ b[2] = f[p + 2] /\ b[3] = f[p + 3] /\ b[4] = f[p + 4]
          /\ b[5] = f[p + 5] /\ b[6] = f[p + 6] /\ b[7] = f[p + 7] /\ b[8] = f[p + 8]
        BY <2>1
    <2>5. QED
        BY <2>3, <2>4, Zenon
<1>8. QED
    BY <1>2, <1>3, <1>4, <1>5, <1>6, <1>7, Zenon

\* A field that was written is read back, up to its width.
LEMMA OctetBack ==
    ASSUME NEW f \in Bits, NEW p \in Nat, NEW v \in Nat, At(f, p, writeField(v, 8))
    PROVE  p + 8 <= Len(f) /\ readField(f, p, 8) = v % 256
<1>1. 8 \in 1..8
    OBVIOUS
<1>2. p + 8 <= Len(f) /\ \A i \in 1..8 : f[p + i] = Bit(v, 8 - i)
    BY <1>1, WriteField, Zenon DEF At
<1>3. /\ f[p + 1] = Bit(v, 7) /\ f[p + 2] = Bit(v, 6) /\ f[p + 3] = Bit(v, 5) /\ f[p + 4] = Bit(v, 4)
      /\ f[p + 5] = Bit(v, 3) /\ f[p + 6] = Bit(v, 2) /\ f[p + 7] = Bit(v, 1) /\ f[p + 8] = Bit(v, 0)
    BY <1>2
<1>4. readField(f, p, 8) = 128 * f[p + 1] + 64 * f[p + 2] + 32 * f[p + 3] + 16 * f[p + 4]
                               + 8 * f[p + 5] + 4 * f[p + 6] + 2 * f[p + 7] + f[p + 8]
    BY <1>2, ReadBits, Zenon
<1>5. v % 256 = 128 * Bit(v, 7) + 64 * Bit(v, 6) + 32 * Bit(v, 5) + 16 * Bit(v, 4)
                    + 8 * Bit(v, 3) + 4 * Bit(v, 2) + 2 * Bit(v, 1) + Bit(v, 0)
    BY SumOfBits, Zenon
<1>6. QED
    BY <1>2, <1>3, <1>4, <1>5, Zenon

\* A field of four bits is read as it was written.
LEMMA HalfBack ==
    ASSUME NEW f \in Bits, NEW p \in Nat, NEW v \in Nat, At(f, p, writeField(v, 4))
    PROVE  p + 4 <= Len(f) /\ readField(f, p, 4) = v % 16
<1>1. 4 \in 1..8
    OBVIOUS
<1>2. p + 4 <= Len(f) /\ \A i \in 1..4 : f[p + i] = Bit(v, 4 - i)
    BY <1>1, WriteField, Zenon DEF At
<1>3. f[p + 1] = Bit(v, 3) /\ f[p + 2] = Bit(v, 2) /\ f[p + 3] = Bit(v, 1) /\ f[p + 4] = Bit(v, 0)
    BY <1>2
<1>4. readField(f, p, 4) = 8 * f[p + 1] + 4 * f[p + 2] + 2 * f[p + 3] + f[p + 4]
    BY <1>2, ReadBits, Zenon
<1>5. v % 16 = 8 * Bit(v, 3) + 4 * Bit(v, 2) + 2 * Bit(v, 1) + Bit(v, 0)
    BY SumOfBits, Zenon
<1>6. QED
    BY <1>2, <1>3, <1>4, <1>5, Zenon

\* A field of three bits is read as it was written.
LEMMA ThreeBack ==
    ASSUME NEW f \in Bits, NEW p \in Nat, NEW v \in Nat, At(f, p, writeField(v, 3))
    PROVE  p + 3 <= Len(f) /\ readField(f, p, 3) = v % 8
<1>1. 3 \in 1..8
    OBVIOUS
<1>2. p + 3 <= Len(f) /\ \A i \in 1..3 : f[p + i] = Bit(v, 3 - i)
    BY <1>1, WriteField, Zenon DEF At
<1>3. f[p + 1] = Bit(v, 2) /\ f[p + 2] = Bit(v, 1) /\ f[p + 3] = Bit(v, 0)
    BY <1>2
<1>4. readField(f, p, 3) = 4 * f[p + 1] + 2 * f[p + 2] + f[p + 3]
    BY <1>2, ReadBits, Zenon
<1>5. v % 8 = 4 * Bit(v, 2) + 2 * Bit(v, 1) + Bit(v, 0)
    BY SumOfBits, Zenon
<1>6. QED
    BY <1>2, <1>3, <1>4, <1>5, Zenon

\* Fields of one width lie one behind the other.
LEMMA FieldsAre ==
    ASSUME NEW vs \in Seq(Nat), NEW w \in {4, 8}
    PROVE  /\ Fields(vs, w) \in Bits /\ Len(Fields(vs, w)) = w * Len(vs)
           /\ \A k \in 1..Len(vs) : At(Fields(vs, w), w * (k - 1), writeField(vs[k], w))
<1> DEFINE n == Len(vs)
<1>1. n \in Nat /\ w * n \in Nat /\ \A k \in 1..n : vs[k] \in Nat
    OBVIOUS
<1>2. \A i \in 1..(w * n) : ((i - 1) \div w) + 1 \in 1..n /\ w - 1 - ((i - 1) % w) \in 0..7
    <2>1. CASE w = 4
        BY <1>1, <2>1
    <2>2. CASE w = 8
        BY <1>1, <2>2
    <2>3. QED
        BY <2>1, <2>2
<1>3. \A i \in 1..(w * n) :
        Fields(vs, w)[i] = Bit(vs[((i - 1) \div w) + 1], w - 1 - ((i - 1) % w))
    BY DEF Fields
<1>4. Fields(vs, w) \in [1..(w * n) -> {0, 1}]
    BY <1>1, <1>2, BitTypes DEF Fields
<1>5. Fields(vs, w) \in Bits /\ Len(Fields(vs, w)) = w * n
    BY <1>1, <1>4, AreBits
<1>6. ASSUME NEW k \in 1..n PROVE At(Fields(vs, w), w * (k - 1), writeField(vs[k], w))
    <2>1. \A j \in 1..w : LET i == w * (k - 1) + j
                          IN  /\ i \in 1..(w * n)
                              /\ (i - 1) \div w = k - 1 /\ w - 1 - ((i - 1) % w) = w - j
        <3>1. CASE w = 4
            BY <1>1, <3>1
        <3>2. CASE w = 8
            BY <1>1, <3>2, SMTT(60)
        <3>3. QED
            BY <3>1, <3>2
    <2>2. \A j \in 1..w : Fields(vs, w)[w * (k - 1) + j] = Bit(vs[k], w - j)
        <3>1. SUFFICES ASSUME NEW j \in 1..w
                       PROVE  Fields(vs, w)[w * (k - 1) + j] = Bit(vs[k], w - j)
            OBVIOUS
        <3> DEFINE i == w * (k - 1) + j
        <3>2. i \in 1..(w * n) /\ (i - 1) \div w = k - 1 /\ w - 1 - ((i - 1) % w) = w - j
            BY <2>1
        <3>3. Fields(vs, w)[i] = Bit(vs[(k - 1) + 1], w - j)
            BY <1>3, <3>2
        <3>4. (k - 1) + 1 = k
            OBVIOUS
        <3>5. QED
            BY <3>3, <3>4
    <2>3. w * (k - 1) + w <= w * n
        <3>1. CASE w = 4
            BY <1>1, <3>1
        <3>2. CASE w = 8
            BY <1>1, <3>2
        <3>3. QED
            BY <3>1, <3>2
    <2>4. vs[k] \in Nat /\ w \in 1..8
        BY <1>1
    <2>5. /\ Len(writeField(vs[k], w)) = w
          /\ \A j \in 1..w : writeField(vs[k], w)[j] = Bit(vs[k], w - j)
        BY <2>4, WriteField
    <2>6. QED
        BY <1>5, <2>2, <2>3, <2>5 DEF At
<1>7. QED
    BY <1>5, <1>6

-----------------------------------------------------------------------------
(* The alphabet.                                                           *)

\* The alphabet has 128 characters.
LEMMA AlphabetIs == gGSMAlphabet \in Seq(1..255) /\ Len(gGSMAlphabet) = 128
<1> DEFINE C == 1..255
           a1 == <<64, 163, 36, 165, 232, 233, 249, 236, 242, 231, 10, 216, 248, 13, 197, 229,
                   68, 95, 70, 71, 76, 79, 80, 67, 83, 84, 90, 32, 198, 230, 223, 201>>
           a2 == [i \in 1..4 |-> 31 + i]
           a3 == [i \in 1..27 |-> 36 + i]
           a4 == [i \in 1..26 |-> 64 + i]
           a5 == <<196, 214, 209, 220, 167, 191>>
           a6 == [i \in 1..26 |-> 96 + i]
           a7 == <<228, 246, 241, 252, 225>>
<1>1. a1 \in Seq(C)
    OBVIOUS
<1>2. a2 \in Seq(C)
    OBVIOUS
<1>3. <<164>> \in Seq(C)
    OBVIOUS
<1>4. a3 \in Seq(C)
    OBVIOUS
<1>5. <<161>> \in Seq(C)
    OBVIOUS
<1>6. a4 \in Seq(C)
    OBVIOUS
<1>7. a5 \in Seq(C)
    OBVIOUS
<1>8. a6 \in Seq(C)
    OBVIOUS
<1>9. a7 \in Seq(C)
    OBVIOUS
<1>10. /\ Len(a1) = 32 /\ Len(a2) = 4 /\ Len(<<164>>) = 1 /\ Len(a3) = 27 /\ Len(<<161>>) = 1
       /\ Len(a4) = 26 /\ Len(a5) = 6 /\ Len(a6) = 26 /\ Len(a7) = 5
    OBVIOUS
<1>11. gGSMAlphabet = a1 \o a2 \o <<164>> \o a3 \o <<161>> \o a4 \o a5 \o a6 \o a7
    BY DEF gGSMAlphabet
<1> HIDE DEF C, a1, a2, a3, a4, a5, a6, a7
<1>12. \A s, t \in Seq(C) : s \o t \in Seq(C) /\ Len(s \o t) = Len(s) + Len(t)
    OBVIOUS
<1> DEFINE c1 == a1 \o a2
           c2 == c1 \o <<164>>
           c3 == c2 \o a3
           c4 == c3 \o <<161>>
           c5 == c4 \o a4
           c6 == c5 \o a5
           c7 == c6 \o a6
           c8 == c7 \o a7
<1>13. c1 \in Seq(C) /\ Len(c1) = Len(a1) + Len(a2)
    BY <1>1, <1>2, <1>12, Zenon
<1> HIDE DEF c1
<1>14. c2 \in Seq(C) /\ Len(c2) = Len(c1) + Len(<<164>>)
    BY <1>13, <1>3, <1>12, Zenon
<1> HIDE DEF c2
<1>15. c3 \in Seq(C) /\ Len(c3) = Len(c2) + Len(a3)
    BY <1>14, <1>4, <1>12, Zenon
<1> HIDE DEF c3
<1>16. c4 \in Seq(C) /\ Len(c4) = Len(c3) + Len(<<161>>)
    BY <1>15, <1>5, <1>12, Zenon
<1> HIDE DEF c4
<1>17. c5 \in Seq(C) /\ Len(c5) = Len(c4) + Len(a4)
    BY <1>16, <1>6, <1>12, Zenon
<1> HIDE DEF c5
<1>18. c6 \in Seq(C) /\ Len(c6) = Len(c5) + Len(a5)
    BY <1>17, <1>7, <1>12, Zenon
<1> HIDE DEF c6
<1>19. c7 \in Seq(C) /\ Len(c7) = Len(c6) + Len(a6)
    BY <1>18, <1>8, <1>12, Zenon
<1> HIDE DEF c7
<1>20. c8 \in Seq(C) /\ Len(c8) = Len(c7) + Len(a7)
    BY <1>19, <1>9, <1>12, Zenon
<1> HIDE DEF c8
<1>21. Len(c8) = 128
    BY <1>10, <1>13, <1>14, <1>15, <1>16, <1>17, <1>18, <1>19, <1>20
<1>22. QED
    BY <1>11, <1>20, <1>21 DEF C, c1, c2, c3, c4, c5, c6, c7, c8

\* The characters that the alphabet has.
Alphabet == {gGSMAlphabet[i] : i \in 1..128}

\* Every character gets a code, and one of the alphabet a code that stands for it.
LEMMA Codes ==
    ASSUME NEW c
    PROVE  /\ encodeGSMChar(c) \in 0..127
           /\ c \in Alphabet => decodeGSMChar(encodeGSMChar(c)) = c
<1> DEFINE codes == {i \in 0..127 : decodeGSMChar(i) = c}
<1>1. CASE codes = {}
    <2>1. ASSUME c \in Alphabet PROVE FALSE
        <3>1. PICK i \in 1..128 : gGSMAlphabet[i] = c
            BY <2>1 DEF Alphabet
        <3>2. i - 1 \in 0..127 /\ (i - 1) + 1 = i
            OBVIOUS
        <3>3. i - 1 \in codes
            BY <3>1, <3>2 DEF decodeGSMChar
        <3>4. QED
            BY <1>1, <3>3
    <2>2. encodeGSMChar(c) = 0
        BY <1>1 DEF encodeGSMChar
    <2>3. QED
        BY <2>1, <2>2
<1>2. CASE codes # {}
    <2>1. codes \in SUBSET (0..127) /\ 127 \in Nat
        OBVIOUS
    <2>2. encodeGSMChar(c) = Max(codes)
        BY <1>2, Zenon DEF encodeGSMChar
    <2> HIDE DEF codes
    <2>3. Max(codes) \in codes
        BY <1>2, <2>1, MaxIsMember, Zenon
    <2>4. QED
        BY <2>2, <2>3 DEF codes
<1>3. QED
    BY <1>1, <1>2

-----------------------------------------------------------------------------
(* Numbers: two digits to an octet.                                        *)

Octets(n) == (Len(n.digits) + 1) \div 2
SecondDigit(n, k) == IF 2 * k > Len(n.digits) THEN 15 ELSE n.digits[2 * k]

\* Behind p bits of f lie the digits of n, the second one of an octet first.
DigitsAt(f, p, n) ==
    \A k \in 1..Octets(n) :
        /\ p + 8 * k <= Len(f)
        /\ readField(f, p + 8 * (k - 1), 4) = SecondDigit(n, k)
        /\ readField(f, p + 8 * (k - 1) + 4, 4) = n.digits[2 * k - 1]

\* The digits of a number and the octets they take.
LEMMA DigitFacts ==
    ASSUME NEW n \in Number
    PROVE  /\ Len(n.digits) \in Nat /\ Octets(n) \in Nat /\ n.digits \in Seq(0..11)
           /\ Ceil(Len(n.digits), 2) = Octets(n) /\ L3BCDDigits_lengthV(n) = Octets(n)
           /\ \A i \in 1..Len(n.digits) : n.digits[i] \in 0..11
           /\ \A k \in 1..Octets(n) :
                /\ 2 * k - 1 \in 1..Len(n.digits) /\ n.digits[2 * k - 1] \in 0..11
                /\ SecondDigit(n, k) \in 0..15
                /\ 2 * k <= Len(n.digits) => SecondDigit(n, k) = n.digits[2 * k]
                                             /\ SecondDigit(n, k) \in 0..11
                /\ 2 * k > Len(n.digits) => SecondDigit(n, k) = 15
                                            /\ 2 * k - 1 = Len(n.digits)
<1>1. n.digits \in Seq(0..11) /\ Len(n.digits) \in Nat
    BY DEF Number
<1> DEFINE L == Len(n.digits)
<1>2. \A i \in 1..L : n.digits[i] \in 0..11
    BY <1>1
<1> HIDE DEF L
<1>3. L \in Nat
    BY <1>1 DEF L
<1>4. Octets(n) = (L + 1) \div 2 /\ Ceil(L, 2) = (L + 1) \div 2
      /\ L3BCDDigits_lengthV(n) = (L \div 2) + (L % 2)
    <2>1. (L + 2) - 1 = L + 1
        BY <1>3
    <2>2. QED
        BY <2>1 DEF Octets, Ceil, L3BCDDigits_lengthV, L
<1>5. (L + 1) \div 2 \in Nat /\ (L \div 2) + (L % 2) = (L + 1) \div 2
    BY <1>3
<1>6. ASSUME NEW k \in 1..Octets(n)
      PROVE  /\ 2 * k - 1 \in 1..L
             /\ 2 * k <= L => 2 * k \in 1..L
             /\ 2 * k > L => 2 * k - 1 = L
    BY <1>3, <1>4, <1>5
<1>7. ASSUME NEW k \in 1..Octets(n)
      PROVE  /\ n.digits[2 * k - 1] \in 0..11
             /\ SecondDigit(n, k) \in 0..15
             /\ 2 * k <= L => SecondDigit(n, k) = n.digits[2 * k] /\ SecondDigit(n, k) \in 0..11
             /\ 2 * k > L => SecondDigit(n, k) = 15
    <2>1. SecondDigit(n, k) = IF 2 * k > L THEN 15 ELSE n.digits[2 * k]
        BY DEF SecondDigit, L
    <2>2. 2 * k > L \/ 2 * k <= L
        BY <1>3
    <2>3. QED
        BY <1>2, <1>3, <1>6, <2>1, <2>2
<1>8. Octets(n) \in Nat /\ Ceil(L, 2) = Octets(n) /\ L3BCDDigits_lengthV(n) = Octets(n)
    BY <1>4, <1>5
<1>9. QED
    BY <1>1, <1>2, <1>6, <1>7, <1>8, Zenon DEF L

\* The handset's octets.
LEMMA HandsetDigitsAre ==
    ASSUME NEW n \in Number
    PROVE  /\ HandsetDigits(n) \in Bits /\ Len(HandsetDigits(n)) = 8 * Octets(n)
           /\ \A k \in 1..Octets(n) :
                At(HandsetDigits(n), 8 * (k - 1),
                   writeField(n.digits[2 * k - 1] + 16 * SecondDigit(n, k), 8))
<1> DEFINE vs == [k \in 1..Octets(n) |-> n.digits[2 * k - 1] + 16 * SecondDigit(n, k)]
<1>1. /\ Octets(n) \in Nat /\ Ceil(Len(n.digits), 2) = Octets(n)
      /\ \A k \in 1..Octets(n) : n.digits[2 * k - 1] \in 0..11 /\ SecondDigit(n, k) \in 0..15
    BY DigitFacts
<1>2. ASSUME NEW k \in 1..Octets(n)
      PROVE  n.digits[2 * k - 1] + 16 * SecondDigit(n, k) \in Nat
    <2>1. n.digits[2 * k - 1] \in 0..11 /\ SecondDigit(n, k) \in 0..15
        BY <1>1, Zenon
    <2>2. QED
        BY <2>1
<1>3. vs \in Seq(Nat) /\ Len(vs) = Octets(n)
    BY <1>1, <1>2, SMTT(60)
<1>4. HandsetDigits(n) = Fields(vs, 8)
    BY <1>1 DEF HandsetDigits, SecondDigit
<1>5. \A k \in 1..Octets(n) : vs[k] = n.digits[2 * k - 1] + 16 * SecondDigit(n, k)
    OBVIOUS
<1> HIDE DEF vs
<1>6. /\ Fields(vs, 8) \in Bits /\ Len(Fields(vs, 8)) = 8 * Len(vs)
      /\ \A k \in 1..Len(vs) : At(Fields(vs, 8), 8 * (k - 1), writeField(vs[k], 8))
    BY <1>3, FieldsAre
<1>7. QED
    BY <1>3, <1>4, <1>5, <1>6

\* The half octets of L3BCDDigits.
LEMMA CodecDigitsAre ==
    ASSUME NEW n \in Number
    PROVE  /\ L3BCDDigits_write(n) \in Bits /\ Len(L3BCDDigits_write(n)) = 8 * Octets(n)
           /\ \A k \in 1..Octets(n) :
                /\ At(L3BCDDigits_write(n), 8 * (k - 1), writeField(SecondDigit(n, k), 4))
                /\ At(L3BCDDigits_write(n), 8 * (k - 1) + 4, writeField(n.digits[2 * k - 1], 4))
<1> DEFINE digit(j) == IF j <= Len(n.digits) THEN n.digits[j] ELSE 15
           m == 2 * Octets(n)
           vs == [j \in 1..m |-> digit(IF j % 2 = 1 THEN j + 1 ELSE j - 1)]
<1>1. /\ Octets(n) \in Nat /\ Len(n.digits) \in Nat
      /\ \A i \in 1..Len(n.digits) : n.digits[i] \in 0..11
      /\ \A k \in 1..Octets(n) : 2 * k - 1 \in 1..Len(n.digits)
    BY DigitFacts
<1>2. m \in Nat /\ \A j \in 1..m : (IF j % 2 = 1 THEN j + 1 ELSE j - 1) \in Nat \ {0}
    BY <1>1
<1>3. ASSUME NEW i \in Nat \ {0} PROVE digit(i) \in Nat
    <2>1. CASE i <= Len(n.digits)
        <3>1. i \in 1..Len(n.digits)
            BY <1>1, <2>1
        <3>2. n.digits[i] \in 0..11
            BY <1>1, <3>1, Zenon
        <3>3. QED
            BY <2>1, <3>2
    <2>2. CASE ~(i <= Len(n.digits))
        BY <2>2
    <2>3. QED
        BY <2>1, <2>2
<1>4. L3BCDDigits_write(n) = Fields(vs, 4)
    BY DEF L3BCDDigits_write, Octets
<1>5. \A k \in 1..Octets(n) :
        /\ 2 * k - 1 \in 1..m /\ 2 * k \in 1..m
        /\ vs[2 * k - 1] = digit(2 * k) /\ vs[2 * k] = digit(2 * k - 1)
    <2>1. SUFFICES ASSUME NEW k \in 1..Octets(n)
                   PROVE  /\ 2 * k - 1 \in 1..m /\ 2 * k \in 1..m
                          /\ vs[2 * k - 1] = digit(2 * k) /\ vs[2 * k] = digit(2 * k - 1)
        OBVIOUS
    <2>2. /\ 2 * k - 1 \in 1..m /\ 2 * k \in 1..m
          /\ (2 * k - 1) % 2 = 1 /\ (2 * k) % 2 = 0 /\ (2 * k - 1) + 1 = 2 * k
        BY <1>1
    <2> HIDE DEF digit
    <2>3. QED
        BY <2>2
<1>6. \A k \in 1..Octets(n) : digit(2 * k) = SecondDigit(n, k)
                              /\ digit(2 * k - 1) = n.digits[2 * k - 1]
    BY <1>1 DEF SecondDigit
<1> HIDE DEF digit
<1>7. vs \in Seq(Nat) /\ Len(vs) = m
    BY <1>2, <1>3
<1> HIDE DEF vs
<1>8. /\ Fields(vs, 4) \in Bits /\ Len(Fields(vs, 4)) = 4 * Len(vs)
      /\ \A j \in 1..Len(vs) : At(Fields(vs, 4), 4 * (j - 1), writeField(vs[j], 4))
    BY <1>7, FieldsAre
<1>9. ASSUME NEW k \in 1..Octets(n)
      PROVE  /\ At(Fields(vs, 4), 8 * (k - 1), writeField(SecondDigit(n, k), 4))
             /\ At(Fields(vs, 4), 8 * (k - 1) + 4, writeField(n.digits[2 * k - 1], 4))
    <2>1. 4 * ((2 * k - 1) - 1) = 8 * (k - 1) /\ 4 * (2 * k - 1) = 8 * (k - 1) + 4
        BY <1>1
    <2>2. /\ At(Fields(vs, 4), 4 * ((2 * k - 1) - 1), writeField(vs[2 * k - 1], 4))
          /\ At(Fields(vs, 4), 4 * (2 * k - 1), writeField(vs[2 * k], 4))
        BY <1>5, <1>7, <1>8
    <2>3. QED
        BY <1>5, <1>6, <2>1, <2>2
<1>10. 4 * Len(vs) = 8 * Octets(n)
    BY <1>1, <1>7
<1>11. QED
    BY <1>4, <1>8, <1>9, <1>10

\* Two halves make an octet, and only one.
LEMMA HalfOctets ==
    ASSUME NEW h \in 0..15, NEW l \in 0..15
    PROVE  /\ 16 * h + l \in 0..255 /\ (16 * h + l) % 16 = l /\ (16 * h + l) \div 16 = h
           /\ \A a, b \in 0..15 : 16 * h + l = b + 16 * a => h = a /\ l = b
OBVIOUS

\* An octet is its two halves.
LEMMA Halves ==
    ASSUME NEW f \in Bits, NEW p \in Nat, p + 8 <= Len(f)
    PROVE  /\ readField(f, p, 8) = 16 * readField(f, p, 4) + readField(f, p + 4, 4)
           /\ readField(f, p, 4) \in 0..15 /\ readField(f, p + 4, 4) \in 0..15
<1> DEFINE q == p + 4
<1>1. q \in Nat /\ p + 4 <= Len(f) /\ q + 4 <= Len(f)
    BY BitsAre
<1>2. /\ readField(f, p, 4) = 8 * f[p + 1] + 4 * f[p + 2] + 2 * f[p + 3] + f[p + 4]
      /\ readField(f, q, 4) = 8 * f[q + 1] + 4 * f[q + 2] + 2 * f[q + 3] + f[q + 4]
      /\ readField(f, p, 8) = 128 * f[p + 1] + 64 * f[p + 2] + 32 * f[p + 3] + 16 * f[p + 4]
                              + 8 * f[p + 5] + 4 * f[p + 6] + 2 * f[p + 7] + f[p + 8]
    BY <1>1, ReadBits, ZenonT(60)
<1>3. q + 1 = p + 5 /\ q + 2 = p + 6 /\ q + 3 = p + 7 /\ q + 4 = p + 8
    OBVIOUS
<1>4. \A i \in 1..8 : f[p + i] \in {0, 1}
    BY BitsAre
<1>5. /\ f[p + 1] \in {0, 1} /\ f[p + 2] \in {0, 1} /\ f[p + 3] \in {0, 1} /\ f[p + 4] \in {0, 1}
      /\ f[p + 5] \in {0, 1} /\ f[p + 6] \in {0, 1} /\ f[p + 7] \in {0, 1} /\ f[p + 8] \in {0, 1}
    BY <1>4
<1>6. readField(f, q, 4) = 8 * f[p + 5] + 4 * f[p + 6] + 2 * f[p + 7] + f[p + 8]
    BY <1>2, <1>3
<1>7. PICK b1 \in {0, 1}, b2 \in {0, 1}, b3 \in {0, 1}, b4 \in {0, 1} :
        b1 = f[p + 1] /\ b2 = f[p + 2] /\ b3 = f[p + 3] /\ b4 = f[p + 4]
    BY <1>5
<1>8. PICK b5 \in {0, 1}, b6 \in {0, 1}, b7 \in {0, 1}, b8 \in {0, 1} :
        b5 = f[p + 5] /\ b6 = f[p + 6] /\ b7 = f[p + 7] /\ b8 = f[p + 8]
    BY <1>5
<1>9. /\ readField(f, p, 4) = 8 * b1 + 4 * b2 + 2 * b3 + b4
      /\ readField(f, q, 4) = 8 * b5 + 4 * b6 + 2 * b7 + b8
      /\ readField(f, p, 8) = 128 * b1 + 64 * b2 + 32 * b3 + 16 * b4
                              + 8 * b5 + 4 * b6 + 2 * b7 + b8
    BY <1>2, <1>6, <1>7, <1>8, Zenon
<1>10. /\ 8 * b1 + 4 * b2 + 2 * b3 + b4 \in 0..15
       /\ 8 * b5 + 4 * b6 + 2 * b7 + b8 \in 0..15
       /\ 128 * b1 + 64 * b2 + 32 * b3 + 16 * b4 + 8 * b5 + 4 * b6 + 2 * b7 + b8
            = 16 * (8 * b1 + 4 * b2 + 2 * b3 + b4) + (8 * b5 + 4 * b6 + 2 * b7 + b8)
    OBVIOUS
<1>11. QED
    BY <1>9, <1>10, Zenon

\* The handset puts the digits where they are looked for.
LEMMA HandsetDigitsAt ==
    ASSUME NEW f \in Bits, NEW p \in Nat, NEW n \in Number, At(f, p, HandsetDigits(n))
    PROVE  DigitsAt(f, p, n)
<1>1. SUFFICES ASSUME NEW k \in 1..Octets(n)
               PROVE  /\ p + 8 * k <= Len(f)
                      /\ readField(f, p + 8 * (k - 1), 4) = SecondDigit(n, k)
                      /\ readField(f, p + 8 * (k - 1) + 4, 4) = n.digits[2 * k - 1]
    BY DEF DigitsAt
<1>2. n.digits[2 * k - 1] \in 0..11 /\ SecondDigit(n, k) \in 0..15 /\ Octets(n) \in Nat
    BY DigitFacts, Zenon
<1> DEFINE d1 == n.digits[2 * k - 1]
           d2 == SecondDigit(n, k)
           v == d1 + 16 * d2
           q == p + 8 * (k - 1)
<1>3. v \in Nat /\ v % 256 = v /\ q \in Nat /\ q + 8 = p + 8 * k /\ 8 * (k - 1) \in Nat
    BY <1>2
<1> HIDE DEF v, q
<1>4. writeField(v, 8) \in Bits /\ Len(writeField(v, 8)) = 8
    BY <1>3, WriteField
<1>5. At(HandsetDigits(n), 8 * (k - 1), writeField(v, 8)) /\ HandsetDigits(n) \in Bits
    BY HandsetDigitsAre DEF v
<1>6. At(f, q, writeField(v, 8))
    BY <1>3, <1>4, <1>5, AtAt DEF q
<1>7. q + 8 <= Len(f) /\ readField(f, q, 8) = v
    <2>1. q + 8 <= Len(f) /\ readField(f, q, 8) = v % 256
        BY <1>3, <1>6, OctetBack, ZenonT(60)
    <2>2. QED
        BY <1>3, <2>1, Zenon
<1>8. /\ readField(f, q, 8) = 16 * readField(f, q, 4) + readField(f, q + 4, 4)
      /\ readField(f, q, 4) \in 0..15 /\ readField(f, q + 4, 4) \in 0..15
    BY <1>3, <1>7, Halves
<1>9. readField(f, q, 4) = d2 /\ readField(f, q + 4, 4) = d1
    <2>1. d1 \in 0..15 /\ d2 \in 0..15
        BY <1>2
    <2>2. 16 * readField(f, q, 4) + readField(f, q + 4, 4) = d1 + 16 * d2
        BY <1>7, <1>8, Zenon DEF v
    <2> HIDE DEF d1, d2
    <2>3. PICK h \in 0..15, l \in 0..15 : h = readField(f, q, 4) /\ l = readField(f, q + 4, 4)
        BY <1>8
    <2>4. 16 * h + l = d1 + 16 * d2
        BY <2>2, <2>3
    <2>5. h = d2 /\ l = d1
        BY <2>1, <2>4
    <2>6. QED
        BY <2>3, <2>5
<1>10. QED
    BY <1>3, <1>7, <1>9 DEF q

\* L3BCDDigits::write() puts the digits where they are looked for.
LEMMA CodecDigitsAt ==
    ASSUME NEW f \in Bits, NEW p \in Nat, NEW n \in Number, At(f, p, L3BCDDigits_write(n))
    PROVE  DigitsAt(f, p, n)
<1>1. SUFFICES ASSUME NEW k \in 1..Octets(n)
               PROVE  /\ p + 8 * k <= Len(f)
                      /\ readField(f, p + 8 * (k - 1), 4) = SecondDigit(n, k)
                      /\ readField(f, p + 8 * (k - 1) + 4, 4) = n.digits[2 * k - 1]
    BY DEF DigitsAt
<1>2. n.digits[2 * k - 1] \in 0..11 /\ SecondDigit(n, k) \in 0..15 /\ Octets(n) \in Nat
    BY DigitFacts, Zenon
<1> DEFINE d1 == n.digits[2 * k - 1]
           d2 == SecondDigit(n, k)
           r == 8 * (k - 1)
           q == p + r
           L == L3BCDDigits_write(n)
<1>3. /\ d1 \in Nat /\ d2 \in Nat /\ d1 % 16 = d1 /\ d2 % 16 = d2
      /\ r \in Nat /\ q \in Nat /\ q + 4 \in Nat /\ r + 4 \in Nat
      /\ p + (r + 4) = q + 4 /\ (q + 4) + 4 = p + 8 * k
    BY <1>2
<1>4. L \in Bits /\ At(L, r, writeField(d2, 4)) /\ At(L, r + 4, writeField(d1, 4))
    BY CodecDigitsAre
<1>5. At(f, p, L)
    OBVIOUS
<1> HIDE DEF d1, d2, r, q, L
<1>6. writeField(d1, 4) \in Bits /\ writeField(d2, 4) \in Bits
    <2>1. 4 \in 1..8
        OBVIOUS
    <2>2. QED
        BY <1>3, <2>1, WriteField, Zenon
<1>7. At(f, q, writeField(d2, 4)) /\ At(f, q + 4, writeField(d1, 4))
    <2>1. At(f, p + r, writeField(d2, 4)) /\ At(f, p + (r + 4), writeField(d1, 4))
        BY <1>3, <1>4, <1>5, <1>6, AtAt, Zenon
    <2>2. QED
        BY <1>3, <2>1 DEF q
<1>8. /\ readField(f, q, 4) = d2 /\ (q + 4) + 4 <= Len(f) /\ readField(f, q + 4, 4) = d1
    BY <1>3, <1>7, HalfBack
<1>9. QED
    BY <1>3, <1>8 DEF d1, d2, q, r

\* The handset reads one digit after the other.
LEMMA SemiOctets ==
    ASSUME NEW f \in Bits, NEW b \in Nat \ {0}, NEW n \in Number, DigitsAt(f, 8 * (b - 1), n),
           NEW i \in 1..Len(n.digits)
    PROVE  SemiOctet(f, b, i) = n.digits[i]
<1> DEFINE k == ((i - 1) \div 2) + 1
           q == 8 * (b - 1) + 8 * (k - 1)
           o == readField(f, q, 8)
<1>1. Len(n.digits) \in Nat /\ Octets(n) = (Len(n.digits) + 1) \div 2
    BY DigitFacts DEF Octets
<1>2. /\ k \in 1..Octets(n) /\ q \in Nat /\ q + 8 = 8 * (b - 1) + 8 * k
      /\ b + ((i - 1) \div 2) \in Nat /\ 8 * ((b + ((i - 1) \div 2)) - 1) = q
      /\ i % 2 = 1 => i = 2 * k - 1
      /\ i % 2 # 1 => i = 2 * k
    <2>1. PICK x \in Nat : x = Len(n.digits)
        BY <1>1
    <2>2. i \in 1..x
        BY <2>1
    <2>3. PICK j \in Nat : j = (i - 1) \div 2
        BY <2>2
    <2>4. k = j + 1 /\ q = 8 * (b - 1) + 8 * j
        BY <2>3
    <2>5. /\ i % 2 = 1 => i = 2 * j + 1
          /\ i % 2 # 1 => i = 2 * j + 2
        BY <2>2, <2>3
    <2>6. j + 1 \in 1..((x + 1) \div 2)
        BY <2>2, <2>3
    <2>7. j + 1 \in 1..Octets(n)
        BY <1>1, <2>1, <2>6, Zenon
    <2>8. q \in Nat /\ q + 8 = 8 * (b - 1) + 8 * (j + 1)
          /\ b + j \in Nat /\ 8 * ((b + j) - 1) = q
        BY <2>4
    <2>9. k \in 1..Octets(n)
        BY <2>4, <2>7, Zenon
    <2> HIDE DEF k, q
    <2>10. QED
        BY <2>3, <2>4, <2>5, <2>8, <2>9
<1>3. SemiOctet(f, b, i) = IF i % 2 = 1 THEN o % 16 ELSE o \div 16
    BY <1>2 DEF SemiOctet, Octet
<1> HIDE DEF k, q
<1>4. /\ q + 8 <= Len(f) /\ readField(f, q, 4) = SecondDigit(n, k)
      /\ readField(f, q + 4, 4) = n.digits[2 * k - 1]
    BY <1>2 DEF DigitsAt, q
<1>5. o = 16 * readField(f, q, 4) + readField(f, q + 4, 4)
    BY <1>2, <1>4, Halves
<1>6. /\ n.digits[2 * k - 1] \in 0..11 /\ SecondDigit(n, k) \in 0..15
      /\ 2 * k <= Len(n.digits) => SecondDigit(n, k) = n.digits[2 * k]
    BY <1>2, DigitFacts, Zenon
<1> HIDE DEF o
<1>7. o % 16 = n.digits[2 * k - 1] /\ o \div 16 = SecondDigit(n, k)
    <2>1. n.digits[2 * k - 1] \in 0..15
        BY <1>6
    <2>2. o = 16 * SecondDigit(n, k) + n.digits[2 * k - 1]
        BY <1>4, <1>5
    <2>3. QED
        BY <1>6, <2>1, <2>2, HalfOctets, Zenon
<1>8. i % 2 # 1 => n.digits[i] = SecondDigit(n, k)
    <2>1. i % 2 # 1 => 2 * k <= Len(n.digits) /\ i = 2 * k
        BY <1>1, <1>2
    <2>2. QED
        BY <1>6, <2>1
<1>9. i % 2 = 1 => n.digits[i] = n.digits[2 * k - 1]
    BY <1>2
<1>10. QED
    BY <1>3, <1>7, <1>8, <1>9

\* One more octet of digits behind those read before.
LEMMA NextDigits ==
    ASSUME NEW d \in Seq(Nat), NEW k \in Nat \ {0}
    PROVE  /\ 2 * k <= Len(d) =>
                SubSeq(d, 1, 2 * (k - 1)) \o <<d[2 * k - 1], d[2 * k]>> = SubSeq(d, 1, 2 * k)
           /\ 2 * k - 1 = Len(d) => SubSeq(d, 1, 2 * (k - 1)) \o <<d[2 * k - 1]>> = d
<1>1. PICK m \in Nat : m = 2 * (k - 1)
    OBVIOUS
<1>2. 2 * k - 1 = m + 1 /\ 2 * k = m + 2
    BY <1>1
<1>3. ASSUME m + 2 <= Len(d)
      PROVE  SubSeq(d, 1, m) \o <<d[m + 1], d[m + 2]>> = SubSeq(d, 1, m + 2)
    BY <1>3, SMTT(60)
<1>4. ASSUME m + 1 = Len(d)
      PROVE  SubSeq(d, 1, m) \o <<d[m + 1]>> = d
    BY <1>4
<1>5. QED
    BY <1>1, <1>2, <1>3, <1>4

\* L3BCDDigits::parse finds the digits that lie there.
LEMMA DigitsParsed ==
    ASSUME NEW f \in Bits, NEW p \in Nat, NEW n \in Number, DigitsAt(f, p, n), NEW plus
    PROVE  L3BCDDigits_parse(f, p, Octets(n), plus) = [plus |-> plus, digits |-> n.digits]
<1> DEFINE N == Octets(n)
           d == n.digits
           O(k) == OctetDigits(f, p + 8 * (k - 1))
           step == [a \in (1..N) \X Seq(Nat) |-> a[2] \o O(a[1])]
           Loop(g) == g = [k \in 0..N |-> IF k = 0 THEN <<>> ELSE g[k - 1] \o O(k)]
           g == CHOOSE g : Loop(g)
           Read(k) == IF 2 * k > Len(d) THEN d ELSE SubSeq(d, 1, 2 * k)
<1>1. N \in Nat /\ d \in Seq(Nat) /\ Len(d) \in Nat
    <2>1. d \in Seq(0..11) /\ N \in Nat /\ Len(d) \in Nat
        BY DigitFacts
    <2>2. QED
        BY <2>1
<1>2. ASSUME NEW k \in 1..N
      PROVE  /\ O(k) \in Seq(Nat)
             /\ 2 * k <= Len(d) => O(k) = <<d[2 * k - 1], d[2 * k]>>
             /\ 2 * k > Len(d) => O(k) = <<d[2 * k - 1]>> /\ 2 * k - 1 = Len(d)
    <2>1. /\ readField(f, p + 8 * (k - 1), 4) = SecondDigit(n, k)
          /\ readField(f, p + 8 * (k - 1) + 4, 4) = n.digits[2 * k - 1]
        BY Zenon DEF DigitsAt
    <2>2. O(k) = IF SecondDigit(n, k) = 15 THEN <<d[2 * k - 1]>>
                 ELSE <<d[2 * k - 1], SecondDigit(n, k)>>
        BY <2>1 DEF OctetDigits
    <2>3. /\ n.digits[2 * k - 1] \in 0..11 /\ SecondDigit(n, k) \in 0..15
          /\ 2 * k <= Len(d) => SecondDigit(n, k) = d[2 * k] /\ SecondDigit(n, k) \in 0..11
          /\ 2 * k > Len(d) => SecondDigit(n, k) = 15 /\ 2 * k - 1 = Len(d)
        BY DigitFacts, Zenon
    <2>4. 2 * k <= Len(d) => SecondDigit(n, k) # 15
        BY <2>3, SMTT(60)
    <2>5. d[2 * k - 1] \in Nat /\ SecondDigit(n, k) \in Nat
        BY <2>3, SMTT(60)
    <2> HIDE DEF O
    <2>6. O(k) \in Seq(Nat)
        <3>1. <<d[2 * k - 1]>> \in Seq(Nat) /\ <<d[2 * k - 1], SecondDigit(n, k)>> \in Seq(Nat)
            BY <2>5
        <3>2. QED
            BY <2>2, <3>1, Zenon
    <2>7. QED
        BY <2>2, <2>3, <2>4, <2>6, Zenon
<1>3. L3BCDDigits_parse(f, p, N, plus) = [plus |-> plus, digits |-> g[N]]
    BY DEF L3BCDDigits_parse
<1> HIDE DEF O
<1>4. \A k \in 1..N, a \in Seq(Nat) : step[<<k, a>>] = a \o O(k)
    OBVIOUS
<1>5. step \in [(1..N) \X Seq(Nat) -> Seq(Nat)]
    BY <1>2
<1> HIDE DEF step, N
<1>6. <<>> \in Seq(Nat)
    OBVIOUS
<1>7. PICK h : LoopValues(h, N, Seq(Nat), <<>>, step)
    BY <1>1, <1>5, <1>6, LoopExists, Zenon
<1>8. /\ h \in [0..N -> Seq(Nat)] /\ h[0] = <<>>
      /\ \A k \in 1..N : h[k] = h[k - 1] \o O(k)
    <2>1. /\ h \in [0..N -> Seq(Nat)] /\ h[0] = <<>>
          /\ \A k \in 1..N : h[k] = step[<<k, h[k - 1]>>]
        BY <1>7, Zenon DEF LoopValues
    <2>2. \A k \in 1..N : k - 1 \in 0..N
        BY <1>1
    <2>3. \A k \in 1..N : h[k - 1] \in Seq(Nat)
        BY <2>1, <2>2, Zenon
    <2>4. QED
        BY <1>4, <2>1, <2>3, Zenon
<1>9. Loop(h)
    <2>1. \A k \in 0..N : h[k] = IF k = 0 THEN <<>> ELSE h[k - 1] \o O(k)
        <3>1. \A k \in 0..N : k = 0 \/ k \in 1..N
            BY <1>1
        <3>2. \A k \in 1..N : k # 0
            OBVIOUS
        <3>3. QED
            BY <1>8, <3>1, <3>2, Zenon
    <2>2. QED
        BY <1>8, <2>1
<1>10. Loop(g)
    BY <1>9, Zenon
<1> HIDE DEF g
<1>11. g[0] = <<>> /\ \A k \in 1..N : g[k] = g[k - 1] \o O(k)
    <2>1. \A k \in 0..N : g[k] = IF k = 0 THEN <<>> ELSE g[k - 1] \o O(k)
        BY <1>10, Zenon
    <2>2. 0 \in 0..N /\ \A k \in 1..N : k \in 0..N /\ k # 0
        BY <1>1
    <2>3. QED
        BY <2>1, <2>2, Zenon
<1> DEFINE P == {k \in 0..N : g[k] = Read(k)}
<1>12. 0 \in P
    <2>1. Read(0) = <<>>
        BY <1>1
    <2>2. 0 \in 0..N
        BY <1>1
    <2> HIDE DEF Read
    <2>3. QED
        BY <1>11, <2>1, <2>2
<1>13. ASSUME NEW k \in 1..N, k - 1 \in P PROVE k \in P
    <2>1. k \in Nat \ {0} /\ k \in 0..N /\ k - 1 \in 0..N
        BY <1>1
    <2>2. g[k - 1] = Read(k - 1) /\ g[k] = g[k - 1] \o O(k)
        BY <1>11, <1>13
    <2>3. 2 * k <= Len(d) \/ 2 * k > Len(d)
        BY <1>1, <2>1
    <2>4. CASE 2 * k <= Len(d)
        <3>1. ~(2 * (k - 1) > Len(d)) /\ ~(2 * k > Len(d))
            BY <1>1, <2>1, <2>4
        <3>2. Read(k - 1) = SubSeq(d, 1, 2 * (k - 1)) /\ Read(k) = SubSeq(d, 1, 2 * k)
            BY <3>1, Zenon
        <3>3. O(k) = <<d[2 * k - 1], d[2 * k]>>
            BY <1>2, <2>4, Zenon
        <3>4. SubSeq(d, 1, 2 * (k - 1)) \o <<d[2 * k - 1], d[2 * k]>> = SubSeq(d, 1, 2 * k)
            BY <1>1, <2>1, <2>4, NextDigits, Zenon
        <3> HIDE DEF Read, d
        <3>5. g[k] = Read(k)
            BY <2>2, <3>2, <3>3, <3>4, Zenon
        <3>6. QED
            BY <2>1, <3>5
    <2>5. CASE 2 * k > Len(d)
        <3>1. O(k) = <<d[2 * k - 1]>> /\ 2 * k - 1 = Len(d)
            BY <1>2, <2>5, Zenon
        <3>2. ~(2 * (k - 1) > Len(d))
            BY <1>1, <2>1, <3>1
        <3>3. Read(k - 1) = SubSeq(d, 1, 2 * (k - 1)) /\ Read(k) = d
            BY <2>5, <3>2, Zenon
        <3>4. SubSeq(d, 1, 2 * (k - 1)) \o <<d[2 * k - 1]>> = d
            BY <1>1, <2>1, <3>1, NextDigits, Zenon
        <3> HIDE DEF Read, d
        <3>5. g[k] = Read(k)
            BY <2>2, <3>1, <3>3, <3>4, Zenon
        <3>6. QED
            BY <2>1, <3>5
    <2>6. QED
        BY <2>3, <2>4, <2>5
<1> HIDE DEF P
<1>14. 0..N \subseteq P
    BY <1>1, <1>12, <1>13, LoopInduction
<1>15. g[N] = Read(N)
    BY <1>1, <1>14 DEF P
<1>16. Read(N) = d
    <2>1. N = (Len(d) + 1) \div 2
        BY DEF N, Octets
    <2>2. 2 * N > Len(d) \/ 2 * N = Len(d)
        <3>1. PICK x \in Nat : x = Len(d)
            BY <1>1
        <3>2. 2 * ((x + 1) \div 2) > x \/ 2 * ((x + 1) \div 2) = x
            OBVIOUS
        <3>3. QED
            BY <2>1, <3>1, <3>2, Zenon
    <2>3. SubSeq(d, 1, Len(d)) = d
        BY <1>1
    <2>4. CASE 2 * N > Len(d)
        BY <2>4
    <2>5. CASE 2 * N = Len(d)
        <3>1. ~(2 * N > Len(d))
            BY <1>1, <2>5
        <3>2. Read(N) = SubSeq(d, 1, 2 * N)
            BY <3>1, Zenon
        <3>3. QED
            BY <2>3, <2>5, <3>2, Zenon
    <2>6. QED
        BY <2>2, <2>4, <2>5
<1>17. QED
    BY <1>3, <1>15, <1>16, Zenon DEF N

-----------------------------------------------------------------------------
(* User data.                                                              *)

\* The lowest w bits of v lie behind p bits of f, the lowest one first.
LowFirst(f, p, v, w) == \A j \in 1..w : f[p + j] = Bit(v, j - 1)

\* An octet that was written backwards is read backwards.
LEMMA OctetReversed ==
    ASSUME NEW f \in Bits, NEW p \in Nat, p + 8 <= Len(f), NEW v \in Nat,
           LowFirst(f, p, v, 8)
    PROVE  readFieldReversed(f, p, 8) = v % 256
<1> DEFINE b == SubSeq(f, p + 1, p + 8)
           r == Reverse(b)
<1>1. 8 \in Nat
    OBVIOUS
<1>2. b \in Bits /\ Len(b) = 8 /\ \A i \in 1..8 : b[i] = f[p + i]
    BY <1>1, Slice, Zenon
<1>3. readFieldReversed(f, p, 8) = Value(r, 2)
    BY DEF readFieldReversed
<1> HIDE DEF b
<1>4. r = [i \in 1..8 |-> b[(8 - i) + 1]]
    BY <1>2 DEF Reverse
<1>5. \A i \in 1..8 : (8 - i) + 1 \in 1..8 /\ b[(8 - i) + 1] \in {0, 1}
    <2>1. \A i \in 1..8 : b[i] \in {0, 1}
        BY <1>2, BitsAre, Zenon
    <2>2. \A i \in 1..8 : (8 - i) + 1 \in 1..8
        OBVIOUS
    <2>3. QED
        BY <2>1, <2>2, Zenon
<1>6. r \in [1..8 -> {0, 1}]
    BY <1>4, <1>5
<1>7. r \in Bits /\ Len(r) = 8
    BY <1>1, <1>6, AreBits
<1>8. \A i \in 1..8 : r[i] = Bit(v, 8 - i)
    <2>1. SUFFICES ASSUME NEW i \in 1..8 PROVE r[i] = Bit(v, 8 - i)
        OBVIOUS
    <2>2. (8 - i) + 1 \in 1..8 /\ ((8 - i) + 1) - 1 = 8 - i
        OBVIOUS
    <2>3. r[i] = b[(8 - i) + 1]
        BY <1>4
    <2>4. f[p + ((8 - i) + 1)] = Bit(v, ((8 - i) + 1) - 1)
        BY <2>2, Zenon DEF LowFirst
    <2>5. QED
        BY <1>2, <2>2, <2>3, <2>4
<1> HIDE DEF r
<1>9. /\ r[1] = Bit(v, 7) /\ r[2] = Bit(v, 6) /\ r[3] = Bit(v, 5) /\ r[4] = Bit(v, 4)
      /\ r[5] = Bit(v, 3) /\ r[6] = Bit(v, 2) /\ r[7] = Bit(v, 1) /\ r[8] = Bit(v, 0)
    BY <1>8
<1>10. Value(r, 2) = 128 * r[1] + 64 * r[2] + 32 * r[3] + 16 * r[4]
                     + 8 * r[5] + 4 * r[6] + 2 * r[7] + r[8]
    BY <1>7, ValueOfBits, Zenon
<1>11. v % 256 = 128 * Bit(v, 7) + 64 * Bit(v, 6) + 32 * Bit(v, 5) + 16 * Bit(v, 4)
                 + 8 * Bit(v, 3) + 4 * Bit(v, 2) + 2 * Bit(v, 1) + Bit(v, 0)
    BY SumOfBits, Zenon
<1>12. QED
    BY <1>3, <1>9, <1>10, <1>11, Zenon

\* A septet that was written backwards is read backwards.
LEMMA SeptetReversed ==
    ASSUME NEW f \in Bits, NEW p \in Nat, p + 7 <= Len(f), NEW v \in Nat,
           LowFirst(f, p, v, 7)
    PROVE  readFieldReversed(f, p, 7) = v % 128
<1> DEFINE b == SubSeq(f, p + 1, p + 7)
           r == Reverse(b)
<1>1. 7 \in Nat
    OBVIOUS
<1>2. b \in Bits /\ Len(b) = 7 /\ \A i \in 1..7 : b[i] = f[p + i]
    BY <1>1, Slice, Zenon
<1>3. readFieldReversed(f, p, 7) = Value(r, 2)
    BY DEF readFieldReversed
<1> HIDE DEF b
<1>4. r = [i \in 1..7 |-> b[(7 - i) + 1]]
    BY <1>2 DEF Reverse
<1>5. \A i \in 1..7 : (7 - i) + 1 \in 1..7 /\ b[(7 - i) + 1] \in {0, 1}
    <2>1. \A i \in 1..7 : b[i] \in {0, 1}
        BY <1>2, BitsAre, Zenon
    <2>2. \A i \in 1..7 : (7 - i) + 1 \in 1..7
        OBVIOUS
    <2>3. QED
        BY <2>1, <2>2, Zenon
<1>6. r \in [1..7 -> {0, 1}]
    BY <1>4, <1>5
<1>7. r \in Bits /\ Len(r) = 7
    BY <1>1, <1>6, AreBits
<1>8. \A i \in 1..7 : r[i] = Bit(v, 7 - i)
    <2>1. SUFFICES ASSUME NEW i \in 1..7 PROVE r[i] = Bit(v, 7 - i)
        OBVIOUS
    <2>2. (7 - i) + 1 \in 1..7 /\ ((7 - i) + 1) - 1 = 7 - i
        OBVIOUS
    <2>3. r[i] = b[(7 - i) + 1]
        BY <1>4
    <2>4. f[p + ((7 - i) + 1)] = Bit(v, ((7 - i) + 1) - 1)
        BY <2>2, Zenon DEF LowFirst
    <2>5. QED
        BY <1>2, <2>2, <2>3, <2>4
<1> HIDE DEF r
<1>9. /\ r[1] = Bit(v, 6) /\ r[2] = Bit(v, 5) /\ r[3] = Bit(v, 4) /\ r[4] = Bit(v, 3)
      /\ r[5] = Bit(v, 2) /\ r[6] = Bit(v, 1) /\ r[7] = Bit(v, 0)
    BY <1>8
<1>10. Value(r, 2) = 64 * r[1] + 32 * r[2] + 16 * r[3] + 8 * r[4]
                     + 4 * r[5] + 2 * r[6] + r[7]
    BY <1>7, ValueOfBits, Zenon
<1>11. v % 128 = 64 * Bit(v, 6) + 32 * Bit(v, 5) + 16 * Bit(v, 4) + 8 * Bit(v, 3)
                 + 4 * Bit(v, 2) + 2 * Bit(v, 1) + Bit(v, 0)
    BY SumOfBits, Zenon
<1>12. QED
    BY <1>3, <1>9, <1>10, <1>11, Zenon

\* In whole octets, each octet is turned round: twice, and it is as before.
LEMMA TurnedRound ==
    ASSUME NEW b \in Bits, NEW m \in Nat, Len(b) = 8 * m
    PROVE  /\ LSB8MSB(b) \in Bits /\ Len(LSB8MSB(b)) = 8 * m
           /\ \A k \in 0..(m - 1), j \in 1..8 : LSB8MSB(b)[8 * k + j] = b[8 * k + (9 - j)]
           /\ LSB8MSB(LSB8MSB(b)) = b
<1> DEFINE at(i) == (8 * ((i - 1) \div 8) + 8) - ((i - 1) % 8)
           c == LSB8MSB(b)
<1>1. 8 * ((8 * m) \div 8) = 8 * m
    OBVIOUS
<1>2. \A i \in 1..(8 * m) : ~(i > 8 * m) /\ at(i) \in 1..(8 * m) /\ at(at(i)) = i
    <2>1. SUFFICES ASSUME NEW i \in 1..(8 * m)
                   PROVE  ~(i > 8 * m) /\ at(i) \in 1..(8 * m) /\ at(at(i)) = i
        OBVIOUS
    <2>2. PICK k \in Nat, j \in 0..7 : i - 1 = 8 * k + j
        <3>1. (i - 1) \div 8 \in Nat /\ (i - 1) % 8 \in 0..7
              /\ i - 1 = 8 * ((i - 1) \div 8) + ((i - 1) % 8)
            OBVIOUS
        <3>2. QED
            BY <3>1
    <2>3. (i - 1) \div 8 = k /\ (i - 1) % 8 = j /\ k < m
        BY <2>2
    <2>4. at(i) = (8 * k + 8) - j
        BY <2>3
    <2>5. at(i) - 1 = 8 * k + (7 - j) /\ at(i) \in 1..(8 * m)
        BY <2>3, <2>4
    <2>6. (at(i) - 1) \div 8 = k /\ (at(i) - 1) % 8 = 7 - j
        BY <2>5
    <2>7. at(at(i)) = i
        BY <2>2, <2>6
    <2>8. QED
        BY <2>5, <2>7
<1>3. \A d : Len(d) = 8 * m => LSB8MSB(d) = [i \in 1..(8 * m) |-> d[at(i)]]
    <2>1. SUFFICES ASSUME NEW d, Len(d) = 8 * m
                   PROVE  LSB8MSB(d) = [i \in 1..(8 * m) |-> d[at(i)]]
        OBVIOUS
    <2>2. LSB8MSB(d) = [i \in 1..(8 * m) |-> IF i > 8 * ((8 * m) \div 8) THEN d[i] ELSE d[at(i)]]
        BY <2>1 DEF LSB8MSB
    <2> HIDE DEF at
    <2>3. QED
        BY <1>1, <1>2, <2>2
<1>4. c = [i \in 1..(8 * m) |-> b[at(i)]]
    BY <1>3
<1> HIDE DEF at, c
<1>5. 8 * m \in Nat /\ \A i \in 1..(8 * m) : b[i] \in {0, 1}
    BY BitsAre
<1>6. c \in [1..(8 * m) -> {0, 1}]
    BY <1>2, <1>4, <1>5
<1>7. c \in Bits /\ Len(c) = 8 * m
    BY <1>5, <1>6, AreBits
<1>8. ASSUME NEW k \in 0..(m - 1), NEW j \in 1..8 PROVE c[8 * k + j] = b[8 * k + (9 - j)]
    <2>1. 8 * k + j \in 1..(8 * m) /\ at(8 * k + j) = 8 * k + (9 - j)
        BY DEF at
    <2>2. QED
        BY <1>4, <2>1
<1>9. LSB8MSB(c) = b
    <2>1. LSB8MSB(c) = [i \in 1..(8 * m) |-> c[at(i)]]
        BY <1>3, <1>7
    <2>2. \A i \in 1..(8 * m) : c[at(i)] = b[i]
        BY <1>2, <1>4
    <2>3. LSB8MSB(c) = [i \in 1..(8 * m) |-> b[i]]
        BY <2>1, <2>2
    <2>4. b = [i \in 1..(8 * m) |-> b[i]]
        BY DEF Bits
    <2>5. QED
        BY <2>3, <2>4
<1>10. QED
    BY <1>7, <1>8, <1>9 DEF c

\* What the handset packs: bit p, and what comes to be the user data of the SUBMIT.
DataBit(s, p) == IF Septets(s) THEN SeptetBit(s, p) ELSE OctetBit(s, p)
DataOf(s) == [dcs |-> s.dcs, udhi |-> s.header > 0, length |-> DataLength(s),
              raw |-> LSB8MSB(HandsetData(s))]

\* What a handset submits.
LEMMA SmsFacts ==
    ASSUME NEW s \in Sms
    PROVE  /\ s.to \in Number /\ Len(s.to.digits) \in 1..20
           /\ s.to.plus => Len(s.to.digits) <= 19
           /\ s.vpf \in PeriodFormats /\ s.vpf \in 0..3
           /\ s.pi \in 0..255 /\ s.dcs \in 0..255 /\ s.header \in 0..139
           /\ s.text \in Texts /\ s.text \in Seq(1..255) /\ Len(s.text) \in Nat
<1>1. /\ s.to \in ToNumbers /\ s.vpf \in PeriodFormats /\ s.pi \in ProtocolIds
      /\ s.dcs \in Schemes /\ s.header \in HeaderOctets /\ s.text \in Texts
    BY DEF Sms
<1>2. s.to \in Number /\ Len(s.to.digits) \in 1..(IF s.to.plus THEN 19 ELSE 20)
    BY <1>1, NumberAssumption
<1>3. s.to.plus \in BOOLEAN
    BY <1>2 DEF Number
<1>4. Len(s.to.digits) \in 1..20 /\ (s.to.plus => Len(s.to.digits) <= 19)
    <2>1. CASE s.to.plus
        <3>1. Len(s.to.digits) \in 1..19
            BY <1>2, <2>1, Zenon
        <3>2. PICK x \in 1..19 : x = Len(s.to.digits)
            BY <3>1
        <3>3. x \in 1..20 /\ x <= 19
            OBVIOUS
        <3>4. QED
            BY <3>2, <3>3, Zenon
    <2>2. CASE ~s.to.plus
        BY <1>2, <2>2, Zenon
    <2>3. QED
        BY <2>1, <2>2, Zenon
<1>5. s.vpf \in 0..3 /\ s.pi \in 0..255 /\ s.dcs \in 0..255 /\ s.header \in 0..139
    <2>1. (\A x \in HeaderOctets : x \in 0..139) /\ (\A x \in PeriodFormats : x \in 0..3)
        BY SubmitAssumption
    <2>2. (\A x \in Schemes : x \in 0..255) /\ (\A x \in ProtocolIds : x \in 0..255)
        BY SubmitAssumption
    <2>3. s.vpf \in 0..3 /\ s.header \in 0..139
        BY <1>1, <2>1, Zenon
    <2>4. s.pi \in 0..255 /\ s.dcs \in 0..255
        BY <1>1, <2>2, Zenon
    <2>5. QED
        BY <2>3, <2>4, Zenon
<1>6. s.text \in Seq(1..255)
    BY <1>1, TextAssumption
<1>7. Len(s.text) \in Nat
    BY <1>6
<1>8. QED
    BY <1>1, <1>2, <1>4, <1>5, <1>6, <1>7, Zenon

\* The header's octets and septets in front of the text.
LEMMA HeaderFacts ==
    ASSUME NEW s \in Sms
    PROVE  /\ HeaderSeptets(s.header) \in Nat /\ DataLength(s) \in Nat /\ DataOctets(s) \in Nat
           /\ Septets(s) => DataLength(s) = Len(s.text) + HeaderSeptets(s.header)
                            /\ 7 * DataLength(s) <= 8 * DataOctets(s)
                            /\ DataOctets(s) = (7 * DataLength(s) + 7) \div 8
           /\ ~Septets(s) => DataLength(s) = DataOctets(s)
                             /\ DataLength(s) = Len(s.text)
                                                + (IF s.header = 0 THEN 0 ELSE s.header + 1)
           /\ s.header > 0 => 7 * HeaderSeptets(s.header) >= 8 * (s.header + 1)
                              /\ HeaderSeptets(s.header) = (8 * s.header + 14) \div 7
           /\ s.header = 0 => HeaderSeptets(s.header) = 0
<1>1. s.header \in 0..139 /\ Len(s.text) \in Nat
    BY SmsFacts
<1>2. PICK h \in 0..139 : h = s.header
    BY <1>1
<1>3. PICK n \in Nat : n = Len(s.text)
    BY <1>1
<1>4. HeaderSeptets(h) = IF h = 0 THEN 0 ELSE (8 * h + 14) \div 7
    <2>1. (8 * (h + 1) + 7) - 1 = 8 * h + 14
        OBVIOUS
    <2>2. QED
        BY <2>1 DEF HeaderSeptets, Ceil
<1>5. /\ HeaderSeptets(h) \in Nat
      /\ h > 0 => 7 * HeaderSeptets(h) >= 8 * (h + 1)
    BY <1>4
<1>6. PICK e \in Nat : e = HeaderSeptets(h)
    BY <1>5
<1>7. Septets(s) \in BOOLEAN
    BY DEF Septets
<1>8. CASE Septets(s)
    <2>1. DataLength(s) = n + e
        BY <1>2, <1>3, <1>6, <1>8 DEF DataLength
    <2>2. DataOctets(s) = (7 * (n + e) + 8 - 1) \div 8
        BY <1>8, <2>1 DEF DataOctets, Ceil
    <2>3. /\ (7 * (n + e) + 8 - 1) \div 8 = (7 * (n + e) + 7) \div 8
          /\ (7 * (n + e) + 7) \div 8 \in Nat /\ n + e \in Nat
          /\ 7 * (n + e) <= 8 * ((7 * (n + e) + 7) \div 8)
        OBVIOUS
    <2>4. QED
        BY <1>2, <1>3, <1>4, <1>5, <1>6, <1>8, <2>1, <2>2, <2>3, SMTT(60)
<1>9. CASE ~Septets(s)
    <2>1. DataLength(s) = n + (IF h = 0 THEN 0 ELSE h + 1) /\ DataOctets(s) = DataLength(s)
        BY <1>2, <1>3, <1>9 DEF DataLength, DataOctets
    <2>2. n + (IF h = 0 THEN 0 ELSE h + 1) \in Nat
        OBVIOUS
    <2>3. QED
        BY <1>2, <1>3, <1>4, <1>5, <1>6, <1>9, <2>1, <2>2
<1>10. QED
    BY <1>8, <1>9

\* The user data consists of bits.
LEMMA DataBitTypes ==
    ASSUME NEW s \in Sms, NEW p \in 0..(8 * DataOctets(s) - 1)
    PROVE  DataBit(s, p) \in {0, 1}
<1>1. /\ s.header \in 0..139 /\ Len(s.text) \in Nat
      /\ \A i \in 1..Len(s.text) : s.text[i] \in Nat
    <2>1. s.header \in 0..139 /\ Len(s.text) \in Nat /\ s.text \in Seq(1..255)
        BY SmsFacts
    <2>2. \A i \in 1..Len(s.text) : s.text[i] \in 1..255
        BY <2>1, ElementOfSeq, ZenonT(60)
    <2>3. \A x \in 1..255 : x \in Nat
        OBVIOUS
    <2>4. QED
        BY <2>1, <2>2, <2>3, ZenonT(60)
<1>2. PICK h \in 0..139, n \in Nat : h = s.header /\ n = Len(s.text)
    BY <1>1
<1>3. DataOctets(s) \in Nat /\ p \in Nat /\ p % 8 \in 0..7 /\ p \div 8 \in Nat
    BY HeaderFacts
<1>4. HeaderOctet(h, p \div 8) \in Nat
    BY <1>3 DEF HeaderOctet
<1>5. Bit(HeaderOctet(h, p \div 8), p % 8) \in {0, 1}
    BY <1>3, <1>4, BitTypes, Zenon
<1>6. CASE Septets(s)
    <2> DEFINE q == p - 7 * HeaderSeptets(s.header)
    <2>1. HeaderSeptets(s.header) \in Nat
        BY HeaderFacts
    <2>2. q \in Int
        BY <1>3, <2>1
    <2> HIDE DEF q
    <2>3. CASE InHeader(s.header, p)
        BY <1>2, <1>5, <1>6, <2>3 DEF DataBit, SeptetBit
    <2>4. CASE ~InHeader(s.header, p) /\ (q < 0 \/ q >= 7 * Len(s.text))
        BY <1>6, <2>4 DEF DataBit, SeptetBit, q
    <2>5. CASE ~InHeader(s.header, p) /\ ~(q < 0 \/ q >= 7 * Len(s.text))
        <3>1. q % 7 \in 0..7
            BY <2>2
        <3>2. encodeGSMChar(s.text[(q \div 7) + 1]) \in Nat
            <4>1. encodeGSMChar(s.text[(q \div 7) + 1]) \in 0..127
                BY Codes
            <4>2. QED
                BY <4>1
        <3>3. DataBit(s, p) = Bit(encodeGSMChar(s.text[(q \div 7) + 1]), q % 7)
            BY <1>6, <2>5 DEF DataBit, SeptetBit, q
        <3>4. QED
            BY <3>1, <3>2, <3>3, BitTypes
    <2>6. QED
        BY <2>3, <2>4, <2>5
<1>7. CASE ~Septets(s)
    <2> DEFINE k == (p \div 8) - (IF s.header = 0 THEN 0 ELSE s.header + 1)
    <2>1. CASE InHeader(s.header, p)
        BY <1>2, <1>5, <1>7, <2>1 DEF DataBit, OctetBit
    <2>2. CASE ~InHeader(s.header, p)
        <3>1. DataOctets(s) = n + (IF h = 0 THEN 0 ELSE h + 1)
            BY <1>2, <1>7, HeaderFacts
        <3>2. h = 0 \/ p >= 8 * (h + 1)
            BY <1>2, <1>3, <2>2 DEF InHeader
        <3>3. k = (p \div 8) - (IF h = 0 THEN 0 ELSE h + 1)
            BY <1>2
        <3> HIDE DEF k
        <3>4. k + 1 \in 1..n
            <4>1. p \in 0..(8 * (n + (IF h = 0 THEN 0 ELSE h + 1)) - 1)
                BY <3>1
            <4>2. CASE h = 0
                BY <3>3, <4>1, <4>2
            <4>3. CASE h # 0
                BY <3>2, <3>3, <4>1, <4>3
            <4>4. QED
                BY <4>2, <4>3
        <3>5. s.text[k + 1] \in Nat
            BY <1>1, <1>2, <3>4
        <3>6. DataBit(s, p) = Bit(s.text[k + 1], p % 8)
            BY <1>7, <2>2 DEF DataBit, OctetBit, k
        <3>7. QED
            BY <1>3, <3>5, <3>6, BitTypes
    <2>3. QED
        BY <2>1, <2>2
<1>8. QED
    BY <1>6, <1>7

\* Bit p of the packed data is bit p of what smqueue holds.
LEMMA HandsetDataIs ==
    ASSUME NEW s \in Sms
    PROVE  LET raw == LSB8MSB(HandsetData(s))
           IN  /\ HandsetData(s) \in Bits /\ Len(HandsetData(s)) = 8 * DataOctets(s)
               /\ raw \in Bits /\ Len(raw) = 8 * DataOctets(s)
               /\ LSB8MSB(raw) = HandsetData(s)
               /\ \A p \in 0..(8 * DataOctets(s) - 1) : raw[p + 1] = DataBit(s, p)
<1> DEFINE m == DataOctets(s)
           H == HandsetData(s)
           raw == LSB8MSB(H)
<1>1. m \in Nat
    BY HeaderFacts
<1>2. \A i \in 1..(8 * m) : H[i] = DataBit(s, (8 * ((i - 1) \div 8) + 7) - ((i - 1) % 8))
    BY DEF HandsetData, DataBit
<1>3. \A i \in 1..(8 * m) : (8 * ((i - 1) \div 8) + 7) - ((i - 1) % 8) \in 0..(8 * m - 1)
    BY <1>1
<1>4. H = [i \in 1..(8 * m) |-> H[i]]
    BY DEF HandsetData
<1> HIDE DEF m, H
<1>5. \A i \in 1..(8 * m) : H[i] \in {0, 1}
    BY <1>2, <1>3, DataBitTypes, Zenon DEF m
<1>6. 8 * m \in Nat /\ H \in [1..(8 * m) -> {0, 1}]
    BY <1>1, <1>4, <1>5
<1>7. H \in Bits /\ Len(H) = 8 * m
    BY <1>6, AreBits
<1>8. /\ raw \in Bits /\ Len(raw) = 8 * m /\ LSB8MSB(raw) = H
      /\ \A k \in 0..(m - 1), j \in 1..8 : raw[8 * k + j] = H[8 * k + (9 - j)]
    BY <1>1, <1>7, TurnedRound
<1> HIDE DEF raw
<1>9. ASSUME NEW p \in 0..(8 * m - 1) PROVE raw[p + 1] = DataBit(s, p)
    <2>1. PICK k \in Nat, j \in 1..8 : p + 1 = 8 * k + j /\ k \in 0..(m - 1)
        <3>1. p \div 8 \in Nat /\ (p % 8) + 1 \in 1..8 /\ p + 1 = 8 * (p \div 8) + ((p % 8) + 1)
              /\ p \div 8 \in 0..(m - 1)
            BY <1>1
        <3>2. QED
            BY <3>1
    <2> DEFINE i == 8 * k + (9 - j)
    <2>2. i \in 1..(8 * m) /\ (i - 1) \div 8 = k /\ (i - 1) % 8 = 8 - j
        BY <1>1, <2>1
    <2>3. (8 * k + 7) - (8 - j) = p
        BY <2>1
    <2>4. raw[8 * k + j] = H[i]
        BY <1>8, <2>1
    <2> HIDE DEF i
    <2>5. H[i] = DataBit(s, (8 * k + 7) - (8 - j))
        BY <1>2, <2>2
    <2>6. QED
        BY <2>1, <2>3, <2>4, <2>5, Zenon
<1>10. QED
    BY <1>7, <1>8, <1>9 DEF m, H, raw

\* The characters of a text are all in the alphabet.
InAlphabet(t) == \A i \in 1..Len(t) : t[i] \in Alphabet

\* The header is skipped, with its length octet and its fill bits.
LEMMA HeaderSkipped ==
    ASSUME NEW s \in Sms, Septets(s)
    PROVE  (IF s.header > 0 THEN UdhSeptets(DataOf(s)) ELSE 0) = HeaderSeptets(s.header)
<1> DEFINE raw == LSB8MSB(HandsetData(s))
<1>1. PICK m \in Nat, h \in 0..139, e \in Nat :
        m = DataOctets(s) /\ h = s.header /\ e = HeaderSeptets(s.header)
    <2>1. DataOctets(s) \in Nat /\ s.header \in 0..139 /\ HeaderSeptets(s.header) \in Nat
        BY SmsFacts, HeaderFacts
    <2>2. QED
        BY <2>1
<1>2. /\ 7 * DataLength(s) <= 8 * m /\ DataLength(s) = Len(s.text) + e
      /\ h > 0 => 7 * e >= 8 * (h + 1) /\ e = (8 * h + 14) \div 7
      /\ h = 0 => e = 0
    BY <1>1, HeaderFacts
<1>3. /\ raw \in Bits /\ Len(raw) = 8 * m
      /\ \A p \in 0..(8 * m - 1) : raw[p + 1] = DataBit(s, p)
    BY <1>1, HandsetDataIs
<1>4. DataOf(s).raw = raw
    BY DEF DataOf
<1>5. PICK n \in Nat : n = Len(s.text)
    BY SmsFacts
<1> HIDE DEF raw
<1>6. h > 0 => m >= 1
    BY <1>2, <1>5
<1>7. ASSUME h > 0, NEW j \in 1..8 PROVE raw[0 + j] = Bit(h, j - 1)
    <2>1. j - 1 \in 0..(8 * m - 1) /\ (j - 1) + 1 = 0 + j
          /\ j - 1 < 8 * (h + 1) /\ (j - 1) \div 8 = 0 /\ (j - 1) % 8 = j - 1
        BY <1>6, <1>7
    <2>2. raw[0 + j] = DataBit(s, j - 1)
        BY <1>3, <2>1, Zenon
    <2>3. InHeader(h, j - 1)
        BY <1>7, <2>1 DEF InHeader
    <2>4. DataBit(s, j - 1) = Bit(HeaderOctet(h, 0), j - 1)
        BY <1>1, <2>1, <2>3 DEF DataBit, SeptetBit
    <2>5. HeaderOctet(h, 0) = h
        BY DEF HeaderOctet
    <2>6. QED
        BY <2>2, <2>4, <2>5, Zenon
<1>8. ASSUME h > 0 PROVE readFieldReversed(raw, 0, 8) = h
    <2>1. h \in Nat /\ 0 \in Nat /\ 0 + 8 <= 8 * m /\ h % 256 = h
        BY <1>6, <1>8
    <2>2. 0 + 8 <= Len(raw) /\ LowFirst(raw, 0, h, 8)
        BY <1>3, <1>7, <1>8, <2>1, Zenon DEF LowFirst
    <2>3. readFieldReversed(raw, 0, 8) = h % 256
        BY <1>3, <2>1, <2>2, OctetReversed, ZenonT(60)
    <2>4. QED
        BY <2>1, <2>3, Zenon
<1>9. h > 0 => UdhSeptets(DataOf(s)) = (h * 8 + 8 + 6) \div 7
    BY <1>4, <1>8, Zenon DEF UdhSeptets
<1>10. (h * 8 + 8 + 6) \div 7 = (8 * h + 14) \div 7
    OBVIOUS
<1>11. h > 0 \/ h = 0
    OBVIOUS
<1>12. CASE h > 0
    <2>1. UdhSeptets(DataOf(s)) = e
        BY <1>2, <1>9, <1>10, <1>12, Zenon
    <2>2. QED
        BY <1>1, <1>12, <2>1, Zenon
<1>13. CASE h = 0
    <2>1. ~(h > 0)
        BY <1>13
    <2>2. QED
        BY <1>1, <1>2, <1>13, <2>1, Zenon
<1>14. QED
    BY <1>11, <1>12, <1>13

\* Behind it, each septet is the code of a character.
LEMMA SeptetsRead ==
    ASSUME NEW s \in Sms, Septets(s), NEW i \in 1..Len(s.text)
    PROVE  readFieldReversed(LSB8MSB(HandsetData(s)), 7 * ((HeaderSeptets(s.header) + i) - 1), 7)
             = encodeGSMChar(s.text[i])
<1> DEFINE raw == LSB8MSB(HandsetData(s))
<1>1. PICK m \in Nat, h \in 0..139, e \in Nat :
        m = DataOctets(s) /\ h = s.header /\ e = HeaderSeptets(s.header)
    <2>1. DataOctets(s) \in Nat /\ s.header \in 0..139 /\ HeaderSeptets(s.header) \in Nat
        BY SmsFacts, HeaderFacts
    <2>2. QED
        BY <2>1
<1>2. PICK n \in Nat : n = Len(s.text)
    BY SmsFacts
<1>3. /\ 7 * DataLength(s) <= 8 * m /\ DataLength(s) = n + e
      /\ h > 0 => 7 * e >= 8 * (h + 1)
      /\ h = 0 => e = 0
    BY <1>1, <1>2, HeaderFacts
<1>4. /\ raw \in Bits /\ Len(raw) = 8 * m
      /\ \A x \in 0..(8 * m - 1) : raw[x + 1] = DataBit(s, x)
    BY <1>1, HandsetDataIs
<1> HIDE DEF raw
<1>5. PICK k \in 1..n : k = i
    BY <1>2
<1>6. PICK p \in Nat : p = 7 * ((e + k) - 1) /\ p + 7 <= 8 * m
    <2>1. 7 * ((e + k) - 1) \in Nat /\ 7 * ((e + k) - 1) + 7 <= 8 * m
        BY <1>3
    <2>2. QED
        BY <2>1
<1>7. PICK c \in 0..127 : c = encodeGSMChar(s.text[i])
    BY Codes
<1>8. ASSUME NEW j \in 1..7 PROVE raw[p + j] = Bit(c, j - 1)
    <2>1. PICK x \in 0..(8 * m - 1) : x + 1 = p + j /\ x = p + (j - 1)
        <3>1. p + (j - 1) \in 0..(8 * m - 1) /\ (p + (j - 1)) + 1 = p + j
            BY <1>6
        <3>2. QED
            BY <3>1
    <2>2. PICK q \in Nat : q = x - 7 * e /\ q = 7 * (k - 1) + (j - 1)
        <3>1. x - 7 * e = 7 * (k - 1) + (j - 1) /\ 7 * (k - 1) + (j - 1) \in Nat
            BY <1>6, <2>1
        <3>2. QED
            BY <3>1
    <2>3. q \div 7 = k - 1 /\ q % 7 = j - 1 /\ ~(q < 0) /\ ~(q >= 7 * n) /\ (k - 1) + 1 = k
        BY <2>2
    <2>4. ~InHeader(h, x)
        <3>1. x >= 7 * e
            BY <2>2
        <3>2. h > 0 => x >= 8 * (h + 1)
            BY <1>3, <3>1
        <3>3. QED
            BY <3>2 DEF InHeader
    <2>5. DataBit(s, x) = Bit(encodeGSMChar(s.text[k]), j - 1)
        <3>1. ~InHeader(s.header, x) /\ x - 7 * HeaderSeptets(s.header) = q
            BY <1>1, <2>2, <2>4, Zenon
        <3>2. ~(q < 0 \/ q >= 7 * Len(s.text))
            BY <1>2, <2>3, Zenon
        <3>3. DataBit(s, x) = Bit(encodeGSMChar(s.text[(q \div 7) + 1]), q % 7)
            BY <3>1, <3>2, Zenon DEF DataBit, SeptetBit
        <3>4. QED
            BY <2>3, <3>3, Zenon
    <2>6. raw[x + 1] = DataBit(s, x)
        BY <1>4, Zenon
    <2>7. QED
        BY <1>5, <1>7, <2>1, <2>5, <2>6, Zenon
<1>9. c \in Nat /\ c % 128 = c
    OBVIOUS
<1>10. p + 7 <= Len(raw) /\ LowFirst(raw, p, c, 7)
    BY <1>4, <1>6, <1>8, Zenon DEF LowFirst
<1>11. readFieldReversed(raw, p, 7) = c % 128
    BY <1>4, <1>9, <1>10, SeptetReversed, Zenon
<1>12. QED
    BY <1>1, <1>5, <1>6, <1>7, <1>9, <1>11, Zenon DEF raw

\* TLUserData::decode() gives the text that the handset packed, header or not.
LEMMA TextDecoded ==
    ASSUME NEW s \in Sms, InAlphabet(s.text)
    PROVE  TLUserData_decode(DataOf(s)) = IF Septets(s) THEN s.text ELSE None
<1> DEFINE ud == DataOf(s)
           raw == LSB8MSB(HandsetData(s))
<1>1. /\ ud.dcs = s.dcs /\ ud.udhi = (s.header > 0) /\ ud.length = DataLength(s) /\ ud.raw = raw
    BY DEF DataOf
<1> HIDE DEF ud
<1>2. CASE ~Septets(s)
    BY <1>1, <1>2 DEF TLUserData_decode, Septets, ud
<1>3. CASE Septets(s)
    <2>1. PICK n \in Nat, e \in Nat, m \in Nat :
            n = Len(s.text) /\ e = HeaderSeptets(s.header) /\ m = DataOctets(s)
        <3>1. Len(s.text) \in Nat /\ HeaderSeptets(s.header) \in Nat /\ DataOctets(s) \in Nat
            BY SmsFacts, HeaderFacts
        <3>2. QED
            BY <3>1
    <2>2. DataLength(s) = n + e /\ 7 * DataLength(s) <= 8 * m /\ Len(raw) = 8 * m
        BY <1>3, <2>1, HeaderFacts, HandsetDataIs
    <2>3. ~((n + e) * 7 > 8 * m) /\ (n + e) - e = n
        BY <2>2
    <2> DEFINE skip == IF ud.udhi THEN UdhSeptets(ud) ELSE 0
    <2>4. skip = e
        <3>1. skip = IF s.header > 0 THEN UdhSeptets(ud) ELSE 0
            BY <1>1
        <3>2. QED
            BY <1>3, <2>1, <3>1, HeaderSkipped, Zenon DEF ud
    <2>5. TLUserData_decode(ud) =
            [i \in 1..(ud.length - skip) |->
                decodeGSMChar(readFieldReversed(ud.raw, 7 * (skip + i - 1), 7))]
        <3>1. ud.dcs \in SevenBit
            BY <1>1, <1>3, Zenon DEF Septets
        <3>2. ~(ud.length * 7 > Len(ud.raw))
            BY <1>1, <2>2, <2>3, Zenon
        <3>3. QED
            BY <3>1, <3>2 DEF TLUserData_decode
    <2> HIDE DEF skip
    <2>6. ud.length - skip = n
        BY <1>1, <2>2, <2>3, <2>4, Zenon
    <2>7. TLUserData_decode(ud) =
            [i \in 1..n |-> decodeGSMChar(readFieldReversed(raw, 7 * (e + i - 1), 7))]
        BY <1>1, <2>4, <2>5, <2>6
    <2>8. ASSUME NEW i \in 1..n
          PROVE  decodeGSMChar(readFieldReversed(raw, 7 * (e + i - 1), 7)) = s.text[i]
        <3>1. i \in 1..Len(s.text)
            BY <2>1
        <3>2. readFieldReversed(raw, 7 * ((HeaderSeptets(s.header) + i) - 1), 7)
                = encodeGSMChar(s.text[i])
            BY <1>3, <3>1, SeptetsRead, Zenon
        <3>3. s.text[i] \in Alphabet
            BY <3>1, Zenon DEF InAlphabet
        <3>4. decodeGSMChar(encodeGSMChar(s.text[i])) = s.text[i]
            BY <3>3, Codes, Zenon
        <3>5. e = HeaderSeptets(s.header)
            BY <2>1
        <3> HIDE DEF raw
        <3>6. readFieldReversed(raw, 7 * ((e + i) - 1), 7) = encodeGSMChar(s.text[i])
            BY <3>2, <3>5
        <3>7. QED
            BY <3>4, <3>6
    <2>9. TLUserData_decode(ud) = [i \in 1..n |-> s.text[i]]
        BY <2>7, <2>8
    <2>10. s.text = [i \in 1..n |-> s.text[i]]
        BY <2>1, SmsFacts
    <2>11. QED
        BY <1>3, <2>9, <2>10 DEF ud
<1>4. QED
    BY <1>2, <1>3

-----------------------------------------------------------------------------
(* Frames of several parts.                                                *)

\* Three fragments, one behind the other.
LEMMA ThreeParts ==
    ASSUME NEW a \in Bits, NEW b \in Bits, NEW c \in Bits
    PROVE  LET f == a \o b \o c
           IN  /\ f \in Bits /\ Len(f) = (Len(a) + Len(b)) + Len(c)
               /\ At(f, 0, a) /\ At(f, Len(a), b) /\ At(f, Len(a) + Len(b), c)
<1>1. Len(a) \in Nat /\ Len(b) \in Nat /\ 0 \in Nat
    BY BitsAre
<1>2. /\ a \o b \in Bits /\ Len(a \o b) = Len(a) + Len(b)
      /\ At(a \o b, 0, a) /\ At(a \o b, Len(a), b)
    BY Behind
<1>3. /\ (a \o b) \o c \in Bits /\ Len((a \o b) \o c) = Len(a \o b) + Len(c)
      /\ At((a \o b) \o c, 0, a \o b) /\ At((a \o b) \o c, Len(a \o b), c)
    BY <1>2, Behind
<1>4. At((a \o b) \o c, 0 + 0, a) /\ At((a \o b) \o c, 0 + Len(a), b)
    BY <1>1, <1>2, <1>3, AtAt, Zenon
<1>5. 0 + 0 = 0 /\ 0 + Len(a) = Len(a)
    BY <1>1
<1>6. QED
    BY <1>2, <1>3, <1>4, <1>5, Zenon

\* Four fragments, one behind the other.
LEMMA FourParts ==
    ASSUME NEW a \in Bits, NEW b \in Bits, NEW c \in Bits, NEW d \in Bits
    PROVE  LET f == a \o b \o c \o d
           IN  /\ f \in Bits /\ Len(f) = ((Len(a) + Len(b)) + Len(c)) + Len(d)
               /\ At(f, 0, a) /\ At(f, Len(a), b) /\ At(f, Len(a) + Len(b), c)
               /\ At(f, (Len(a) + Len(b)) + Len(c), d)
<1> DEFINE g == a \o b \o c
<1>1. Len(a) \in Nat /\ Len(b) \in Nat /\ Len(c) \in Nat /\ 0 \in Nat
    BY BitsAre
<1>2. /\ g \in Bits /\ Len(g) = (Len(a) + Len(b)) + Len(c)
      /\ At(g, 0, a) /\ At(g, Len(a), b) /\ At(g, Len(a) + Len(b), c)
    BY ThreeParts
<1> HIDE DEF g
<1>3. g \o d \in Bits /\ Len(g \o d) = Len(g) + Len(d) /\ At(g \o d, 0, g) /\ At(g \o d, Len(g), d)
    BY <1>2, Behind
<1>4. Len(a) + Len(b) \in Nat
    BY <1>1
<1>5. /\ At(g \o d, 0 + 0, a) /\ At(g \o d, 0 + Len(a), b)
      /\ At(g \o d, 0 + (Len(a) + Len(b)), c)
    BY <1>1, <1>2, <1>3, <1>4, AtAt, Zenon
<1>6. 0 + 0 = 0 /\ 0 + Len(a) = Len(a) /\ 0 + (Len(a) + Len(b)) = Len(a) + Len(b)
    BY <1>1
<1>7. QED
    BY <1>2, <1>3, <1>5, <1>6, Zenon DEF g

\* What lies in the front part lies in the whole.
LEMMA InFront ==
    ASSUME NEW f \in Bits, NEW a \in Bits, NEW s \in Bits, NEW q \in Nat,
           At(f, 0, a), At(a, q, s)
    PROVE  At(f, q, s)
<1>1. 0 \in Nat /\ 0 + q = q
    OBVIOUS
<1>2. At(f, 0 + q, s)
    BY <1>1, AtAt, Zenon
<1>3. QED
    BY <1>1, <1>2, Zenon

\* A fragment ends in the frame.
LEMMA Ends ==
    ASSUME NEW f \in Bits, NEW p \in Nat, NEW s \in Bits, At(f, p, s)
    PROVE  p + Len(s) <= Len(f)
BY DEF At

-----------------------------------------------------------------------------
(* Addresses.                                                              *)

\* The type of the number n lies behind p bits of f, in an octet that begins
\* with a 1.
TypeAt(f, p, n) ==
    p + 8 <= Len(f) /\ readField(f, p, 1) = 1 /\ readField(f, p + 1, 3) = TypeOfNumber(n)

\* The type of a number takes an octet.
LEMMA HandsetTypeIs ==
    ASSUME NEW n \in Number
    PROVE  HandsetType(n) \in Bits /\ Len(HandsetType(n)) = 8
<1>1. (IF n.plus THEN 145 ELSE 161) \in Nat /\ 8 \in 1..8
    OBVIOUS
<1>2. QED
    BY <1>1, WriteField, ZenonT(60) DEF HandsetType

\* The handset writes the type that is looked for.
LEMMA HandsetTypeAt ==
    ASSUME NEW f \in Bits, NEW p \in Nat, NEW n \in Number, At(f, p, HandsetType(n))
    PROVE  TypeAt(f, p, n)
<1> DEFINE v == IF n.plus THEN 145 ELSE 161
<1>1. v \in Nat /\ 8 \in 1..8
    OBVIOUS
<1>2. /\ Bit(145, 7) = 1 /\ Bit(145, 6) = 0 /\ Bit(145, 5) = 0 /\ Bit(145, 4) = 1
      /\ Bit(161, 7) = 1 /\ Bit(161, 6) = 0 /\ Bit(161, 5) = 1 /\ Bit(161, 4) = 0
    BY Powers DEF Bit
<1>3. p + Len(writeField(v, 8)) <= Len(f)
      /\ \A i \in 1..Len(writeField(v, 8)) : f[p + i] = writeField(v, 8)[i]
    BY Zenon DEF At, HandsetType
<1> HIDE DEF v
<1>4. p + 8 <= Len(f) /\ \A i \in 1..8 : f[p + i] = Bit(v, 8 - i)
    BY <1>1, <1>3, WriteField, Zenon
<1>5. f[p + 1] = Bit(v, 7) /\ f[p + 2] = Bit(v, 6) /\ f[p + 3] = Bit(v, 5) /\ f[p + 4] = Bit(v, 4)
    BY <1>4
<1>6. Len(f) \in Nat
    BY BitsAre
<1>7. p + 1 <= Len(f) /\ (p + 1) + 3 <= Len(f) /\ p + 1 \in Nat
    BY <1>4, <1>6, SMTT(30)
<1>8. readField(f, p, 1) = f[p + 1]
      /\ readField(f, p + 1, 3) = 4 * f[(p + 1) + 1] + 2 * f[(p + 1) + 2] + f[(p + 1) + 3]
    BY <1>7, ReadBits, Zenon
<1>9. (p + 1) + 1 = p + 2 /\ (p + 1) + 2 = p + 3 /\ (p + 1) + 3 = p + 4
    OBVIOUS
<1>10. readField(f, p + 1, 3) = 4 * Bit(v, 6) + 2 * Bit(v, 5) + Bit(v, 4)
    BY <1>5, <1>8, <1>9, Zenon
<1>11. 4 * 0 + 2 * 0 + 1 = 1 /\ 4 * 0 + 2 * 1 + 0 = 2
    OBVIOUS
<1>12. CASE n.plus
    <2>1. v = 145 /\ TypeOfNumber(n) = 1
        BY <1>12 DEF v, TypeOfNumber, International
    <2>2. QED
        BY <1>2, <1>4, <1>5, <1>8, <1>10, <1>11, <2>1, ZenonT(60) DEF TypeAt
<1>13. CASE ~n.plus
    <2>1. v = 161 /\ TypeOfNumber(n) = 2
        BY <1>13 DEF v, TypeOfNumber
    <2>2. QED
        BY <1>2, <1>4, <1>5, <1>8, <1>10, <1>11, <2>1, ZenonT(60) DEF TypeAt
<1>14. QED
    BY <1>12, <1>13

\* A number is its type and its digits.
LEMMA NumberIs ==
    ASSUME NEW n \in Number
    PROVE  [plus |-> TypeOfNumber(n) = International, digits |-> n.digits] = n
<1>1. n = [plus |-> n.plus, digits |-> n.digits] /\ n.plus \in BOOLEAN
    BY DEF Number
<1>2. (TypeOfNumber(n) = International) = n.plus
    <2>1. CASE n.plus
        BY <1>1, <2>1 DEF TypeOfNumber, International
    <2>2. CASE ~n.plus
        BY <1>1, <2>2 DEF TypeOfNumber, International
    <2>3. QED
        BY <2>1, <2>2
<1>3. QED
    BY <1>1, <1>2, Zenon

\* The numbers that the elements have room for.
Fits(n) == n \in Number /\ Len(n.digits) \in 1..20 /\ (n.plus => Len(n.digits) <= 19)

\* A number that fits has at most ten octets of digits.
LEMMA FitsSize ==
    ASSUME NEW n, Fits(n)
    PROVE  n \in Number /\ Octets(n) \in 1..10 /\ L3BCDDigits_size(n) <= maxDigits
           /\ L3BCDDigits_size(n) \in Nat
<1>1. n \in Number /\ Len(n.digits) \in 1..20 /\ (n.plus => Len(n.digits) <= 19)
    BY Zenon DEF Fits
<1>2. n.plus \in BOOLEAN
    BY <1>1 DEF Number
<1>3. PICK x \in 1..20 : x = Len(n.digits)
    BY <1>1
<1>4. Octets(n) = (x + 1) \div 2
    BY <1>3 DEF Octets
<1>5. (x + 1) \div 2 \in 1..10
    OBVIOUS
<1>6. L3BCDDigits_size(n) = x + (IF n.plus THEN 1 ELSE 0)
    BY <1>3 DEF L3BCDDigits_size
<1>7. n.plus => x <= 19
    BY <1>1, <1>3, Zenon
<1>8. x + (IF n.plus THEN 1 ELSE 0) <= 20 /\ x + (IF n.plus THEN 1 ELSE 0) \in Nat
    <2>1. CASE n.plus
        BY <1>7, <2>1
    <2>2. CASE ~n.plus
        BY <2>2
    <2>3. QED
        BY <2>1, <2>2
<1>9. QED
    BY <1>1, <1>4, <1>5, <1>6, <1>8 DEF maxDigits

\* TLAddress::parse() finds the number whose digits are counted in front.
LEMMA AddressParsed ==
    ASSUME NEW f \in Bits, NEW p \in Nat, NEW n, Fits(n),
           At(f, p, writeField(Len(n.digits), 8)), TypeAt(f, p + 8, n), DigitsAt(f, p + 16, n)
    PROVE  TLAddress_parse(f, p) = [ok |-> TRUE, number |-> n, rp |-> (p + 16) + 8 * Octets(n)]
<1>1. n \in Number /\ Octets(n) \in 1..10 /\ L3BCDDigits_size(n) <= maxDigits
    BY FitsSize
<1>2. PICK x \in 1..20 : x = Len(n.digits)
    BY DEF Fits
<1>3. readField(f, p, 8) = x
    <2>1. x \in Nat /\ x % 256 = x
        OBVIOUS
    <2>2. readField(f, p, 8) = x % 256
        BY <1>2, <2>1, OctetBack, ZenonT(60)
    <2>3. QED
        BY <2>1, <2>2
<1>4. Octets(n) = (x \div 2) + (x % 2)
    <2>1. (x + 1) \div 2 = (x \div 2) + (x % 2)
        OBVIOUS
    <2>2. QED
        BY <1>2, <2>1, Zenon DEF Octets
<1>5. readField(f, p + 8, 1) = 1 /\ readField(f, p + 9, 3) = TypeOfNumber(n)
    <2>1. (p + 8) + 1 = p + 9
        OBVIOUS
    <2>2. QED
        BY <2>1, Zenon DEF TypeAt
<1>6. L3BCDDigits_parse(f, p + 16, Octets(n), TypeOfNumber(n) = International) = n
    <2>1. p + 16 \in Nat
        OBVIOUS
    <2>2. L3BCDDigits_parse(f, p + 16, Octets(n), TypeOfNumber(n) = International)
            = [plus |-> TypeOfNumber(n) = International, digits |-> n.digits]
        BY <1>1, <2>1, DigitsParsed, ZenonT(60)
    <2>3. QED
        BY <1>1, <2>2, NumberIs, Zenon
<1>7. QED
    BY <1>1, <1>3, <1>4, <1>5, <1>6 DEF TLAddress_parse

\* parseLV() of an address: the octets that follow are counted in front.
LEMMA AddressLVParsed ==
    ASSUME NEW f \in Bits, NEW p \in Nat, NEW n, Fits(n),
           At(f, p, writeField(1 + Octets(n), 8)), TypeAt(f, p + 8, n), DigitsAt(f, p + 16, n)
    PROVE  RPAddress_parseLV(f, p) = [ok |-> TRUE, number |-> n, rp |-> (p + 16) + 8 * Octets(n)]
<1>1. n \in Number /\ Octets(n) \in 1..10 /\ L3BCDDigits_size(n) <= maxDigits
    BY FitsSize
<1>2. PICK m \in 1..10 : m = Octets(n)
    BY <1>1
<1>3. readField(f, p, 8) = 1 + m
    <2>1. 1 + m \in Nat /\ (1 + m) % 256 = 1 + m
        OBVIOUS
    <2>2. readField(f, p, 8) = (1 + m) % 256
        BY <1>2, <2>1, OctetBack, ZenonT(60)
    <2>3. QED
        BY <2>1, <2>2
<1>4. readField(f, p + 8, 1) = 1 /\ readField(f, p + 9, 3) = TypeOfNumber(n)
    <2>1. (p + 8) + 1 = p + 9
        OBVIOUS
    <2>2. QED
        BY <2>1, Zenon DEF TypeAt
<1>5. L3BCDDigits_parse(f, p + 16, m, TypeOfNumber(n) = International) = n
    <2>1. p + 16 \in Nat
        OBVIOUS
    <2>2. L3BCDDigits_parse(f, p + 16, Octets(n), TypeOfNumber(n) = International)
            = [plus |-> TypeOfNumber(n) = International, digits |-> n.digits]
        BY <1>1, <2>1, DigitsParsed, ZenonT(60)
    <2>3. QED
        BY <1>1, <1>2, <2>2, NumberIs, Zenon
<1>6. 1 + m # 0 /\ (1 + m) - 1 = m /\ (p + 8) + 8 * (1 + m) = (p + 16) + 8 * m
    OBVIOUS
<1>7. QED
    BY <1>1, <1>2, <1>3, <1>4, <1>5, <1>6 DEF RPAddress_parseLV

\* An address of no octets is read as no number.
LEMMA NoAddressParsed ==
    ASSUME NEW f \in Bits, NEW p \in Nat, At(f, p, writeField(0, 8))
    PROVE  RPAddress_parseLV(f, p) = [ok |-> TRUE, number |-> NoNumber, rp |-> p + 8]
<1>1. 0 \in Nat /\ 0 % 256 = 0
    OBVIOUS
<1>2. readField(f, p, 8) = 0
    BY <1>1, OctetBack
<1>3. QED
    BY <1>2 DEF RPAddress_parseLV

\* What L3CalledPartyBCDNumber writes is a type and digits.
LEMMA CodecNumberIs ==
    ASSUME NEW n \in Number
    PROVE  /\ RPAddress_writeV(n) \in Bits /\ Len(RPAddress_writeV(n)) = 8 + 8 * Octets(n)
           /\ At(RPAddress_writeV(n), 0, writeField(1, 1))
           /\ At(RPAddress_writeV(n), 1, writeField(TypeOfNumber(n), 3))
           /\ At(RPAddress_writeV(n), 4, writeField(1, 4))
           /\ At(RPAddress_writeV(n), 8, L3BCDDigits_write(n))
<1> DEFINE a == writeField(1, 1)
           b == writeField(TypeOfNumber(n), 3)
           c == writeField(1, 4)
           d == L3BCDDigits_write(n)
           f == a \o b \o c \o d
<1>1. 1 \in Nat /\ TypeOfNumber(n) \in Nat /\ 1 \in 1..8 /\ 3 \in 1..8 /\ 4 \in 1..8
    BY DEF TypeOfNumber, International
<1>2. a \in Bits /\ Len(a) = 1 /\ b \in Bits /\ Len(b) = 3 /\ c \in Bits /\ Len(c) = 4
    BY <1>1, WriteField, Zenon
<1>3. d \in Bits /\ Len(d) = 8 * Octets(n) /\ Octets(n) \in Nat
    BY CodecDigitsAre, DigitFacts
<1>4. RPAddress_writeV(n) = f
    BY DEF RPAddress_writeV, E164Plan
<1> HIDE DEF a, b, c, d
<1>5. /\ f \in Bits /\ Len(f) = ((Len(a) + Len(b)) + Len(c)) + Len(d)
      /\ At(f, 0, a) /\ At(f, Len(a), b) /\ At(f, Len(a) + Len(b), c)
      /\ At(f, (Len(a) + Len(b)) + Len(c), d)
    BY <1>2, <1>3, FourParts
<1> HIDE DEF f
<1>6. Len(a) + Len(b) = 4 /\ (Len(a) + Len(b)) + Len(c) = 8
    BY <1>2
<1>7. QED
    BY <1>2, <1>3, <1>4, <1>5, <1>6, Zenon DEF a, b, c, d

\* L3CalledPartyBCDNumber::writeV() puts type and digits where they are looked for.
LEMMA CodecNumberAt ==
    ASSUME NEW f \in Bits, NEW p \in Nat, NEW n \in Number, At(f, p, RPAddress_writeV(n))
    PROVE  TypeAt(f, p, n) /\ DigitsAt(f, p + 8, n)
<1> DEFINE a == writeField(1, 1)
           b == writeField(TypeOfNumber(n), 3)
           d == L3BCDDigits_write(n)
           w == RPAddress_writeV(n)
<1>1. /\ 1 \in Nat /\ TypeOfNumber(n) \in Nat /\ 1 \in 1..8 /\ 3 \in 1..8
      /\ TypeOfNumber(n) % 8 = TypeOfNumber(n) /\ 0 \in Nat /\ 8 \in Nat
      /\ p + 0 = p /\ p + 1 \in Nat /\ p + 8 \in Nat
    BY DEF TypeOfNumber, International
<1>2. a \in Bits /\ Len(a) = 1 /\ b \in Bits /\ d \in Bits
    BY <1>1, WriteField, CodecDigitsAre, Zenon
<1>3. /\ w \in Bits /\ Len(w) = 8 + 8 * Octets(n)
      /\ At(w, 0, a) /\ At(w, 1, b) /\ At(w, 8, d)
    BY CodecNumberIs
<1>4. At(f, p, w) /\ Octets(n) \in Nat /\ Len(f) \in Nat
    BY DigitFacts, BitsAre
<1> HIDE DEF w, a, b, d
<1>5. At(f, p + 0, a) /\ At(f, p + 1, b) /\ At(f, p + 8, d)
    <2>1. w \in Bits /\ At(f, p, w) /\ At(w, 0, a) /\ At(w, 1, b) /\ At(w, 8, d)
        BY <1>3, <1>4, Zenon
    <2>2. QED
        BY <1>1, <1>2, <2>1, AtAt
<1>6. DigitsAt(f, p + 8, n)
    BY <1>1, <1>5, CodecDigitsAt, Zenon DEF d
<1>7. p + 8 <= Len(f)
    <2>1. p + Len(w) <= Len(f)
        BY <1>3, <1>4, Ends, Zenon
    <2>2. QED
        BY <1>3, <1>4, <2>1
<1>8. readField(f, p + 1, 3) = TypeOfNumber(n)
    BY <1>1, <1>5, ThreeBack DEF b
<1>9. readField(f, p, 1) = 1
    <2>1. readField(f, p, 1) = f[p + 1]
        BY <1>4, <1>7, ReadBits
    <2>2. f[p + 1] = a[1]
        BY <1>1, <1>2, <1>5 DEF At
    <2>3. a[1] = Bit(1, 1 - 1)
        BY <1>1, WriteField DEF a
    <2>4. Bit(1, 1 - 1) = 1
        BY Powers DEF Bit
    <2>5. QED
        BY <2>1, <2>2, <2>3, <2>4
<1>10. QED
    BY <1>6, <1>7, <1>8, <1>9, Zenon DEF TypeAt

\* The address of a number that fits, with its length, and that of no number.
LEMMA AddressLVIs ==
    ASSUME NEW n, Fits(n)
    PROVE  /\ RPAddress_lengthV(n) = 1 + Octets(n)
           /\ RPAddress_writeLV(n) \in Bits /\ Len(RPAddress_writeLV(n)) = 16 + 8 * Octets(n)
           /\ At(RPAddress_writeLV(n), 0, writeField(1 + Octets(n), 8))
           /\ At(RPAddress_writeLV(n), 8, RPAddress_writeV(n))
<1>1. n \in Number /\ Octets(n) \in 1..10
    BY FitsSize
<1>2. L3BCDDigits_lengthV(n) = Octets(n)
    BY <1>1, DigitFacts
<1>3. PICK m \in 1..10 : m = Octets(n)
    BY <1>1
<1>4. 1 + m # 0 /\ m # 0 /\ 1 + m \in Nat /\ 8 \in 1..8 /\ 8 + (8 + 8 * m) = 16 + 8 * m
    OBVIOUS
<1>5. RPAddress_lengthV(n) = 1 + m
    BY <1>2, <1>3, <1>4, Zenon DEF RPAddress_lengthV
<1>6. RPAddress_writeLV(n) = writeField(1 + m, 8) \o RPAddress_writeV(n)
    BY <1>4, <1>5, Zenon DEF RPAddress_writeLV
<1>7. /\ writeField(1 + m, 8) \in Bits /\ Len(writeField(1 + m, 8)) = 8
      /\ RPAddress_writeV(n) \in Bits /\ Len(RPAddress_writeV(n)) = 8 + 8 * m
    BY <1>1, <1>3, <1>4, WriteField, CodecNumberIs, Zenon
<1>8. QED
    BY <1>3, <1>4, <1>5, <1>6, <1>7, Behind, ZenonT(60)

\* No number is written as a length of 0.
LEMMA NoAddressIs ==
    /\ RPAddress_lengthV(NoNumber) = 0
    /\ RPAddress_writeLV(NoNumber) = writeField(0, 8)
<1>1. L3BCDDigits_lengthV(NoNumber) = 0
    BY DEF NoNumber, L3BCDDigits_lengthV
<1>2. RPAddress_lengthV(NoNumber) = 0
    BY <1>1, Zenon DEF RPAddress_lengthV
<1>3. writeField(0, 8) \in Bits
    <2>1. 0 \in Nat /\ 8 \in 1..8
        OBVIOUS
    <2>2. QED
        BY <2>1, WriteField, Zenon
<1>4. writeField(0, 8) \o <<>> = writeField(0, 8)
    BY <1>3 DEF Bits
<1>5. QED
    BY <1>2, <1>4, Zenon DEF RPAddress_writeLV
-----------------------------------------------------------------------------
(* The handset's SMS-SUBMIT.                                               *)

\* No validity period, or a relative one: no octet, or one.
LEMMA HandsetPeriodIs ==
    ASSUME NEW vpf \in {0, 2}
    PROVE  HandsetPeriod(vpf) \in Bits /\ Len(HandsetPeriod(vpf)) = 8 * (vpf \div 2)
<1> DEFINE r == vpf \div 2
           vs == [i \in 1..r |-> 17 * i]
<1>1. r \in Nat /\ (vpf = 0 => r = 0) /\ (vpf = 2 => r = 1)
    OBVIOUS
<1>2. (CASE vpf = 0 -> 0 [] vpf = 1 -> 7 [] vpf = 2 -> 1 [] vpf = 3 -> 7) = r
    <2>1. CASE vpf = 0
        BY <1>1, <2>1
    <2>2. CASE vpf = 2
        BY <1>1, <2>2
    <2>3. QED
        BY <2>1, <2>2
<1>3. HandsetPeriod(vpf) = Fields(vs, 8)
    BY <1>2, Zenon DEF HandsetPeriod
<1> HIDE DEF r
<1>4. vs \in Seq(Nat) /\ Len(vs) = r
    <2>1. \A i \in 1..r : 17 * i \in Nat
        BY <1>1
    <2>2. QED
        BY <1>1, <2>1
<1> HIDE DEF vs
<1>5. Fields(vs, 8) \in Bits /\ Len(Fields(vs, 8)) = 8 * Len(vs)
    BY <1>4, FieldsAre
<1>6. QED
    BY <1>3, <1>4, <1>5 DEF r

\* The first two octets: header indicator, period format, SUBMIT, reference.
HandsetHead(s) ==
    <<0, IF s.header = 0 THEN 0 ELSE 1, 0>> \o writeField(s.vpf, 2) \o <<0, 0, 1>>
    \o writeField(5, 8)

\* The first octets of a SUBMIT: the bits that parseTPDU() looks at.
LEMMA HandsetHeadIs ==
    ASSUME NEW s \in Sms
    PROVE  /\ HandsetHead(s) \in Bits /\ Len(HandsetHead(s)) = 16
           /\ HandsetHead(s)[2] = IF s.header = 0 THEN 0 ELSE 1
           /\ HandsetHead(s)[4] = Bit(s.vpf, 1) /\ HandsetHead(s)[5] = Bit(s.vpf, 0)
           /\ HandsetHead(s)[7] = 0 /\ HandsetHead(s)[8] = 1
<1> DEFINE u == IF s.header = 0 THEN 0 ELSE 1
           a == <<0, u, 0>>
           b == writeField(s.vpf, 2)
           c == <<0, 0, 1>>
           d == writeField(5, 8)
           f == a \o b \o c \o d
<1>1. s.vpf \in 0..3
    BY SmsFacts
<1>2. PICK v \in 0..3 : v = s.vpf
    BY <1>1
<1>3. v \in Nat /\ 5 \in Nat /\ 2 \in 1..8 /\ 8 \in 1..8 /\ 1 \in 1..2 /\ 2 \in 1..2
      /\ 2 - 1 = 1 /\ 2 - 2 = 0
    OBVIOUS
<1>4. /\ b \in Bits /\ Len(b) = 2 /\ b[1] = Bit(v, 1) /\ b[2] = Bit(v, 0)
      /\ d \in Bits /\ Len(d) = 8
    BY <1>2, <1>3, WriteField, ZenonT(60)
<1>5. /\ a \in Bits /\ Len(a) = 3 /\ a[2] = u
      /\ c \in Bits /\ Len(c) = 3 /\ c[2] = 0 /\ c[3] = 1
    BY DEF Bits
<1>6. HandsetHead(s) = f
    BY DEF HandsetHead
<1> HIDE DEF a, b, c, d, u
<1>7. /\ f \in Bits /\ Len(f) = ((Len(a) + Len(b)) + Len(c)) + Len(d)
      /\ At(f, 0, a) /\ At(f, Len(a), b) /\ At(f, Len(a) + Len(b), c)
    <2>1. a \in Bits /\ b \in Bits /\ c \in Bits /\ d \in Bits
        BY <1>4, <1>5, Zenon
    <2>2. QED
        BY <2>1, FourParts
<1> HIDE DEF f
<1>8. Len(f) = 16 /\ Len(a) + Len(b) = 5
    BY <1>4, <1>5, <1>7
<1>9. f[0 + 2] = a[2] /\ f[3 + 1] = b[1] /\ f[3 + 2] = b[2] /\ f[5 + 2] = c[2] /\ f[5 + 3] = c[3]
    <2>1. \A i \in 1..Len(a) : f[0 + i] = a[i]
        BY <1>7, Zenon DEF At
    <2>2. \A i \in 1..Len(b) : f[3 + i] = b[i]
        BY <1>5, <1>7, Zenon DEF At
    <2>3. \A i \in 1..Len(c) : f[5 + i] = c[i]
        BY <1>7, <1>8, Zenon DEF At
    <2>4. QED
        BY <1>4, <1>5, <2>1, <2>2, <2>3
<1>10. 0 + 2 = 2 /\ 3 + 1 = 4 /\ 3 + 2 = 5 /\ 5 + 2 = 7 /\ 5 + 3 = 8
    OBVIOUS
<1>11. f[2] = u /\ f[4] = Bit(v, 1) /\ f[5] = Bit(v, 0) /\ f[7] = 0 /\ f[8] = 1
    BY <1>4, <1>5, <1>9, <1>10, Zenon
<1>12. QED
    BY <1>2, <1>6, <1>7, <1>8, <1>11, Zenon DEF u

\* In a frame with this head, the fields of the first octet are read.
LEMMA HeadRead ==
    ASSUME NEW s \in Sms, NEW f \in Bits, At(f, 0, HandsetHead(s))
    PROVE  /\ 16 <= Len(f) /\ (f[2] = 1) = (s.header > 0)
           /\ readField(f, 3, 2) = s.vpf /\ readField(f, 6, 2) = 1
<1> DEFINE a == HandsetHead(s)
<1>1. PICK v \in 0..3, h \in 0..139 : v = s.vpf /\ h = s.header
    <2>1. s.vpf \in 0..3 /\ s.header \in 0..139
        BY SmsFacts
    <2>2. QED
        BY <2>1
<1>2. /\ Len(a) = 16 /\ a[2] = IF h = 0 THEN 0 ELSE 1
      /\ a[4] = Bit(v, 1) /\ a[5] = Bit(v, 0) /\ a[7] = 0 /\ a[8] = 1
    BY <1>1, HandsetHeadIs, Zenon
<1> HIDE DEF a
<1>3. 0 + Len(a) <= Len(f) /\ \A i \in 1..Len(a) : f[0 + i] = a[i]
    BY Zenon DEF At, a
<1>4. \A i \in 1..16 : f[0 + i] = a[i]
    BY <1>2, <1>3
<1>5. Len(f) \in Nat /\ 16 <= Len(f)
    BY <1>2, <1>3, BitsAre
<1>6. f[2] = a[2] /\ f[4] = a[4] /\ f[5] = a[5] /\ f[7] = a[7] /\ f[8] = a[8]
    BY <1>4
<1>7. 3 \in Nat /\ 6 \in Nat /\ 3 + 2 <= Len(f) /\ 6 + 2 <= Len(f)
      /\ 3 + 1 = 4 /\ 3 + 2 = 5 /\ 6 + 1 = 7 /\ 6 + 2 = 8
    BY <1>5
<1>8. /\ readField(f, 3, 2) = 2 * f[3 + 1] + f[3 + 2]
      /\ readField(f, 6, 2) = 2 * f[6 + 1] + f[6 + 2]
    BY <1>7, ReadBits, Zenon
<1>9. 2 * Bit(v, 1) + Bit(v, 0) = v
    <2>1. v \in Nat /\ 2 * ((v \div 2) % 2) + (v % 2) = v
        OBVIOUS
    <2>2. Bit(v, 1) = (v \div 2) % 2 /\ Bit(v, 0) = v % 2
        BY <2>1, BitValues, Zenon
    <2>3. QED
        BY <2>1, <2>2, Zenon
<1>10. readField(f, 3, 2) = v /\ readField(f, 6, 2) = 2 * 0 + 1
    BY <1>2, <1>6, <1>7, <1>8, <1>9, Zenon
<1>11. (f[2] = 1) = (h > 0)
    BY <1>2, <1>6
<1>12. QED
    BY <1>1, <1>5, <1>10, <1>11

\* The address lies behind the head, and TP-PID, coding scheme, period, length
\* and data behind the address.
LEMMA HandsetTpduIs ==
    ASSUME NEW s \in Sms, s.vpf \in {0, 2},
           NEW m \in Nat, m = Octets(s.to), NEW r \in Nat, r = s.vpf \div 2
    PROVE  /\ HandsetTpdu(s) \in Bits
           /\ Len(HandsetTpdu(s)) = ((56 + 8 * m) + 8 * r) + 8 * DataOctets(s)
           /\ At(HandsetTpdu(s), 0, HandsetHead(s))
           /\ At(HandsetTpdu(s), 16, writeField(Len(s.to.digits), 8))
           /\ At(HandsetTpdu(s), 24, HandsetType(s.to))
           /\ At(HandsetTpdu(s), 32, HandsetDigits(s.to))
           /\ At(HandsetTpdu(s), 32 + 8 * m, writeField(s.pi, 8))
           /\ At(HandsetTpdu(s), 40 + 8 * m, writeField(s.dcs, 8))
           /\ At(HandsetTpdu(s), (48 + 8 * m) + 8 * r, writeField(DataLength(s), 8))
           /\ At(HandsetTpdu(s), (56 + 8 * m) + 8 * r, HandsetData(s))
<1> DEFINE a == HandsetHead(s)
           L == writeField(Len(s.to.digits), 8)
           T == HandsetType(s.to)
           D == HandsetDigits(s.to)
           I == writeField(s.pi, 8)
           C == writeField(s.dcs, 8)
           P == HandsetPeriod(s.vpf)
           N == writeField(DataLength(s), 8)
           U == HandsetData(s)
           g == a \o L \o T \o D
           h == g \o I \o C \o P
           f == h \o N \o U
<1>1. PICK d \in Nat : d = DataOctets(s)
    BY HeaderFacts
<1>2. /\ s.to \in Number /\ Len(s.to.digits) \in Nat /\ s.pi \in Nat /\ s.dcs \in Nat
      /\ DataLength(s) \in Nat /\ 8 \in 1..8
    <2>1. s.to \in Number /\ s.pi \in 0..255 /\ s.dcs \in 0..255
        BY SmsFacts
    <2>2. Len(s.to.digits) \in Nat
        BY <2>1, DigitFacts
    <2>3. DataLength(s) \in Nat
        BY HeaderFacts
    <2>4. (\A x \in 0..255 : x \in Nat) /\ 8 \in 1..8
        OBVIOUS
    <2>5. QED
        BY <2>1, <2>2, <2>3, <2>4, Zenon
<1>3. /\ a \in Bits /\ Len(a) = 16
      /\ L \in Bits /\ Len(L) = 8 /\ T \in Bits /\ Len(T) = 8 /\ I \in Bits /\ Len(I) = 8
      /\ C \in Bits /\ Len(C) = 8 /\ N \in Bits /\ Len(N) = 8
    BY <1>2, HandsetHeadIs, WriteField, HandsetTypeIs, Zenon
<1>4. D \in Bits /\ Len(D) = 8 * m
    BY <1>2, HandsetDigitsAre, Zenon
<1>5. P \in Bits /\ Len(P) = 8 * r
    BY HandsetPeriodIs, Zenon
<1>6. U \in Bits /\ Len(U) = 8 * d
    BY <1>1, HandsetDataIs
<1>7. HandsetTpdu(s) = f
    BY DEF HandsetTpdu, HandsetHead
<1> HIDE DEF a, L, T, D, I, C, P, N, U
<1>8. /\ g \in Bits /\ Len(g) = 32 + 8 * m
      /\ At(g, 0, a) /\ At(g, 16, L) /\ At(g, 24, T) /\ At(g, 32, D)
    <2>1. a \in Bits /\ L \in Bits /\ T \in Bits /\ D \in Bits
        BY <1>3, <1>4, Zenon
    <2>2. /\ g \in Bits /\ Len(g) = ((Len(a) + Len(L)) + Len(T)) + Len(D)
          /\ At(g, 0, a) /\ At(g, Len(a), L) /\ At(g, Len(a) + Len(L), T)
          /\ At(g, (Len(a) + Len(L)) + Len(T), D)
        BY <2>1, FourParts
    <2>3. 16 + 8 = 24 /\ 24 + 8 = 32
        OBVIOUS
    <2>4. QED
        BY <1>3, <1>4, <2>2, <2>3, Zenon
<1> HIDE DEF g
<1>9. /\ h \in Bits /\ Len(h) = (48 + 8 * m) + 8 * r
      /\ At(h, 0, g) /\ At(h, 32 + 8 * m, I) /\ At(h, 40 + 8 * m, C)
    <2>1. g \in Bits /\ I \in Bits /\ C \in Bits /\ P \in Bits
        BY <1>3, <1>5, <1>8, Zenon
    <2>2. /\ h \in Bits /\ Len(h) = ((Len(g) + Len(I)) + Len(C)) + Len(P)
          /\ At(h, 0, g) /\ At(h, Len(g), I) /\ At(h, Len(g) + Len(I), C)
        BY <2>1, FourParts
    <2>3. (32 + 8 * m) + 8 = 40 + 8 * m /\ (40 + 8 * m) + 8 = 48 + 8 * m
        OBVIOUS
    <2>4. QED
        BY <1>3, <1>5, <1>8, <2>2, <2>3, Zenon
<1> HIDE DEF h
<1>10. /\ f \in Bits /\ Len(f) = ((56 + 8 * m) + 8 * r) + 8 * d
       /\ At(f, 0, h) /\ At(f, (48 + 8 * m) + 8 * r, N) /\ At(f, (56 + 8 * m) + 8 * r, U)
    <2>1. h \in Bits /\ N \in Bits /\ U \in Bits
        BY <1>3, <1>6, <1>9, Zenon
    <2>2. /\ f \in Bits /\ Len(f) = (Len(h) + Len(N)) + Len(U)
          /\ At(f, 0, h) /\ At(f, Len(h), N) /\ At(f, Len(h) + Len(N), U)
        BY <2>1, ThreeParts
    <2>3. ((48 + 8 * m) + 8 * r) + 8 = (56 + 8 * m) + 8 * r
        OBVIOUS
    <2>4. QED
        BY <1>3, <1>6, <1>9, <2>2, <2>3, Zenon
<1> HIDE DEF f
<1>11. 0 \in Nat /\ 16 \in Nat /\ 24 \in Nat /\ 32 \in Nat /\ 32 + 8 * m \in Nat
       /\ 40 + 8 * m \in Nat
    OBVIOUS
<1>12. At(f, 0, g)
    BY <1>8, <1>9, <1>10, <1>11, InFront, Zenon
<1>13. At(f, 0, a) /\ At(f, 16, L) /\ At(f, 24, T) /\ At(f, 32, D)
    <2>1. f \in Bits /\ g \in Bits /\ a \in Bits /\ L \in Bits /\ T \in Bits /\ D \in Bits
        BY <1>3, <1>4, <1>8, <1>10, Zenon
    <2>2. At(g, 0, a) /\ At(g, 16, L) /\ At(g, 24, T) /\ At(g, 32, D)
        BY <1>8, Zenon
    <2>3. QED
        BY <1>12, <2>1, <2>2, InFront
<1>14. At(f, 32 + 8 * m, I) /\ At(f, 40 + 8 * m, C)
    <2>1. f \in Bits /\ h \in Bits /\ I \in Bits /\ C \in Bits /\ At(f, 0, h)
        BY <1>3, <1>9, <1>10, Zenon
    <2>2. At(h, 32 + 8 * m, I) /\ At(h, 40 + 8 * m, C)
        BY <1>9, Zenon
    <2>3. QED
        BY <1>11, <2>1, <2>2, InFront
<1>15. QED
    BY <1>1, <1>7, <1>10, <1>13, <1>14, Zenon DEF a, L, T, D, I, C, P, N, U

\* What smqueue is to make of a SUBMIT.
SubmitOf(s) == [to |-> s.to, pi |-> s.pi, ud |-> DataOf(s)]

\* In 140 octets there are up to 160 septets.
LEMMA SeptetsFit ==
    ASSUME NEW d \in 0..140, NEW x \in Nat, 7 * x <= 8 * d \/ x = d
    PROVE  x \in 0..160
OBVIOUS

\* What fits 140 octets has at most 160 septets.
LEMMA DataLengths ==
    ASSUME NEW s \in Sms, DataOctets(s) <= 140
    PROVE  DataOctets(s) \in 0..140 /\ DataLength(s) \in 0..160
<1>1. PICK d \in Nat, x \in Nat : d = DataOctets(s) /\ x = DataLength(s)
    BY HeaderFacts
<1>2. d <= 140
    BY <1>1, Zenon
<1>3. d \in 0..140
    BY <1>2
<1>4. 7 * x <= 8 * d \/ x = d
    BY <1>1, HeaderFacts, Zenon
<1>5. QED
    BY <1>1, <1>3, <1>4, SeptetsFit, Zenon

\* TLUserData::parse() takes what lies behind the length octet.
LEMMA UserDataParsed ==
    ASSUME NEW s \in Sms, DataOctets(s) <= 140, NEW f \in Bits, NEW q \in Nat,
           At(f, q, writeField(DataLength(s), 8)), At(f, q + 8, HandsetData(s)),
           Len(f) = (q + 8) + 8 * DataOctets(s)
    PROVE  TLUserData_parse(f, q, s.dcs, s.header > 0) = DataOf(s)
<1>1. PICK d \in 0..140, x \in 0..160 : d = DataOctets(s) /\ x = DataLength(s)
    BY DataLengths
<1>2. readField(f, q, 8) = x
    <2>1. x % 256 = x /\ x \in Nat
        OBVIOUS
    <2>2. readField(f, q, 8) = x % 256
        BY <1>1, <2>1, OctetBack, ZenonT(60)
    <2>3. QED
        BY <2>1, <2>2
<1>3. SubSeq(f, q + 9, Len(f)) = HandsetData(s)
    <2>1. HandsetData(s) \in Bits /\ Len(HandsetData(s)) = 8 * d
        BY <1>1, HandsetDataIs
    <2>2. q + 8 \in Nat /\ (q + 8) + 1 = q + 9
        OBVIOUS
    <2>3. SubSeq(f, (q + 8) + 1, (q + 8) + Len(HandsetData(s))) = HandsetData(s)
        BY <2>1, <2>2, SliceAt, Zenon
    <2>4. (q + 8) + Len(HandsetData(s)) = Len(f)
        BY <1>1, <2>1, Zenon
    <2>5. QED
        BY <2>2, <2>3, <2>4, Zenon
<1>4. QED
    BY <1>1, <1>2, <1>3, Zenon DEF TLUserData_parse, DataOf

\* parseTPDU() of a SUBMIT without or with a relative validity period.
LEMMA SubmitParsed ==
    ASSUME NEW s \in Sms, s.vpf \in {0, 2}, DataOctets(s) <= 140
    PROVE  parseTPDU(HandsetTpdu(s)) = SubmitOf(s)
<1> DEFINE f == HandsetTpdu(s)
<1>1. Fits(s.to) /\ s.pi \in 0..255 /\ s.dcs \in 0..255
    BY SmsFacts DEF Fits
<1>2. PICK m \in Nat, r \in Nat : m = Octets(s.to) /\ r = s.vpf \div 2
    <2>1. Octets(s.to) \in Nat
        BY SmsFacts, DigitFacts
    <2>2. s.vpf \div 2 \in Nat
        OBVIOUS
    <2>3. QED
        BY <2>1, <2>2
<1>3. PICK d \in Nat : d = DataOctets(s)
    BY HeaderFacts
<1>4. /\ f \in Bits /\ Len(f) = ((56 + 8 * m) + 8 * r) + 8 * d
      /\ At(f, 0, HandsetHead(s)) /\ At(f, 16, writeField(Len(s.to.digits), 8))
      /\ At(f, 24, HandsetType(s.to)) /\ At(f, 32, HandsetDigits(s.to))
      /\ At(f, 32 + 8 * m, writeField(s.pi, 8)) /\ At(f, 40 + 8 * m, writeField(s.dcs, 8))
      /\ At(f, (48 + 8 * m) + 8 * r, writeField(DataLength(s), 8))
      /\ At(f, (56 + 8 * m) + 8 * r, HandsetData(s))
    BY <1>2, <1>3, HandsetTpduIs, ZenonT(60)
<1> HIDE DEF f
<1>5. /\ (f[2] = 1) = (s.header > 0)
      /\ readField(f, 3, 2) = s.vpf /\ readField(f, 6, 2) = 1
    BY <1>4, HeadRead, Zenon
<1>6. TLAddress_parse(f, 16) = [ok |-> TRUE, number |-> s.to, rp |-> 32 + 8 * m]
    <2>1. 16 \in Nat /\ 24 \in Nat /\ 32 \in Nat /\ 16 + 8 = 24 /\ 16 + 16 = 32
        OBVIOUS
    <2>2. TypeAt(f, 24, s.to) /\ DigitsAt(f, 32, s.to)
        BY <1>1, <1>4, <2>1, HandsetTypeAt, HandsetDigitsAt, Zenon DEF Fits
    <2>3. TLAddress_parse(f, 16)
            = [ok |-> TRUE, number |-> s.to, rp |-> (16 + 16) + 8 * Octets(s.to)]
        BY <1>1, <1>4, <2>1, <2>2, AddressParsed, Zenon
    <2>4. QED
        BY <1>2, <2>1, <2>3, Zenon
<1>7. readField(f, 32 + 8 * m, 8) = s.pi /\ readField(f, 40 + 8 * m, 8) = s.dcs
    <2>1. PICK i \in 0..255, c \in 0..255 : i = s.pi /\ c = s.dcs
        BY <1>1
    <2>2. i \in Nat /\ c \in Nat /\ i % 256 = i /\ c % 256 = c
          /\ 32 + 8 * m \in Nat /\ 40 + 8 * m \in Nat
        OBVIOUS
    <2>3. f \in Bits /\ At(f, 32 + 8 * m, writeField(i, 8)) /\ At(f, 40 + 8 * m, writeField(c, 8))
        BY <1>4, <2>1, Zenon
    <2>4. readField(f, 32 + 8 * m, 8) = i % 256
        BY <2>2, <2>3, OctetBack
    <2>5. readField(f, 40 + 8 * m, 8) = c % 256
        BY <2>2, <2>3, OctetBack
    <2>6. QED
        BY <2>1, <2>2, <2>4, <2>5, Zenon
<1> DEFINE q == (48 + 8 * m) + 8 * r
<1>8. q \in Nat /\ q + 8 = (56 + 8 * m) + 8 * r
      /\ (32 + 8 * m) + 8 = 40 + 8 * m /\ (32 + 8 * m) + 16 = 48 + 8 * m
    OBVIOUS
<1>9. TLValidityPeriod_parse(s.vpf, 48 + 8 * m) = q
    <2>1. CASE s.vpf = 0
        <3>1. r = 0
            BY <1>2, <2>1
        <3>2. QED
            BY <2>1, <3>1 DEF TLValidityPeriod_parse
    <2>2. CASE s.vpf = 2
        <3>1. r = 1
            BY <1>2, <2>2
        <3>2. QED
            BY <2>2, <3>1 DEF TLValidityPeriod_parse
    <2>3. QED
        BY <2>1, <2>2
<1> HIDE DEF q
<1>10. TLUserData_parse(f, q, s.dcs, s.header > 0) = DataOf(s)
    <2>1. At(f, q, writeField(DataLength(s), 8)) /\ At(f, q + 8, HandsetData(s))
          /\ Len(f) = (q + 8) + 8 * DataOctets(s)
        BY <1>3, <1>4, <1>8, Zenon DEF q
    <2>2. QED
        BY <1>4, <1>8, <2>1, UserDataParsed, Zenon
<1>11. TLSubmit_parse(f) = SubmitOf(s)
    <2> DEFINE da == TLAddress_parse(f, 16)
    <2>1. da.ok /\ da.number = s.to /\ da.rp = 32 + 8 * m
        BY <1>6
    <2>2. TLSubmit_parse(f) =
            [to |-> da.number, pi |-> readField(f, da.rp, 8),
             ud |-> TLUserData_parse(f,
                        TLValidityPeriod_parse(readField(f, 3, 2), da.rp + 16),
                        readField(f, da.rp + 8, 8), f[2] = 1)]
        BY <2>1, Zenon DEF TLSubmit_parse
    <2> HIDE DEF da
    <2>3. /\ da.rp + 16 = 48 + 8 * m /\ da.rp + 8 = 40 + 8 * m
          /\ readField(f, da.rp, 8) = s.pi
        BY <1>7, <1>8, <2>1, Zenon
    <2>4. TLUserData_parse(f, TLValidityPeriod_parse(readField(f, 3, 2), da.rp + 16),
                           readField(f, da.rp + 8, 8), f[2] = 1) = DataOf(s)
        BY <1>5, <1>7, <1>9, <1>10, <2>3, Zenon
    <2>5. QED
        BY <2>1, <2>2, <2>3, <2>4, Zenon DEF SubmitOf
<1>12. QED
    BY <1>5, <1>11, Zenon DEF parseTPDU, SUBMIT, f
-----------------------------------------------------------------------------
(* The relay layer.                                                        *)

\* Between the bits p and q of f lies the address of n.
AddressAt(f, p, n, q) == RPAddress_parseLV(f, p) = [ok |-> TRUE, number |-> n, rp |-> q]
\* RPData::parse() finds the addresses of a and b and the TPDU.
Relayed(f, a, b, tpdu) ==
    RPData_parse(f) = [ok |-> TRUE, originator |-> a, destination |-> b, tpdu |-> tpdu]

\* RPData::parse(): two addresses, and a TPDU that fills the rest.
LEMMA RelayParsed ==
    ASSUME NEW f \in Bits, NEW a, NEW b, NEW p \in Nat, NEW q \in Nat,
           AddressAt(f, 16, a, p), AddressAt(f, p, b, q), NEW w \in 0..255, At(f, q, writeField(w, 8)),
           NEW tpdu \in Bits, Len(tpdu) = 8 * w, At(f, q + 8, tpdu)
    PROVE  Relayed(f, a, b, tpdu)
<1> DEFINE orig == RPAddress_parseLV(f, 16)
           dest == RPAddress_parseLV(f, p)
<1>1. orig.ok /\ orig.number = a /\ orig.rp = p /\ dest.ok /\ dest.number = b /\ dest.rp = q
    BY DEF AddressAt
<1>2. w \in Nat /\ w % 256 = w /\ q + 8 \in Nat /\ (q + 8) + 1 = q + 9
    OBVIOUS
<1>3. readField(f, q, 8) = w
    BY <1>2, OctetBack
<1>4. Len(f) \in Nat /\ ~((q + 8) + 8 * w > Len(f))
    <2>1. (q + 8) + Len(tpdu) <= Len(f) /\ Len(f) \in Nat
        BY <1>2, Ends, BitsAre, Zenon
    <2>2. (q + 8) + 8 * w <= Len(f)
        BY <2>1, Zenon
    <2>3. PICK l \in Nat : l = Len(f)
        BY <2>1
    <2>4. ~((q + 8) + 8 * w > l)
        BY <2>2, <2>3
    <2>5. QED
        BY <2>1, <2>3, <2>4, Zenon
<1>5. SubSeq(f, q + 9, (q + 8) + 8 * w) = tpdu
    <2>1. SubSeq(f, (q + 8) + 1, (q + 8) + Len(tpdu)) = tpdu
        BY <1>2, SliceAt, Zenon
    <2>2. QED
        BY <1>2, <2>1, Zenon
<1> HIDE DEF orig, dest
<1>6. RPAddress_parseLV(f, 16) = orig /\ RPAddress_parseLV(f, orig.rp) = dest
    BY <1>1, Zenon DEF orig, dest
<1>7. RPData_parse(f) =
        IF ~orig.ok \/ ~dest.ok \/ dest.rp + 8 + 8 * readField(f, dest.rp, 8) > Len(f)
        THEN [ok |-> FALSE]
        ELSE [ok |-> TRUE, originator |-> orig.number, destination |-> dest.number,
              tpdu |-> SubSeq(f, dest.rp + 9, dest.rp + 8 + 8 * readField(f, dest.rp, 8))]
    BY <1>6, Zenon DEF RPData_parse
<1>8. QED
    BY <1>1, <1>3, <1>4, <1>5, <1>7, Zenon DEF Relayed

\* The frame of the handset.
LEMMA HandsetRpduIs ==
    ASSUME NEW s \in Sms, HandsetTpdu(s) \in Bits, NEW l \in Nat, Len(HandsetTpdu(s)) = l,
           NEW smsc \in Number, NEW k \in Nat, k = Octets(smsc)
    PROVE  /\ HandsetRpdu(s, smsc) \in Bits /\ Len(HandsetRpdu(s, smsc)) = (48 + 8 * k) + l
           /\ At(HandsetRpdu(s, smsc), 16, writeField(0, 8))
           /\ At(HandsetRpdu(s, smsc), 24, writeField(1 + k, 8))
           /\ At(HandsetRpdu(s, smsc), 32, HandsetType(smsc))
           /\ At(HandsetRpdu(s, smsc), 40, HandsetDigits(smsc))
           /\ At(HandsetRpdu(s, smsc), 40 + 8 * k, writeField(l \div 8, 8))
           /\ At(HandsetRpdu(s, smsc), 48 + 8 * k, HandsetTpdu(s))
<1> DEFINE A == writeField(0, 8)
           B == writeField(9, 8)
           L == writeField(1 + k, 8)
           T == HandsetType(smsc)
           D == HandsetDigits(smsc)
           N == writeField(l \div 8, 8)
           U == HandsetTpdu(s)
           g == A \o B \o A \o L
           h == g \o T \o D \o N
           f == h \o U
<1>1. 0 \in Nat /\ 9 \in Nat /\ 1 + k \in Nat /\ l \div 8 \in Nat /\ 8 \in 1..8
    OBVIOUS
<1>2. /\ A \in Bits /\ Len(A) = 8 /\ B \in Bits /\ Len(B) = 8
      /\ L \in Bits /\ Len(L) = 8 /\ N \in Bits /\ Len(N) = 8
    BY <1>1, WriteField, Zenon
<1>3. /\ T \in Bits /\ Len(T) = 8 /\ D \in Bits /\ Len(D) = 8 * k /\ U \in Bits /\ Len(U) = l
    BY HandsetTypeIs, HandsetDigitsAre, Zenon
<1>4. HandsetRpdu(s, smsc) = f
    <2>1. Ceil(Len(smsc.digits), 2) = k
        BY DigitFacts, Zenon
    <2>2. QED
        BY <2>1, Zenon DEF HandsetRpdu
<1> HIDE DEF A, B, L, T, D, N, U
<1>5. /\ g \in Bits /\ Len(g) = 32 /\ At(g, 16, A) /\ At(g, 24, L)
    <2>1. A \in Bits /\ B \in Bits /\ L \in Bits
        BY <1>2, Zenon
    <2>2. /\ g \in Bits /\ Len(g) = ((Len(A) + Len(B)) + Len(A)) + Len(L)
          /\ At(g, Len(A) + Len(B), A) /\ At(g, (Len(A) + Len(B)) + Len(A), L)
        BY <2>1, FourParts
    <2>3. 8 + 8 = 16 /\ 16 + 8 = 24 /\ 24 + 8 = 32
        OBVIOUS
    <2>4. QED
        BY <1>2, <2>2, <2>3, Zenon
<1> HIDE DEF g
<1>6. /\ h \in Bits /\ Len(h) = 48 + 8 * k /\ At(h, 0, g) /\ At(h, 32, T) /\ At(h, 40, D)
      /\ At(h, 40 + 8 * k, N)
    <2>1. g \in Bits /\ T \in Bits /\ D \in Bits /\ N \in Bits
        BY <1>2, <1>3, <1>5, Zenon
    <2>2. /\ h \in Bits /\ Len(h) = ((Len(g) + Len(T)) + Len(D)) + Len(N)
          /\ At(h, 0, g) /\ At(h, Len(g), T) /\ At(h, Len(g) + Len(T), D)
          /\ At(h, (Len(g) + Len(T)) + Len(D), N)
        BY <2>1, FourParts
    <2>3. 32 + 8 = 40 /\ (40 + 8 * k) + 8 = 48 + 8 * k
        OBVIOUS
    <2>4. QED
        BY <1>2, <1>3, <1>5, <2>2, <2>3, Zenon
<1> HIDE DEF h
<1>7. f \in Bits /\ Len(f) = (48 + 8 * k) + l /\ At(f, 0, h) /\ At(f, 48 + 8 * k, U)
    <2>1. /\ f \in Bits /\ Len(f) = Len(h) + Len(U) /\ At(f, 0, h) /\ At(f, Len(h), U)
        BY <1>3, <1>6, Behind
    <2>2. QED
        BY <1>3, <1>6, <2>1, Zenon
<1> HIDE DEF f
<1>8. 0 \in Nat /\ 16 \in Nat /\ 24 \in Nat /\ 32 \in Nat /\ 40 \in Nat /\ 40 + 8 * k \in Nat
    OBVIOUS
<1>9. At(f, 32, T) /\ At(f, 40, D) /\ At(f, 40 + 8 * k, N) /\ At(f, 0, g)
    <2>1. /\ f \in Bits /\ h \in Bits /\ T \in Bits /\ D \in Bits /\ N \in Bits /\ g \in Bits
          /\ At(f, 0, h)
        BY <1>2, <1>3, <1>5, <1>6, <1>7, Zenon
    <2>2. At(h, 32, T) /\ At(h, 40, D) /\ At(h, 40 + 8 * k, N) /\ At(h, 0, g)
        BY <1>6, Zenon
    <2>3. QED
        BY <1>8, <2>1, <2>2, InFront
<1>10. At(f, 16, A) /\ At(f, 24, L)
    <2>1. f \in Bits /\ g \in Bits /\ A \in Bits /\ L \in Bits /\ At(f, 0, g)
        BY <1>2, <1>5, <1>7, <1>9, Zenon
    <2>2. At(g, 16, A) /\ At(g, 24, L)
        BY <1>5, Zenon
    <2>3. QED
        BY <1>8, <2>1, <2>2, InFront
<1>11. QED
    BY <1>4, <1>7, <1>9, <1>10, Zenon DEF A, L, T, D, N, U

\* smqueue finds the handset's TPDU, and the frame is whole octets.
LEMMA HandsetRpduRead ==
    ASSUME NEW s \in Sms, s.vpf \in {0, 2}, DataOctets(s) <= 140, NEW smsc, Fits(smsc)
    PROVE  /\ HandsetRpdu(s, smsc) \in Bits /\ Len(HandsetRpdu(s, smsc)) % 8 = 0
           /\ Relayed(HandsetRpdu(s, smsc), NoNumber, smsc, HandsetTpdu(s))
<1> DEFINE f == HandsetRpdu(s, smsc)
           U == HandsetTpdu(s)
<1>1. PICK d \in 0..140 : d = DataOctets(s)
    BY DataLengths
<1>2. PICK m \in 1..10 : m = Octets(s.to)
    <2>1. Fits(s.to)
        BY SmsFacts, ZenonT(60) DEF Fits
    <2>2. Octets(s.to) \in 1..10
        BY <2>1, FitsSize
    <2>3. QED
        BY <2>2
<1>3. PICK r \in 0..1 : r = s.vpf \div 2
    OBVIOUS
<1>4. PICK k \in 1..10 : k = Octets(smsc) /\ smsc \in Number
    BY FitsSize
<1> PICK w \in 0..255 : w = ((7 + m) + r) + d
    OBVIOUS
<1>5. ((56 + 8 * m) + 8 * r) + 8 * d = 8 * w /\ (8 * w) \div 8 = w
      /\ 8 * w \in Nat /\ m \in Nat /\ r \in Nat /\ k \in Nat
      /\ ((48 + 8 * k) + 8 * w) % 8 = 0
    OBVIOUS
<1>6. U \in Bits /\ Len(U) = 8 * w
    BY <1>1, <1>2, <1>3, <1>5, HandsetTpduIs, ZenonT(60)
<1>7. /\ f \in Bits /\ Len(f) = (48 + 8 * k) + 8 * w
      /\ At(f, 16, writeField(0, 8)) /\ At(f, 24, writeField(1 + k, 8))
      /\ At(f, 32, HandsetType(smsc)) /\ At(f, 40, HandsetDigits(smsc))
      /\ At(f, 40 + 8 * k, writeField((8 * w) \div 8, 8)) /\ At(f, 48 + 8 * k, U)
    <2>1. U \in Bits /\ 8 * w \in Nat /\ Len(U) = 8 * w /\ smsc \in Number /\ k \in Nat
          /\ k = Octets(smsc)
        BY <1>4, <1>5, <1>6, Zenon
    <2>2. QED
        BY <2>1, HandsetRpduIs, SMTT(60)
<1> HIDE DEF f, U
<1>8. /\ 16 \in Nat /\ 16 + 8 = 24 /\ 24 \in Nat /\ 24 + 8 = 32 /\ 24 + 16 = 40 /\ 32 \in Nat
      /\ 40 \in Nat /\ 40 + 8 * k \in Nat /\ (40 + 8 * k) + 8 = 48 + 8 * k
    OBVIOUS
<1>9. RPAddress_parseLV(f, 16) = [ok |-> TRUE, number |-> NoNumber, rp |-> 24]
    BY <1>7, <1>8, NoAddressParsed, Zenon
<1>10. RPAddress_parseLV(f, 24) = [ok |-> TRUE, number |-> smsc, rp |-> 40 + 8 * k]
    <2>1. TypeAt(f, 32, smsc) /\ DigitsAt(f, 40, smsc)
        BY <1>4, <1>7, <1>8, HandsetTypeAt, HandsetDigitsAt, Zenon
    <2>2. RPAddress_parseLV(f, 24)
            = [ok |-> TRUE, number |-> smsc, rp |-> (24 + 16) + 8 * Octets(smsc)]
        BY <1>4, <1>7, <1>8, <2>1, AddressLVParsed, ZenonT(60)
    <2>3. QED
        BY <1>4, <1>8, <2>2, Zenon
<1>11. Relayed(f, NoNumber, smsc, U)
    <2>1. PICK q \in Nat : q = 40 + 8 * k
        BY <1>8
    <2>2. At(f, q, writeField(w, 8)) /\ At(f, q + 8, U)
        BY <1>5, <1>7, <1>8, <2>1, Zenon
    <2>3. /\ AddressAt(f, 16, NoNumber, 24) /\ AddressAt(f, 24, smsc, q)
          /\ f \in Bits /\ U \in Bits /\ Len(U) = 8 * w /\ 24 \in Nat
        BY <1>5, <1>6, <1>7, <1>8, <1>9, <1>10, <2>1, Zenon DEF AddressAt
    <2>4. QED
        BY <2>2, <2>3, RelayParsed, Zenon
<1>12. QED
    BY <1>5, <1>7, <1>11, Zenon DEF f, U
-----------------------------------------------------------------------------
(* The SMS-DELIVER that smqueue writes.                                    *)

\* The order in which fragments are put together does not matter.
LEMMA OneBehindTheOther ==
    ASSUME NEW a \in Bits, NEW b \in Bits, NEW c \in Bits
    PROVE  (a \o b) \o c = a \o (b \o c)
BY DEF Bits

\* An address: the size, then a type and digits as in a relay address.
LEMMA CodecAddressIs ==
    ASSUME NEW n \in Number
    PROVE  /\ TLAddress_write(n) = writeField(L3BCDDigits_size(n), 8) \o RPAddress_writeV(n)
           /\ TLAddress_write(n) \in Bits /\ Len(TLAddress_write(n)) = 16 + 8 * Octets(n)
           /\ At(TLAddress_write(n), 0, writeField(L3BCDDigits_size(n), 8))
           /\ At(TLAddress_write(n), 8, RPAddress_writeV(n))
<1> DEFINE l == writeField(L3BCDDigits_size(n), 8)
           a == writeField(1, 1)
           b == writeField(TypeOfNumber(n), 3)
           c == writeField(1, 4)
           d == L3BCDDigits_write(n)
           v == RPAddress_writeV(n)
<1>1. /\ 1 \in Nat /\ TypeOfNumber(n) \in Nat /\ 1 \in 1..8 /\ 3 \in 1..8 /\ 4 \in 1..8
      /\ 8 \in 1..8
    BY DEF TypeOfNumber, International
<1>2. L3BCDDigits_size(n) \in Nat
    <2>1. PICK x \in Nat : x = Len(n.digits)
        BY DigitFacts
    <2>2. x + (IF n.plus THEN 1 ELSE 0) \in Nat
        OBVIOUS
    <2>3. QED
        BY <2>1, <2>2, Zenon DEF L3BCDDigits_size
<1>3. /\ l \in Bits /\ Len(l) = 8 /\ a \in Bits /\ b \in Bits /\ c \in Bits /\ d \in Bits
    BY <1>1, <1>2, WriteField, CodecDigitsAre, Zenon
<1>4. v \in Bits /\ Len(v) = 8 + 8 * Octets(n) /\ v = a \o b \o c \o d
    BY CodecNumberIs, Zenon DEF RPAddress_writeV, E164Plan
<1>5. TLAddress_write(n) = (((l \o a) \o b) \o c) \o d
    BY DEF TLAddress_write, E164Plan
<1> HIDE DEF l, a, b, c, d, v
<1>6. (((l \o a) \o b) \o c) \o d = l \o v
    <2>1. l \in Bits /\ a \o b \in Bits /\ (a \o b) \o c \in Bits /\ c \in Bits /\ d \in Bits
        BY <1>3, Behind
    <2>2. (l \o a) \o b = l \o (a \o b)
        BY <1>3, OneBehindTheOther, SMTT(60)
    <2>3. (l \o (a \o b)) \o c = l \o ((a \o b) \o c)
        BY <2>1, OneBehindTheOther, ZenonT(60)
    <2>4. (l \o ((a \o b) \o c)) \o d = l \o (((a \o b) \o c) \o d)
        BY <2>1, OneBehindTheOther, ZenonT(60)
    <2>5. QED
        BY <1>4, <2>2, <2>3, <2>4, Zenon
<1>7. /\ l \o v \in Bits /\ Len(l \o v) = Len(l) + Len(v)
      /\ At(l \o v, 0, l) /\ At(l \o v, Len(l), v)
    BY <1>3, <1>4, Behind
<1>8. Octets(n) \in Nat
    BY DigitFacts
<1>9. 8 + (8 + 8 * Octets(n)) = 16 + 8 * Octets(n)
    BY <1>8
<1>10. QED
    BY <1>3, <1>4, <1>5, <1>6, <1>7, <1>9, Zenon DEF l, v

\* Two decimal digits, the lower one first.
LEMMA BCDIs ==
    ASSUME NEW v \in Nat
    PROVE  /\ BCD(v) \in Bits /\ Len(BCD(v)) = 8
           /\ At(BCD(v), 0, writeField(v % 10, 4)) /\ At(BCD(v), 4, writeField(v \div 10, 4))
<1> DEFINE a == writeField(v % 10, 4)
           b == writeField(v \div 10, 4)
<1>1. v % 10 \in Nat /\ v \div 10 \in Nat /\ 4 \in 1..8 /\ 4 + 4 = 8
    OBVIOUS
<1>2. a \in Bits /\ Len(a) = 4 /\ b \in Bits /\ Len(b) = 4
    BY <1>1, WriteField, Zenon
<1>3. BCD(v) = a \o b
    BY DEF BCD
<1> HIDE DEF a, b
<1>4. /\ a \o b \in Bits /\ Len(a \o b) = Len(a) + Len(b)
      /\ At(a \o b, 0, a) /\ At(a \o b, Len(a), b)
    BY <1>2, Behind
<1>5. QED
    BY <1>1, <1>2, <1>3, <1>4, Zenon DEF a, b

\* The quarters of an hour from UTC, and on which side.
ZoneSize(t) == IF Quarters(t.gmtoff) < 0 THEN -Quarters(t.gmtoff) ELSE Quarters(t.gmtoff)
ZoneSign(t) == IF Quarters(t.gmtoff) < 0 THEN 1 ELSE 0

\* Whole quarters divide without a rest, on both sides.
LEMMA WholeQuarters ==
    ASSUME NEW q \in Int
    PROVE  Quarters(900 * q) = q
<1>1. CASE q < 0
    <2>1. 900 * q < 0 /\ (-(900 * q)) \div 900 = -q /\ -(-q) = q
        BY <1>1
    <2>2. QED
        BY <2>1 DEF Quarters
<1>2. CASE ~(q < 0)
    <2>1. ~(900 * q < 0) /\ (900 * q) \div 900 = q
        BY <1>2
    <2>2. QED
        BY <2>1 DEF Quarters
<1>3. QED
    BY <1>1, <1>2

\* A number of quarters is a size and a sign.
LEMMA SizeAndSign ==
    ASSUME NEW q \in -56..56
    PROVE  LET size == IF q < 0 THEN -q ELSE q
               sign == IF q < 0 THEN 1 ELSE 0
           IN  size \in 0..56 /\ sign \in {0, 1} /\ (IF sign = 1 THEN -size ELSE size) = q
<1>1. CASE q < 0
    BY <1>1
<1>2. CASE ~(q < 0)
    BY <1>2
<1>3. QED
    BY <1>1, <1>2

\* The fields of a time, and the quarters of an hour that are its zone.
LEMMA TimeFacts ==
    ASSUME NEW t \in Times
    PROVE  /\ t.year \in Nat /\ t.month \in 1..12 /\ t.day \in 1..31 /\ t.hour \in 0..23
           /\ t.min \in 0..59 /\ t.sec \in 0..60
           /\ ZoneSize(t) \in 0..56 /\ ZoneSign(t) \in {0, 1}
           /\ 900 * (IF ZoneSign(t) = 1 THEN -ZoneSize(t) ELSE ZoneSize(t)) = t.gmtoff
<1>1. t \in [year : Nat, month : 1..12, day : 1..31, hour : 0..23, min : 0..59,
             sec : 0..60, gmtoff : {900 * q : q \in -56..56}]
    BY TimeAssumption
<1>2. /\ t.year \in Nat /\ t.month \in 1..12 /\ t.day \in 1..31 /\ t.hour \in 0..23
      /\ t.min \in 0..59 /\ t.sec \in 0..60 /\ t.gmtoff \in {900 * q : q \in -56..56}
    BY <1>1
<1>3. PICK q \in -56..56 : t.gmtoff = 900 * q
    BY <1>2
<1>4. Quarters(t.gmtoff) = q
    <2>1. q \in Int
        OBVIOUS
    <2>2. QED
        BY <1>3, <2>1, WholeQuarters
<1>5. /\ ZoneSize(t) \in 0..56 /\ ZoneSign(t) \in {0, 1}
      /\ (IF ZoneSign(t) = 1 THEN -ZoneSize(t) ELSE ZoneSize(t)) = q
    BY <1>4, SizeAndSign, Zenon DEF ZoneSize, ZoneSign
<1>6. QED
    BY <1>2, <1>3, <1>5

\* Seven octets of time: six times two digits, and the zone.
LEMMA TimeIs ==
    ASSUME NEW t \in Times
    PROVE  LET f == L3TimeZoneAndTime_writeV(t)
           IN  /\ f \in Bits /\ Len(f) = 56
               /\ At(f, 0, BCD(t.year % 100)) /\ At(f, 8, BCD(t.month)) /\ At(f, 16, BCD(t.day))
               /\ At(f, 24, BCD(t.hour)) /\ At(f, 32, BCD(t.min)) /\ At(f, 40, BCD(t.sec))
               /\ At(f, 48, writeField(ZoneSize(t) % 10, 4))
               /\ At(f, 52, writeField(ZoneSign(t), 1))
               /\ At(f, 53, writeField(ZoneSize(t) \div 10, 3))
<1> DEFINE y == BCD(t.year % 100)
           mo == BCD(t.month)
           d == BCD(t.day)
           ho == BCD(t.hour)
           mi == BCD(t.min)
           s == BCD(t.sec)
           u == writeField(ZoneSize(t) % 10, 4)
           v == writeField(ZoneSign(t), 1)
           w == writeField(ZoneSize(t) \div 10, 3)
           g == y \o mo \o d \o ho
           h == g \o mi \o s \o u
           f == h \o v \o w
<1>1. /\ t.year % 100 \in Nat /\ t.month \in Nat /\ t.day \in Nat /\ t.hour \in Nat
      /\ t.min \in Nat /\ t.sec \in Nat
      /\ ZoneSize(t) % 10 \in Nat /\ ZoneSize(t) \div 10 \in Nat /\ ZoneSign(t) \in Nat
      /\ 1 \in 1..8 /\ 3 \in 1..8 /\ 4 \in 1..8
    <2>1. PICK a \in Nat, z \in 0..56 : a = t.year /\ z = ZoneSize(t)
        BY TimeFacts
    <2>2. a % 100 \in Nat /\ z % 10 \in Nat /\ z \div 10 \in Nat
          /\ 1 \in 1..8 /\ 3 \in 1..8 /\ 4 \in 1..8
        OBVIOUS
    <2>3. /\ t.month \in Nat /\ t.day \in Nat /\ t.hour \in Nat
          /\ t.min \in Nat /\ t.sec \in Nat /\ ZoneSign(t) \in Nat
        BY TimeFacts
    <2>4. QED
        BY <2>1, <2>2, <2>3, Zenon
<1>2. /\ y \in Bits /\ Len(y) = 8 /\ mo \in Bits /\ Len(mo) = 8 /\ d \in Bits /\ Len(d) = 8
      /\ ho \in Bits /\ Len(ho) = 8 /\ mi \in Bits /\ Len(mi) = 8 /\ s \in Bits /\ Len(s) = 8
    BY <1>1, BCDIs, Zenon
<1>3. /\ u \in Bits /\ Len(u) = 4 /\ v \in Bits /\ Len(v) = 1 /\ w \in Bits /\ Len(w) = 3
    BY <1>1, WriteField, Zenon
<1>4. L3TimeZoneAndTime_writeV(t) = f
    BY DEF L3TimeZoneAndTime_writeV, ZoneSize, ZoneSign
<1> HIDE DEF y, mo, d, ho, mi, s, u, v, w
<1>5. /\ g \in Bits /\ Len(g) = 32
      /\ At(g, 0, y) /\ At(g, 8, mo) /\ At(g, 16, d) /\ At(g, 24, ho)
    <2>1. y \in Bits /\ mo \in Bits /\ d \in Bits /\ ho \in Bits
        BY <1>2, Zenon
    <2>2. /\ g \in Bits /\ Len(g) = ((Len(y) + Len(mo)) + Len(d)) + Len(ho)
          /\ At(g, 0, y) /\ At(g, Len(y), mo) /\ At(g, Len(y) + Len(mo), d)
          /\ At(g, (Len(y) + Len(mo)) + Len(d), ho)
        BY <2>1, FourParts
    <2>3. 8 + 8 = 16 /\ 16 + 8 = 24 /\ 24 + 8 = 32
        OBVIOUS
    <2>4. QED
        BY <1>2, <2>2, <2>3, Zenon
<1> HIDE DEF g
<1>6. /\ h \in Bits /\ Len(h) = 52
      /\ At(h, 0, g) /\ At(h, 32, mi) /\ At(h, 40, s) /\ At(h, 48, u)
    <2>1. g \in Bits /\ mi \in Bits /\ s \in Bits /\ u \in Bits
        BY <1>2, <1>3, <1>5, Zenon
    <2>2. /\ h \in Bits /\ Len(h) = ((Len(g) + Len(mi)) + Len(s)) + Len(u)
          /\ At(h, 0, g) /\ At(h, Len(g), mi) /\ At(h, Len(g) + Len(mi), s)
          /\ At(h, (Len(g) + Len(mi)) + Len(s), u)
        BY <2>1, FourParts
    <2>3. 32 + 8 = 40 /\ 40 + 8 = 48 /\ 48 + 4 = 52
        OBVIOUS
    <2>4. QED
        BY <1>2, <1>3, <1>5, <2>2, <2>3, ZenonT(60)
<1> HIDE DEF h
<1>7. f \in Bits /\ Len(f) = 56 /\ At(f, 0, h) /\ At(f, 52, v) /\ At(f, 53, w)
    <2>1. h \in Bits /\ v \in Bits /\ w \in Bits
        BY <1>3, <1>6, Zenon
    <2>2. /\ f \in Bits /\ Len(f) = (Len(h) + Len(v)) + Len(w)
          /\ At(f, 0, h) /\ At(f, Len(h), v) /\ At(f, Len(h) + Len(v), w)
        BY <2>1, ThreeParts
    <2>3. 52 + 1 = 53 /\ 53 + 3 = 56
        OBVIOUS
    <2>4. QED
        BY <1>3, <1>6, <2>2, <2>3, ZenonT(60)
<1> HIDE DEF f
<1>8. 0 \in Nat /\ 8 \in Nat /\ 16 \in Nat /\ 24 \in Nat /\ 32 \in Nat /\ 40 \in Nat /\ 48 \in Nat
    OBVIOUS
<1>9. At(f, 0, g) /\ At(f, 32, mi) /\ At(f, 40, s) /\ At(f, 48, u)
    <2>1. /\ f \in Bits /\ h \in Bits /\ g \in Bits /\ mi \in Bits /\ s \in Bits /\ u \in Bits
          /\ At(f, 0, h)
        BY <1>2, <1>3, <1>5, <1>6, <1>7, Zenon
    <2>2. At(h, 0, g) /\ At(h, 32, mi) /\ At(h, 40, s) /\ At(h, 48, u)
        BY <1>6, Zenon
    <2>3. QED
        BY <1>8, <2>1, <2>2, InFront
<1>10. At(f, 0, y) /\ At(f, 8, mo) /\ At(f, 16, d) /\ At(f, 24, ho)
    <2>1. /\ f \in Bits /\ g \in Bits /\ y \in Bits /\ mo \in Bits /\ d \in Bits /\ ho \in Bits
          /\ At(f, 0, g)
        BY <1>2, <1>5, <1>7, <1>9, Zenon
    <2>2. At(g, 0, y) /\ At(g, 8, mo) /\ At(g, 16, d) /\ At(g, 24, ho)
        BY <1>5, Zenon
    <2>3. QED
        BY <1>8, <2>1, <2>2, InFront
<1>11. QED
    BY <1>4, <1>7, <1>9, <1>10, Zenon DEF y, mo, d, ho, mi, s, u, v, w

\* The first octet: header indicator, no more messages, DELIVER.
DeliverHead(d) == <<0, IF d.ud.udhi THEN 1 ELSE 0, 0, 0, 0, 1, 0, 0>>

\* What create_sms_delivery() delivers: the numbers fit, and there are e octets
\* of user data.
Deliverable(d, e) ==
    /\ d.reference \in Nat /\ Fits(d.from) /\ Fits(d.smsc) /\ d.time \in Times /\ d.pid \in Nat
    /\ d.ud.dcs \in Nat /\ d.ud.udhi \in BOOLEAN /\ d.ud.length \in Nat
    /\ d.ud.raw \in Bits /\ e \in Nat /\ Len(d.ud.raw) = 8 * e

\* The address lies behind the first octet; TP-PID, coding scheme, time, length
\* and data lie behind the address.
LEMMA DeliverIs ==
    ASSUME NEW d, NEW e \in Nat, Deliverable(d, e), NEW j \in Nat, j = Octets(d.from)
    PROVE  LET f == TLDeliver_write(d)
           IN  /\ f \in Bits /\ Len(f) = (104 + 8 * j) + 8 * e
               /\ At(f, 0, DeliverHead(d)) /\ At(f, 8, TLAddress_write(d.from))
               /\ At(f, 24 + 8 * j, writeField(d.pid, 8))
               /\ At(f, 32 + 8 * j, writeField(d.ud.dcs, 8))
               /\ At(f, 40 + 8 * j, L3TimeZoneAndTime_writeV(d.time))
               /\ At(f, 96 + 8 * j, writeField(d.ud.length, 8))
               /\ At(f, 104 + 8 * j, LSB8MSB(d.ud.raw))
<1> DEFINE F == DeliverHead(d)
           A == TLAddress_write(d.from)
           I == writeField(d.pid, 8)
           C == writeField(d.ud.dcs, 8)
           T == L3TimeZoneAndTime_writeV(d.time)
           N == writeField(d.ud.length, 8)
           R == LSB8MSB(d.ud.raw)
           U == N \o R
           g == F \o A \o I \o C
           f == g \o T \o U
<1>1. /\ d.from \in Number /\ d.time \in Times /\ d.pid \in Nat /\ d.ud.dcs \in Nat
      /\ d.ud.length \in Nat /\ d.ud.raw \in Bits /\ Len(d.ud.raw) = 8 * e
    BY Zenon DEF Deliverable, Fits
<1>2. F \in Bits /\ Len(F) = 8
    <2>1. (IF d.ud.udhi THEN 1 ELSE 0) \in {0, 1}
        OBVIOUS
    <2>2. PICK u \in {0, 1} : u = IF d.ud.udhi THEN 1 ELSE 0
        BY <2>1
    <2>3. <<0, u, 0, 0, 0, 1, 0, 0>> \in Seq({0, 1}) /\ Len(<<0, u, 0, 0, 0, 1, 0, 0>>) = 8
        OBVIOUS
    <2>4. QED
        BY <2>2, <2>3, Zenon DEF Bits, DeliverHead
<1>3. A \in Bits /\ Len(A) = 16 + 8 * j
    BY <1>1, CodecAddressIs, Zenon
<1>4. /\ I \in Bits /\ Len(I) = 8 /\ C \in Bits /\ Len(C) = 8 /\ N \in Bits /\ Len(N) = 8
    <2>1. 8 \in 1..8
        OBVIOUS
    <2>2. QED
        BY <1>1, <2>1, WriteField, Zenon
<1>5. T \in Bits /\ Len(T) = 56
    BY <1>1, TimeIs
<1>6. R \in Bits /\ Len(R) = 8 * e
    BY <1>1, TurnedRound
<1>7. TLDeliver_write(d) = f
    BY DEF TLDeliver_write, TLUserData_write, DeliverHead
<1> HIDE DEF F, A, I, C, T, N, R
<1>8. U \in Bits /\ Len(U) = 8 + 8 * e /\ At(U, 0, N) /\ At(U, 8, R)
    <2>1. U \in Bits /\ Len(U) = Len(N) + Len(R) /\ At(U, 0, N) /\ At(U, Len(N), R)
        BY <1>4, <1>6, Behind
    <2>2. QED
        BY <1>4, <1>6, <2>1, Zenon
<1> HIDE DEF U
<1>9. /\ g \in Bits /\ Len(g) = 40 + 8 * j
      /\ At(g, 0, F) /\ At(g, 8, A) /\ At(g, 24 + 8 * j, I) /\ At(g, 32 + 8 * j, C)
    <2>1. F \in Bits /\ A \in Bits /\ I \in Bits /\ C \in Bits
        BY <1>2, <1>3, <1>4, Zenon
    <2>2. /\ g \in Bits /\ Len(g) = ((Len(F) + Len(A)) + Len(I)) + Len(C)
          /\ At(g, 0, F) /\ At(g, Len(F), A) /\ At(g, Len(F) + Len(A), I)
          /\ At(g, (Len(F) + Len(A)) + Len(I), C)
        BY <2>1, FourParts
    <2>3. 8 + (16 + 8 * j) = 24 + 8 * j /\ (24 + 8 * j) + 8 = 32 + 8 * j
          /\ (32 + 8 * j) + 8 = 40 + 8 * j
        OBVIOUS
    <2>4. QED
        BY <1>2, <1>3, <1>4, <2>2, <2>3, Zenon
<1> HIDE DEF g
<1>10. /\ f \in Bits /\ Len(f) = (104 + 8 * j) + 8 * e
       /\ At(f, 0, g) /\ At(f, 40 + 8 * j, T) /\ At(f, 96 + 8 * j, U)
    <2>1. g \in Bits /\ T \in Bits /\ U \in Bits
        BY <1>5, <1>8, <1>9, Zenon
    <2>2. /\ f \in Bits /\ Len(f) = (Len(g) + Len(T)) + Len(U)
          /\ At(f, 0, g) /\ At(f, Len(g), T) /\ At(f, Len(g) + Len(T), U)
        BY <2>1, ThreeParts
    <2>3. (40 + 8 * j) + 56 = 96 + 8 * j /\ (96 + 8 * j) + (8 + 8 * e) = (104 + 8 * j) + 8 * e
        OBVIOUS
    <2>4. QED
        BY <1>5, <1>8, <1>9, <2>2, <2>3, ZenonT(60)
<1> HIDE DEF f
<1>11. /\ 0 \in Nat /\ 8 \in Nat /\ 24 + 8 * j \in Nat /\ 32 + 8 * j \in Nat /\ 96 + 8 * j \in Nat
       /\ (96 + 8 * j) + 0 = 96 + 8 * j /\ (96 + 8 * j) + 8 = 104 + 8 * j
    OBVIOUS
<1>12. At(f, 0, F) /\ At(f, 8, A) /\ At(f, 24 + 8 * j, I) /\ At(f, 32 + 8 * j, C)
    <2>1. /\ f \in Bits /\ g \in Bits /\ F \in Bits /\ A \in Bits /\ I \in Bits /\ C \in Bits
          /\ At(f, 0, g)
        BY <1>2, <1>3, <1>4, <1>9, <1>10, Zenon
    <2>2. At(g, 0, F) /\ At(g, 8, A) /\ At(g, 24 + 8 * j, I) /\ At(g, 32 + 8 * j, C)
        BY <1>9, Zenon
    <2>3. QED
        BY <1>11, <2>1, <2>2, InFront
<1>13. At(f, (96 + 8 * j) + 0, N) /\ At(f, (96 + 8 * j) + 8, R)
    <2>1. /\ f \in Bits /\ U \in Bits /\ N \in Bits /\ R \in Bits /\ 96 + 8 * j \in Nat
          /\ At(f, 96 + 8 * j, U) /\ At(U, 0, N) /\ At(U, 8, R)
        BY <1>4, <1>6, <1>8, <1>10, <1>11, Zenon
    <2>2. QED
        BY <1>11, <2>1, AtAt
<1>14. QED
    BY <1>7, <1>10, <1>11, <1>12, <1>13, Zenon DEF F, A, I, C, T, N, R

\* The RP-DATA around it: type, reference, the service centre's address in k
\* octets, no destination, and the w octets of the TPDU.
RelayFrame(f, d, k, w) ==
    /\ f \in Bits /\ Len(f) = (48 + 8 * k) + 8 * w
    /\ At(f, 0, writeField(0, 5)) /\ At(f, 5, writeField(1, 3))
    /\ At(f, 16, RPAddress_writeLV(d.smsc)) /\ At(f, 32 + 8 * k, writeField(0, 8))
    /\ At(f, 40 + 8 * k, writeField(w, 8)) /\ At(f, 48 + 8 * k, TLDeliver_write(d))

\* RPData::write() puts the parts of the frame one behind the other.
LEMMA RPDataIs ==
    ASSUME NEW d, NEW e \in Nat, Deliverable(d, e), NEW j \in Nat, j = Octets(d.from),
           NEW k \in Nat, k = Octets(d.smsc)
    PROVE  RelayFrame(RPData_write(d), d, k, (13 + j) + e)
<1> DEFINE A == writeField(0, 5)
           B == writeField(1, 3)
           R == writeField(d.reference, 8)
           S == RPAddress_writeLV(d.smsc)
           Z == writeField(0, 8)
           w == (13 + j) + e
           N == writeField(w, 8)
           U == TLDeliver_write(d)
           g == A \o B \o R \o S
           h == g \o Z \o N
           f == h \o U
<1>1. /\ w \in Nat /\ (104 + 8 * j) + 8 * e = 8 * w /\ (8 * w + 7) \div 8 = w
      /\ 0 \in Nat /\ 1 \in Nat /\ 3 \in 1..8 /\ 5 \in 1..8 /\ 8 \in 1..8
    OBVIOUS
<1>2. U \in Bits /\ Len(U) = 8 * w
    <2>1. U \in Bits /\ Len(U) = (104 + 8 * j) + 8 * e
        BY DeliverIs, SMTT(60)
    <2>2. QED
        BY <1>1, <2>1, Zenon
<1>3. RPData_write(d) = f
    <2>1. (Len(U) + 7) \div 8 = w
        BY <1>1, <1>2, Zenon
    <2>2. RPAddress_writeLV(NoNumber) = Z
        BY NoAddressIs, Zenon
    <2>3. QED
        BY <2>1, <2>2, Zenon DEF RPData_write
<1>4. Fits(d.smsc) /\ d.reference \in Nat
    BY Zenon DEF Deliverable
<1> HIDE DEF w
<1>5. /\ A \in Bits /\ Len(A) = 5 /\ B \in Bits /\ Len(B) = 3 /\ R \in Bits /\ Len(R) = 8
      /\ Z \in Bits /\ Len(Z) = 8 /\ N \in Bits /\ Len(N) = 8
    BY <1>1, <1>4, WriteField, Zenon
<1>6. S \in Bits /\ Len(S) = 16 + 8 * k
    BY <1>4, AddressLVIs, Zenon
<1> HIDE DEF A, B, R, S, Z, N, U
<1>7. /\ g \in Bits /\ Len(g) = 32 + 8 * k
      /\ At(g, 0, A) /\ At(g, 5, B) /\ At(g, 16, S)
    <2>1. A \in Bits /\ B \in Bits /\ R \in Bits /\ S \in Bits
        BY <1>5, <1>6, Zenon
    <2>2. /\ g \in Bits /\ Len(g) = ((Len(A) + Len(B)) + Len(R)) + Len(S)
          /\ At(g, 0, A) /\ At(g, Len(A), B) /\ At(g, (Len(A) + Len(B)) + Len(R), S)
        BY <2>1, FourParts
    <2>3. 5 + 3 = 8 /\ 8 + 8 = 16 /\ 16 + (16 + 8 * k) = 32 + 8 * k
        OBVIOUS
    <2>4. QED
        BY <1>5, <1>6, <2>2, <2>3, Zenon
<1> HIDE DEF g
<1>8. /\ h \in Bits /\ Len(h) = 48 + 8 * k
      /\ At(h, 0, g) /\ At(h, 32 + 8 * k, Z) /\ At(h, 40 + 8 * k, N)
    <2>1. g \in Bits /\ Z \in Bits /\ N \in Bits
        BY <1>5, <1>7, Zenon
    <2>2. /\ h \in Bits /\ Len(h) = (Len(g) + Len(Z)) + Len(N)
          /\ At(h, 0, g) /\ At(h, Len(g), Z) /\ At(h, Len(g) + Len(Z), N)
        BY <2>1, ThreeParts
    <2>3. (32 + 8 * k) + 8 = 40 + 8 * k /\ (40 + 8 * k) + 8 = 48 + 8 * k
        OBVIOUS
    <2>4. QED
        BY <1>5, <1>7, <2>2, <2>3, Zenon
<1> HIDE DEF h
<1>9. f \in Bits /\ Len(f) = (48 + 8 * k) + 8 * w /\ At(f, 0, h) /\ At(f, 48 + 8 * k, U)
    <2>1. f \in Bits /\ Len(f) = Len(h) + Len(U) /\ At(f, 0, h) /\ At(f, Len(h), U)
        BY <1>2, <1>8, Behind
    <2>2. QED
        BY <1>2, <1>8, <2>1, Zenon
<1> HIDE DEF f
<1>10. 0 \in Nat /\ 5 \in Nat /\ 16 \in Nat /\ 32 + 8 * k \in Nat /\ 40 + 8 * k \in Nat
    OBVIOUS
<1>11. At(f, 0, g) /\ At(f, 32 + 8 * k, Z) /\ At(f, 40 + 8 * k, N)
    <2>1. f \in Bits /\ h \in Bits /\ g \in Bits /\ Z \in Bits /\ N \in Bits /\ At(f, 0, h)
        BY <1>5, <1>7, <1>8, <1>9, Zenon
    <2>2. At(h, 0, g) /\ At(h, 32 + 8 * k, Z) /\ At(h, 40 + 8 * k, N)
        BY <1>8, Zenon
    <2>3. QED
        BY <1>10, <2>1, <2>2, InFront
<1>12. At(f, 0, A) /\ At(f, 5, B) /\ At(f, 16, S)
    <2>1. f \in Bits /\ g \in Bits /\ A \in Bits /\ B \in Bits /\ S \in Bits /\ At(f, 0, g)
        BY <1>5, <1>6, <1>7, <1>9, <1>11, Zenon
    <2>2. At(g, 0, A) /\ At(g, 5, B) /\ At(g, 16, S)
        BY <1>7, Zenon
    <2>3. QED
        BY <1>10, <2>1, <2>2, InFront
<1>13. QED
    BY <1>3, <1>9, <1>11, <1>12, Zenon DEF A, B, S, Z, N, U, w, RelayFrame

\* The address of the service centre lies behind the reference.
LEMMA CentreAt ==
    ASSUME NEW f \in Bits, NEW n, Fits(n), At(f, 16, RPAddress_writeLV(n))
    PROVE  /\ At(f, 16, writeField(1 + Octets(n), 8))
           /\ TypeAt(f, 24, n) /\ DigitsAt(f, 32, n)
<1> DEFINE S == RPAddress_writeLV(n)
           L == writeField(1 + Octets(n), 8)
           V == RPAddress_writeV(n)
<1>1. n \in Number /\ Octets(n) \in 1..10
    BY FitsSize
<1>2. 1 + Octets(n) \in Nat /\ 8 \in 1..8 /\ 16 \in Nat /\ 24 \in Nat
      /\ 16 + 0 = 16 /\ 16 + 8 = 24 /\ 24 + 8 = 32 /\ 0 \in Nat /\ 8 \in Nat
    BY <1>1
<1>3. S \in Bits /\ At(S, 0, L) /\ At(S, 8, V)
    BY AddressLVIs
<1>4. L \in Bits /\ V \in Bits /\ At(f, 16, S)
    BY <1>1, <1>2, WriteField, CodecNumberIs, Zenon
<1> HIDE DEF S, L, V
<1>5. At(f, 16 + 0, L) /\ At(f, 16 + 8, V)
    BY <1>2, <1>3, <1>4, AtAt
<1>6. At(f, 16, L) /\ At(f, 24, V)
    BY <1>2, <1>5, Zenon
<1>7. TypeAt(f, 24, n) /\ DigitsAt(f, 24 + 8, n)
    BY <1>1, <1>2, <1>6, CodecNumberAt DEF V
<1>8. QED
    BY <1>2, <1>6, <1>7, Zenon DEF L

\* What is written is what bitsNeeded() says, and is read back.
LEMMA FrameIs ==
    ASSUME NEW d, NEW e \in Nat, Deliverable(d, e)
    PROVE  /\ RPData_write(d) \in Bits /\ Len(RPData_write(d)) % 8 = 0
           /\ Len(RPData_write(d)) = RPData_bitsNeeded(d)
           /\ e <= 232 => Relayed(RPData_write(d), d.smsc, NoNumber, TLDeliver_write(d))
<1> DEFINE f == RPData_write(d)
           U == TLDeliver_write(d)
<1>1. Fits(d.from) /\ Fits(d.smsc) /\ Len(d.ud.raw) = 8 * e
    BY Zenon DEF Deliverable
<1>2. PICK j \in Nat, k \in Nat :
        j = Octets(d.from) /\ k = Octets(d.smsc) /\ j \in 1..10 /\ k \in 1..10
    <2>1. Octets(d.from) \in 1..10 /\ Octets(d.smsc) \in 1..10
        BY <1>1, FitsSize
    <2>2. \A x \in 1..10 : x \in Nat
        OBVIOUS
    <2>3. QED
        BY <2>1, <2>2
<1>3. (13 + j) + e \in Nat
      /\ (104 + 8 * j) + 8 * e = 8 * ((13 + j) + e)
      /\ ((48 + 8 * k) + 8 * ((13 + j) + e)) % 8 = 0
    OBVIOUS
<1>4. U \in Bits /\ Len(U) = 8 * ((13 + j) + e)
    <2>1. U \in Bits /\ Len(U) = (104 + 8 * j) + 8 * e
        BY <1>2, DeliverIs, SMTT(60)
    <2>2. QED
        BY <1>3, <2>1, Zenon
<1>5. /\ f \in Bits /\ Len(f) = (48 + 8 * k) + 8 * ((13 + j) + e)
      /\ At(f, 16, RPAddress_writeLV(d.smsc)) /\ At(f, 32 + 8 * k, writeField(0, 8))
      /\ At(f, 40 + 8 * k, writeField((13 + j) + e, 8)) /\ At(f, 48 + 8 * k, U)
    <2>1. j = Octets(d.from) /\ k = Octets(d.smsc)
        BY <1>2, Zenon
    <2>2. RelayFrame(f, d, k, (13 + j) + e)
        BY <2>1, RPDataIs
    <2>3. QED
        BY <2>2, Zenon DEF RelayFrame
<1>6. RPData_bitsNeeded(d) = (48 + 8 * k) + 8 * ((13 + j) + e)
    <2>1. RPAddress_lengthV(d.smsc) = 1 + k
        BY <1>1, <1>2, AddressLVIs, Zenon
    <2>2. L3BCDDigits_lengthV(d.from) = j
        BY <1>1, <1>2, DigitFacts, Zenon DEF Fits
    <2>3. (8 * e + 7) \div 8 = e
        OBVIOUS
    <2>4. RPData_bitsNeeded(d)
            = 8 * (2 + (1 + (1 + k)) + 1 + (1 + (1 + (2 + j) + 1 + 1 + 7 + (1 + e))))
        BY <1>1, <2>1, <2>2, <2>3, Zenon
           DEF RPData_bitsNeeded, TLDeliver_length, TLAddress_length, TLUserData_length
    <2>5. 8 * (2 + (1 + (1 + k)) + 1 + (1 + (1 + (2 + j) + 1 + 1 + 7 + (1 + e))))
            = (48 + 8 * k) + 8 * ((13 + j) + e)
        OBVIOUS
    <2>6. QED
        BY <2>4, <2>5, Zenon
<1> HIDE DEF f, U
<1>7. ASSUME e <= 232 PROVE Relayed(f, d.smsc, NoNumber, U)
    <2>1. PICK w \in 0..255, p \in Nat, q \in Nat :
            w = (13 + j) + e /\ p = 32 + 8 * k /\ q = 40 + 8 * k
        <3>1. (13 + j) + e \in 0..255 /\ 32 + 8 * k \in Nat /\ 40 + 8 * k \in Nat
            BY <1>2, <1>7
        <3>2. QED
            BY <3>1
    <2>2. 16 \in Nat /\ 16 + 8 = 24 /\ 16 + 16 = 32 /\ q + 8 = 48 + 8 * k /\ p + 8 = q
        BY <2>1
    <2>3. AddressAt(f, 16, d.smsc, p)
        <3>1. /\ At(f, 16, writeField(1 + Octets(d.smsc), 8))
              /\ TypeAt(f, 16 + 8, d.smsc) /\ DigitsAt(f, 16 + 16, d.smsc)
            BY <1>1, <1>5, <2>2, CentreAt, Zenon
        <3>2. RPAddress_parseLV(f, 16)
                = [ok |-> TRUE, number |-> d.smsc, rp |-> (16 + 16) + 8 * Octets(d.smsc)]
            BY <1>1, <1>5, <2>2, <3>1, AddressLVParsed, Zenon
        <3>3. QED
            BY <1>2, <2>1, <2>2, <3>2, Zenon DEF AddressAt
    <2>4. AddressAt(f, p, NoNumber, q)
        BY <1>5, <2>1, <2>2, NoAddressParsed, Zenon DEF AddressAt
    <2>5. /\ At(f, q, writeField(w, 8)) /\ At(f, q + 8, U) /\ f \in Bits
          /\ U \in Bits /\ Len(U) = 8 * w
        BY <1>4, <1>5, <2>1, <2>2, Zenon
    <2>6. QED
        BY <2>3, <2>4, <2>5, RelayParsed, Zenon
<1>8. QED
    BY <1>3, <1>5, <1>6, <1>7, Zenon DEF f, U

\* The characters of C that a text begins with end before its end or there.
LEMMA LeadingFits ==
    ASSUME NEW s \in Seq(1..255), NEW C, 0 \notin C
    PROVE  Leading(s, C) \in 0..Len(s) /\ \A i \in 1..Leading(s, C) : s[i] \in C
<1> DEFINE q == s \o <<0>>
           I == {i \in 1..Len(q) : q[i] \notin C}
<1>1. /\ Len(s) \in Nat /\ Len(q) = Len(s) + 1 /\ q[Len(s) + 1] = 0
      /\ \A i \in 1..Len(s) : q[i] = s[i]
    OBVIOUS
<1>2. I \in SUBSET Nat
    OBVIOUS
<1>3. Len(s) + 1 \in I
    BY <1>1
<1>4. Leading(s, C) = Min(I) - 1
    BY <1>3, Zenon DEF Leading, SelectInSeq
<1> HIDE DEF q
<1>5. Min(I) \in I /\ \A i \in I : Min(I) <= i
    BY <1>2, <1>3, MinIsLeast
<1>6. PICK m \in Nat : m = Min(I) /\ m <= Len(s) + 1 /\ m \in I
    <2> HIDE DEF I
    <2>1. Min(I) \in Nat /\ Min(I) <= Len(s) + 1 /\ Min(I) \in I
        BY <1>2, <1>3, <1>5, Zenon
    <2>2. QED
        BY <2>1, Zenon
<1>7. Leading(s, C) = m - 1
    BY <1>4, <1>6, Zenon
<1> HIDE DEF I
<1>8. m \in 1..Len(q)
    BY <1>6 DEF I
<1>9. m - 1 \in 0..Len(s)
    BY <1>1, <1>6, <1>8
<1>10. ASSUME NEW i \in 1..(m - 1) PROVE s[i] \in C
    <2>1. i \in 1..Len(s) /\ i \in 1..Len(q) /\ ~(m <= i)
        BY <1>1, <1>8
    <2>2. q[i] \in C
        BY <1>5, <1>6, <2>1 DEF I
    <2>3. QED
        BY <1>1, <2>1, <2>2
<1>11. QED
    BY <1>7, <1>9, <1>10, Zenon

\* A text without its first characters is one.
LEMMA SkippingTypes ==
    ASSUME NEW s \in Seq(1..255), NEW n \in Nat
    PROVE  Skipping(s, n) \in Seq(1..255)
<1>1. n + 1 \in Int /\ Len(s) \in Int
    OBVIOUS
<1>2. \A i \in (n + 1)..Len(s) : i \in 1..Len(s)
    BY <1>1
<1>3. \A i \in (n + 1)..Len(s) : s[i] \in 1..255
    BY <1>2, ElementOfSeq, Zenon
<1>4. SubSeq(s, n + 1, Len(s)) \in Seq(1..255)
    BY <1>1, <1>3, SubSeqProperties
<1>5. QED
    BY <1>4, Zenon DEF Skipping

\* What "%d" scans is an integer.
LEMMA ScannedTypes ==
    ASSUME NEW s \in Seq(1..255)
    PROVE  Scanned(s).value \in Int
<1> DEFINE signed == Skipping(s, Leading(s, Blanks))
           sign == IF Len(signed) > 0 /\ signed[1] \in Signs THEN 1 ELSE 0
           number == Skipping(signed, sign)
           n == Leading(number, Digits)
           d == [i \in 1..n |-> number[i] - 48]
           v == Value(d, 10)
           w == IF n > 0 /\ signed[1] = 45 THEN -v ELSE v
<1>1. 0 \notin Blanks /\ 0 \notin Digits
    BY DEF Blanks, Digits
<1>2. Leading(s, Blanks) \in Nat
    BY <1>1, LeadingFits
<1>3. signed \in Seq(1..255)
    BY <1>2, SkippingTypes, Zenon
<1>4. sign \in Nat
    OBVIOUS
<1> HIDE DEF signed, sign
<1>5. number \in Seq(1..255)
    BY <1>3, <1>4, SkippingTypes, Zenon
<1> HIDE DEF number
<1>6. n \in 0..Len(number) /\ \A i \in 1..n : number[i] \in Digits
    BY <1>1, <1>5, LeadingFits, Zenon
<1> HIDE DEF n
<1>7. n \in Nat
    BY <1>5, <1>6
<1>8. \A i \in 1..n : number[i] - 48 \in Nat
    <2>1. \A c \in Digits : c - 48 \in Nat
        BY DEF Digits
    <2>2. QED
        BY <1>6, <2>1, Zenon
<1>9. d \in Seq(Nat)
    BY <1>7, <1>8
<1> HIDE DEF d
<1>10. v \in Nat
    <2>1. 10 \in {2, 10}
        OBVIOUS
    <2>2. PICK f : ValuesOf(d, 10, f)
        BY <1>9, <2>1, ValueLoop
    <2>3. Len(d) \in Nat
        BY <1>9
    <2>4. f \in [0..Len(d) -> Nat] /\ Value(d, 10) = f[Len(d)]
        BY <2>2, Zenon DEF ValuesOf
    <2>5. QED
        BY <2>3, <2>4
<1> HIDE DEF v
<1>11. w \in Int
    BY <1>10
<1>12. Scanned(s).value = w
    BY Zenon DEF Scanned, signed, sign, number, n, d, v
<1>13. QED
    BY <1>11, <1>12, Zenon

\* The number behind "#!TLPID" is written in an octet.
LEMMA TLPIDTypes ==
    ASSUME NEW body \in Seq(1..255), NEW pi
    PROVE  TLPID(body, pi) \in Nat
<1> DEFINE number == Scanned(Skipping(body, Len(EasterEgg)))
<1>1. CASE ~(IsPrefix(EasterEgg, body) /\ number.some)
    <2>1. TLPID(body, pi) = IF pi = 64 THEN 64 ELSE 0
        BY <1>1, Zenon DEF TLPID
    <2>2. (IF pi = 64 THEN 64 ELSE 0) \in Nat
        OBVIOUS
    <2>3. QED
        BY <2>1, <2>2
<1>2. CASE IsPrefix(EasterEgg, body) /\ number.some
    <2>1. Len(EasterEgg) \in Nat
        BY DEF EasterEgg
    <2>2. number.value \in Int
        BY <2>1, SkippingTypes, ScannedTypes, Zenon
    <2> HIDE DEF number
    <2>3. number.value % 256 \in Nat
        BY <2>2
    <2>4. TLPID(body, pi) = number.value % 256
        BY <1>2, Zenon DEF TLPID, number
    <2>5. QED
        BY <2>3, <2>4
<1>3. QED
    BY <1>1, <1>2
-----------------------------------------------------------------------------
(* What is delivered.                                                      *)

\* Bit j of septet i has one place.
LEMMA SeptetPlaces ==
    ASSUME NEW n \in Nat, NEW m \in Nat, 7 * n <= m, NEW i \in 1..n, NEW j \in 0..6
    PROVE  LET p == (7 * (i - 1) + j) + 1
           IN  p \in 1..m /\ ~(p > 7 * n) /\ ((p - 1) \div 7) + 1 = i /\ (p - 1) % 7 = j
OBVIOUS

\* The text in septets: bit j of character i is bit 7 * (i - 1) + j.
LEMMA EncodedText ==
    ASSUME NEW t \in Seq(1..255), NEW e \in Nat, e = (Len(t) * 7 + 7) \div 8
    PROVE  LET raw == TLUserData_encode7bit(t).raw
           IN  /\ raw \in Bits /\ Len(raw) = 8 * e
               /\ \A i \in 1..Len(t), j \in 0..6 :
                    raw[(7 * (i - 1) + j) + 1] = Bit(encodeGSMChar(t[i]), j)
<1> DEFINE raw == TLUserData_encode7bit(t).raw
           n == Len(t)
           char(p) == t[((p - 1) \div 7) + 1]
<1>1. n \in Nat /\ 8 * e \in Nat /\ 7 * n <= 8 * e
    OBVIOUS
<1>2. raw = [p \in 1..(8 * e) |->
                IF p > 7 * n THEN 0 ELSE Bit(encodeGSMChar(char(p)), (p - 1) % 7)]
    BY DEF TLUserData_encode7bit, SevenBits
<1>3. ASSUME NEW p \in 1..(8 * e)
      PROVE  (IF p > 7 * n THEN 0 ELSE Bit(encodeGSMChar(char(p)), (p - 1) % 7)) \in {0, 1}
    <2>1. encodeGSMChar(char(p)) \in 0..127
        BY Codes, Zenon
    <2>2. PICK c \in 0..127, k \in 0..7 : c = encodeGSMChar(char(p)) /\ k = (p - 1) % 7
        <3>1. (p - 1) % 7 \in 0..7
            OBVIOUS
        <3>2. QED
            BY <2>1, <3>1
    <2>3. c \in Nat
        OBVIOUS
    <2>4. Bit(c, k) \in {0, 1}
        BY <2>3, BitTypes, Zenon
    <2>5. Bit(encodeGSMChar(char(p)), (p - 1) % 7) \in {0, 1}
        BY <2>2, <2>4, Zenon
    <2>6. QED
        BY <2>5
<1>4. raw \in [1..(8 * e) -> {0, 1}]
    BY <1>2, <1>3
<1>5. raw \in Bits /\ Len(raw) = 8 * e
    BY <1>1, <1>4, AreBits
<1>6. ASSUME NEW i \in 1..n, NEW j \in 0..6
      PROVE  raw[(7 * (i - 1) + j) + 1] = Bit(encodeGSMChar(t[i]), j)
    <2> DEFINE p == (7 * (i - 1) + j) + 1
    <2> HIDE DEF n
    <2>1. p \in 1..(8 * e) /\ ~(p > 7 * n) /\ ((p - 1) \div 7) + 1 = i /\ (p - 1) % 7 = j
        BY <1>1, SeptetPlaces, SMTT(60)
    <2> HIDE DEF p, raw
    <2>2. raw[p] = Bit(encodeGSMChar(char(p)), (p - 1) % 7)
        BY <1>2, <2>1
    <2>3. QED
        BY <2>1, <2>2 DEF p
<1>7. QED
    BY <1>5, <1>6

\* The data is that of a SUBMIT, in e octets.
DataIn(ud, s, e) == s \in Sms /\ DataOctets(s) <= 140 /\ ud = DataOf(s) /\ e = DataOctets(s)
\* The data is a text in septets, in e octets.
TextIn(ud, t, e) ==
    t \in Seq(1..255) /\ ud = TLUserData_encode7bit(t) /\ e = (Len(t) * 7 + 7) \div 8

\* User data of a SUBMIT can be delivered.
LEMMA DataDelivered ==
    ASSUME NEW ud, NEW s, NEW e, DataIn(ud, s, e)
    PROVE  /\ ud.dcs \in 0..255 /\ ud.udhi \in BOOLEAN /\ ud.length \in Nat /\ ud.length <= 160
           /\ ud.raw \in Bits /\ e \in Nat /\ e <= 140 /\ Len(ud.raw) = 8 * e /\ ud \in UserData
<1>1. s \in Sms /\ DataOctets(s) <= 140 /\ ud = DataOf(s) /\ e = DataOctets(s)
    BY Zenon DEF DataIn
<1>2. /\ ud.dcs = s.dcs /\ ud.udhi = (s.header > 0) /\ ud.length = DataLength(s)
      /\ ud.raw = LSB8MSB(HandsetData(s))
    BY <1>1 DEF DataOf
<1>3. s.dcs \in 0..255 /\ DataLength(s) \in Nat /\ DataLength(s) <= 160
    <2>1. PICK x \in 0..160 : x = DataLength(s)
        BY <1>1, DataLengths
    <2>2. x \in Nat /\ x <= 160
        OBVIOUS
    <2>3. s.dcs \in 0..255
        BY <1>1, SmsFacts, ZenonT(60)
    <2>4. QED
        BY <2>1, <2>2, <2>3, Zenon
<1>4. e \in Nat /\ e <= 140
    <2>1. PICK x \in 0..140 : x = DataOctets(s)
        BY <1>1, DataLengths
    <2>2. QED
        BY <1>1, <2>1
<1>5. ud.raw \in Bits /\ Len(ud.raw) = 8 * e
    BY <1>1, <1>2, HandsetDataIs, Zenon
<1>6. ud \in UserData
    <2>1. ud = [dcs |-> s.dcs, udhi |-> s.header > 0, length |-> DataLength(s),
                raw |-> LSB8MSB(HandsetData(s))]
        BY <1>1, Zenon DEF DataOf
    <2>2. (s.header > 0) \in BOOLEAN /\ LSB8MSB(HandsetData(s)) \in Seq({0, 1})
        BY <1>2, <1>5 DEF Bits
    <2>3. QED
        BY <1>3, <2>1, <2>2 DEF UserData
<1>7. QED
    BY <1>2, <1>3, <1>4, <1>5, <1>6

\* A text in septets can be delivered.
LEMMA TextDelivered ==
    ASSUME NEW ud, NEW t, NEW e, TextIn(ud, t, e)
    PROVE  /\ ud.dcs = 0 /\ ud.udhi \in BOOLEAN /\ ~ud.udhi
           /\ ud.length = Len(t) /\ Len(t) \in Nat
           /\ ud.raw \in Bits /\ e \in Nat /\ Len(ud.raw) = 8 * e /\ ud \in UserData
<1>1. t \in Seq(1..255) /\ ud = TLUserData_encode7bit(t) /\ e = (Len(t) * 7 + 7) \div 8
    BY Zenon DEF TextIn
<1>2. Len(t) \in Nat /\ e \in Nat
    <2>1. PICK n \in Nat : n = Len(t)
        BY <1>1
    <2>2. (n * 7 + 7) \div 8 \in Nat
        OBVIOUS
    <2>3. QED
        BY <1>1, <2>1, <2>2
<1>3. ud.raw \in Bits /\ Len(ud.raw) = 8 * e
    BY <1>1, <1>2, EncodedText, Zenon
<1>4. ud.dcs = 0 /\ ud.udhi \in BOOLEAN /\ ~ud.udhi /\ ud.length = Len(t)
    BY <1>1 DEF TLUserData_encode7bit
<1>5. ud \in UserData
    <2>1. ud = [dcs |-> 0, udhi |-> FALSE, length |-> Len(t), raw |-> ud.raw]
        BY <1>1 DEF TLUserData_encode7bit
    <2>2. PICK r \in Seq({0, 1}), n \in Nat : r = ud.raw /\ n = Len(t)
        BY <1>2, <1>3 DEF Bits
    <2>3. [dcs |-> 0, udhi |-> FALSE, length |-> n, raw |-> r] \in UserData
        BY DEF UserData
    <2>4. QED
        BY <2>1, <2>2, <2>3, Zenon
<1>6. QED
    BY <1>2, <1>3, <1>4, <1>5
-----------------------------------------------------------------------------
(* What the handset reads.                                                 *)

\* A half octet is a bit and three bits.
LEMMA HalfSplit ==
    ASSUME NEW f \in Bits, NEW p \in Nat, p + 4 <= Len(f)
    PROVE  /\ readField(f, p, 4) = 8 * readField(f, p, 1) + readField(f, p + 1, 3)
           /\ readField(f, p, 1) \in {0, 1} /\ readField(f, p + 1, 3) \in 0..7
<1> DEFINE q == p + 1
<1>1. q \in Nat /\ p + 1 <= Len(f) /\ q + 3 <= Len(f)
    BY BitsAre
<1>2. /\ readField(f, p, 1) = f[p + 1]
      /\ readField(f, q, 3) = 4 * f[q + 1] + 2 * f[q + 2] + f[q + 3]
      /\ readField(f, p, 4) = 8 * f[p + 1] + 4 * f[p + 2] + 2 * f[p + 3] + f[p + 4]
    BY <1>1, ReadBits, ZenonT(60)
<1>3. q + 1 = p + 2 /\ q + 2 = p + 3 /\ q + 3 = p + 4
    OBVIOUS
<1>4. \A i \in 1..4 : f[p + i] \in {0, 1}
    BY BitsAre
<1>5. PICK b1 \in {0, 1}, b2 \in {0, 1}, b3 \in {0, 1}, b4 \in {0, 1} :
        b1 = f[p + 1] /\ b2 = f[p + 2] /\ b3 = f[p + 3] /\ b4 = f[p + 4]
    BY <1>4
<1>6. /\ readField(f, p, 1) = b1 /\ readField(f, q, 3) = 4 * b2 + 2 * b3 + b4
      /\ readField(f, p, 4) = 8 * b1 + 4 * b2 + 2 * b3 + b4
    BY <1>2, <1>3, <1>5, Zenon
<1>7. /\ 4 * b2 + 2 * b3 + b4 \in 0..7
      /\ 8 * b1 + 4 * b2 + 2 * b3 + b4 = 8 * b1 + (4 * b2 + 2 * b3 + b4)
    OBVIOUS
<1>8. QED
    BY <1>6, <1>7, Zenon

\* Octet n of a frame lies behind 8 * (n - 1) bits.
LEMMA OctetRead ==
    ASSUME NEW f \in Bits, NEW n \in Nat, n > 0, NEW p \in Nat, p = 8 * (n - 1),
           NEW v \in Nat, At(f, p, writeField(v, 8))
    PROVE  Octet(f, n) = v % 256
<1>1. readField(f, p, 8) = v % 256
    BY OctetBack
<1>2. QED
    BY <1>1, Zenon DEF Octet

\* Two digits, the second one first.
LEMMA Decimals ==
    ASSUME NEW v \in 0..99
    PROVE  LET o == 16 * (v % 10) + v \div 10
           IN  o % 16 = v \div 10 /\ o \div 16 = v % 10 /\ 10 * (o % 16) + o \div 16 = v
               /\ (v % 10) % 16 = v % 10 /\ (v \div 10) % 16 = v \div 10
<1>1. v % 10 \in 0..15 /\ v \div 10 \in 0..15 /\ 10 * (v \div 10) + (v % 10) = v
    OBVIOUS
<1>2. PICK h \in 0..15, l \in 0..15 : h = v % 10 /\ l = v \div 10
    BY <1>1
<1>3. (16 * h + l) % 16 = l /\ (16 * h + l) \div 16 = h /\ h % 16 = h /\ l % 16 = l
    OBVIOUS
<1>4. QED
    BY <1>1, <1>2, <1>3, Zenon

\* The handset reads two digits as BCD() wrote them.
LEMMA SwappedBack ==
    ASSUME NEW f \in Bits, NEW n \in Nat, n > 0, NEW p \in Nat, p = 8 * (n - 1),
           NEW v \in 0..99, At(f, p, BCD(v))
    PROVE  Swapped(f, n) = v
<1> DEFINE a == writeField(v % 10, 4)
           b == writeField(v \div 10, 4)
<1>1. v \in Nat /\ v % 10 \in Nat /\ v \div 10 \in Nat /\ 4 \in 1..8 /\ 0 \in Nat
      /\ 4 \in Nat /\ p + 0 = p
    OBVIOUS
<1>2. BCD(v) \in Bits /\ Len(BCD(v)) = 8 /\ At(BCD(v), 0, a) /\ At(BCD(v), 4, b)
    BY <1>1, BCDIs, Zenon
<1>3. a \in Bits /\ b \in Bits
    BY <1>1, WriteField, Zenon
<1>4. p + 8 <= Len(f)
    BY <1>2, Ends, Zenon
<1> HIDE DEF a, b
<1>5. At(f, p + 0, a) /\ At(f, p + 4, b)
    BY <1>1, <1>2, <1>3, AtAt, Zenon
<1>6. readField(f, p, 4) = v % 10 /\ readField(f, p + 4, 4) = v \div 10
    <2>1. At(f, p, writeField(v % 10, 4)) /\ At(f, p + 4, writeField(v \div 10, 4))
        BY <1>1, <1>5, Zenon DEF a, b
    <2>2. p + 4 \in Nat
        OBVIOUS
    <2>3. readField(f, p, 4) = (v % 10) % 16 /\ readField(f, p + 4, 4) = (v \div 10) % 16
        BY <1>1, <2>1, <2>2, HalfBack, Zenon
    <2>4. (v % 10) % 16 = v % 10 /\ (v \div 10) % 16 = v \div 10
        OBVIOUS
    <2>5. QED
        BY <2>3, <2>4, Zenon
<1>7. readField(f, p, 8) = 16 * (v % 10) + v \div 10
    BY <1>4, <1>6, Halves, Zenon
<1>8. /\ (1 - 1) \div 2 = 0 /\ (2 - 1) \div 2 = 0 /\ 1 % 2 = 1 /\ 2 % 2 # 1
      /\ n + 0 = n
    OBVIOUS
<1>9. SemiOctet(f, n, 1) = Octet(f, n) % 16 /\ SemiOctet(f, n, 2) = Octet(f, n) \div 16
    BY <1>8, Zenon DEF SemiOctet
<1>10. Octet(f, n) = 16 * (v % 10) + v \div 10
    BY <1>7, Zenon DEF Octet
<1>11. QED
    BY <1>9, <1>10, Decimals, ZenonT(60) DEF Swapped

\* The zone: the lower digit, the sign and the higher digit.
LEMMA ZoneDigits ==
    ASSUME NEW z \in 0..56, NEW s \in {0, 1}
    PROVE  LET o == 16 * (z % 10) + (8 * s + z \div 10)
           IN  /\ 10 * (o % 8) + o \div 16 = z /\ (o \div 8) % 2 = s
               /\ z % 10 \in Nat /\ z \div 10 \in Nat /\ (z % 10) % 16 = z % 10
               /\ (z \div 10) % 8 = z \div 10
OBVIOUS

\* The octet of the zone: a digit, the sign, a digit.
LEMMA ZoneBack ==
    ASSUME NEW f \in Bits, NEW p \in Nat, NEW z \in 0..56, NEW s \in {0, 1},
           At(f, p, writeField(z % 10, 4)), At(f, p + 4, writeField(s, 1)),
           At(f, p + 5, writeField(z \div 10, 3))
    PROVE  readField(f, p, 8) = 16 * (z % 10) + (8 * s + z \div 10)
<1>1. /\ p + 4 \in Nat /\ p + 5 \in Nat /\ (p + 4) + 1 = p + 5
      /\ s \in Nat /\ 1 \in 1..8 /\ 3 \in 1..8 /\ 1 - 1 = 0 /\ 1 \in 1..1
    OBVIOUS
<1>2. z % 10 \in Nat /\ z \div 10 \in Nat
    BY ZoneDigits
<1>3. readField(f, p, 4) = (z % 10) % 16
    BY <1>2, HalfBack, Zenon
<1>4. readField(f, p + 5, 3) = (z \div 10) % 8
    BY <1>1, <1>2, ThreeBack, Zenon
<1>5. readField(f, p + 4, 1) = s
    <2>1. Len(writeField(s, 1)) = 1 /\ writeField(s, 1)[1] = Bit(s, 0)
        BY <1>1, WriteField, ZenonT(60)
    <2>2. (p + 4) + 1 <= Len(f) /\ f[(p + 4) + 1] = Bit(s, 0)
        BY <1>1, <2>1, Zenon DEF At
    <2>3. Bit(s, 0) = s
        BY Powers DEF Bit
    <2>4. QED
        BY <1>1, <2>2, <2>3, ReadBits, Zenon
<1>6. p + 8 <= Len(f) /\ (p + 4) + 4 <= Len(f)
    <2>1. z \div 10 \in Nat /\ Len(writeField(z \div 10, 3)) = 3
        BY <1>1, <1>2, WriteField, Zenon
    <2>2. (p + 5) + 3 <= Len(f)
        BY <2>1, Zenon DEF At
    <2>3. Len(f) \in Nat
        BY BitsAre
    <2>4. QED
        BY <2>2, <2>3
<1>7. readField(f, p + 4, 4) = 8 * s + ((z \div 10) % 8)
    BY <1>1, <1>4, <1>5, <1>6, HalfSplit, Zenon
<1>8. readField(f, p, 8) = 16 * ((z % 10) % 16) + (8 * s + ((z \div 10) % 8))
    BY <1>3, <1>6, <1>7, Halves, Zenon
<1>9. QED
    BY <1>8, ZoneDigits, Zenon

\* The type of a number, in the upper half of its octet.
LEMMA TypeOctet ==
    ASSUME NEW f \in Bits, NEW p \in Nat, NEW n \in Number, TypeAt(f, p, n)
    PROVE  (readField(f, p, 8) \div 16) % 8 = TypeOfNumber(n)
<1>1. p + 8 <= Len(f) /\ p + 4 <= Len(f) /\ Len(f) \in Nat
    <2>1. p + 8 <= Len(f)
        BY Zenon DEF TypeAt
    <2>2. Len(f) \in Nat
        BY BitsAre
    <2>3. QED
        BY <2>1, <2>2
<1>2. PICK l \in 0..15 : readField(f, p, 8) = 16 * readField(f, p, 4) + l
    BY <1>1, Halves, Zenon
<1>3. PICK b \in {0, 1}, t \in 0..7 : readField(f, p, 4) = 8 * b + t /\ t = readField(f, p + 1, 3)
    BY <1>1, HalfSplit, Zenon
<1>4. ((16 * (8 * b + t) + l) \div 16) % 8 = t
    OBVIOUS
<1>5. readField(f, p + 1, 3) = TypeOfNumber(n)
    BY Zenon DEF TypeAt
<1>6. QED
    BY <1>2, <1>3, <1>4, <1>5, Zenon

\* The first octet of an SMS-DELIVER, and of an RP-DATA to a handset.
LEMMA HeadBack ==
    ASSUME NEW f \in Bits, NEW p \in Nat, NEW d, At(f, p, DeliverHead(d))
    PROVE  readField(f, p, 8) = IF d.ud.udhi THEN 68 ELSE 4
<1>1. PICK u \in {0, 1} : u = IF d.ud.udhi THEN 1 ELSE 0
    OBVIOUS
<1>2. DeliverHead(d) = <<0, u, 0, 0, 0, 1, 0, 0>>
    BY <1>1, Zenon DEF DeliverHead
<1> DEFINE w == <<0, u, 0, 0, 0, 1, 0, 0>>
<1>3. /\ Len(w) = 8 /\ w[1] = 0 /\ w[2] = u /\ w[3] = 0 /\ w[4] = 0
      /\ w[5] = 0 /\ w[6] = 1 /\ w[7] = 0 /\ w[8] = 0
      /\ \A i \in {1, 2, 3, 4, 5, 6, 7, 8} : i \in 1..8
    OBVIOUS
<1>4. /\ p + 8 <= Len(f) /\ f[p + 1] = 0 /\ f[p + 2] = u /\ f[p + 3] = 0 /\ f[p + 4] = 0
      /\ f[p + 5] = 0 /\ f[p + 6] = 1 /\ f[p + 7] = 0 /\ f[p + 8] = 0
    <2> HIDE DEF w
    <2>1. At(f, p, w)
        BY <1>2 DEF w
    <2>2. p + 8 <= Len(f) /\ \A i \in 1..8 : f[p + i] = w[i]
        BY <1>3, <2>1, Zenon DEF At
    <2>3. QED
        BY <1>3, <2>2
<1>5. readField(f, p, 8) = 128 * f[p + 1] + 64 * f[p + 2] + 32 * f[p + 3] + 16 * f[p + 4]
                               + 8 * f[p + 5] + 4 * f[p + 6] + 2 * f[p + 7] + f[p + 8]
    BY <1>4, ReadBits, Zenon
<1>6. readField(f, p, 8) = 128 * 0 + 64 * u + 32 * 0 + 16 * 0 + 8 * 0 + 4 * 1 + 2 * 0 + 0
    BY <1>4, <1>5, Zenon
<1>7. readField(f, p, 8) = 64 * u + 4
    BY <1>6
<1>8. QED
    BY <1>1, <1>7

\* The first octet says that this is an RP-DATA to the handset.
LEMMA FirstBack ==
    ASSUME NEW f \in Bits, At(f, 0, writeField(0, 5)), At(f, 5, writeField(1, 3))
    PROVE  readField(f, 0, 8) = 1
<1>1. /\ 0 \in Nat /\ 1 \in Nat /\ 5 \in 1..8 /\ 3 \in 1..8 /\ 5 \in Nat
      /\ \A i \in 1..5 : 0 + i = i
    OBVIOUS
<1>2. /\ Len(writeField(0, 5)) = 5 /\ \A i \in 1..5 : writeField(0, 5)[i] = Bit(0, 5 - i)
      /\ Len(writeField(1, 3)) = 3 /\ \A i \in 1..3 : writeField(1, 3)[i] = Bit(1, 3 - i)
    BY <1>1, WriteField, Zenon
<1>3. /\ \A i \in 1..5 : f[0 + i] = Bit(0, 5 - i)
      /\ 5 + 3 <= Len(f) /\ \A i \in 1..3 : f[5 + i] = Bit(1, 3 - i)
    BY <1>2, Zenon DEF At
<1>4. /\ Bit(0, 4) = 0 /\ Bit(0, 3) = 0 /\ Bit(0, 2) = 0 /\ Bit(0, 1) = 0 /\ Bit(0, 0) = 0
      /\ Bit(1, 2) = 0 /\ Bit(1, 1) = 0 /\ Bit(1, 0) = 1
    BY Powers DEF Bit
<1>5. /\ f[0 + 1] = 0 /\ f[0 + 2] = 0 /\ f[0 + 3] = 0 /\ f[0 + 4] = 0 /\ f[0 + 5] = 0
      /\ f[0 + 6] = 0 /\ f[0 + 7] = 0 /\ f[0 + 8] = 1 /\ 0 + 8 <= Len(f)
    BY <1>3, <1>4
<1>6. readField(f, 0, 8) = 128 * f[0 + 1] + 64 * f[0 + 2] + 32 * f[0 + 3] + 16 * f[0 + 4]
                               + 8 * f[0 + 5] + 4 * f[0 + 6] + 2 * f[0 + 7] + f[0 + 8]
    BY <1>1, <1>5, ReadBits, Zenon
<1>7. readField(f, 0, 8) = 128 * 0 + 64 * 0 + 32 * 0 + 16 * 0 + 8 * 0 + 4 * 0 + 2 * 0 + 1
    BY <1>5, <1>6, Zenon
<1>8. QED
    BY <1>7

\* The parts of an SMS-DELIVER behind q bits of a frame.
DeliverAt(f, q, d, j) ==
    /\ At(f, q, DeliverHead(d)) /\ At(f, q + 8, writeField(L3BCDDigits_size(d.from), 8))
    /\ TypeAt(f, q + 16, d.from) /\ DigitsAt(f, q + 24, d.from)
    /\ At(f, q + (24 + 8 * j), writeField(d.pid, 8))
    /\ At(f, q + (32 + 8 * j), writeField(d.ud.dcs, 8))
    /\ At(f, q + (40 + 8 * j), L3TimeZoneAndTime_writeV(d.time))
    /\ At(f, q + (96 + 8 * j), writeField(d.ud.length, 8))
    /\ At(f, q + (104 + 8 * j), LSB8MSB(d.ud.raw))

\* The parts of the SMS-DELIVER lie in the frame.
LEMMA DeliverParts ==
    ASSUME NEW f \in Bits, NEW q \in Nat, NEW d, NEW e \in Nat, Deliverable(d, e),
           NEW j \in Nat, j = Octets(d.from), At(f, q, TLDeliver_write(d))
    PROVE  DeliverAt(f, q, d, j)
<1> DEFINE U == TLDeliver_write(d)
           H == DeliverHead(d)
           A == TLAddress_write(d.from)
           S == writeField(L3BCDDigits_size(d.from), 8)
           V == RPAddress_writeV(d.from)
           I == writeField(d.pid, 8)
           C == writeField(d.ud.dcs, 8)
           T == L3TimeZoneAndTime_writeV(d.time)
           N == writeField(d.ud.length, 8)
           R == LSB8MSB(d.ud.raw)
<1>1. /\ U \in Bits /\ At(U, 0, H) /\ At(U, 8, A) /\ At(U, 24 + 8 * j, I)
      /\ At(U, 32 + 8 * j, C) /\ At(U, 40 + 8 * j, T) /\ At(U, 96 + 8 * j, N)
      /\ At(U, 104 + 8 * j, R)
    BY DeliverIs, SMTT(60)
<1>2. /\ Fits(d.from) /\ d.time \in Times /\ d.pid \in Nat /\ d.ud.dcs \in Nat
      /\ d.ud.length \in Nat /\ d.ud.raw \in Bits /\ Len(d.ud.raw) = 8 * e
    BY Zenon DEF Deliverable
<1>3. d.from \in Number /\ L3BCDDigits_size(d.from) \in Nat /\ 8 \in 1..8
    BY <1>2, FitsSize
<1>4. /\ H \in Bits
      /\ A \in Bits /\ At(A, 0, S) /\ At(A, 8, V) /\ S \in Bits /\ V \in Bits
      /\ I \in Bits /\ C \in Bits /\ T \in Bits /\ N \in Bits /\ R \in Bits
    <2>1. H \in Bits
        <3>1. PICK u \in {0, 1} : u = IF d.ud.udhi THEN 1 ELSE 0
            OBVIOUS
        <3>2. <<0, u, 0, 0, 0, 1, 0, 0>> \in Bits
            BY DEF Bits
        <3>3. QED
            BY <3>1, <3>2, Zenon DEF DeliverHead
    <2>2. A \in Bits /\ At(A, 0, S) /\ At(A, 8, V)
        BY <1>3, CodecAddressIs, Zenon
    <2>3. S \in Bits /\ I \in Bits /\ C \in Bits /\ N \in Bits
        BY <1>2, <1>3, WriteField, Zenon
    <2>4. V \in Bits
        BY <1>3, CodecNumberIs, Zenon
    <2>5. T \in Bits
        BY <1>2, TimeIs, Zenon
    <2>6. R \in Bits
        BY <1>2, TurnedRound, Zenon
    <2>7. QED
        BY <2>1, <2>2, <2>3, <2>4, <2>5, <2>6, Zenon
<1> HIDE DEF U, H, A, S, V, I, C, T, N, R
<1>5. /\ 0 \in Nat /\ 8 \in Nat /\ 24 + 8 * j \in Nat /\ 32 + 8 * j \in Nat
      /\ 40 + 8 * j \in Nat /\ 96 + 8 * j \in Nat /\ 104 + 8 * j \in Nat
      /\ q + 0 = q /\ q + 8 \in Nat /\ q + 16 \in Nat /\ (q + 8) + 0 = q + 8
      /\ (q + 8) + 8 = q + 16 /\ (q + 16) + 8 = q + 24
    OBVIOUS
<1>6. At(f, q, U)
    BY DEF U
<1>7. At(f, q + 0, H) /\ At(f, q + 8, A)
    BY <1>1, <1>4, <1>5, <1>6, AtAt, Zenon
<1>8. /\ At(f, q + (24 + 8 * j), I) /\ At(f, q + (32 + 8 * j), C)
      /\ At(f, q + (40 + 8 * j), T) /\ At(f, q + (96 + 8 * j), N)
      /\ At(f, q + (104 + 8 * j), R)
    BY <1>1, <1>4, <1>5, <1>6, AtAt, ZenonT(60)
<1>9. At(f, (q + 8) + 0, S) /\ At(f, (q + 8) + 8, V)
    BY <1>4, <1>5, <1>7, AtAt, Zenon
<1>10. TypeAt(f, q + 16, d.from) /\ DigitsAt(f, (q + 16) + 8, d.from)
    <2>1. At(f, q + 16, RPAddress_writeV(d.from))
        BY <1>5, <1>9, Zenon DEF V
    <2>2. QED
        BY <1>3, <1>5, <2>1, CodecNumberAt, Zenon
<1>11. At(f, q, H) /\ At(f, q + 8, S) /\ DigitsAt(f, q + 24, d.from)
    BY <1>5, <1>7, <1>9, <1>10, Zenon
<1>12. QED
    BY <1>8, <1>10, <1>11, Zenon DEF DeliverAt, H, S, I, C, T, N, R

\* The digits of the time and of the zone, octet by octet.
TimeRead(f, n, t) ==
    /\ Swapped(f, n) = t.year % 100 /\ Swapped(f, n + 1) = t.month
    /\ Swapped(f, n + 2) = t.day /\ Swapped(f, n + 3) = t.hour
    /\ Swapped(f, n + 4) = t.min /\ Swapped(f, n + 5) = t.sec
    /\ Octet(f, n + 6) = 16 * (ZoneSize(t) % 10) + (8 * ZoneSign(t) + ZoneSize(t) \div 10)

\* The handset reads the time as it was written.
LEMMA TimeBack ==
    ASSUME NEW f \in Bits, NEW n \in Nat, n > 0, NEW p \in Nat, p = 8 * (n - 1),
           NEW t \in Times, At(f, p, L3TimeZoneAndTime_writeV(t))
    PROVE  TimeRead(f, n, t)
<1> DEFINE T == L3TimeZoneAndTime_writeV(t)
           y == t.year % 100
           u == writeField(ZoneSize(t) % 10, 4)
           v == writeField(ZoneSign(t), 1)
           w == writeField(ZoneSize(t) \div 10, 3)
<1>1. /\ y \in 0..99 /\ t.month \in 0..99 /\ t.day \in 0..99 /\ t.hour \in 0..99
      /\ t.min \in 0..99 /\ t.sec \in 0..99 /\ ZoneSize(t) \in 0..56 /\ ZoneSign(t) \in {0, 1}
    <2>1. PICK a \in Nat : a = t.year
        BY TimeFacts
    <2>2. a % 100 \in 0..99
        OBVIOUS
    <2>3. /\ t.month \in 1..12 /\ t.day \in 1..31 /\ t.hour \in 0..23
          /\ t.min \in 0..59 /\ t.sec \in 0..60 /\ ZoneSize(t) \in 0..56 /\ ZoneSign(t) \in {0, 1}
        BY TimeFacts
    <2>4. y \in 0..99
        BY <2>1, <2>2, Zenon
    <2>5. QED
        BY <2>3, <2>4
<1>2. /\ T \in Bits /\ At(T, 0, BCD(y)) /\ At(T, 8, BCD(t.month)) /\ At(T, 16, BCD(t.day))
      /\ At(T, 24, BCD(t.hour)) /\ At(T, 32, BCD(t.min)) /\ At(T, 40, BCD(t.sec))
      /\ At(T, 48, u) /\ At(T, 52, v) /\ At(T, 53, w)
    BY TimeIs
<1>3. /\ \A x \in 0..99 : x \in Nat
      /\ \A x \in 0..56 : x % 10 \in Nat /\ x \div 10 \in Nat
      /\ \A x \in {0, 1} : x \in Nat
      /\ 1 \in 1..8 /\ 3 \in 1..8 /\ 4 \in 1..8
    OBVIOUS
<1>4. /\ BCD(y) \in Bits /\ BCD(t.month) \in Bits /\ BCD(t.day) \in Bits
      /\ BCD(t.hour) \in Bits /\ BCD(t.min) \in Bits /\ BCD(t.sec) \in Bits
    BY <1>1, <1>3, BCDIs, Zenon
<1>5. u \in Bits /\ v \in Bits /\ w \in Bits
    BY <1>1, <1>3, WriteField, Zenon
<1>6. /\ 0 \in Nat /\ 8 \in Nat /\ 16 \in Nat /\ 24 \in Nat /\ 32 \in Nat /\ 40 \in Nat
      /\ 48 \in Nat /\ 52 \in Nat /\ 53 \in Nat
    OBVIOUS
<1> HIDE DEF y, u, v, w, T
<1>7. At(f, p, T)
    BY DEF T
<1>8. /\ At(f, p + 0, BCD(y)) /\ At(f, p + 8, BCD(t.month)) /\ At(f, p + 16, BCD(t.day))
      /\ At(f, p + 24, BCD(t.hour)) /\ At(f, p + 32, BCD(t.min)) /\ At(f, p + 40, BCD(t.sec))
    BY <1>2, <1>4, <1>6, <1>7, AtAt, Zenon
<1>9. At(f, p + 48, u) /\ At(f, p + 52, v) /\ At(f, p + 53, w)
    BY <1>2, <1>5, <1>6, <1>7, AtAt, Zenon
<1>10. /\ p + 0 = p /\ p + 8 \in Nat /\ p + 16 \in Nat /\ p + 24 \in Nat
       /\ p + 32 \in Nat /\ p + 40 \in Nat /\ p + 48 \in Nat
       /\ p + 8 = 8 * ((n + 1) - 1) /\ p + 16 = 8 * ((n + 2) - 1) /\ p + 24 = 8 * ((n + 3) - 1)
       /\ p + 32 = 8 * ((n + 4) - 1) /\ p + 40 = 8 * ((n + 5) - 1) /\ p + 48 = 8 * ((n + 6) - 1)
       /\ (p + 48) + 4 = p + 52 /\ (p + 48) + 5 = p + 53
       /\ n + 1 \in Nat /\ n + 2 \in Nat /\ n + 3 \in Nat /\ n + 4 \in Nat /\ n + 5 \in Nat
       /\ n + 1 > 0 /\ n + 2 > 0 /\ n + 3 > 0 /\ n + 4 > 0 /\ n + 5 > 0
    OBVIOUS
<1>11. /\ Swapped(f, n) = y /\ Swapped(f, n + 1) = t.month
       /\ Swapped(f, n + 2) = t.day /\ Swapped(f, n + 3) = t.hour
       /\ Swapped(f, n + 4) = t.min /\ Swapped(f, n + 5) = t.sec
    <2>1. Swapped(f, n) = y
        <3>1. y \in 0..99 /\ At(f, p, BCD(y))
            BY <1>1, <1>8, <1>10, Zenon
        <3>2. QED
            BY <3>1, SwappedBack, Zenon
    <2>2. Swapped(f, n + 1) = t.month
        <3>1. n + 1 \in Nat /\ n + 1 > 0 /\ p + 8 \in Nat /\ p + 8 = 8 * ((n + 1) - 1)
            BY <1>10, Zenon
        <3>2. t.month \in 0..99 /\ At(f, p + 8, BCD(t.month))
            BY <1>1, <1>8, Zenon
        <3>3. QED
            BY <3>1, <3>2, SwappedBack, Zenon
    <2>3. Swapped(f, n + 2) = t.day
        <3>1. n + 2 \in Nat /\ n + 2 > 0 /\ p + 16 \in Nat /\ p + 16 = 8 * ((n + 2) - 1)
            BY <1>10, Zenon
        <3>2. t.day \in 0..99 /\ At(f, p + 16, BCD(t.day))
            BY <1>1, <1>8, Zenon
        <3>3. QED
            BY <3>1, <3>2, SwappedBack, Zenon
    <2>4. Swapped(f, n + 3) = t.hour
        <3>1. n + 3 \in Nat /\ n + 3 > 0 /\ p + 24 \in Nat /\ p + 24 = 8 * ((n + 3) - 1)
            BY <1>10, Zenon
        <3>2. t.hour \in 0..99 /\ At(f, p + 24, BCD(t.hour))
            BY <1>1, <1>8, Zenon
        <3>3. QED
            BY <3>1, <3>2, SwappedBack, Zenon
    <2>5. Swapped(f, n + 4) = t.min
        <3>1. n + 4 \in Nat /\ n + 4 > 0 /\ p + 32 \in Nat /\ p + 32 = 8 * ((n + 4) - 1)
            BY <1>10, Zenon
        <3>2. t.min \in 0..99 /\ At(f, p + 32, BCD(t.min))
            BY <1>1, <1>8, Zenon
        <3>3. QED
            BY <3>1, <3>2, SwappedBack, Zenon
    <2>6. Swapped(f, n + 5) = t.sec
        <3>1. n + 5 \in Nat /\ n + 5 > 0 /\ p + 40 \in Nat /\ p + 40 = 8 * ((n + 5) - 1)
            BY <1>10, Zenon
        <3>2. t.sec \in 0..99 /\ At(f, p + 40, BCD(t.sec))
            BY <1>1, <1>8, Zenon
        <3>3. QED
            BY <3>1, <3>2, SwappedBack, Zenon
    <2>7. QED
        BY <2>1, <2>2, <2>3, <2>4, <2>5, <2>6, Zenon
<1>12. Octet(f, n + 6) = 16 * (ZoneSize(t) % 10) + (8 * ZoneSign(t) + ZoneSize(t) \div 10)
    <2>1. /\ At(f, p + 48, writeField(ZoneSize(t) % 10, 4))
          /\ At(f, (p + 48) + 4, writeField(ZoneSign(t), 1))
          /\ At(f, (p + 48) + 5, writeField(ZoneSize(t) \div 10, 3))
        BY <1>9, <1>10, Zenon DEF u, v, w
    <2>2. readField(f, p + 48, 8)
            = 16 * (ZoneSize(t) % 10) + (8 * ZoneSign(t) + ZoneSize(t) \div 10)
        BY <1>1, <1>10, <2>1, ZoneBack, ZenonT(60)
    <2>3. QED
        BY <1>10, <2>2, Zenon DEF Octet
<1>13. QED
    BY <1>11, <1>12, Zenon DEF y, TimeRead

\* How the handset finds its way: b is the octet where the SMS-DELIVER begins,
\* n the number of digits, and a the octet behind the address.
HandsetReads(f, b, n, a, z) ==
    LET r == HandsetRead(f)
        zone == 10 * (z % 8) + z \div 16
    IN  /\ r.rpType = Octet(f, 1) /\ r.first = Octet(f, b)
        /\ r.from = [plus |-> (Octet(f, b + 2) \div 16) % 8 = International,
                     digits |-> [i \in 1..n |-> SemiOctet(f, b + 3, i)]]
        /\ r.pid = Octet(f, a) /\ r.dcs = Octet(f, a + 1)
        /\ r.time = [i \in 1..6 |-> Swapped(f, a + 1 + i)]
        /\ r.zone = IF (z \div 8) % 2 = 1 THEN -zone ELSE zone
        /\ r.length = Octet(f, a + 9) /\ r.data = SubSeq(f, 8 * (a + 9) + 1, Len(f))

\* The handset reads each field of the frame at its octet.
LEMMA ReadIs ==
    ASSUME NEW f, NEW b, b = Octet(f, 3) + 6, NEW n, n = Octet(f, b + 1),
           NEW a, a = b + 3 + Ceil(n, 2), NEW z, z = Octet(f, a + 8)
    PROVE  HandsetReads(f, b, n, a, z)
BY DEF HandsetRead, HandsetReads

\* The places of the parts, in octets.
LEMMA Places ==
    ASSUME NEW j \in Nat, NEW k \in Nat, NEW q \in Nat, q = 48 + 8 * k,
           NEW b \in Nat, b = (1 + k) + 6, NEW a \in Nat, a = b + 3 + j, NEW e \in Nat
    PROVE  /\ b > 0 /\ q = 8 * (b - 1) /\ b + 1 > 0 /\ b + 1 \in Nat /\ q + 8 = 8 * ((b + 1) - 1)
           /\ q + 16 = 8 * ((b + 2) - 1) /\ b + 3 \in Nat \ {0} /\ q + 24 = 8 * ((b + 3) - 1)
           /\ a > 0 /\ q + (24 + 8 * j) = 8 * (a - 1)
           /\ a + 1 > 0 /\ a + 1 \in Nat /\ q + (32 + 8 * j) = 8 * ((a + 1) - 1)
           /\ a + 2 > 0 /\ a + 2 \in Nat /\ q + (40 + 8 * j) = 8 * ((a + 2) - 1)
           /\ (a + 2) + 6 = a + 8
           /\ a + 9 > 0 /\ a + 9 \in Nat /\ q + (96 + 8 * j) = 8 * ((a + 9) - 1)
           /\ q + (104 + 8 * j) = 8 * (a + 9)
           /\ (48 + 8 * k) + 8 * ((13 + j) + e) = 8 * (a + 9) + 8 * e
           /\ 3 \in Nat /\ 3 > 0 /\ 16 = 8 * (3 - 1) /\ 1 \in Nat /\ 1 > 0 /\ 0 = 8 * (1 - 1)
           /\ q + 8 \in Nat /\ q + 16 \in Nat /\ q + 24 \in Nat /\ q + (24 + 8 * j) \in Nat
           /\ q + (32 + 8 * j) \in Nat /\ q + (40 + 8 * j) \in Nat /\ q + (96 + 8 * j) \in Nat
           /\ 8 * (a + 9) \in Nat /\ 8 * e \in Nat
OBVIOUS

\* The six numbers of the time.
LEMMA SixNumbers ==
    ASSUME NEW f, NEW a \in Nat
    PROVE  [x \in 1..6 |-> Swapped(f, a + 1 + x)]
             = <<Swapped(f, a + 2), Swapped(f, (a + 2) + 1), Swapped(f, (a + 2) + 2),
                 Swapped(f, (a + 2) + 3), Swapped(f, (a + 2) + 4), Swapped(f, (a + 2) + 5)>>
<1>1. /\ a + 1 + 1 = a + 2 /\ a + 1 + 2 = (a + 2) + 1 /\ a + 1 + 3 = (a + 2) + 2
      /\ a + 1 + 4 = (a + 2) + 3 /\ a + 1 + 5 = (a + 2) + 4 /\ a + 1 + 6 = (a + 2) + 5
    OBVIOUS
<1>2. [x \in 1..6 |-> Swapped(f, a + 1 + x)]
        = <<Swapped(f, a + 1 + 1), Swapped(f, a + 1 + 2), Swapped(f, a + 1 + 3),
            Swapped(f, a + 1 + 4), Swapped(f, a + 1 + 5), Swapped(f, a + 1 + 6)>>
    <2> DEFINE g(x) == Swapped(f, a + 1 + x)
    <2> HIDE DEF g
    <2>1. [x \in 1..6 |-> g(x)] = <<g(1), g(2), g(3), g(4), g(5), g(6)>>
        OBVIOUS
    <2>2. QED
        BY <2>1, Zenon DEF g
<1>3. QED
    BY <1>1, <1>2, Zenon

\* The offset from UTC, in quarters of an hour.
ZoneOf(t) == IF ZoneSign(t) = 1 THEN -ZoneSize(t) ELSE ZoneSize(t)

\* The zone of a time, from its size and sign.
LEMMA ZoneFacts ==
    ASSUME NEW t \in Times
    PROVE  /\ 900 * ZoneOf(t) = t.gmtoff
           /\ ZoneSize(t) \in 0..56 /\ ZoneSign(t) \in {0, 1}
BY TimeFacts DEF ZoneOf

\* Size and sign of the zone come back from its octet.
LEMMA ZoneRead ==
    ASSUME NEW z \in 0..56, NEW s \in {0, 1}, NEW o, o = 16 * (z % 10) + (8 * s + z \div 10)
    PROVE  10 * (o % 8) + o \div 16 = z /\ (o \div 8) % 2 = s
BY ZoneDigits, Zenon

\* An octet whose value fits.
LEMMA ValueRead ==
    ASSUME NEW f \in Bits, NEW n \in Nat, n > 0, NEW p \in Nat, p = 8 * (n - 1),
           NEW v \in 0..255, At(f, p, writeField(v, 8))
    PROVE  Octet(f, n) = v
<1>1. v \in Nat /\ v % 256 = v
    OBVIOUS
<1>2. Octet(f, n) = v % 256
    BY <1>1, OctetRead, ZenonT(60)
<1>3. QED
    BY <1>1, <1>2, Zenon

\* The handset reads what create_sms_delivery() was to deliver, if the number
\* has no plus and the length fits its octet.
LEMMA DeliverRead ==
    ASSUME NEW d, NEW e \in Nat, Deliverable(d, e), ~d.from.plus,
           d.ud.dcs \in 0..255, d.ud.length \in 0..255
    PROVE  LET r == HandsetRead(RPData_write(d))
               t == d.time
           IN  /\ r.rpType = 1 /\ r.first = (IF d.ud.udhi THEN 68 ELSE 4)
               /\ r.from = d.from /\ r.pid = d.pid % 256 /\ r.dcs = d.ud.dcs
               /\ r.time = <<t.year % 100, t.month, t.day, t.hour, t.min, t.sec>>
               /\ 900 * r.zone = t.gmtoff
               /\ r.length = d.ud.length /\ r.data = LSB8MSB(d.ud.raw)
<1> DEFINE f == RPData_write(d)
           t == d.time
<1>1. /\ Fits(d.from) /\ Fits(d.smsc) /\ d.from \in Number /\ t \in Times /\ d.pid \in Nat
      /\ d.ud.raw \in Bits /\ Len(d.ud.raw) = 8 * e
    BY Zenon DEF Deliverable, Fits
<1>2. PICK j \in Nat, k \in Nat, q \in Nat :
        /\ j = Octets(d.from) /\ k = Octets(d.smsc) /\ k \in 1..10 /\ q = 48 + 8 * k
    <2>1. Octets(d.from) \in 1..10 /\ Octets(d.smsc) \in 1..10
        BY <1>1, FitsSize
    <2>2. \A x \in 1..10 : x \in Nat /\ 48 + 8 * x \in Nat
        OBVIOUS
    <2>3. QED
        BY <2>1, <2>2
<1>3. PICK b \in Nat, a \in Nat : b = (1 + k) + 6 /\ a = b + 3 + j
    <2>1. (1 + k) + 6 \in Nat /\ ((1 + k) + 6) + 3 + j \in Nat
        OBVIOUS
    <2>2. QED
        BY <2>1
<1>4. /\ b > 0 /\ q = 8 * (b - 1) /\ b + 1 > 0 /\ b + 1 \in Nat /\ q + 8 = 8 * ((b + 1) - 1)
      /\ q + 16 = 8 * ((b + 2) - 1) /\ b + 3 \in Nat \ {0} /\ q + 24 = 8 * ((b + 3) - 1)
      /\ a > 0 /\ q + (24 + 8 * j) = 8 * (a - 1)
      /\ a + 1 > 0 /\ a + 1 \in Nat /\ q + (32 + 8 * j) = 8 * ((a + 1) - 1)
      /\ a + 2 > 0 /\ a + 2 \in Nat /\ q + (40 + 8 * j) = 8 * ((a + 2) - 1)
      /\ (a + 2) + 6 = a + 8
      /\ a + 9 > 0 /\ a + 9 \in Nat /\ q + (96 + 8 * j) = 8 * ((a + 9) - 1)
      /\ q + (104 + 8 * j) = 8 * (a + 9)
      /\ (48 + 8 * k) + 8 * ((13 + j) + e) = 8 * (a + 9) + 8 * e
      /\ 3 \in Nat /\ 3 > 0 /\ 16 = 8 * (3 - 1) /\ 1 \in Nat /\ 1 > 0 /\ 0 = 8 * (1 - 1)
      /\ q + 8 \in Nat /\ q + 16 \in Nat /\ q + 24 \in Nat /\ q + (24 + 8 * j) \in Nat
      /\ q + (32 + 8 * j) \in Nat /\ q + (40 + 8 * j) \in Nat /\ q + (96 + 8 * j) \in Nat
      /\ 8 * (a + 9) \in Nat /\ 8 * e \in Nat
    <2>1. q = 48 + 8 * k /\ b = (1 + k) + 6 /\ a = b + 3 + j
        BY <1>2, <1>3, Zenon
    <2>2. QED
        BY <2>1, Places
<1>5. /\ f \in Bits /\ Len(f) = (48 + 8 * k) + 8 * ((13 + j) + e)
      /\ At(f, 0, writeField(0, 5)) /\ At(f, 5, writeField(1, 3))
      /\ At(f, 16, RPAddress_writeLV(d.smsc)) /\ At(f, q, TLDeliver_write(d))
    <2>1. j = Octets(d.from) /\ k = Octets(d.smsc)
        BY <1>2, Zenon
    <2>2. RelayFrame(f, d, k, (13 + j) + e)
        BY <2>1, RPDataIs
    <2>3. QED
        BY <1>2, <2>2, Zenon DEF RelayFrame
<1> HIDE DEF f
<1>6. DeliverAt(f, q, d, j)
    BY <1>2, <1>5, DeliverParts, Zenon
<1>7. Octet(f, 1) = 1
    <2>1. readField(f, 0, 8) = 1
        BY <1>5, FirstBack, Zenon
    <2>2. QED
        BY <1>4, <2>1, Zenon DEF Octet
<1>8. Octet(f, 3) = 1 + k
    <2>1. At(f, 16, writeField(1 + k, 8))
        BY <1>1, <1>2, <1>5, CentreAt, Zenon
    <2>2. PICK v \in 0..255 : v = 1 + k
        BY <1>2
    <2>3. At(f, 16, writeField(v, 8)) /\ 16 \in Nat
        BY <2>1, <2>2, Zenon
    <2>4. 3 \in Nat /\ 3 > 0 /\ 16 = 8 * (3 - 1) /\ f \in Bits
        BY <1>4, <1>5, Zenon
    <2>5. Octet(f, 3) = v
        BY <2>3, <2>4, ValueRead
    <2>6. QED
        BY <2>2, <2>5, Zenon
<1>9. Octet(f, b) = IF d.ud.udhi THEN 68 ELSE 4
    <2>1. readField(f, q, 8) = IF d.ud.udhi THEN 68 ELSE 4
        BY <1>5, <1>6, HeadBack, Zenon DEF DeliverAt
    <2>2. QED
        BY <1>4, <2>1, Zenon DEF Octet
<1>10. PICK n \in Nat : n = Len(d.from.digits) /\ n \in 0..255
    <2>1. Len(d.from.digits) \in 1..20
        BY <1>1, Zenon DEF Fits
    <2>2. \A x \in 1..20 : x \in Nat /\ x \in 0..255
        OBVIOUS
    <2>3. QED
        BY <2>1, <2>2, ZenonT(60)
<1>11. Octet(f, b + 1) = n
    <2>1. L3BCDDigits_size(d.from) = n
        <3>1. n + 0 = n
            OBVIOUS
        <3>2. QED
            BY <1>10, <3>1, Zenon DEF L3BCDDigits_size
    <2>2. At(f, q + 8, writeField(n, 8))
        BY <1>6, <2>1, Zenon DEF DeliverAt
    <2>3. n \in 0..255
        BY <1>10, Zenon
    <2>4. b + 1 \in Nat /\ b + 1 > 0 /\ q + 8 \in Nat /\ q + 8 = 8 * ((b + 1) - 1) /\ f \in Bits
        BY <1>4, <1>5, Zenon
    <2>5. QED
        BY <2>2, <2>3, <2>4, ValueRead, Zenon
<1>12. (Octet(f, b + 2) \div 16) % 8 = TypeOfNumber(d.from)
    <2>1. TypeAt(f, q + 16, d.from)
        BY <1>6, Zenon DEF DeliverAt
    <2>2. (readField(f, q + 16, 8) \div 16) % 8 = TypeOfNumber(d.from)
        BY <1>1, <1>4, <1>5, <2>1, TypeOctet, Zenon
    <2>3. QED
        BY <1>4, <2>2, Zenon DEF Octet
<1>13. [i \in 1..n |-> SemiOctet(f, b + 3, i)] = d.from.digits
    <2>1. DigitsAt(f, 8 * ((b + 3) - 1), d.from)
        BY <1>4, <1>6, Zenon DEF DeliverAt
    <2>2. \A i \in 1..n : SemiOctet(f, b + 3, i) = d.from.digits[i]
        BY <1>1, <1>4, <1>5, <1>10, <2>1, SemiOctets, Zenon
    <2>3. [i \in 1..n |-> SemiOctet(f, b + 3, i)] = [i \in 1..n |-> d.from.digits[i]]
        BY <2>2, Zenon
    <2>4. d.from.digits \in Seq(0..11)
        BY <1>1 DEF Number
    <2>5. d.from.digits = [i \in 1..n |-> d.from.digits[i]]
        <3>1. PICK g \in Seq(0..11) : g = d.from.digits
            BY <2>4
        <3>2. g = [i \in 1..Len(g) |-> g[i]]
            OBVIOUS
        <3>3. QED
            BY <1>10, <3>1, <3>2, Zenon
    <2>6. QED
        BY <2>3, <2>5, Zenon
<1>14. a = b + 3 + Ceil(n, 2)
    BY <1>1, <1>2, <1>3, <1>10, DigitFacts, Zenon
<1>15. Octet(f, a) = d.pid % 256 /\ Octet(f, a + 1) = d.ud.dcs /\ Octet(f, a + 9) = d.ud.length
    <2>1. /\ At(f, q + (24 + 8 * j), writeField(d.pid, 8))
          /\ At(f, q + (32 + 8 * j), writeField(d.ud.dcs, 8))
          /\ At(f, q + (96 + 8 * j), writeField(d.ud.length, 8))
        BY <1>6, Zenon DEF DeliverAt
    <2>2. Octet(f, a) = d.pid % 256
        <3>1. a > 0 /\ q + (24 + 8 * j) \in Nat /\ q + (24 + 8 * j) = 8 * (a - 1) /\ f \in Bits
            BY <1>4, <1>5, Zenon
        <3>2. QED
            BY <1>1, <2>1, <3>1, OctetRead, ZenonT(60)
    <2>3. Octet(f, a + 1) = d.ud.dcs
        <3>1. /\ a + 1 \in Nat /\ a + 1 > 0 /\ q + (32 + 8 * j) \in Nat
              /\ q + (32 + 8 * j) = 8 * ((a + 1) - 1) /\ f \in Bits
            BY <1>4, <1>5, Zenon
        <3>2. PICK v \in 0..255 : v = d.ud.dcs
            OBVIOUS
        <3>3. At(f, q + (32 + 8 * j), writeField(v, 8))
            BY <2>1, <3>2, Zenon
        <3>4. Octet(f, a + 1) = v
            BY <3>1, <3>3, ValueRead
        <3>5. QED
            BY <3>2, <3>4, Zenon
    <2>4. Octet(f, a + 9) = d.ud.length
        <3>1. /\ a + 9 \in Nat /\ a + 9 > 0 /\ q + (96 + 8 * j) \in Nat
              /\ q + (96 + 8 * j) = 8 * ((a + 9) - 1) /\ f \in Bits
            BY <1>4, <1>5, Zenon
        <3>2. PICK v \in 0..255 : v = d.ud.length
            OBVIOUS
        <3>3. At(f, q + (96 + 8 * j), writeField(v, 8))
            BY <2>1, <3>2, Zenon
        <3>4. Octet(f, a + 9) = v
            BY <3>1, <3>3, ValueRead
        <3>5. QED
            BY <3>2, <3>4, Zenon
    <2>5. QED
        BY <2>2, <2>3, <2>4, Zenon
<1>16. /\ Swapped(f, a + 2) = t.year % 100 /\ Swapped(f, (a + 2) + 1) = t.month
       /\ Swapped(f, (a + 2) + 2) = t.day /\ Swapped(f, (a + 2) + 3) = t.hour
       /\ Swapped(f, (a + 2) + 4) = t.min /\ Swapped(f, (a + 2) + 5) = t.sec
       /\ Octet(f, (a + 2) + 6) = 16 * (ZoneSize(t) % 10) + (8 * ZoneSign(t) + ZoneSize(t) \div 10)
    <2>1. At(f, q + (40 + 8 * j), L3TimeZoneAndTime_writeV(t))
        BY <1>6, Zenon DEF DeliverAt
    <2>2. /\ a + 2 \in Nat /\ a + 2 > 0 /\ q + (40 + 8 * j) \in Nat
          /\ q + (40 + 8 * j) = 8 * ((a + 2) - 1) /\ f \in Bits /\ t \in Times
        BY <1>1, <1>4, <1>5, Zenon
    <2>3. TimeRead(f, a + 2, t)
        BY <2>1, <2>2, TimeBack, Zenon
    <2>4. QED
        BY <2>3, Zenon DEF TimeRead
<1>17. [i \in 1..6 |-> Swapped(f, a + 1 + i)]
         = <<t.year % 100, t.month, t.day, t.hour, t.min, t.sec>>
    <2>1. [i \in 1..6 |-> Swapped(f, a + 1 + i)]
            = <<Swapped(f, a + 2), Swapped(f, (a + 2) + 1), Swapped(f, (a + 2) + 2),
                Swapped(f, (a + 2) + 3), Swapped(f, (a + 2) + 4), Swapped(f, (a + 2) + 5)>>
        BY SixNumbers, Zenon
    <2>2. QED
        BY <1>16, <2>1, Zenon
<1>18. PICK z : z = Octet(f, a + 8)
    OBVIOUS
<1>19. 10 * (z % 8) + z \div 16 = ZoneSize(t) /\ (z \div 8) % 2 = ZoneSign(t)
    <2>1. z = 16 * (ZoneSize(t) % 10) + (8 * ZoneSign(t) + ZoneSize(t) \div 10)
        BY <1>4, <1>16, <1>18, Zenon
    <2>2. ZoneSize(t) \in 0..56 /\ ZoneSign(t) \in {0, 1}
        BY <1>1, ZoneFacts, ZenonT(60)
    <2>3. QED
        BY <2>1, <2>2, ZoneRead, ZenonT(60)
<1>20. SubSeq(f, 8 * (a + 9) + 1, Len(f)) = LSB8MSB(d.ud.raw)
    <2>1. /\ At(f, 8 * (a + 9), LSB8MSB(d.ud.raw))
          /\ Len(f) = 8 * (a + 9) + 8 * e
        BY <1>4, <1>5, <1>6, Zenon DEF DeliverAt
    <2>2. LSB8MSB(d.ud.raw) \in Bits /\ Len(LSB8MSB(d.ud.raw)) = 8 * e
        BY <1>1, TurnedRound, Zenon
    <2>3. 8 * (a + 9) \in Nat /\ f \in Bits
        BY <1>4, <1>5, Zenon
    <2>4. SubSeq(f, 8 * (a + 9) + 1, 8 * (a + 9) + Len(LSB8MSB(d.ud.raw))) = LSB8MSB(d.ud.raw)
        BY <2>1, <2>2, <2>3, SliceAt, Zenon
    <2>5. QED
        BY <2>1, <2>2, <2>4, Zenon
<1> DEFINE r == HandsetRead(f)
           zone == 10 * (z % 8) + z \div 16
<1>21. /\ r.rpType = Octet(f, 1) /\ r.first = Octet(f, b)
       /\ r.from = [plus |-> (Octet(f, b + 2) \div 16) % 8 = International,
                    digits |-> [i \in 1..n |-> SemiOctet(f, b + 3, i)]]
       /\ r.pid = Octet(f, a) /\ r.dcs = Octet(f, a + 1)
       /\ r.time = [i \in 1..6 |-> Swapped(f, a + 1 + i)]
       /\ r.zone = IF (z \div 8) % 2 = 1 THEN -zone ELSE zone
       /\ r.length = Octet(f, a + 9) /\ r.data = SubSeq(f, 8 * (a + 9) + 1, Len(f))
    <2>1. /\ b = Octet(f, 3) + 6 /\ n = Octet(f, b + 1) /\ a = b + 3 + Ceil(n, 2)
          /\ z = Octet(f, a + 8)
        BY <1>3, <1>8, <1>11, <1>14, <1>18, Zenon
    <2>2. HandsetReads(f, b, n, a, z)
        BY <2>1, ReadIs, Zenon
    <2>3. QED
        BY <2>2, Zenon DEF HandsetReads
<1> HIDE DEF r
<1>22. r.from = d.from
    BY <1>1, <1>12, <1>13, <1>21, NumberIs, Zenon
<1>23. 900 * r.zone = t.gmtoff
    <2>1. r.zone = ZoneOf(t)
        <3>1. r.zone = IF (z \div 8) % 2 = 1 THEN -zone ELSE zone
            BY <1>21, Zenon
        <3>2. QED
            BY <1>19, <3>1 DEF ZoneOf
    <2>2. 900 * ZoneOf(t) = t.gmtoff
        BY <1>1, ZoneFacts, ZenonT(60)
    <2>3. QED
        BY <2>1, <2>2
<1>24. r.rpType = 1 /\ r.first = IF d.ud.udhi THEN 68 ELSE 4
    BY <1>7, <1>9, <1>21
<1>25. r.pid = d.pid % 256 /\ r.dcs = d.ud.dcs /\ r.length = d.ud.length
    BY <1>15, <1>21, Zenon
<1>26. /\ r.time = <<t.year % 100, t.month, t.day, t.hour, t.min, t.sec>>
       /\ r.data = LSB8MSB(d.ud.raw)
    BY <1>17, <1>20, <1>21, Zenon
<1>27. QED
    BY <1>22, <1>23, <1>24, <1>25, <1>26, Zenon DEF r, f

\* Bit p of the septets, where the octets have been turned round.
LEMMA TurnedBit ==
    ASSUME NEW b \in Bits, NEW m \in Nat, Len(b) = 8 * m, NEW p \in 0..(8 * m - 1)
    PROVE  LSB8MSB(b)[(8 * (p \div 8) + 8) - (p % 8)] = b[p + 1]
<1> DEFINE k == p \div 8
           j == 8 - (p % 8)
<1>1. /\ k \in 0..(m - 1) /\ j \in 1..8 /\ 8 * k + j = (8 * k + 8) - (p % 8)
      /\ 8 * k + (9 - j) = p + 1
    OBVIOUS
<1> HIDE DEF k, j
<1>2. LSB8MSB(b)[8 * k + j] = b[8 * k + (9 - j)]
    BY <1>1, TurnedRound, Zenon
<1>3. LSB8MSB(b)[(8 * k + 8) - (p % 8)] = b[p + 1]
    BY <1>1, <1>2, Zenon
<1>4. QED
    BY <1>3 DEF k

\* Seven bits with the highest one first are the code again.
LEMMA SeptetBack ==
    ASSUME NEW c \in 0..127
    PROVE  Value(writeField(c, 7), 2) = c
<1> DEFINE b == writeField(c, 7)
<1>1. c \in Nat /\ 7 \in 1..8 /\ c % 128 = c
    OBVIOUS
<1>2. b \in Bits /\ Len(b) = 7 /\ \A i \in 1..7 : b[i] = Bit(c, 7 - i)
    BY <1>1, WriteField, Zenon
<1>3. /\ b[1] = Bit(c, 6) /\ b[2] = Bit(c, 5) /\ b[3] = Bit(c, 4) /\ b[4] = Bit(c, 3)
      /\ b[5] = Bit(c, 2) /\ b[6] = Bit(c, 1) /\ b[7] = Bit(c, 0)
    BY <1>2
<1> HIDE DEF b
<1>4. Value(b, 2) = 64 * b[1] + 32 * b[2] + 16 * b[3] + 8 * b[4] + 4 * b[5] + 2 * b[6] + b[7]
    BY <1>2, ValueOfBits, Zenon
<1>5. c % 128 = 64 * Bit(c, 6) + 32 * Bit(c, 5) + 16 * Bit(c, 4) + 8 * Bit(c, 3)
                + 4 * Bit(c, 2) + 2 * Bit(c, 1) + Bit(c, 0)
    BY <1>1, SumOfBits, Zenon
<1>6. QED
    BY <1>1, <1>3, <1>4, <1>5, Zenon DEF b

\* Bit j of septet i, counted from the end of the septet.
LEMMA SeptetEnds ==
    ASSUME NEW n \in Nat, NEW m \in Nat, 7 * n <= m, NEW i \in 1..n, NEW j \in 1..7,
           NEW p, p = 7 * (i - 1) + 7 - j
    PROVE  7 - j \in 0..6 /\ p = 7 * (i - 1) + (7 - j) /\ p \in 0..(m - 1)
OBVIOUS

\* The handset shows the text.
LEMMA TextShown ==
    ASSUME NEW r, NEW t, NEW e \in Nat, TextIn(TLUserData_encode7bit(t), t, e), InAlphabet(t),
           r.length = Len(t), r.data = LSB8MSB(TLUserData_encode7bit(t).raw)
    PROVE  HandsetText(r) = t
<1> DEFINE raw == TLUserData_encode7bit(t).raw
           data == LSB8MSB(raw)
           n == Len(t)
<1>1. t \in Seq(1..255) /\ e = (n * 7 + 7) \div 8
    BY Zenon DEF TextIn
<1>2. /\ raw \in Bits /\ Len(raw) = 8 * e
      /\ \A i \in 1..n, j \in 0..6 : raw[(7 * (i - 1) + j) + 1] = Bit(encodeGSMChar(t[i]), j)
    BY <1>1, EncodedText
<1>3. n \in Nat /\ t = [i \in 1..n |-> t[i]]
    BY <1>1
<1>4. 8 * e \in Nat /\ 7 * n <= 8 * e
    BY <1>1, <1>3
<1> HIDE DEF raw, n
<1>5. ASSUME NEW i \in 1..n
      PROVE  gGSMAlphabet[1 + Value([j \in 1..7 |->
                 LET p == 7 * (i - 1) + 7 - j IN data[(8 * (p \div 8) + 8) - (p % 8)]], 2)] = t[i]
    <2>1. PICK c \in 0..127 : c = encodeGSMChar(t[i])
        BY Codes, Zenon
    <2>2. ASSUME NEW j \in 1..7, NEW p, p = 7 * (i - 1) + 7 - j
          PROVE  data[(8 * (p \div 8) + 8) - (p % 8)] = Bit(c, 7 - j)
        <3>1. 7 - j \in 0..6 /\ p = 7 * (i - 1) + (7 - j) /\ p \in 0..(8 * e - 1)
            <4>1. PICK m \in Nat : m = 8 * e
                BY <1>4
            <4>2. n \in Nat /\ 7 * n <= m /\ p = 7 * (i - 1) + 7 - j
                BY <1>3, <1>4, <2>2, <4>1, Zenon
            <4>3. 7 - j \in 0..6 /\ p = 7 * (i - 1) + (7 - j) /\ p \in 0..(m - 1)
                BY <4>2, SeptetEnds
            <4>4. QED
                BY <4>1, <4>3, Zenon
        <3>2. data[(8 * (p \div 8) + 8) - (p % 8)] = raw[p + 1]
            BY <1>2, <3>1, TurnedBit, Zenon
        <3>3. raw[(7 * (i - 1) + (7 - j)) + 1] = Bit(encodeGSMChar(t[i]), 7 - j)
            BY <1>2, <3>1, Zenon
        <3>4. QED
            BY <2>1, <3>1, <3>2, <3>3, Zenon
    <2> HIDE DEF data
    <2>3. ASSUME NEW j \in 1..7
          PROVE  (LET p == 7 * (i - 1) + 7 - j IN data[(8 * (p \div 8) + 8) - (p % 8)])
                   = Bit(c, 7 - j)
        BY <2>2, Zenon
    <2>4. [j \in 1..7 |-> LET p == 7 * (i - 1) + 7 - j IN data[(8 * (p \div 8) + 8) - (p % 8)]]
            = writeField(c, 7)
        BY <2>3, Zenon DEF writeField
    <2>5. gGSMAlphabet[1 + c] = t[i]
        <3>1. 1 + c = c + 1
            OBVIOUS
        <3>2. decodeGSMChar(c) = t[i]
            BY <2>1, Codes, Zenon DEF InAlphabet, n
        <3>3. QED
            BY <3>1, <3>2, Zenon DEF decodeGSMChar
    <2>6. QED
        BY <2>4, <2>5, SeptetBack, Zenon
<1>6. HandsetText(r) = [i \in 1..n |->
        gGSMAlphabet[1 + Value([j \in 1..7 |->
            LET p == 7 * (i - 1) + 7 - j IN data[(8 * (p \div 8) + 8) - (p % 8)]], 2)]]
    BY DEF HandsetText, raw, n
<1>7. HandsetText(r) = [i \in 1..n |-> t[i]]
    BY <1>5, <1>6, Zenon
<1>8. QED
    BY <1>3, <1>7, Zenon

-----------------------------------------------------------------------------
(* The invariant: what the frame and the parsed message are at each stage. *)

\* The validity periods that TLValidityPeriod::parse() skips in whole octets:
\* none, and the relative one.
PlainPeriods == PeriodFormats \subseteq {0, 2}
\* What a handset or a text/plain message says is in the 7-bit alphabet.
PlainTexts == \A t \in Texts : InAlphabet(t)
\* The length octet counts the characters.
ShortTexts == \A t \in Texts : Len(t) <= 255
\* The length octet of an address is strlen(), which counts a plus.
NationalSenders == \A n \in FromNumbers : ~n.plus

\* The handset has sent what fits.
OnTheWire == sms \in Sms /\ DataOctets(sms) <= 140 /\ \E c \in Smscs : rpdu = HandsetRpdu(sms, c)

\* The frame delivers the data of the SUBMIT, or the text.
Packed(e) ==
    /\ rpdu = RPData_write(delivered)
    /\ delivered \in Delivery
    /\ delivered.from \in FromNumbers /\ delivered.smsc \in Smscs
    /\ IF submit = None THEN TextIn(delivered.ud, sms.text, e) /\ sms.text \in Texts
       ELSE submit = SubmitOf(sms) /\ DataIn(delivered.ud, sms, e)

CodecInv ==
    /\ stage = "idle" => rpdu = <<>> /\ submit = None /\ delivered = None
    /\ stage = "text" => /\ rpdu = <<>> /\ submit = None /\ delivered = None
                         /\ \E t \in Texts : sms = [text |-> t]
    /\ stage = "received" => submit = None /\ delivered = None /\ OnTheWire
    /\ stage = "parsed" => submit = SubmitOf(sms) /\ delivered = None /\ OnTheWire
    /\ stage = "packed" => \E e \in Nat : Packed(e)
    /\ stage \in {"idle", "received", "text", "parsed", "packed"}

\* The numbers of the configuration fit.
LEMMA ConfiguredFits ==
    ASSUME NEW n \in ToNumbers \cup FromNumbers \cup Smscs
    PROVE  Fits(n)
<1>1. n \in Number /\ Len(n.digits) \in 1..(IF n.plus THEN 19 ELSE 20)
    BY NumberAssumption
<1>2. PICK x \in Nat : x = Len(n.digits)
    BY <1>1 DEF Number
<1>3. x \in 1..(IF n.plus THEN 19 ELSE 20)
    BY <1>1, <1>2, Zenon
<1>4. x \in 1..20 /\ (n.plus => x <= 19)
    <2>1. CASE n.plus
        BY <1>3, <2>1
    <2>2. CASE ~n.plus
        BY <1>3, <2>2
    <2>3. QED
        BY <2>1, <2>2, Zenon
<1>5. QED
    BY <1>1, <1>2, <1>4, Zenon DEF Fits

\* A text consists of characters.
LEMMA TextsAre ==
    ASSUME NEW t \in Texts
    PROVE  t \in Seq(1..255)
BY TextAssumption

\* What is parsed is a SUBMIT, and is there.
LEMMA SubmitIs ==
    ASSUME NEW s \in Sms, DataOctets(s) <= 140
    PROVE  SubmitOf(s) \in Submit /\ SubmitOf(s) # None
<1>1. DataOf(s) \in UserData
    BY DataDelivered, Zenon DEF DataIn
<1>2. s.to \in Number /\ s.pi \in 0..255
    BY SmsFacts
<1>3. SubmitOf(s) \in Submit
    BY <1>1, <1>2 DEF SubmitOf, Submit
<1>4. QED
    BY <1>3, NoneAssumption

\* Before anything is received, the invariant holds.
LEMMA CodecInvInit == Init => CodecInv
BY DEF Init, CodecInv

\* create_sms_delivery() writes a delivery.
LEMMA Delivered ==
    ASSUME NEW body \in Seq(1..255), NEW ud \in UserData, NEW pi, NEW from \in FromNumbers,
           NEW smsc \in Smscs, NEW time \in Times,
           create_sms_delivery(body, ud, pi, from, smsc, time)
    PROVE  /\ rpdu' = RPData_write(delivered') /\ delivered' \in Delivery
           /\ delivered'.from = from /\ delivered'.smsc = smsc /\ delivered'.ud = ud
           /\ stage' = "packed" /\ sms' = sms /\ submit' = submit
<1>1. /\ delivered' = [reference |-> 77, from |-> from, smsc |-> smsc, time |-> time,
                       pid |-> TLPID(body, pi), ud |-> ud]
      /\ rpdu' = RPData_write(delivered') /\ stage' = "packed" /\ sms' = sms /\ submit' = submit
    BY Zenon DEF create_sms_delivery
<1>2. PICK x \in Nat : x = TLPID(body, pi)
    BY TLPIDTypes
<1>3. from \in Number /\ smsc \in Number
    BY ConfiguredFits, Zenon DEF Fits
<1>4. [reference |-> 77, from |-> from, smsc |-> smsc, time |-> time, pid |-> x, ud |-> ud]
        \in Delivery
    BY <1>3 DEF Delivery
<1>5. delivered' \in Delivery
    BY <1>1, <1>2, <1>4, Zenon
<1>6. delivered'.from = from /\ delivered'.smsc = smsc /\ delivered'.ud = ud
    BY <1>1
<1>7. QED
    BY <1>1, <1>5, <1>6, Zenon

\* Each step keeps the invariant.
LEMMA CodecInvNext ==
    ASSUME PlainPeriods, PlainTexts, CodecInv, [Next]_vars
    PROVE  CodecInv'
<1>1. CASE UNCHANGED vars
    BY <1>1 DEF vars, CodecInv, OnTheWire, Packed
<1>2. ASSUME NEW s \in Sms, NEW smsc \in Smscs, ReceiveSubmit(s, smsc)
      PROVE  CodecInv'
    <2>1. /\ sms' = s /\ rpdu' = HandsetRpdu(s, smsc) /\ DataOctets(s) <= 140
          /\ stage = "idle" /\ stage' = "received" /\ submit' = submit /\ delivered' = delivered
        BY <1>2, Zenon DEF ReceiveSubmit
    <2>2. submit' = None /\ delivered' = None
        BY <2>1 DEF CodecInv
    <2>3. OnTheWire'
        BY <2>1, Zenon DEF OnTheWire
    <2>4. QED
        BY <2>1, <2>2, <2>3 DEF CodecInv
<1>3. ASSUME NEW t \in Texts, ReceiveText(t)
      PROVE  CodecInv'
    BY <1>3 DEF ReceiveText, CodecInv
<1>4. ASSUME Parse
      PROVE  CodecInv'
    <2>1. /\ stage = "received" /\ stage' = "parsed"
          /\ sms' = sms /\ rpdu' = rpdu /\ delivered' = delivered
          /\ submit' = IF decodeRPData(rpdu).ok THEN parseTPDU(decodeRPData(rpdu).tpdu) ELSE None
        BY <1>4, Zenon DEF Parse
    <2>2. OnTheWire /\ delivered = None
        BY <2>1 DEF CodecInv
    <2>3. sms \in Sms /\ DataOctets(sms) <= 140 /\ \E c \in Smscs : rpdu = HandsetRpdu(sms, c)
        BY <2>2, Zenon DEF OnTheWire
    <2>4. PICK c \in Smscs : rpdu = HandsetRpdu(sms, c)
        BY <2>3
    <2>5. sms.vpf \in {0, 2} /\ Fits(c)
        BY <2>3, SmsFacts, ConfiguredFits DEF PlainPeriods
    <2>6. Relayed(rpdu, NoNumber, c, HandsetTpdu(sms))
        BY <2>3, <2>4, <2>5, HandsetRpduRead, Zenon
    <2>7. decodeRPData(rpdu).ok /\ decodeRPData(rpdu).tpdu = HandsetTpdu(sms)
        BY <2>6 DEF Relayed, decodeRPData
    <2>8. submit' = SubmitOf(sms)
        BY <2>1, <2>3, <2>5, <2>7, SubmitParsed, Zenon
    <2>9. OnTheWire'
        BY <2>1, <2>3, Zenon DEF OnTheWire
    <2>10. QED
        BY <2>1, <2>2, <2>8, <2>9 DEF CodecInv
<1>5. ASSUME NEW from \in FromNumbers, NEW smsc \in Smscs, NEW time \in Times,
             recode_tpdu(from, smsc, time)
      PROVE  CodecInv'
    <2>1. /\ stage = "parsed"
          /\ create_sms_delivery(get_text, submit.ud, submit.pi, from, smsc, time)
        BY <1>5, Zenon DEF recode_tpdu
    <2>2. submit = SubmitOf(sms) /\ OnTheWire
        BY <2>1 DEF CodecInv
    <2>3. sms \in Sms /\ DataOctets(sms) <= 140 /\ submit.ud = DataOf(sms)
        BY <2>2 DEF OnTheWire, SubmitOf
    <2>4. sms.text \in Texts /\ sms.text \in Seq(1..255)
        BY <2>3, SmsFacts, Zenon
    <2>5. get_text \in Seq(1..255)
        <3>1. TLUserData_decode(submit.ud) = IF Septets(sms) THEN sms.text ELSE None
            BY <2>3, <2>4, TextDecoded, Zenon DEF PlainTexts
        <3>2. <<>> \in Seq(1..255)
            OBVIOUS
        <3>3. QED
            BY <2>4, <3>1, <3>2, Zenon DEF get_text
    <2>6. PICK e \in Nat : DataIn(submit.ud, sms, e)
        BY <2>3, HeaderFacts, Zenon DEF DataIn
    <2>7. submit.ud \in UserData
        BY <2>6, DataDelivered, Zenon
    <2>8. /\ rpdu' = RPData_write(delivered') /\ delivered' \in Delivery
          /\ delivered'.from = from /\ delivered'.smsc = smsc /\ delivered'.ud = submit.ud
          /\ stage' = "packed" /\ sms' = sms /\ submit' = submit
        BY <2>1, <2>5, <2>7, Delivered, Zenon
    <2>9. submit # None
        BY <2>2, <2>3, SubmitIs, Zenon
    <2>10. Packed(e)'
        BY <2>2, <2>6, <2>8, <2>9, Zenon DEF Packed
    <2>11. QED
        BY <2>8, <2>10 DEF CodecInv
<1>6. ASSUME NEW from \in FromNumbers, NEW smsc \in Smscs, NEW time \in Times,
             pack_text_to_tpdu(from, smsc, time)
      PROVE  CodecInv'
    <2>1. /\ stage = "text"
          /\ create_sms_delivery(sms.text, TLUserData_encode7bit(sms.text), 0, from, smsc, time)
        BY <1>6, Zenon DEF pack_text_to_tpdu
    <2>2. PICK t \in Texts : sms = [text |-> t]
        BY <2>1 DEF CodecInv
    <2>3. sms.text = t /\ t \in Seq(1..255) /\ submit = None
        BY <2>1, <2>2, TextsAre DEF CodecInv
    <2>4. PICK e \in Nat : TextIn(TLUserData_encode7bit(sms.text), sms.text, e)
        <3>1. PICK n \in Nat : n = Len(t)
            BY <2>3
        <3>2. (n * 7 + 7) \div 8 \in Nat
            OBVIOUS
        <3>3. QED
            BY <2>3, <3>1, <3>2, Zenon DEF TextIn
    <2>5. TLUserData_encode7bit(sms.text) \in UserData
        BY <2>4, TextDelivered, Zenon
    <2>6. /\ rpdu' = RPData_write(delivered') /\ delivered' \in Delivery
          /\ delivered'.from = from /\ delivered'.smsc = smsc
          /\ delivered'.ud = TLUserData_encode7bit(sms.text)
          /\ stage' = "packed" /\ sms' = sms /\ submit' = submit
        BY <2>1, <2>3, <2>5, Delivered, Zenon
    <2>7. Packed(e)'
        BY <2>2, <2>3, <2>4, <2>6, Zenon DEF Packed
    <2>8. QED
        BY <2>6, <2>7 DEF CodecInv
<1>7. ASSUME Sent
      PROVE  CodecInv'
    BY <1>7 DEF Sent, CodecInv
<1>8. QED
    BY <1>1, <1>2, <1>3, <1>4, <1>5, <1>6, <1>7, Zenon DEF Next

\* What the invariant says of a frame from a handset.
LEMMA OnTheWireRead ==
    ASSUME PlainPeriods, OnTheWire
    PROVE  rpdu \in Bits /\ Len(rpdu) % 8 = 0
<1>1. sms \in Sms /\ DataOctets(sms) <= 140 /\ \E c \in Smscs : rpdu = HandsetRpdu(sms, c)
    BY Zenon DEF OnTheWire
<1>2. PICK c \in Smscs : rpdu = HandsetRpdu(sms, c)
    BY <1>1
<1>3. sms.vpf \in {0, 2} /\ Fits(c)
    BY <1>1, SmsFacts, ConfiguredFits DEF PlainPeriods
<1>4. QED
    BY <1>1, <1>2, <1>3, HandsetRpduRead, Zenon

\* And of one that is packed.
LEMMA PackedIs ==
    ASSUME NEW e \in Nat, Packed(e)
    PROVE  Deliverable(delivered, e)
<1>1. /\ delivered.reference \in Nat /\ delivered.time \in Times /\ delivered.pid \in Nat
    <2>1. delivered \in Delivery
        BY Zenon DEF Packed
    <2>2. QED
        BY <2>1 DEF Delivery
<1>2. Fits(delivered.from) /\ Fits(delivered.smsc)
    BY ConfiguredFits, Zenon DEF Packed
<1>3. /\ delivered.ud.dcs \in Nat /\ delivered.ud.udhi \in BOOLEAN /\ delivered.ud.length \in Nat
      /\ delivered.ud.raw \in Bits /\ Len(delivered.ud.raw) = 8 * e
    <2>1. CASE submit = None
        <3>1. TextIn(delivered.ud, sms.text, e)
            BY <2>1, Zenon DEF Packed
        <3>2. PICK u, t : u = delivered.ud /\ t = sms.text
            OBVIOUS
        <3>3. TextIn(u, t, e)
            BY <3>1, <3>2, Zenon
        <3>4. /\ u.dcs = 0 /\ u.udhi \in BOOLEAN /\ u.length = Len(t) /\ Len(t) \in Nat
              /\ u.raw \in Bits /\ Len(u.raw) = 8 * e
            BY <3>3, TextDelivered
        <3>5. 0 \in Nat
            OBVIOUS
        <3>6. QED
            BY <3>2, <3>4, <3>5, Zenon
    <2>2. CASE submit # None
        <3>1. DataIn(delivered.ud, sms, e)
            BY <2>2, Zenon DEF Packed
        <3>2. \A x \in 0..255 : x \in Nat
            OBVIOUS
        <3>3. QED
            BY <3>1, <3>2, DataDelivered, ZenonT(60)
    <2>3. QED
        BY <2>1, <2>2, Zenon
<1>4. QED
    BY <1>1, <1>2, <1>3, Zenon DEF Deliverable

\* With a length octet that counts the characters, what is packed is short.
LEMMA PackedFits ==
    ASSUME ShortTexts, NEW e \in Nat, Packed(e)
    PROVE  e <= 224 /\ e <= 232
<1>1. CASE submit = None
    <2>1. sms.text \in Seq(1..255) /\ Len(sms.text) <= 255 /\ e = (Len(sms.text) * 7 + 7) \div 8
        BY <1>1, Zenon DEF Packed, TextIn, ShortTexts
    <2>2. PICK n \in Nat : n = Len(sms.text)
        BY <2>1
    <2>3. n <= 255 /\ e = (n * 7 + 7) \div 8
        BY <2>1, <2>2, Zenon
    <2>4. QED
        BY <2>3
<1>2. CASE submit # None
    <2>1. DataIn(delivered.ud, sms, e)
        BY <1>2, Zenon DEF Packed
    <2>2. e <= 140
        BY <2>1, DataDelivered, Zenon
    <2>3. QED
        BY <2>2
<1>3. QED
    BY <1>1, <1>2

\* The coding scheme and the length fit their octets.
LEMMA PackedLengths ==
    ASSUME ShortTexts, NEW e \in Nat, Packed(e)
    PROVE  delivered.ud.dcs \in 0..255 /\ delivered.ud.length \in 0..255
<1>1. CASE submit = None
    <2>1. /\ delivered.ud = TLUserData_encode7bit(sms.text)
          /\ sms.text \in Seq(1..255) /\ Len(sms.text) <= 255
        BY <1>1, Zenon DEF Packed, TextIn, ShortTexts
    <2>2. delivered.ud.dcs = 0 /\ delivered.ud.length = Len(sms.text)
        BY <2>1 DEF TLUserData_encode7bit
    <2>3. PICK n \in Nat : n = Len(sms.text)
        BY <2>1
    <2>4. n <= 255
        BY <2>1, <2>3, Zenon
    <2>5. n \in 0..255 /\ 0 \in 0..255
        BY <2>4
    <2>6. QED
        BY <2>2, <2>3, <2>5, Zenon
<1>2. CASE submit # None
    <2>1. DataIn(delivered.ud, sms, e)
        BY <1>2, Zenon DEF Packed
    <2>2. /\ delivered.ud.dcs \in 0..255
          /\ delivered.ud.length \in Nat /\ delivered.ud.length <= 160
        BY <2>1, DataDelivered, ZenonT(60)
    <2>3. \A x \in Nat : x <= 160 => x \in 0..255
        OBVIOUS
    <2>4. QED
        BY <2>2, <2>3, Zenon
<1>3. QED
    BY <1>1, <1>2

-----------------------------------------------------------------------------
(* The theorems.                                                           *)

\* The frame, the parsed SUBMIT and the delivery go together at every stage of
\* short_msg::parse(), recode_tpdu() and pack_text_to_tpdu().
THEOREM CodecInvariant ==
    ASSUME PlainPeriods, PlainTexts
    PROVE  Spec => []CodecInv
<1>1. Init => CodecInv
    BY CodecInvInit
<1>2. CodecInv /\ [Next]_vars => CodecInv'
    BY CodecInvNext
<1>3. QED
    BY <1>1, <1>2, PTL DEF Spec

\* Each frame is whole octets, and there is a delivery just when it is packed.
THEOREM CodecTypes ==
    ASSUME PlainPeriods, PlainTexts
    PROVE  Spec => []TypeOK
<1>1. CodecInv => TypeOK
    <2> SUFFICES ASSUME CodecInv PROVE TypeOK
        OBVIOUS
    <2>1. stage \in {"idle", "received", "text", "parsed", "packed"}
        BY DEF CodecInv
    <2>2. submit # None => stage \in {"parsed", "packed"}
        BY <2>1 DEF CodecInv
    <2>3. delivered # None <=> stage = "packed"
        <3>1. stage = "packed" => delivered \in Delivery
            BY Zenon DEF CodecInv, Packed
        <3>2. stage # "packed" => delivered = None
            BY <2>1 DEF CodecInv
        <3>3. QED
            BY <3>1, <3>2, NoneAssumption, Zenon
    <2>4. rpdu \in Bits /\ Len(rpdu) % 8 = 0
        <3>1. CASE stage \in {"idle", "text"}
            <4>1. rpdu = <<>>
                BY <3>1 DEF CodecInv
            <4>2. <<>> \in Bits /\ Len(<<>>) % 8 = 0
                BY DEF Bits
            <4>3. QED
                BY <4>1, <4>2, Zenon
        <3>2. CASE stage \in {"received", "parsed"}
            BY <3>2, OnTheWireRead DEF CodecInv
        <3>3. CASE stage = "packed"
            <4>1. PICK e \in Nat : Packed(e)
                BY <3>3, Zenon DEF CodecInv
            <4>2. Deliverable(delivered, e) /\ rpdu = RPData_write(delivered)
                BY <4>1, PackedIs, Zenon DEF Packed
            <4>3. QED
                BY <4>2, FrameIs, Zenon
        <3>4. QED
            BY <2>1, <3>1, <3>2, <3>3
    <2>5. QED
        BY <2>1, <2>2, <2>3, <2>4, Zenon DEF TypeOK, Bits
<1>2. Spec => []CodecInv
    BY CodecInvariant
<1>3. QED
    BY <1>1, <1>2, PTL

\* short_msg::parse() reads the number, the TP-PID and the text that the handset
\* sent, whatever lies in front of them: a relative validity period or none, a
\* user-data header or none, and the packing of the septets.
THEOREM SubmitsUnderstood ==
    ASSUME PlainPeriods, PlainTexts
    PROVE  Spec => []SubmitUnderstood
<1>1. CodecInv => SubmitUnderstood
    <2> SUFFICES ASSUME CodecInv, stage = "parsed"
                 PROVE  /\ submit # None /\ submit.to = sms.to /\ submit.pi = sms.pi
                        /\ TLUserData_decode(submit.ud)
                             = IF Septets(sms) THEN sms.text ELSE None
        BY DEF SubmitUnderstood
    <2>1. submit = SubmitOf(sms) /\ sms \in Sms /\ DataOctets(sms) <= 140
        BY DEF CodecInv, OnTheWire
    <2>2. submit # None
        BY <2>1, SubmitIs, Zenon
    <2>3. submit.to = sms.to /\ submit.pi = sms.pi /\ submit.ud = DataOf(sms)
        BY <2>1 DEF SubmitOf
    <2>4. InAlphabet(sms.text)
        BY <2>1, SmsFacts, Zenon DEF PlainTexts
    <2>5. TLUserData_decode(submit.ud) = IF Septets(sms) THEN sms.text ELSE None
        BY <2>1, <2>3, <2>4, TextDecoded, Zenon
    <2>6. QED
        BY <2>2, <2>3, <2>5, Zenon
<1>2. Spec => []CodecInv
    BY CodecInvariant
<1>3. QED
    BY <1>1, <1>2, PTL

\* RPData::write() fills exactly the bits that the length() functions announced,
\* and the addresses and the TPDU are found again at the lengths it wrote.
THEOREM FramesFilled ==
    ASSUME PlainPeriods, PlainTexts, ShortTexts
    PROVE  Spec => []FrameFilled
<1>1. CodecInv => FrameFilled
    <2> SUFFICES ASSUME CodecInv, stage = "packed"
                 PROVE  /\ Len(rpdu) = RPData_bitsNeeded(delivered)
                        /\ RPData_parse(rpdu)
                             = [ok |-> TRUE, originator |-> delivered.smsc,
                                destination |-> NoNumber,
                                tpdu |-> TLDeliver_write(delivered)]
        BY DEF FrameFilled
    <2>1. PICK e \in Nat : Packed(e)
        BY Zenon DEF CodecInv
    <2>2. Deliverable(delivered, e) /\ rpdu = RPData_write(delivered)
        BY <2>1, PackedIs, Zenon DEF Packed
    <2>3. e <= 232
        BY <2>1, PackedFits
    <2>4. /\ Len(rpdu) = RPData_bitsNeeded(delivered)
          /\ Relayed(rpdu, delivered.smsc, NoNumber, TLDeliver_write(delivered))
        BY <2>2, <2>3, FrameIs, Zenon
    <2>5. QED
        BY <2>4, Zenon DEF Relayed
<1>2. Spec => []CodecInv
    BY CodecInvariant
<1>3. QED
    BY <1>1, <1>2, PTL

\* The handset that gets the SMS-DELIVER of create_sms_delivery() reads the
\* sender's number, the time, the zone and the user data: bit for bit that of the
\* SUBMIT, or the text of the text/plain message.
THEOREM DeliveriesUnderstood ==
    ASSUME PlainPeriods, PlainTexts, ShortTexts, NationalSenders
    PROVE  Spec => []DeliverUnderstood
<1>1. CodecInv => DeliverUnderstood
    <2> DEFINE d == delivered
               r == HandsetRead(rpdu)
    <2> SUFFICES ASSUME CodecInv, stage = "packed"
                 PROVE  /\ r.rpType = 1 /\ r.first = (IF d.ud.udhi THEN 68 ELSE 4)
                        /\ r.from = d.from
                        /\ r.pid = d.pid % 256
                        /\ r.time = <<d.time.year % 100, d.time.month, d.time.day,
                                      d.time.hour, d.time.min, d.time.sec>>
                        /\ 900 * r.zone = d.time.gmtoff
                        /\ IF submit = None THEN r.dcs = 0 /\ HandsetText(r) = sms.text
                           ELSE /\ r.dcs = sms.dcs /\ d.ud.udhi = (sms.header > 0)
                                /\ r.length = DataLength(sms) /\ r.data = HandsetData(sms)
        BY DEF DeliverUnderstood
    <2>1. PICK e \in Nat : Packed(e)
        BY Zenon DEF CodecInv
    <2>2. Deliverable(d, e) /\ rpdu = RPData_write(d)
        BY <2>1, PackedIs, Zenon DEF Packed
    <2>3. ~d.from.plus
        BY <2>1, Zenon DEF Packed, NationalSenders
    <2>4. d.ud.dcs \in 0..255 /\ d.ud.length \in 0..255
        BY <2>1, PackedLengths, Zenon
    <2>5. /\ r.rpType = 1 /\ r.first = (IF d.ud.udhi THEN 68 ELSE 4)
          /\ r.from = d.from /\ r.pid = d.pid % 256 /\ r.dcs = d.ud.dcs
          /\ r.time = <<d.time.year % 100, d.time.month, d.time.day,
                        d.time.hour, d.time.min, d.time.sec>>
          /\ 900 * r.zone = d.time.gmtoff
          /\ r.length = d.ud.length /\ r.data = LSB8MSB(d.ud.raw)
        BY <2>2, <2>3, <2>4, DeliverRead, SMTT(60)
    <2> HIDE DEF r, d
    <2>6. CASE submit = None
        <3>1. TextIn(d.ud, sms.text, e) /\ sms.text \in Texts
            BY <2>1, <2>6, Zenon DEF Packed, d
        <3>2. d.ud = TLUserData_encode7bit(sms.text) /\ InAlphabet(sms.text)
            BY <3>1, Zenon DEF TextIn, PlainTexts
        <3>3. d.ud.dcs = 0 /\ d.ud.length = Len(sms.text)
            BY <3>2 DEF TLUserData_encode7bit
        <3>4. TextIn(TLUserData_encode7bit(sms.text), sms.text, e)
            BY <3>1, <3>2, Zenon
        <3>5. HandsetText(r) = sms.text
            <4>1. PICK s, t : s = r /\ t = sms.text
                OBVIOUS
            <4>2. /\ s.length = Len(t) /\ s.data = LSB8MSB(TLUserData_encode7bit(t).raw)
                  /\ TextIn(TLUserData_encode7bit(t), t, e) /\ InAlphabet(t)
                BY <2>5, <3>2, <3>3, <3>4, <4>1, ZenonT(60)
            <4>3. HandsetText(s) = t
                BY <4>2, TextShown, Zenon
            <4>4. QED
                BY <4>1, <4>3, Zenon
        <3>6. QED
            BY <2>5, <2>6, <3>3, <3>5, ZenonT(60)
    <2>7. CASE submit # None
        <3>1. DataIn(d.ud, sms, e)
            BY <2>1, <2>7, Zenon DEF Packed, d
        <3>2. sms \in Sms /\ d.ud = DataOf(sms)
            BY <3>1, Zenon DEF DataIn
        <3>3. /\ d.ud.dcs = sms.dcs /\ d.ud.udhi = (sms.header > 0)
              /\ d.ud.length = DataLength(sms) /\ d.ud.raw = LSB8MSB(HandsetData(sms))
            BY <3>2 DEF DataOf
        <3>4. LSB8MSB(d.ud.raw) = HandsetData(sms)
            BY <3>2, <3>3, HandsetDataIs, Zenon
        <3>5. QED
            BY <2>5, <2>7, <3>3, <3>4, Zenon
    <2>8. QED
        BY <2>6, <2>7, Zenon
<1>2. Spec => []CodecInv
    BY CodecInvariant
<1>3. QED
    BY <1>1, <1>2, PTL

=============================================================================
