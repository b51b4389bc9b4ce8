------------------------------ MODULE SmqLists ------------------------------
(***************************************************************************)
(* Lemmas about the operations on std::list that the models use (insert,   *)
(* erase, splice at the front and the searches from the front) and about   *)
(* loops over a sequence.                                                  *)
(***************************************************************************)
EXTENDS Integers, Sequences, SequencesExt, SequenceTheorems, WellFoundedInduction, TLAPS

-----------------------------------------------------------------------------
(* The first of several.                                                   *)

\* A non-empty set of natural numbers has a least element, so that Min, which
\* the searches of the list are written with, picks that one.
LEMMA MinIsLeast ==
    ASSUME NEW S \in SUBSET Nat, S # {}
    PROVE  Min(S) \in S /\ \A y \in S : Min(S) <= y
<1> DEFINE R == {p \in Nat \X Nat : p[1] < p[2]}
<1>1. OpToRel(<, Nat) = R
    BY Zenon DEF OpToRel
<1>2. IsWellFoundedOn(R, Nat)
    BY <1>1, NatLessThanWellFounded, Zenon
<1>3. \E x \in S : \A y \in S : ~(<<y, x>> \in R)
    <2> HIDE DEF R
    <2> QED BY <1>2, WFMin, Zenon
<1>4. PICK x \in S : \A y \in S : ~(<<y, x>> \in R)
    BY <1>3
<1>5. ASSUME NEW y \in S PROVE x <= y
    <2>1. x \in Nat /\ y \in Nat
        OBVIOUS
    <2>2. CASE y < x
        <3>1. <<y, x>> \in Nat \X Nat /\ <<y, x>>[1] = y /\ <<y, x>>[2] = x
            BY <2>1
        <3>2. <<y, x>> \in R
            BY <3>1, <2>2, Zenon
        <3>3. QED
            BY <3>2, <1>4
    <2>3. QED
        BY <2>1, <2>2
<1>6. QED
    BY <1>5 DEF Min

\* The least element of a set is one of it.
LEMMA MinIsMember ==
    ASSUME NEW S \in SUBSET Nat, S # {}
    PROVE  Min(S) \in S
BY MinIsLeast

\* So is the greatest, where there is one.
LEMMA MaxIsMember ==
    ASSUME NEW n \in Nat, NEW S \in SUBSET (0..n), S # {}
    PROVE  Max(S) \in S
<1> DEFINE T == {n - x : x \in S}
<1>1. T \in SUBSET Nat /\ T # {}
    <2>1. \A x \in S : n - x \in Nat
        OBVIOUS
    <2>2. QED
        BY <2>1
<1>2. Min(T) \in T /\ \A y \in T : Min(T) <= y
    BY <1>1, MinIsLeast
<1>3. PICK x \in S : Min(T) = n - x
    BY <1>2
<1>4. \A y \in S : n - y \in T
    OBVIOUS
<1>5. \A y \in S : n - x <= n - y
    BY <1>2, <1>3, <1>4
<1> HIDE DEF T
<1>6. \A y \in S : x >= y
    BY <1>5
<1>7. QED
    BY <1>6, Zenon DEF Max

-----------------------------------------------------------------------------
(* Loops.                                                                  *)

\* What holds before a loop and is kept by each of its steps holds throughout;
\* P is the set of steps after which it does.
LEMMA LoopInduction ==
    ASSUME NEW N \in Nat, NEW P, 0 \in P, \A n \in 1..N : n - 1 \in P => n \in P
    PROVE  0..N \subseteq P
<1> DEFINE S == {n \in 0..N : n \notin P}
<1>1. SUFFICES ASSUME S # {} PROVE FALSE
    OBVIOUS
<1>2. S \in SUBSET Nat
    OBVIOUS
<1> DEFINE m == Min(S)
<1>3. m \in S /\ \A y \in S : m <= y
    BY <1>1, <1>2, MinIsLeast
<1> HIDE DEF m
<1>4. m \in 1..N /\ m - 1 \in 0..N /\ m - 1 \notin S
    BY <1>3
<1>5. QED
    BY <1>3, <1>4

\* What a loop of N steps has before it and after each step.
LoopValues(g, N, S, base, step) ==
    /\ g \in [0..N -> S]
    /\ g[0] = base
    /\ \A n \in 1..N : g[n] = step[<<n, g[n - 1]>>]

\* The function that a definition f[n \in 0..N] == IF n = 0 THEN ... ELSE ...
\* asks for exists.
LEMMA LoopExists ==
    ASSUME NEW N \in Nat, NEW S, NEW base \in S, NEW step \in [(1..N) \X S -> S]
    PROVE  \E g : LoopValues(g, N, S, base, step)
<1> DEFINE Ran(m) == {g \in [0..m -> S] : g[0] = base /\ \A n \in 1..m : g[n] = step[<<n, g[n - 1]>>]}
           P == {m \in 0..N : Ran(m) # {}}
<1>1. 0 \in P
    <2>1. [i \in 0..0 |-> base] \in Ran(0)
        OBVIOUS
    <2> HIDE DEF Ran
    <2>2. QED
        BY <2>1
<1>2. ASSUME NEW n \in 1..N, n - 1 \in P PROVE n \in P
    <2>1. PICK g \in [0..(n - 1) -> S] :
             g[0] = base /\ \A i \in 1..(n - 1) : g[i] = step[<<i, g[i - 1]>>]
        BY <1>2
    <2>2. g[n - 1] \in S /\ step[<<n, g[n - 1]>>] \in S
        BY <2>1
    <2> DEFINE h == [i \in 0..n |-> IF i = n THEN step[<<n, g[n - 1]>>] ELSE g[i]]
    <2>3. h \in [0..n -> S] /\ h[0] = base
        BY <2>1, <2>2
    <2>4. ASSUME NEW i \in 1..n PROVE h[i] = step[<<i, h[i - 1]>>]
        <3>1. h[i - 1] = g[i - 1] /\ i \in 0..n
            OBVIOUS
        <3>2. h[i] = IF i = n THEN step[<<n, g[n - 1]>>] ELSE g[i]
            BY <3>1
        <3>3. CASE i = n
            BY <3>1, <3>2, <3>3
        <3>4. CASE i # n
            BY <2>1, <3>1, <3>2, <3>4
        <3>5. QED
            BY <3>3, <3>4
    <2>5. h \in Ran(n)
        BY <2>3, <2>4
    <2> HIDE DEF Ran
    <2>6. QED
        BY <2>5
<1> HIDE DEF P
<1>3. 0..N \subseteq P
    BY <1>1, <1>2, LoopInduction
<1>4. N \in P
    BY <1>3
<1>5. Ran(N) # {}
    BY <1>4 DEF P
<1>6. PICK g : g \in Ran(N)
    BY <1>5
<1>7. LoopValues(g, N, S, base, step)
    BY <1>6 DEF LoopValues
<1>8. QED
    BY <1>7

-----------------------------------------------------------------------------
(* What an operation leaves at which place.                                *)

\* insert: what was at or behind the place moves back by one.
LEMMA InsertAtProperties ==
    ASSUME NEW S, NEW q \in Seq(S), NEW i \in 1..(Len(q) + 1), NEW e \in S
    PROVE  /\ InsertAt(q, i, e) \in Seq(S)
           /\ Len(InsertAt(q, i, e)) = Len(q) + 1
           /\ \A j \in 1..(Len(q) + 1) :
                InsertAt(q, i, e)[j] = IF j < i THEN q[j] ELSE IF j = i THEN e ELSE q[j - 1]
<1> DEFINE a == SubSeq(q, 1, i - 1)
           b == SubSeq(q, i, Len(q))
<1>1. Len(q) \in Nat /\ \A j \in 1..Len(q) : q[j] \in S
    BY LenProperties, ElementOfSeq
<1>2. /\ a \in Seq(S) /\ Len(a) = i - 1
      /\ \A j \in 1..(i - 1) : a[j] = q[j]
    BY <1>1, SubSeqProperties
<1>3. /\ b \in Seq(S) /\ Len(b) = Len(q) - i + 1
      /\ \A j \in 1..(Len(q) - i + 1) : b[j] = q[i + j - 1]
    BY <1>1, SubSeqProperties
<1>4. <<e>> \in Seq(S) /\ Len(<<e>>) = 1 /\ <<e>>[1] = e
    OBVIOUS
<1>5. InsertAt(q, i, e) = (a \o <<e>>) \o b
    BY DEF InsertAt
<1> HIDE DEF a, b
<1>6. /\ a \o <<e>> \in Seq(S) /\ Len(a \o <<e>>) = i
      /\ \A j \in 1..i : (a \o <<e>>)[j] = IF j < i THEN q[j] ELSE e
    BY <1>1, <1>2, <1>4, ConcatProperties
<1> DEFINE c == a \o <<e>>
<1>7. InsertAt(q, i, e) = c \o b
    BY <1>5
<1>8. c \in Seq(S) /\ Len(c) = i /\ \A j \in 1..i : c[j] = IF j < i THEN q[j] ELSE e
    BY <1>6
<1> HIDE DEF c
<1>9. /\ c \o b \in Seq(S) /\ Len(c \o b) = Len(c) + Len(b)
      /\ \A j \in 1..(Len(c) + Len(b)) : (c \o b)[j] = IF j <= Len(c) THEN c[j] ELSE b[j - Len(c)]
    BY <1>3, <1>8, ConcatProperties
<1>10. Len(c) + Len(b) = Len(q) + 1
    BY <1>1, <1>3, <1>8
<1>11. ASSUME NEW j \in 1..(Len(q) + 1)
       PROVE  (c \o b)[j] = IF j < i THEN q[j] ELSE IF j = i THEN e ELSE q[j - 1]
    <2>1. CASE j <= i
        BY <1>1, <1>8, <1>9, <1>10, <2>1
    <2>2. CASE j > i
        <3>1. j - i \in 1..(Len(q) - i + 1) /\ i + (j - i) - 1 = j - 1
            BY <1>1, <2>2
        <3>2. (c \o b)[j] = b[j - i]
            BY <1>1, <1>8, <1>9, <1>10, <2>2
        <3>3. b[j - i] = q[j - 1]
            BY <1>3, <3>1
        <3>4. QED
            BY <1>1, <2>2, <3>2, <3>3
    <2>3. j <= i \/ j > i
        BY <1>1
    <2>4. QED
        BY <2>1, <2>2, <2>3, Zenon
<1>12. QED
    BY <1>7, <1>9, <1>10, <1>11

\* erase: what was behind the place moves up by one.
LEMMA RemoveAtProperties ==
    ASSUME NEW S, NEW q \in Seq(S), NEW i \in 1..Len(q)
    PROVE  /\ RemoveAt(q, i) \in Seq(S)
           /\ Len(RemoveAt(q, i)) = Len(q) - 1
           /\ \A j \in 1..(Len(q) - 1) :
                RemoveAt(q, i)[j] = IF j < i THEN q[j] ELSE q[j + 1]
<1> DEFINE a == SubSeq(q, 1, i - 1)
           b == SubSeq(q, i + 1, Len(q))
<1>1. Len(q) \in Nat /\ \A j \in 1..Len(q) : q[j] \in S
    BY LenProperties, ElementOfSeq
<1>2. /\ a \in Seq(S) /\ Len(a) = i - 1
      /\ \A j \in 1..(i - 1) : a[j] = q[j]
    BY <1>1, SubSeqProperties
<1>3. /\ b \in Seq(S) /\ Len(b) = Len(q) - i
      /\ \A j \in 1..(Len(q) - i) : b[j] = q[i + j]
    BY <1>1, SubSeqProperties
<1>4. RemoveAt(q, i) = a \o b
    BY DEF RemoveAt
<1> HIDE DEF a, b
<1>5. /\ a \o b \in Seq(S) /\ Len(a \o b) = Len(q) - 1
      /\ \A j \in 1..(Len(q) - 1) : (a \o b)[j] = IF j <= i - 1 THEN a[j] ELSE b[j - (i - 1)]
    <2>1. /\ a \o b \in Seq(S) /\ Len(a \o b) = Len(a) + Len(b)
          /\ \A j \in 1..(Len(a) + Len(b)) : (a \o b)[j] = IF j <= Len(a) THEN a[j] ELSE b[j - Len(a)]
        BY <1>2, <1>3, ConcatProperties
    <2>2. Len(a) = i - 1 /\ Len(a) + Len(b) = Len(q) - 1
        BY <1>1, <1>2, <1>3
    <2>3. QED
        BY <2>1, <2>2
<1>6. ASSUME NEW j \in 1..(Len(q) - 1)
      PROVE  (a \o b)[j] = IF j < i THEN q[j] ELSE q[j + 1]
    <2>1. CASE j < i
        BY <1>1, <1>2, <1>5, <2>1
    <2>2. CASE j >= i
        <3>1. j - (i - 1) \in 1..(Len(q) - i) /\ i + (j - (i - 1)) = j + 1
            BY <1>1, <2>2
        <3>2. b[j - (i - 1)] = q[j + 1]
            BY <1>3, <3>1
        <3>3. QED
            BY <1>1, <1>5, <2>2, <3>2
    <2>3. j < i \/ j >= i
        BY <1>1
    <2>4. QED
        BY <2>1, <2>2, <2>3
<1>7. QED
    BY <1>4, <1>5, <1>6

\* splice at the front.
LEMMA ConsProperties ==
    ASSUME NEW S, NEW q \in Seq(S), NEW e \in S
    PROVE  /\ Cons(e, q) \in Seq(S)
           /\ Len(Cons(e, q)) = Len(q) + 1
           /\ \A j \in 1..(Len(q) + 1) : Cons(e, q)[j] = IF j = 1 THEN e ELSE q[j - 1]
<1>1. Len(q) \in Nat
    BY LenProperties
<1>2. <<e>> \in Seq(S) /\ Len(<<e>>) = 1 /\ <<e>>[1] = e
    OBVIOUS
<1>3. QED
    BY <1>1, <1>2, ConcatProperties DEF Cons

\* The same, where only the type of the list is needed.
LEMMA InsertAtInSeq ==
    ASSUME NEW S, NEW q \in Seq(S), NEW i \in 1..(Len(q) + 1), NEW e \in S
    PROVE  InsertAt(q, i, e) \in Seq(S)
BY InsertAtProperties

\* A list without one of its elements.
LEMMA RemoveAtInSeq ==
    ASSUME NEW S, NEW q \in Seq(S), NEW i \in 1..Len(q)
    PROVE  RemoveAt(q, i) \in Seq(S)
BY RemoveAtProperties

\* A list with one more in front.
LEMMA ConsInSeq ==
    ASSUME NEW S, NEW q \in Seq(S), NEW e \in S
    PROVE  Cons(e, q) \in Seq(S)
BY ConsProperties

-----------------------------------------------------------------------------
(* Lists in which nothing is twice.                                        *)

Distinct(q) == \A i, j \in 1..Len(q) : q[i] = q[j] => i = j

\* Inserting something new keeps the elements distinct.
LEMMA DistinctInsertAt ==
    ASSUME NEW S, NEW q \in Seq(S), NEW i \in 1..(Len(q) + 1), NEW e \in S
    PROVE  /\ Range(InsertAt(q, i, e)) = Range(q) \cup {e}
           /\ Distinct(q) /\ e \notin Range(q) => Distinct(InsertAt(q, i, e))
<1> DEFINE r == InsertAt(q, i, e)
<1>1. Len(q) \in Nat /\ i \in Nat /\ Range(q) = {q[j] : j \in 1..Len(q)}
    BY LenProperties, RangeEquality
<1> HIDE DEF r
<1>2. /\ r \in Seq(S) /\ Len(r) = Len(q) + 1
      /\ \A j \in 1..(Len(q) + 1) : r[j] = IF j < i THEN q[j] ELSE IF j = i THEN e ELSE q[j - 1]
    <2>1. r = InsertAt(q, i, e)
        BY DEF r
    <2>2. r \in Seq(S) /\ Len(r) = Len(q) + 1
        BY <2>1, InsertAtProperties
    <2>3. \A j \in 1..(Len(q) + 1) :
            InsertAt(q, i, e)[j] = IF j < i THEN q[j] ELSE IF j = i THEN e ELSE q[j - 1]
        BY InsertAtProperties
    <2>4. QED
        BY <2>1, <2>2, <2>3
<1>3. Range(r) = {r[j] : j \in 1..(Len(q) + 1)}
    BY <1>2, RangeEquality
<1>4. Range(r) \subseteq Range(q) \cup {e}
    <2>1. ASSUME NEW j \in 1..(Len(q) + 1)
          PROVE  r[j] \in Range(q) \cup {e}
        <3>1. j < i => j \in 1..Len(q)
            BY <1>1
        <3>2. j > i => j - 1 \in 1..Len(q)
            BY <1>1
        <3>3. r[j] = e \/ \E k \in 1..Len(q) : r[j] = q[k]
            BY <1>1, <1>2, <3>1, <3>2
        <3>4. QED
            BY <1>1, <3>3
    <2>2. QED
        BY <1>3, <2>1
<1>5. \A j \in 1..Len(q) : q[j] \in Range(r)
    <2> SUFFICES ASSUME NEW j \in 1..Len(q) PROVE q[j] \in Range(r)
        OBVIOUS
    <2>1. CASE j < i
        <3>1. j \in 1..(Len(q) + 1) /\ r[j] = q[j]
            BY <1>1, <1>2, <2>1
        <3>2. QED
            BY <1>3, <3>1
    <2>2. CASE j >= i
        <3>1. j + 1 \in 1..(Len(q) + 1) /\ r[j + 1] = q[j]
            BY <1>1, <1>2, <2>2
        <3>2. QED
            BY <1>3, <3>1
    <2>3. QED
        BY <1>1, <2>1, <2>2
<1>6. e \in Range(r)
    BY <1>1, <1>2, <1>3
<1>7. Range(r) = Range(q) \cup {e}
    BY <1>1, <1>4, <1>5, <1>6
<1>8. ASSUME Distinct(q), e \notin Range(q) PROVE Distinct(r)
    <2>1. \A j \in 1..Len(q) : q[j] # e
        BY <1>1, <1>8
    <2>2. SUFFICES ASSUME NEW j \in 1..(Len(q) + 1), NEW k \in 1..(Len(q) + 1), j < k
                   PROVE  r[j] # r[k]
        BY <1>1, <1>2 DEF Distinct
    <2> DEFINE was(h) == IF h < i THEN h ELSE h - 1
    <2>3. /\ j # i => was(j) \in 1..Len(q) /\ r[j] = q[was(j)]
          /\ k # i => was(k) \in 1..Len(q) /\ r[k] = q[was(k)]
        BY <1>1, <1>2
    <2>4. j # i /\ k # i => was(j) # was(k)
        BY <1>1, <2>2
    <2>5. r[i] = e
        BY <1>1, <1>2
    <2> HIDE DEF was
    <2>6. CASE j = i \/ k = i
        BY <2>1, <2>2, <2>3, <2>5, <2>6
    <2>7. CASE j # i /\ k # i
        BY <1>8, <2>3, <2>4, <2>7 DEF Distinct
    <2>8. QED
        BY <2>6, <2>7
<1>9. QED
    BY <1>7, <1>8 DEF r

\* So does putting it in front.
LEMMA DistinctCons ==
    ASSUME NEW S, NEW q \in Seq(S), NEW e \in S
    PROVE  /\ Range(Cons(e, q)) = Range(q) \cup {e}
           /\ Distinct(q) /\ e \notin Range(q) => Distinct(Cons(e, q))
<1>1. Len(q) \in Nat /\ Range(q) = {q[j] : j \in 1..Len(q)}
    BY LenProperties, RangeEquality
<1>2. <<e>> \in Seq(S) /\ Range(<<e>>) = {e}
    BY DEF Range
<1>3. Range(Cons(e, q)) = Range(q) \cup {e}
    <2> DEFINE p == <<e>>
    <2>1. p \in Seq(S) /\ Range(p) = {e}
        BY <1>2
    <2>2. Cons(e, q) = p \o q
        BY DEF Cons
    <2> HIDE DEF p
    <2>3. Range(p \o q) = Range(p) \cup Range(q)
        BY <2>1, RangeConcatenation
    <2>4. QED
        BY <2>1, <2>2, <2>3
<1>4. ASSUME Distinct(q), e \notin Range(q) PROVE Distinct(Cons(e, q))
    <2>1. \A j \in 1..Len(q) : q[j] # e
        BY <1>1, <1>4
    <2>2. /\ Cons(e, q) \in Seq(S)
          /\ Len(Cons(e, q)) = Len(q) + 1
          /\ \A j \in 1..(Len(q) + 1) : Cons(e, q)[j] = IF j = 1 THEN e ELSE q[j - 1]
        BY ConsProperties
    <2> DEFINE r == Cons(e, q)
    <2>3. /\ Len(r) = Len(q) + 1 /\ r[1] = e
          /\ \A j \in 1..Len(r) : j # 1 => j - 1 \in 1..Len(q) /\ r[j] = q[j - 1]
        BY <1>1, <2>2
    <2> HIDE DEF r
    <2>4. ASSUME NEW j \in 1..Len(r), NEW k \in 1..Len(r), r[j] = r[k]
          PROVE  j = k
        <3>1. CASE j = 1 \/ k = 1
            BY <2>1, <2>3, <2>4, <3>1
        <3>2. CASE j # 1 /\ k # 1
            <4>1. j - 1 \in 1..Len(q) /\ k - 1 \in 1..Len(q) /\ q[j - 1] = q[k - 1]
                BY <2>3, <2>4, <3>2
            <4>2. j - 1 = k - 1
                BY <1>4, <4>1 DEF Distinct
            <4>3. QED
                BY <1>1, <2>3, <4>2
        <3>3. QED
            BY <3>1, <3>2
    <2>5. QED
        BY <2>4 DEF Distinct, r
<1>5. QED
    BY <1>3, <1>4

\* What is behind the head of distinct elements is all but the head.
LEMMA DistinctTail ==
    ASSUME NEW S, NEW q \in Seq(S), q # <<>>, Distinct(q)
    PROVE  /\ Tail(q) \in Seq(S) /\ Head(q) \in S
           /\ Distinct(Tail(q))
           /\ Head(q) \in Range(q)
           /\ Range(Tail(q)) = Range(q) \ {Head(q)}
<1>1. /\ Tail(q) \in Seq(S) /\ Head(q) \in S /\ Len(Tail(q)) = Len(q) - 1
      /\ \A j \in 1..Len(Tail(q)) : Tail(q)[j] = q[j + 1]
    BY HeadTailProperties
<1>2. Len(q) \in Nat \ {0} /\ Head(q) = q[1]
    BY EmptySeq
<1>3. /\ Range(q) = {q[j] : j \in 1..Len(q)}
      /\ Range(Tail(q)) = {Tail(q)[j] : j \in 1..Len(Tail(q))}
    BY <1>1, RangeEquality
<1>4. Distinct(Tail(q))
    BY <1>1, <1>2 DEF Distinct
<1>5. \A j \in 1..Len(Tail(q)) : Tail(q)[j] \in Range(q) \ {Head(q)}
    BY <1>1, <1>2, <1>3 DEF Distinct
<1>6. ASSUME NEW j \in 1..Len(q), q[j] # Head(q) PROVE q[j] \in Range(Tail(q))
    <2>1. j - 1 \in 1..Len(Tail(q)) /\ Tail(q)[j - 1] = q[j]
        BY <1>1, <1>2, <1>6
    <2>2. QED
        BY <1>3, <2>1
<1>7. QED
    BY <1>1, <1>2, <1>3, <1>4, <1>5, <1>6

\* Erasing what is there once leaves the others.
LEMMA DistinctRemoveFirst ==
    ASSUME NEW S, NEW q \in Seq(S), NEW e, Distinct(q)
    PROVE  /\ RemoveFirst(q, e) \in Seq(S)
           /\ Distinct(RemoveFirst(q, e))
           /\ Range(RemoveFirst(q, e)) = Range(q) \ {e}
           /\ Len(RemoveFirst(q, e)) = IF e \in Range(q) THEN Len(q) - 1 ELSE Len(q)
<1> DEFINE r == RemoveFirst(q, e)
           I == {i \in 1..Len(q) : q[i] = e}
<1>1. Len(q) \in Nat /\ Range(q) = {q[j] : j \in 1..Len(q)}
    BY LenProperties, RangeEquality
<1>2. CASE I = {}
    <2>1. e \notin Range(q) /\ r = q
        BY <1>1, <1>2 DEF RemoveFirst
    <2>2. QED
        BY <2>1
<1>3. CASE I # {}
    <2>1. Min(I) \in I
        <3>1. I \in SUBSET Nat
            BY <1>1
        <3>2. QED
            BY <1>3, <3>1, MinIsMember
    <2>2. r = RemoveAt(q, Min(I))
        <3>1. \E i \in 1..Len(q) : q[i] = e
            BY <1>3
        <3>2. SelectInSeq(q, LAMBDA v : v = e) = Min(I)
            BY <1>3, Zenon DEF SelectInSeq
        <3>3. QED
            BY <3>1, <3>2, Zenon DEF RemoveFirst
    <2>3. PICK i \in 1..Len(q) : q[i] = e /\ r = RemoveAt(q, i)
        BY <2>1, <2>2
    <2>4. /\ r \in Seq(S) /\ Len(r) = Len(q) - 1
          /\ \A j \in 1..(Len(q) - 1) : r[j] = IF j < i THEN q[j] ELSE q[j + 1]
        BY <2>3, RemoveAtProperties
    <2> HIDE DEF r, I
    <2>5. Range(r) = {r[j] : j \in 1..(Len(q) - 1)}
        BY <2>4, RangeEquality
    <2>6. Distinct(r)
        BY <1>1, <2>4 DEF Distinct
    <2>7. \A j \in 1..(Len(q) - 1) : r[j] \in Range(q) \ {e}
        <3> SUFFICES ASSUME NEW j \in 1..(Len(q) - 1) PROVE r[j] \in Range(q) \ {e}
            OBVIOUS
        <3>1. CASE j < i
            BY <1>1, <2>3, <2>4, <3>1 DEF Distinct
        <3>2. CASE j >= i
            BY <1>1, <2>3, <2>4, <3>2 DEF Distinct
        <3>3. QED
            BY <1>1, <3>1, <3>2
    <2>8. ASSUME NEW j \in 1..Len(q), q[j] # e PROVE q[j] \in Range(r)
        <3>1. CASE j < i
            <4>1. j \in 1..(Len(q) - 1) /\ r[j] = q[j]
                BY <1>1, <2>4, <3>1
            <4>2. QED
                BY <2>5, <4>1
        <3>2. CASE j > i
            <4>1. j - 1 \in 1..(Len(q) - 1) /\ r[j - 1] = q[j]
                BY <1>1, <2>4, <3>2
            <4>2. QED
                BY <2>5, <4>1
        <3>3. QED
            BY <1>1, <2>3, <2>8, <3>1, <3>2
    <2>9. Range(r) = Range(q) \ {e}
        BY <1>1, <2>5, <2>7, <2>8
    <2>10. e \in Range(q)
        BY <1>1, <2>3
    <2>11. QED
        BY <2>4, <2>6, <2>9, <2>10 DEF r
<1>4. QED
    BY <1>2, <1>3

\* Reversing keeps the elements, and that they are distinct.
LEMMA DistinctReverse ==
    ASSUME NEW S, NEW q \in Seq(S)
    PROVE  /\ Reverse(q) \in Seq(S)
           /\ Range(Reverse(q)) = Range(q)
           /\ Distinct(q) => Distinct(Reverse(q))
<1>1. Len(q) \in Nat /\ Range(q) = {q[j] : j \in 1..Len(q)} /\ \A j \in 1..Len(q) : q[j] \in S
    BY LenProperties, RangeEquality, ElementOfSeq
<1>2. \A j \in 1..Len(q) : (Len(q) - j) + 1 \in 1..Len(q)
    BY <1>1
<1>3. /\ Reverse(q) \in [1..Len(q) -> S]
      /\ \A j \in 1..Len(q) : Reverse(q)[j] = q[(Len(q) - j) + 1]
    BY <1>1, <1>2 DEF Reverse
<1>4. Reverse(q) \in Seq(S) /\ Len(Reverse(q)) = Len(q)
    BY <1>1, <1>3
<1>5. Range(Reverse(q)) = {Reverse(q)[j] : j \in 1..Len(q)}
    BY <1>4, RangeEquality
<1>6. Range(Reverse(q)) \subseteq Range(q)
    BY <1>1, <1>2, <1>3, <1>5
<1>7. ASSUME NEW j \in 1..Len(q) PROVE q[j] \in Range(Reverse(q))
    <2>1. (Len(q) - j) + 1 \in 1..Len(q) /\ Reverse(q)[(Len(q) - j) + 1] = q[j]
        BY <1>1, <1>3
    <2>2. QED
        BY <1>5, <2>1
<1>8. Range(Reverse(q)) = Range(q)
    BY <1>1, <1>6, <1>7
<1>9. Distinct(q) => Distinct(Reverse(q))
    BY <1>1, <1>2, <1>3, <1>4 DEF Distinct
<1>10. QED
    BY <1>4, <1>8, <1>9
=============================================================================
