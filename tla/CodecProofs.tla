----------------------------- MODULE CodecProofs -----------------------------
(***************************************************************************)
(* What is written by serialize is read by deserialize, in C and in        *)
(* TypeScript, for strings of any length and any buffer they fit: in       *)
(* TypeScript, of each string what as many of its bytes decode to as it    *)
(* has UTF-16 units.                                                       *)
(***************************************************************************)
EXTENDS Codec, SequenceTheorems, TLAPS

Cell == [kind : {"zero", "int"}, n : Nat] \cup Bytes

\* What a body is made of; no character is the zero that ends a string.
LEMMA Cells ==
    /\ Zero \in Cell
    /\ \A n \in Nat : Number(n) \in Cell
    /\ Bytes \subseteq Cell
    /\ \A c \in Bytes : c # Zero
<1>1. \A c \in Bytes : c.kind # Zero.kind
  BY DEF Bytes, Zero
<1> QED BY <1>1 DEF Zero, Number, Cell

\* An integer ends where it starts.
LEMMA NumberRest == \A n : Rest(Number(n)) = 0
BY DEF Rest, Number

\* No character of x is cut.
Uncut(x) == \A k \in 1..Len(x) : k + Rest(x[k]) <= Len(x)

\* So a string holds no zero.
LEMMA TextCells ==
    ASSUME NEW s, IsString(s)
    PROVE  /\ s.text \in Seq(Cell) /\ Len(s.text) \in Nat
           /\ \A k \in 1..Len(s.text) : s.text[k] \in Cell /\ s.text[k] # Zero
           /\ s.units \in Nat /\ s.units <= Len(s.text)
           /\ Uncut(s.text)
<1>1. s.text \in Seq(Bytes) /\ s.units \in 0..Len(s.text) /\ Uncut(s.text)
  BY Zenon DEF IsString, Uncut
<1>2. Len(s.text) \in Nat /\ \A k \in 1..Len(s.text) : s.text[k] \in Bytes
  BY <1>1, LenProperties, ElementOfSeq
<1>3. s.text \in Seq(Cell)
  BY <1>1, Cells, SeqMonotonic
<1>4. s.units \in Nat /\ s.units <= Len(s.text)
  BY <1>1, <1>2
<1>5. \A k \in 1..Len(s.text) : s.text[k] \in Cell /\ s.text[k] # Zero
  BY <1>2, Cells, Zenon
<1> QED BY <1>1, <1>2, <1>3, <1>4, <1>5, Zenon

\* Behind m, b holds the first n cells of t.
Agrees(b, m, t, n) ==
    /\ b \in Seq(Cell) /\ t \in Seq(Cell)
    /\ m \in Nat /\ n \in 0..Len(t) /\ m + n <= Len(b)
    /\ \A k \in 1..n : b[m + k] = t[k]

\* The part from m + 1 to m + n is them.
IsCut(b, m, t, n) == SubSeq(b, m + 1, m + n) = SubSeq(t, 1, n)

\* A part that is the same as t, cell by cell, is t.
LEMMA CutOut ==
    ASSUME NEW b, NEW m, NEW t, NEW n, Agrees(b, m, t, n)
    PROVE  IsCut(b, m, t, n)
<1> SUFFICES ASSUME b \in Seq(Cell), t \in Seq(Cell), m \in Nat, n \in 0..Len(t),
                    m + n <= Len(b), \A k \in 1..n : b[m + k] = t[k]
             PROVE  SubSeq(b, m + 1, m + n) = SubSeq(t, 1, n)
  BY Zenon DEF Agrees, IsCut
<1> DEFINE p == SubSeq(b, m + 1, m + n)  q == SubSeq(t, 1, n)
<1>1. Len(b) \in Nat /\ Len(t) \in Nat /\ \A i \in 1..Len(b) : b[i] \in Cell
  BY LenProperties, ElementOfSeq
<1>2. n \in Nat /\ n <= Len(t) /\ \A i \in 1..Len(t) : t[i] \in Cell
  BY <1>1, ElementOfSeq
<1>3. \A i \in m + 1..m + n : b[i] \in Cell
  BY <1>1, <1>2
<1>4. p \in Seq(Cell) /\ Len(p) = n /\ \A i \in 1..n : p[i] = b[m + i]
  <2>1. /\ p \in Seq(Cell)
        /\ Len(p) = (IF m + 1 <= m + n THEN (m + n) - (m + 1) + 1 ELSE 0)
        /\ \A i \in 1..(m + n) - (m + 1) + 1 : p[i] = b[m + 1 + i - 1]
    BY <1>2, <1>3, SubSeqProperties
  <2>2. (m + n) - (m + 1) + 1 = n /\ \A i \in 1..n : m + 1 + i - 1 = m + i
    BY <1>2
  <2> QED BY <1>2, <2>1, <2>2
<1>5. q \in Seq(Cell) /\ Len(q) = n /\ \A i \in 1..n : q[i] = t[i]
  <2>1. \A i \in 1..n : t[i] \in Cell
    BY <1>2
  <2>2. /\ q \in Seq(Cell)
        /\ Len(q) = (IF 1 <= n THEN n - 1 + 1 ELSE 0)
        /\ \A i \in 1..n - 1 + 1 : q[i] = t[1 + i - 1]
    BY <1>2, <2>1, SubSeqProperties
  <2>3. n - 1 + 1 = n /\ \A i \in 1..n : 1 + i - 1 = i
    BY <1>2
  <2> QED BY <1>2, <2>2, <2>3
<1>6. \A i \in 1..n : p[i] = q[i]
  BY <1>4, <1>5
<1> HIDE DEF p, q
<1>7. p = q
  BY <1>4, <1>5, <1>6, SeqEqual
<1> QED BY <1>7 DEF p, q

\* The whole of a sequence.
LEMMA CutWhole ==
    ASSUME NEW t \in Seq(Cell)
    PROVE  SubSeq(t, 1, Len(t)) = t
<1>1. Len(t) \in Nat /\ \A i \in 1..Len(t) : t[i] \in Cell
  BY LenProperties, ElementOfSeq
<1> DEFINE n == Len(t)  q == SubSeq(t, 1, n)
<1>2. /\ q \in Seq(Cell) /\ Len(q) = (IF 1 <= n THEN n - 1 + 1 ELSE 0)
      /\ \A i \in 1..n - 1 + 1 : q[i] = t[1 + i - 1]
  BY <1>1, SubSeqProperties
<1>3. n - 1 + 1 = n /\ \A i \in 1..n : 1 + i - 1 = i
  BY <1>1
<1>4. q \in Seq(Cell) /\ Len(q) = n /\ \A i \in 1..n : q[i] = t[i]
  BY <1>1, <1>2, <1>3
<1> HIDE DEF q
<1>5. q = t
  BY <1>4, SeqEqual
<1> QED BY <1>5 DEF q

-----------------------------------------------------------------------------
\* C

\* The field that starts behind m ends at e.
EndAt(b, m, e) ==
    /\ b \in Seq(Cell) /\ m \in Nat /\ e \in m + 1..Len(b)
    /\ b[e] = Zero /\ \A k \in m + 1..e - 1 : b[k] # Zero

\* The next zero is the end of a field.
LEMMA EndFound ==
    ASSUME NEW b, NEW m, NEW e, EndAt(b, m, e)
    PROVE  FieldEnd(b, m) = e
<1>0. /\ b \in Seq(Cell) /\ m \in Nat /\ e \in m + 1..Len(b)
      /\ b[e] = Zero /\ \A k \in m + 1..e - 1 : b[k] # Zero
  BY Zenon DEF EndAt
<1> DEFINE Ends(j) == b[j] = Zero /\ \A k \in m + 1..j - 1 : b[k] # Zero
<1>1. Len(b) \in Nat
  BY <1>0, LenProperties
<1>2. ASSUME NEW j \in m + 1..Len(b), Ends(j) PROVE j = e
  <2>1. ~(j < e)
    BY <1>0, <1>1, <1>2
  <2>2. ~(e < j)
    BY <1>0, <1>1, <1>2
  <2> QED BY <1>0, <1>1, <2>1, <2>2
<1>3. FieldEnd(b, m) = CHOOSE j \in m + 1..Len(b) : Ends(j)
  BY DEF FieldEnd
<1>4. Ends(e)
  BY <1>0
<1> HIDE DEF Ends
<1> QED BY <1>0, <1>2, <1>3, <1>4

\* With its zero behind it.
LEMMA ZeroBehind ==
    ASSUME NEW t \in Seq(Cell)
    PROVE  /\ Append(t, Zero) \in Seq(Cell) /\ Len(Append(t, Zero)) = Len(t) + 1
           /\ \A k \in 1..Len(t) : Append(t, Zero)[k] = t[k]
           /\ Append(t, Zero)[Len(t) + 1] = Zero
BY Cells, AppendProperties

\* Two sequences one behind the other.
LEMMA Joined ==
    ASSUME NEW x \in Seq(Cell), NEW y \in Seq(Cell)
    PROVE  /\ x \o y \in Seq(Cell) /\ Len(x \o y) = Len(x) + Len(y)
           /\ \A k \in 1..Len(x) : (x \o y)[k] = x[k]
           /\ \A k \in 1..Len(y) : (x \o y)[Len(x) + k] = y[k]
<1>1. Len(x) \in Nat /\ Len(y) \in Nat
  BY LenProperties
<1>2. /\ x \o y \in Seq(Cell) /\ Len(x \o y) = Len(x) + Len(y)
      /\ \A i \in 1..Len(x) + Len(y) :
            (x \o y)[i] = IF i <= Len(x) THEN x[i] ELSE y[i - Len(x)]
  BY ConcatProperties
<1>3. \A k \in 1..Len(x) : k \in 1..Len(x) + Len(y) /\ k <= Len(x)
  BY <1>1
<1>4. \A k \in 1..Len(x) : (x \o y)[k] = x[k]
  BY <1>2, <1>3, Zenon
<1>5. \A k \in 1..Len(y) : /\ Len(x) + k \in 1..Len(x) + Len(y) /\ ~(Len(x) + k <= Len(x))
                           /\ Len(x) + k - Len(x) = k
  BY <1>1
<1>6. ASSUME NEW k \in 1..Len(y) PROVE (x \o y)[Len(x) + k] = y[k]
  <2> DEFINE i == Len(x) + k
  <2>1. i \in 1..Len(x) + Len(y) /\ ~(i <= Len(x)) /\ i - Len(x) = k
    BY <1>5
  <2> HIDE DEF i
  <2>2. (x \o y)[i] = IF i <= Len(x) THEN x[i] ELSE y[i - Len(x)]
    BY <1>2, <2>1, Zenon
  <2>3. (x \o y)[i] = y[i - Len(x)]
    BY <2>1, <2>2, Zenon
  <2>4. (x \o y)[i] = y[k]
    BY <2>1, <2>3, Zenon
  <2> QED BY <2>4 DEF i
<1>7. \A k \in 1..Len(y) : (x \o y)[Len(x) + k] = y[k]
  BY <1>6
<1> QED BY <1>2, <1>4, <1>7, Zenon

\* A sequence that ends with a zero, of m cells besides; and three of them one
\* behind the other.
Ended(t, m) == t \in Seq(Cell) /\ m \in Nat /\ Len(t) = m + 1 /\ t[m + 1] = Zero

LaidOut(b, t1, m1, t2, m2, t3, m3) ==
    /\ b \in Seq(Cell) /\ Len(b) = m1 + m2 + m3 + 3
    /\ \A k \in 1..m1 : b[k] = t1[k]
    /\ b[m1 + 1] = Zero
    /\ \A k \in 1..m2 : b[m1 + 1 + k] = t2[k]
    /\ b[m1 + m2 + 2] = Zero
    /\ \A k \in 1..m3 : b[m1 + m2 + 2 + k] = t3[k]
    /\ b[m1 + m2 + m3 + 3] = Zero

LEMMA Laid ==
    ASSUME NEW t1, NEW m1, Ended(t1, m1), NEW t2, NEW m2, Ended(t2, m2),
           NEW t3, NEW m3, Ended(t3, m3)
    PROVE  LaidOut(t1 \o t2 \o t3, t1, m1, t2, m2, t3, m3)
<1> SUFFICES ASSUME m1 \in Nat, m2 \in Nat, m3 \in Nat,
                    t1 \in Seq(Cell), Len(t1) = m1 + 1, t1[m1 + 1] = Zero,
                    t2 \in Seq(Cell), Len(t2) = m2 + 1, t2[m2 + 1] = Zero,
                    t3 \in Seq(Cell), Len(t3) = m3 + 1, t3[m3 + 1] = Zero,
                    NEW b, b = t1 \o t2 \o t3
             PROVE  LaidOut(b, t1, m1, t2, m2, t3, m3)
  BY Zenon DEF Ended
<1> DEFINE a == t1 \o t2
<1>b. b = a \o t3
  BY Zenon
<1>1. /\ a \in Seq(Cell) /\ Len(a) = Len(t1) + Len(t2)
      /\ \A k \in 1..Len(t1) : a[k] = t1[k]
      /\ \A k \in 1..Len(t2) : a[Len(t1) + k] = t2[k]
  BY Joined
<1> HIDE DEF a
<1>2. /\ b \in Seq(Cell) /\ Len(b) = Len(a) + Len(t3)
      /\ \A k \in 1..Len(a) : b[k] = a[k]
      /\ \A k \in 1..Len(t3) : b[Len(a) + k] = t3[k]
  <2>1. /\ a \o t3 \in Seq(Cell) /\ Len(a \o t3) = Len(a) + Len(t3)
        /\ \A k \in 1..Len(a) : (a \o t3)[k] = a[k]
        /\ \A k \in 1..Len(t3) : (a \o t3)[Len(a) + k] = t3[k]
    BY <1>1, Joined, Zenon
  <2> QED BY <1>b, <2>1, Zenon
<1>3. Len(a) = m1 + m2 + 2 /\ Len(b) = m1 + m2 + m3 + 3
  <2>1. Len(a) = m1 + m2 + 2
    BY <1>1
  <2>2. Len(b) = Len(a) + (m3 + 1)
    BY <1>2
  <2> QED BY <2>1, <2>2
<1>4. ASSUME NEW k \in 1..m1 + 1 PROVE b[k] = t1[k]
  <2>1. k \in 1..m1 + m2 + 2
    OBVIOUS
  <2>2. b[k] = a[k]
    BY <1>2, <1>3, <2>1
  <2>3. a[k] = t1[k]
    BY <1>1
  <2> QED BY <2>2, <2>3
<1>5. ASSUME NEW k \in 1..m2 + 1 PROVE b[m1 + 1 + k] = t2[k]
  <2>1. m1 + 1 + k \in 1..m1 + m2 + 2
    OBVIOUS
  <2>2. b[m1 + 1 + k] = a[m1 + 1 + k]
    BY <1>2, <1>3, <2>1
  <2>3. a[m1 + 1 + k] = t2[k]
    BY <1>1
  <2> QED BY <2>2, <2>3
<1>6. ASSUME NEW k \in 1..m3 + 1 PROVE b[m1 + m2 + 2 + k] = t3[k]
  BY <1>2, <1>3
<1>7. /\ m1 + 1 \in 1..m1 + 1 /\ m2 + 1 \in 1..m2 + 1 /\ m3 + 1 \in 1..m3 + 1
      /\ m1 + 1 + (m2 + 1) = m1 + m2 + 2 /\ m1 + m2 + 2 + (m3 + 1) = m1 + m2 + m3 + 3
      /\ \A k \in 1..m1 : k \in 1..m1 + 1
      /\ \A k \in 1..m2 : k \in 1..m2 + 1
      /\ \A k \in 1..m3 : k \in 1..m3 + 1
  OBVIOUS
<1>8. b[m1 + 1] = Zero
  BY <1>4, <1>7
<1>9. b[m1 + m2 + 2] = Zero
  <2>1. b[m1 + 1 + (m2 + 1)] = Zero
    BY <1>5, <1>7
  <2> QED BY <1>7, <2>1
<1>10. b[m1 + m2 + m3 + 3] = Zero
  <2>1. b[m1 + m2 + 2 + (m3 + 1)] = Zero
    BY <1>6, <1>7
  <2> QED BY <1>7, <2>1
<1>11. \A k \in 1..m1 : b[k] = t1[k]
  BY <1>4, <1>7
<1>12. \A k \in 1..m2 : b[m1 + 1 + k] = t2[k]
  BY <1>5, <1>7
<1>13. \A k \in 1..m3 : b[m1 + m2 + 2 + k] = t3[k]
  BY <1>6, <1>7
<1> QED BY <1>2, <1>3, <1>8, <1>9, <1>10, <1>11, <1>12, <1>13, Zenon DEF LaidOut

\* A string that holds no zero itself.
IsText(x) == x \in Seq(Cell) /\ \A k \in 1..Len(x) : x[k] # Zero

\* What deserialize makes of three of them.
LEMMA FieldsFound ==
    ASSUME NEW x1, IsText(x1), NEW x2, IsText(x2), NEW x3, IsText(x3)
    PROVE  deserialize_Set_Lease_Info_Message(
               Append(x1, Zero) \o Append(x2, Zero) \o Append(x3, Zero)) = <<x1, x2, x3>>
<1> SUFFICES ASSUME x1 \in Seq(Cell), \A k \in 1..Len(x1) : x1[k] # Zero,
                    x2 \in Seq(Cell), \A k \in 1..Len(x2) : x2[k] # Zero,
                    x3 \in Seq(Cell), \A k \in 1..Len(x3) : x3[k] # Zero,
                    NEW b, b = Append(x1, Zero) \o Append(x2, Zero) \o Append(x3, Zero)
             PROVE  deserialize_Set_Lease_Info_Message(b) = <<x1, x2, x3>>
  BY Zenon DEF IsText
<1>1. PICK m1 \in Nat, m2 \in Nat, m3 \in Nat : m1 = Len(x1) /\ m2 = Len(x2) /\ m3 = Len(x3)
  BY LenProperties
<1>2. PICK t1 \in Seq(Cell) : /\ t1 = Append(x1, Zero) /\ Len(t1) = m1 + 1 /\ t1[m1 + 1] = Zero
                              /\ \A k \in 1..m1 : t1[k] = x1[k]
  BY <1>1, ZeroBehind, Zenon
<1>3. PICK t2 \in Seq(Cell) : /\ t2 = Append(x2, Zero) /\ Len(t2) = m2 + 1 /\ t2[m2 + 1] = Zero
                              /\ \A k \in 1..m2 : t2[k] = x2[k]
  BY <1>1, ZeroBehind, Zenon
<1>4. PICK t3 \in Seq(Cell) : /\ t3 = Append(x3, Zero) /\ Len(t3) = m3 + 1 /\ t3[m3 + 1] = Zero
                              /\ \A k \in 1..m3 : t3[k] = x3[k]
  BY <1>1, ZeroBehind, Zenon
<1>5. b = t1 \o t2 \o t3
  BY <1>2, <1>3, <1>4, Zenon
<1>6. /\ b \in Seq(Cell) /\ Len(b) = m1 + m2 + m3 + 3
      /\ \A k \in 1..m1 : b[k] = t1[k]
      /\ b[m1 + 1] = Zero
      /\ \A k \in 1..m2 : b[m1 + 1 + k] = t2[k]
      /\ b[m1 + m2 + 2] = Zero
      /\ \A k \in 1..m3 : b[m1 + m2 + 2 + k] = t3[k]
      /\ b[m1 + m2 + m3 + 3] = Zero
  <2>1. Ended(t1, m1) /\ Ended(t2, m2) /\ Ended(t3, m3)
    BY <1>2, <1>3, <1>4, Zenon DEF Ended
  <2>2. LaidOut(b, t1, m1, t2, m2, t3, m3)
    BY <1>5, <2>1, Laid, Zenon
  <2> QED BY <2>2, Zenon DEF LaidOut
<1>7. /\ \A k \in 1..m1 : b[k] = x1[k] /\ b[k] # Zero
      /\ \A k \in 1..m2 : b[m1 + 1 + k] = x2[k] /\ b[m1 + 1 + k] # Zero
      /\ \A k \in 1..m3 : b[m1 + m2 + 2 + k] = x3[k] /\ b[m1 + m2 + 2 + k] # Zero
  <2>1. /\ \A k \in 1..m1 : b[k] = x1[k]
        /\ \A k \in 1..m2 : b[m1 + 1 + k] = x2[k]
        /\ \A k \in 1..m3 : b[m1 + m2 + 2 + k] = x3[k]
    BY <1>2, <1>3, <1>4, <1>6, Zenon
  <2>2. /\ \A k \in 1..m1 : x1[k] # Zero
        /\ \A k \in 1..m2 : x2[k] # Zero
        /\ \A k \in 1..m3 : x3[k] # Zero
    BY <1>1, Zenon
  <2> QED BY <2>1, <2>2, Zenon
<1>8. FieldEnd(b, 0) = m1 + 1
  <2> DEFINE e == m1 + 1
  <2>1. 0 \in Nat /\ e \in 0 + 1..Len(b) /\ \A k \in 0 + 1..e - 1 : k \in 1..m1
    BY <1>6
  <2>2. b \in Seq(Cell) /\ b[e] = Zero
    BY <1>6, Zenon
  <2> HIDE DEF e
  <2>3. \A k \in 0 + 1..e - 1 : b[k] # Zero
    BY <1>7, <2>1, Zenon
  <2>4. EndAt(b, 0, e)
    BY <2>1, <2>2, <2>3, Zenon DEF EndAt
  <2> QED BY <2>4, EndFound, Zenon DEF e
<1>9. FieldEnd(b, m1 + 1) = m1 + m2 + 2
  <2>1. m1 + m2 + 2 \in (m1 + 1) + 1..Len(b) /\ m1 + 1 \in Nat
    BY <1>6
  <2>2. ASSUME NEW k \in (m1 + 1) + 1..(m1 + m2 + 2) - 1 PROVE b[k] # Zero
    <3>1. PICK j \in 1..m2 : k = m1 + 1 + j
      <4>1. k - (m1 + 1) \in 1..m2 /\ k = m1 + 1 + (k - (m1 + 1))
        OBVIOUS
      <4> QED BY <4>1
    <3> QED BY <1>7, <3>1, Zenon
  <2> DEFINE m == m1 + 1  e == m1 + m2 + 2
  <2>3. b \in Seq(Cell) /\ b[e] = Zero
    BY <1>6, Zenon
  <2>4. m \in Nat /\ e \in m + 1..Len(b)
    BY <2>1
  <2>5. \A k \in m + 1..e - 1 : b[k] # Zero
    BY <2>2, Zenon
  <2> HIDE DEF m, e
  <2>6. EndAt(b, m, e)
    BY <2>3, <2>4, <2>5, Zenon DEF EndAt
  <2> QED BY <2>6, EndFound, Zenon DEF m, e
<1>10. FieldEnd(b, m1 + m2 + 2) = m1 + m2 + m3 + 3
  <2>1. m1 + m2 + m3 + 3 \in (m1 + m2 + 2) + 1..Len(b) /\ m1 + m2 + 2 \in Nat
    BY <1>6
  <2>2. ASSUME NEW k \in (m1 + m2 + 2) + 1..(m1 + m2 + m3 + 3) - 1 PROVE b[k] # Zero
    <3>1. PICK j \in 1..m3 : k = m1 + m2 + 2 + j
      <4>1. k - (m1 + m2 + 2) \in 1..m3 /\ k = m1 + m2 + 2 + (k - (m1 + m2 + 2))
        OBVIOUS
      <4> QED BY <4>1
    <3> QED BY <1>7, <3>1, Zenon
  <2> DEFINE m == m1 + m2 + 2  e == m1 + m2 + m3 + 3
  <2>3. b \in Seq(Cell) /\ b[e] = Zero
    BY <1>6, Zenon
  <2>4. m \in Nat /\ e \in m + 1..Len(b)
    BY <2>1
  <2>5. \A k \in m + 1..e - 1 : b[k] # Zero
    BY <2>2, Zenon
  <2> HIDE DEF m, e
  <2>6. EndAt(b, m, e)
    BY <2>3, <2>4, <2>5, Zenon DEF EndAt
  <2> QED BY <2>6, EndFound, Zenon DEF m, e
<1>11. SubSeq(b, 1, m1 + 1 - 1) = x1
  <2>1. 0 \in Nat /\ m1 \in 0..Len(x1) /\ 0 + m1 <= Len(b) /\ 0 + 1 = 1 /\ 0 + m1 = m1 + 1 - 1
        /\ \A k \in 1..m1 : 0 + k = k
    BY <1>1, <1>6
  <2>2. \A k \in 1..m1 : b[0 + k] = x1[k]
    BY <1>7, <2>1, Zenon
  <2>3. Agrees(b, 0, x1, m1)
    BY <1>6, <2>1, <2>2, Zenon DEF Agrees
  <2>4. IsCut(b, 0, x1, m1)
    BY <2>3, CutOut, Zenon
  <2> QED BY <1>1, <2>1, <2>4, CutWhole, Zenon DEF IsCut
<1>12. SubSeq(b, m1 + 1 + 1, m1 + m2 + 2 - 1) = x2
  <2>1. m1 + 1 \in Nat /\ m2 \in 0..Len(x2) /\ m1 + 1 + m2 <= Len(b)
        /\ m1 + 1 + m2 = m1 + m2 + 2 - 1
    BY <1>1, <1>6
  <2>2. Agrees(b, m1 + 1, x2, m2)
    BY <1>6, <1>7, <2>1, Zenon DEF Agrees
  <2>3. IsCut(b, m1 + 1, x2, m2)
    BY <2>2, CutOut, Zenon
  <2> QED BY <1>1, <2>1, <2>3, CutWhole, Zenon DEF IsCut
<1>13. SubSeq(b, m1 + m2 + 2 + 1, m1 + m2 + m3 + 3 - 1) = x3
  <2>1. m1 + m2 + 2 \in Nat /\ m3 \in 0..Len(x3) /\ m1 + m2 + 2 + m3 <= Len(b)
        /\ m1 + m2 + 2 + m3 = m1 + m2 + m3 + 3 - 1
    BY <1>1, <1>6
  <2>2. Agrees(b, m1 + m2 + 2, x3, m3)
    BY <1>6, <1>7, <2>1, Zenon DEF Agrees
  <2>3. IsCut(b, m1 + m2 + 2, x3, m3)
    BY <2>2, CutOut, Zenon
  <2> QED BY <1>1, <2>1, <2>3, CutWhole, Zenon DEF IsCut
<1>14. deserialize_Set_Lease_Info_Message(b)
          = <<SubSeq(b, 1, m1 + 1 - 1), SubSeq(b, m1 + 1 + 1, m1 + m2 + 2 - 1),
              SubSeq(b, m1 + m2 + 2 + 1, m1 + m2 + m3 + 3 - 1)>>
  <2> DEFINE e1 == FieldEnd(b, 0)  e2 == FieldEnd(b, e1)  e3 == FieldEnd(b, e2)
  <2>1. deserialize_Set_Lease_Info_Message(b)
            = <<SubSeq(b, 1, e1 - 1), SubSeq(b, e1 + 1, e2 - 1), SubSeq(b, e2 + 1, e3 - 1)>>
    BY Zenon DEF deserialize_Set_Lease_Info_Message
  <2>2. e1 = m1 + 1
    BY <1>8
  <2>3. e2 = m1 + m2 + 2
    BY <1>9, <2>2, Zenon
  <2>4. e3 = m1 + m2 + m3 + 3
    BY <1>10, <2>3, Zenon
  <2> HIDE DEF e1, e2, e3
  <2> QED BY <2>1, <2>2, <2>3, <2>4
<1> QED BY <1>11, <1>12, <1>13, <1>14, Zenon

\* In C the three strings come out as they went in, if they fit the buffer; and
\* the header announces what is there.
THEOREM ReadAsWritten ==
    ASSUME NEW fields, IsString(fields[1]), IsString(fields[2]), IsString(fields[3]),
           serialize_Set_Lease_Info_Message(fields) # NoMessage
    PROVE  deserialize_Set_Lease_Info_Message(serialize_Set_Lease_Info_Message(fields).body)
               = <<fields[1].text, fields[2].text, fields[3].text>>
<1> DEFINE b == Terminated(fields[1]) \o Terminated(fields[2]) \o Terminated(fields[3])
<1>1. serialize_Set_Lease_Info_Message(fields).body = b
  BY DEF serialize_Set_Lease_Info_Message, Message
<1>2. IsText(fields[1].text) /\ IsText(fields[2].text) /\ IsText(fields[3].text)
  BY TextCells, Zenon DEF IsText
<1>3. b = Append(fields[1].text, Zero) \o Append(fields[2].text, Zero)
          \o Append(fields[3].text, Zero)
  BY Zenon DEF Terminated
<1> QED BY <1>1, <1>2, <1>3, FieldsFound, ZenonT(30)
-----------------------------------------------------------------------------
\* TypeScript

\* The first cells of a sequence.
LEMMA FrontCells ==
    ASSUME NEW x \in Seq(Cell), NEW u \in Nat, u <= Len(x)
    PROVE  SubSeq(x, 1, u) \in Seq(Cell) /\ Len(SubSeq(x, 1, u)) = u
<1>1. Len(x) \in Nat /\ \A i \in 1..Len(x) : x[i] \in Cell
  BY LenProperties, ElementOfSeq
<1>2. \A i \in 1..u : x[i] \in Cell
  BY <1>1
<1>3. /\ SubSeq(x, 1, u) \in Seq(Cell)
      /\ Len(SubSeq(x, 1, u)) = IF 1 <= u THEN u - 1 + 1 ELSE 0
  BY <1>2, SubSeqProperties
<1> QED BY <1>3

\* Whatever is put into a buffer, its cells are cells and as many as before.
LEMMA PutCells ==
    ASSUME NEW b \in Seq(Cell), NEW t \in Seq(Cell), NEW o
    PROVE  Put(b, o, t) \in Seq(Cell) /\ Len(Put(b, o, t)) = Len(b)
<1>1. /\ Len(b) \in Nat /\ DOMAIN b = 1..Len(b) /\ \A i \in 1..Len(b) : b[i] \in Cell
      /\ \A k \in DOMAIN t : t[k] \in Cell
  BY LenProperties, ElementOfSeq
<1>2. \A i \in 1..Len(b) :
          (IF i - o \in DOMAIN t /\ i + Rest(t[i - o]) <= Len(b)
           THEN t[i - o] ELSE b[i]) \in Cell
  BY <1>1, Zenon
<1>3. Put(b, o, t) \in [1..Len(b) -> Cell]
  BY <1>1, <1>2, Zenon DEF Put
<1>4. \A n \in Nat : \A d \in [1..n -> Cell] : d \in Seq(Cell) /\ Len(d) = n
  OBVIOUS
<1> QED BY <1>1, <1>3, <1>4, Zenon

\* Behind o, b holds the length u and the first u cells of x.
StringAt(b, o, u, x) ==
    /\ b \in Seq(Cell) /\ x \in Seq(Cell)
    /\ o \in Nat /\ u \in Nat /\ u <= Len(x) /\ o + 1 + u <= Len(b)
    /\ b[o + 1] = Number(u) /\ \A k \in 1..u : b[o + 1 + k] = x[k]

\* c is b up to its cell p.
Keeps(c, b, p) ==
    p \in Nat /\ c \in Seq(Cell) /\ p <= Len(c) /\ \A i \in 1..p : c[i] = b[i]

\* A string stays as long as no cell up to its end changes.
LEMMA Kept ==
    ASSUME NEW b, NEW o, NEW u, NEW x, StringAt(b, o, u, x),
           NEW p, NEW c, Keeps(c, b, p), o + 1 + u <= p
    PROVE  StringAt(c, o, u, x)
<1>0. p \in Nat /\ c \in Seq(Cell) /\ p <= Len(c) /\ \A i \in 1..p : c[i] = b[i]
  BY Zenon DEF Keeps
<1>1. /\ x \in Seq(Cell) /\ o \in Nat /\ u \in Nat /\ u <= Len(x)
      /\ b[o + 1] = Number(u) /\ \A k \in 1..u : b[o + 1 + k] = x[k]
  BY Zenon DEF StringAt
<1>2. o + 1 \in 1..p /\ \A k \in 1..u : o + 1 + k \in 1..p
  BY <1>0, <1>1
<1>3. c[o + 1] = Number(u) /\ \A k \in 1..u : c[o + 1 + k] = x[k]
  BY <1>0, <1>1, <1>2, Zenon
<1>4. Len(c) \in Nat
  BY <1>0, LenProperties
<1>5. o + 1 + u <= Len(c)
  BY <1>0, <1>1, <1>4
<1> QED BY <1>0, <1>1, <1>3, <1>5, Zenon DEF StringAt

\* There is room behind o.
Fits(b, o, u, x) ==
    /\ b \in Seq(Cell) /\ x \in Seq(Cell) /\ Uncut(x)
    /\ o \in Nat /\ u \in Nat /\ u <= Len(x) /\ o + 1 + Len(x) <= Len(b)

\* Writing a string leaves what is before it alone.
LEMMA Written ==
    ASSUME NEW b, NEW o, NEW u, NEW x, Fits(b, o, u, x),
           NEW c, c = Put(b, o, <<Number(u)>> \o x)
    PROVE  c \in Seq(Cell) /\ Len(c) = Len(b) /\ Keeps(c, b, o) /\ StringAt(c, o, u, x)
<1> SUFFICES ASSUME b \in Seq(Cell), x \in Seq(Cell), Uncut(x), o \in Nat, u \in Nat,
                    u <= Len(x), o + 1 + Len(x) <= Len(b)
             PROVE  c \in Seq(Cell) /\ Len(c) = Len(b) /\ Keeps(c, b, o) /\ StringAt(c, o, u, x)
  BY Zenon DEF Fits
<1> DEFINE y == <<Number(u)>>  t == y \o x
<1>c. c = Put(b, o, t)
  BY Zenon
<1>1. /\ Len(b) \in Nat /\ DOMAIN b = 1..Len(b) /\ \A i \in 1..Len(b) : b[i] \in Cell
      /\ Len(x) \in Nat
  BY LenProperties, ElementOfSeq
<1>2. y \in Seq(Cell) /\ Len(y) = 1 /\ y[1] = Number(u)
  BY Cells
<1> HIDE DEF y
<1>3. /\ t \in Seq(Cell) /\ Len(t) = 1 + Len(x)
      /\ \A k \in 1..1 : t[k] = y[k]
      /\ \A k \in 1..Len(x) : t[1 + k] = x[k]
  <2>1. /\ t \in Seq(Cell) /\ Len(t) = Len(y) + Len(x)
        /\ \A k \in 1..Len(y) : t[k] = y[k]
        /\ \A k \in 1..Len(x) : t[Len(y) + k] = x[k]
    BY <1>2, Joined, Zenon
  <2> QED BY <1>2, <2>1, Zenon
<1> HIDE DEF t
<1>4. DOMAIN t = 1..1 + Len(x) /\ \A k \in DOMAIN t : t[k] \in Cell
  BY <1>3, LenProperties, ElementOfSeq
<1>5. c = [i \in 1..Len(b) |-> IF i - o \in DOMAIN t /\ i + Rest(t[i - o]) <= Len(b)
                               THEN t[i - o] ELSE b[i]]
  BY <1>c, <1>1, Zenon DEF Put
<1>r. \A i \in 1..Len(b) : i - o \in DOMAIN t => i + Rest(t[i - o]) <= Len(b)
  <2> SUFFICES ASSUME NEW i \in 1..Len(b), i - o \in 1..1 + Len(x)
               PROVE  i + Rest(t[i - o]) <= Len(b)
    BY <1>4
  <2>1. CASE i - o = 1
    <3>1. Rest(t[i - o]) = 0
      BY <1>2, <1>3, <2>1, NumberRest
    <3> QED BY <1>1, <3>1
  <2>2. CASE i - o # 1
    <3> DEFINE k == i - o - 1
    <3>1. k \in 1..Len(x) /\ i - o = 1 + k /\ i = o + 1 + k
      BY <1>1, <2>2
    <3> HIDE DEF k
    <3>2. t[i - o] = x[k] /\ k + Rest(x[k]) <= Len(x)
      BY <1>3, <3>1, Zenon DEF Uncut
    <3>3. x[k] \in Cell
      BY <3>1, ElementOfSeq
    <3>4. Rest(x[k]) \in Int
      BY <3>3 DEF Rest, Cell, Bytes
    <3> QED BY <1>1, <3>1, <3>2, <3>4
  <2> QED BY <2>1, <2>2
<1>6. /\ \A i \in 1..Len(b) : i - o \in DOMAIN t => c[i] = t[i - o]
      /\ \A i \in 1..Len(b) : i - o \notin DOMAIN t => c[i] = b[i]
  BY <1>5, <1>r, Zenon
<1>8. c \in Seq(Cell) /\ Len(c) = Len(b)
  <2>1. Put(b, o, t) \in Seq(Cell) /\ Len(Put(b, o, t)) = Len(b)
    BY <1>3, PutCells
  <2> QED BY <1>c, <2>1, Zenon
<1>9. ASSUME NEW i \in 1..o PROVE c[i] = b[i]
  <2>1. i \in 1..Len(b) /\ i - o \notin 1..1 + Len(x)
    BY <1>1
  <2> QED BY <1>4, <1>6, <2>1, Zenon
<1>10. c[o + 1] = Number(u)
  <2>1. o + 1 \in 1..Len(b) /\ (o + 1) - o \in 1..1 + Len(x) /\ (o + 1) - o = 1 /\ 1 \in 1..1
    BY <1>1
  <2>2. c[o + 1] = t[(o + 1) - o]
    BY <1>4, <1>6, <2>1, Zenon
  <2> QED BY <1>2, <1>3, <2>1, <2>2, Zenon
<1>11. ASSUME NEW k \in 1..u PROVE c[o + 1 + k] = x[k]
  <2> DEFINE i == o + 1 + k
  <2>1. i \in 1..Len(b) /\ i - o \in 1..1 + Len(x) /\ i - o = 1 + k /\ k \in 1..Len(x)
    BY <1>1
  <2> HIDE DEF i
  <2>2. c[i] = t[1 + k]
    BY <1>4, <1>6, <2>1, Zenon
  <2>3. c[i] = x[k]
    BY <1>3, <2>1, <2>2, Zenon
  <2> QED BY <2>3 DEF i
<1>12. o + 1 + u <= Len(c)
  BY <1>8
<1>13. \A k \in 1..u : c[o + 1 + k] = x[k]
  BY <1>11, Zenon
<1>14. StringAt(c, o, u, x)
  BY <1>8, <1>10, <1>12, <1>13, Zenon DEF StringAt
<1>15. \A i \in 1..o : c[i] = b[i]
  BY <1>9, Zenon
<1>16. o <= Len(c)
  BY <1>1, <1>8
<1>17. Keeps(c, b, o)
  BY <1>8, <1>15, <1>16, Zenon DEF Keeps
<1> QED BY <1>8, <1>14, <1>17, Zenon

\* What DeserializeStringFrom does to the values read and the offset.
Reads(b, values, o, after, p) ==
    DeserializeStringFrom([values |-> values, offset |-> o], b)
        = [values |-> after, offset |-> p]

\* Reading a string that is there.
LEMMA ReadAt ==
    ASSUME NEW b, NEW o, NEW u, NEW x, StringAt(b, o, u, x), NEW values
    PROVE  Reads(b, values, o, Append(values, toString(SubSeq(x, 1, u))), o + 1 + u)
<1>1. /\ b \in Seq(Cell) /\ x \in Seq(Cell)
      /\ o \in Nat /\ u \in Nat /\ u <= Len(x) /\ o + 1 + u <= Len(b)
      /\ b[o + 1] = Number(u) /\ \A k \in 1..u : b[o + 1 + k] = x[k]
  BY Zenon DEF StringAt
<1>2. NumberAt(b, o + 1) = u
  BY <1>1 DEF NumberAt, Number
<1>3. Len(b) \in Nat /\ Len(x) \in Nat
  BY <1>1, LenProperties
<1>4. Least(o + 1 + u, Len(b)) = o + 1 + u
  BY <1>1, <1>3, Zenon DEF Least
<1>5. SubSeq(b, (o + 1) + 1, (o + 1) + u) = SubSeq(x, 1, u)
  <2>1. o + 1 \in Nat /\ u \in 0..Len(x) /\ (o + 1) + u <= Len(b)
    BY <1>1, <1>3
  <2>2. Agrees(b, o + 1, x, u)
    BY <1>1, <2>1, Zenon DEF Agrees
  <2>3. IsCut(b, o + 1, x, u)
    BY <2>2, CutOut, Zenon
  <2> QED BY <2>3, Zenon DEF IsCut
<1>6. (o + 1) + 1 = o + 2
  BY <1>1
<1>7. DeserializeStringFrom([values |-> values, offset |-> o], b)
         = [values |-> Append(values, toString(
                           SubSeq(b, o + 2, Least(o + 1 + NumberAt(b, o + 1), Len(b))))),
            offset |-> o + 1 + NumberAt(b, o + 1)]
  BY Zenon DEF DeserializeStringFrom
<1> QED BY <1>2, <1>4, <1>5, <1>6, <1>7, Zenon DEF Reads

\* There is room in b for three strings.
AllFit(b, u1, x1, u2, x2, u3, x3) ==
    /\ b \in Seq(Cell)
    /\ x1 \in Seq(Cell) /\ Uncut(x1) /\ u1 \in Nat /\ u1 <= Len(x1)
    /\ x2 \in Seq(Cell) /\ Uncut(x2) /\ u2 \in Nat /\ u2 <= Len(x2)
    /\ x3 \in Seq(Cell) /\ Uncut(x3) /\ u3 \in Nat /\ u3 <= Len(x3)
    /\ 1 + Len(x1) <= Len(b)
    /\ 2 + u1 + Len(x2) <= Len(b)
    /\ 3 + u1 + u2 + Len(x3) <= Len(b)

\* The three of them, written to a buffer that holds them all.
Filled(b, u1, x1, u2, x2, u3, x3) ==
    LET b1 == Put(b, 0, <<Number(u1)>> \o x1)
        b2 == Put(b1, 1 + u1, <<Number(u2)>> \o x2)
    IN  Put(b2, 2 + u1 + u2, <<Number(u3)>> \o x3)

AllAt(b, n, u1, x1, u2, x2, u3, x3) ==
    /\ b \in Seq(Cell) /\ Len(b) = n
    /\ StringAt(b, 0, u1, x1)
    /\ StringAt(b, 1 + u1, u2, x2)
    /\ StringAt(b, 2 + u1 + u2, u3, x3)

LEMMA AllWritten ==
    ASSUME NEW b, NEW u1, NEW x1, NEW u2, NEW x2, NEW u3, NEW x3,
           AllFit(b, u1, x1, u2, x2, u3, x3)
    PROVE  AllAt(Filled(b, u1, x1, u2, x2, u3, x3), Len(b), u1, x1, u2, x2, u3, x3)
<1> SUFFICES ASSUME b \in Seq(Cell),
                    x1 \in Seq(Cell), Uncut(x1), u1 \in Nat, u1 <= Len(x1),
                    x2 \in Seq(Cell), Uncut(x2), u2 \in Nat, u2 <= Len(x2),
                    x3 \in Seq(Cell), Uncut(x3), u3 \in Nat, u3 <= Len(x3),
                    1 + Len(x1) <= Len(b), 2 + u1 + Len(x2) <= Len(b),
                    3 + u1 + u2 + Len(x3) <= Len(b),
                    NEW b1, b1 = Put(b, 0, <<Number(u1)>> \o x1),
                    NEW b2, b2 = Put(b1, 1 + u1, <<Number(u2)>> \o x2),
                    NEW b3, b3 = Put(b2, 2 + u1 + u2, <<Number(u3)>> \o x3)
             PROVE  AllAt(b3, Len(b), u1, x1, u2, x2, u3, x3)
  BY Zenon DEF AllFit, Filled
<1> DEFINE o0 == 0  o1 == 1 + u1  o2 == 2 + u1 + u2
<1>1. /\ o0 \in Nat /\ o1 \in Nat /\ o2 \in Nat
      /\ o1 = o0 + 1 + u1 /\ o2 = o1 + 1 + u2 /\ o0 + 1 + u1 <= o2
      /\ o1 <= Len(b) /\ o2 <= Len(b) /\ o2 + 1 + Len(x3) <= Len(b)
      /\ o0 + 1 + u1 <= o1 /\ o1 + 1 + u2 <= o2
      /\ o0 + 1 + Len(x1) <= Len(b) /\ o1 + 1 + Len(x2) <= Len(b)
  <2>1. Len(b) \in Nat /\ Len(x1) \in Nat /\ Len(x2) \in Nat /\ Len(x3) \in Nat
    BY LenProperties
  <2> QED BY <2>1
<1>b. /\ b1 = Put(b, o0, <<Number(u1)>> \o x1) /\ b2 = Put(b1, o1, <<Number(u2)>> \o x2)
      /\ b3 = Put(b2, o2, <<Number(u3)>> \o x3)
  BY Zenon
<1> HIDE DEF o0, o1, o2
<1>2. b1 \in Seq(Cell) /\ Len(b1) = Len(b) /\ StringAt(b1, o0, u1, x1)
  <2>1. Fits(b, o0, u1, x1)
    BY <1>1, Zenon DEF Fits
  <2>2. b1 = Put(b, o0, <<Number(u1)>> \o x1)
    BY <1>b, Zenon
  <2>3. /\ b1 \in Seq(Cell) /\ Len(b1) = Len(b) /\ Keeps(b1, b, o0)
        /\ StringAt(b1, o0, u1, x1)
    BY <2>1, <2>2, Written, Zenon
  <2> QED BY <2>3, Zenon
<1>3. /\ b2 \in Seq(Cell) /\ Len(b2) = Len(b) /\ Keeps(b2, b1, o1)
      /\ StringAt(b2, o1, u2, x2)
  <2>1. Fits(b1, o1, u2, x2)
    BY <1>1, <1>2, Zenon DEF Fits
  <2>2. b2 \in Seq(Cell) /\ Len(b2) = Len(b1) /\ Keeps(b2, b1, o1) /\ StringAt(b2, o1, u2, x2)
    BY <1>b, <2>1, Written, Zenon
  <2> QED BY <1>2, <2>2, Zenon
<1>4. /\ b3 \in Seq(Cell) /\ Len(b3) = Len(b) /\ Keeps(b3, b2, o2)
      /\ StringAt(b3, o2, u3, x3)
  <2>1. Fits(b2, o2, u3, x3)
    BY <1>1, <1>3, Zenon DEF Fits
  <2>2. b3 \in Seq(Cell) /\ Len(b3) = Len(b2) /\ Keeps(b3, b2, o2) /\ StringAt(b3, o2, u3, x3)
    BY <1>b, <2>1, Written, Zenon
  <2> QED BY <1>3, <2>2, Zenon
<1>5. StringAt(b2, o0, u1, x1)
  BY <1>1, <1>2, <1>3, Kept, Zenon
<1>6. StringAt(b3, o0, u1, x1)
  BY <1>1, <1>4, <1>5, Kept, Zenon
<1>7. StringAt(b3, o1, u2, x2)
  BY <1>1, <1>3, <1>4, Kept, Zenon
<1> QED BY <1>4, <1>6, <1>7, Zenon DEF o0, o1, o2, AllAt

\* Three values, one appended after the other.
LEMMA ThreeAppended ==
    ASSUME NEW S, NEW p \in S, NEW q \in S, NEW r \in S
    PROVE  Append(Append(Append(<<>>, p), q), r) = <<p, q, r>>
<1> DEFINE a == Append(<<>>, p)  b == Append(a, q)  c == Append(b, r)  d == <<p, q, r>>
<1>1. a \in Seq(S) /\ Len(a) = 1 /\ a[1] = p
  BY EmptySeq, AppendProperties
<1> HIDE DEF a
<1>2. b \in Seq(S) /\ Len(b) = 2 /\ b[1] = p /\ b[2] = q
  BY <1>1, AppendProperties
<1> HIDE DEF b
<1>3. c \in Seq(S) /\ Len(c) = 3 /\ c[1] = p /\ c[2] = q /\ c[3] = r
  <2>1. /\ c \in Seq(S) /\ Len(c) = Len(b) + 1 /\ c[Len(b) + 1] = r
        /\ \A i \in 1..Len(b) : c[i] = b[i]
    <3>1. \A t \in Seq(S), e \in S :
             /\ Append(t, e) \in Seq(S) /\ Len(Append(t, e)) = Len(t) + 1
             /\ Append(t, e)[Len(t) + 1] = e
             /\ \A i \in 1..Len(t) : Append(t, e)[i] = t[i]
      BY AppendProperties
    <3> QED BY <1>2, <3>1, Zenon
  <2>2. 2 + 1 = 3 /\ 1 \in 1..2 /\ 2 \in 1..2
    OBVIOUS
  <2> QED BY <1>2, <2>1, <2>2, Zenon
<1> HIDE DEF c
<1>4. d \in Seq(S) /\ Len(d) = 3 /\ d[1] = p /\ d[2] = q /\ d[3] = r
  OBVIOUS
<1> HIDE DEF d
<1>5. \A i \in 1..3 : c[i] = d[i]
  <2>1. \A i \in 1..3 : i = 1 \/ i = 2 \/ i = 3
    OBVIOUS
  <2> QED BY <1>3, <1>4, <2>1, Zenon
<1>6. c = d
  BY <1>3, <1>4, <1>5, SeqEqual
<1> QED BY <1>6 DEF a, b, c, d

\* What is read is always three values.
LEMMA ThreeRead ==
    ASSUME NEW b
    PROVE  \E p, q, r : DeserializeSetLeaseInformationMSG(b) = <<p, q, r>>
<1> DEFINE first == [values |-> <<>>, offset |-> 0]
           named == DeserializeStringFrom(first, b)
           spaced == DeserializeStringFrom(named, b)
           end == DeserializeStringFrom(spaced, b)
<1>1. DeserializeSetLeaseInformationMSG(b) = end.values
  BY Zenon DEF DeserializeSetLeaseInformationMSG
<1>2. \A state : \E p : DeserializeStringFrom(state, b).values = Append(state.values, p)
  BY DEF DeserializeStringFrom
<1>3. first.values = <<>>
  OBVIOUS
<1> HIDE DEF first
<1>4. PICK p, q, r : end.values = Append(Append(Append(<<>>, p), q), r)
  <2>1. PICK p : named.values = Append(first.values, p)
    BY <1>2, Zenon
  <2>2. PICK q : spaced.values = Append(named.values, q)
    BY <1>2, Zenon
  <2>3. PICK r : end.values = Append(spaced.values, r)
    BY <1>2, Zenon
  <2> QED BY <1>3, <2>1, <2>2, <2>3, Zenon
<1>5. Append(Append(Append(<<>>, p), q), r) = <<p, q, r>>
  <2> DEFINE S == {p, q, r}
  <2>1. p \in S /\ q \in S /\ r \in S
    OBVIOUS
  <2> HIDE DEF S
  <2> QED BY <2>1, ThreeAppended, Zenon
<1> QED BY <1>1, <1>4, <1>5, Zenon

\* And read: if they are there, what they decode to.
LEMMA AllRead ==
    ASSUME NEW b, NEW u1, NEW x1, StringAt(b, 0, u1, x1),
           NEW o1, o1 = 0 + 1 + u1, NEW u2, NEW x2, StringAt(b, o1, u2, x2),
           NEW o2, o2 = o1 + 1 + u2, NEW u3, NEW x3, StringAt(b, o2, u3, x3)
    PROVE  DeserializeSetLeaseInformationMSG(b)
               = <<toString(SubSeq(x1, 1, u1)), toString(SubSeq(x2, 1, u2)),
                   toString(SubSeq(x3, 1, u3))>>
<1> DEFINE y1 == toString(SubSeq(x1, 1, u1))
           y2 == toString(SubSeq(x2, 1, u2))
           y3 == toString(SubSeq(x3, 1, u3))
           v1 == Append(<<>>, y1)
           v2 == Append(v1, y2)
           v3 == Append(v2, y3)
<1>1. Reads(b, <<>>, 0, v1, o1) /\ Reads(b, v1, o1, v2, o2) /\ Reads(b, v2, o2, v3, o2 + 1 + u3)
  <2>1. Reads(b, <<>>, 0, v1, 0 + 1 + u1)
    BY ReadAt, Zenon
  <2>2. Reads(b, v1, o1, v2, o1 + 1 + u2)
    BY ReadAt, Zenon
  <2>3. Reads(b, v2, o2, v3, o2 + 1 + u3)
    BY ReadAt, Zenon
  <2> QED BY <2>1, <2>2, <2>3, Zenon
<1> HIDE DEF y1, y2, y3
<1>4. DeserializeSetLeaseInformationMSG(b)
         = DeserializeStringFrom(DeserializeStringFrom(
              DeserializeStringFrom([values |-> <<>>, offset |-> 0], b), b), b).values
  BY Zenon DEF DeserializeSetLeaseInformationMSG
<1>5. DeserializeSetLeaseInformationMSG(b) = [values |-> v3, offset |-> o2 + 1 + u3].values
  BY <1>1, <1>4, Zenon DEF Reads
<1>6. v3 = <<y1, y2, y3>>
  <2> DEFINE S == {y1, y2, y3}
  <2>1. y1 \in S /\ y2 \in S /\ y3 \in S
    OBVIOUS
  <2> HIDE DEF S
  <2> QED BY <2>1, ThreeAppended, Zenon
<1> HIDE DEF v3
<1>7. DeserializeSetLeaseInformationMSG(b) = v3
  BY <1>5
<1> QED BY <1>6, <1>7, Zenon DEF y1, y2, y3

\* A message has the length and the body it was made of.
LEMMA MessageParts ==
    ASSUME NEW message, NEW l, NEW d, message = Message(l, d)
    PROVE  message.length = l /\ message.body = d
BY DEF Message

\* In TypeScript each string of a message that fits the buffer comes out as what
\* its first bytes decode to, as many of them as it has UTF-16 units: the strings
\* overlap as they are written, and still none damages another.
THEOREM ReadByUnits ==
    ASSUME NEW fields, IsString(fields[1]), IsString(fields[2]), IsString(fields[3]),
           Roomy(fields),
           NEW message, message = SerializeSetLeaseInformationMSG(fields), message # NoMessage
    PROVE  DeserializeSetLeaseInformationMSG(message.body)
               = <<toString(SubSeq(fields[1].text, 1, fields[1].units)),
                   toString(SubSeq(fields[2].text, 1, fields[2].units)),
                   toString(SubSeq(fields[3].text, 1, fields[3].units))>>
<1>1. PICK x1 \in Seq(Cell), u1 \in Nat :
         x1 = fields[1].text /\ u1 = fields[1].units /\ u1 <= Len(x1) /\ Uncut(x1)
  BY TextCells, Zenon
<1>2. PICK x2 \in Seq(Cell), u2 \in Nat :
         x2 = fields[2].text /\ u2 = fields[2].units /\ u2 <= Len(x2) /\ Uncut(x2)
  BY TextCells, Zenon
<1>3. PICK x3 \in Seq(Cell), u3 \in Nat :
         x3 = fields[3].text /\ u3 = fields[3].units /\ u3 <= Len(x3) /\ Uncut(x3)
  BY TextCells, Zenon
<1> DEFINE n == Capacity - HeaderSize
           b == [i \in 1..n |-> Zero]
           b1 == Put(b, 0, <<Number(u1)>> \o x1)
           b2 == Put(b1, 1 + u1, <<Number(u2)>> \o x2)
           b3 == Put(b2, 2 + u1 + u2, <<Number(u3)>> \o x3)
           o == 3 + u1 + u2 + u3
<1>4. n \in Nat /\ o \in Nat
  BY SizeAssumption
<1>5. b \in Seq(Cell) /\ Len(b) = n
  <2>1. \A k \in Nat : \A d \in [1..k -> Cell] : d \in Seq(Cell) /\ Len(d) = k
    OBVIOUS
  <2>2. b \in [1..n -> Cell]
    BY Cells, Zenon
  <2> QED BY <1>4, <2>1, <2>2, Zenon
<1>6. message = Message(HeaderSize + o, SubSeq(b3, 1, Least(o, n)))
  <2> DEFINE start == [buffer |-> b, offset |-> 0, throws |-> FALSE]
             named == SerializeStringInto(start, fields[1])
             spaced == SerializeStringInto(named, fields[2])
             end == SerializeStringInto(spaced, fields[3])
  <2>1. named.buffer = b1 /\ named.offset = 1 + u1
    <3>1. 0 + 1 + u1 = 1 + u1
      OBVIOUS
    <3> QED BY <1>1, <3>1 DEF SerializeStringInto
  <2> HIDE DEF b, b1
  <2>2. spaced.buffer = b2 /\ spaced.offset = 2 + u1 + u2
    <3>1. 1 + u1 + 1 + u2 = 2 + u1 + u2
      OBVIOUS
    <3> HIDE DEF named
    <3> QED BY <1>2, <2>1, <3>1 DEF SerializeStringInto
  <2> HIDE DEF b2
  <2>3. end.buffer = b3 /\ end.offset = o
    <3>1. 2 + u1 + u2 + 1 + u3 = o
      OBVIOUS
    <3> HIDE DEF spaced
    <3> QED BY <1>3, <2>2, <3>1 DEF SerializeStringInto
  <2>4. message = IF end.throws THEN NoMessage
                  ELSE Message(HeaderSize + end.offset,
                               SubSeq(end.buffer, 1, Least(end.offset, Len(b))))
    BY Zenon DEF SerializeSetLeaseInformationMSG, b
  <2> HIDE DEF end, b3, o, n
  <2> QED BY <1>5, <2>3, <2>4, Zenon
<1> HIDE DEF b, b1, b2, b3, o, n
<1>7. o <= n /\ Least(o, n) = o
  <2>1. 3 + u1 + u2 + Len(x3) <= n
    BY <1>1, <1>2, <1>3, Zenon DEF Roomy, n
  <2>2. Len(x3) \in Nat
    BY LenProperties
  <2>3. o <= n
    <3>1. u3 <= Len(x3)
      BY <1>3, Zenon
    <3>2. o = 3 + u1 + u2 + u3
      BY DEF o
    <3> QED BY <1>4, <2>1, <2>2, <3>1, <3>2
  <2> QED BY <2>3, Zenon DEF Least
<1>8. message.body = SubSeq(b3, 1, o)
  <2>1. message.body = SubSeq(b3, 1, Least(o, n))
    BY <1>6, MessageParts, Zenon
  <2> QED BY <1>7, <2>1, Zenon
<1>9. /\ b3 \in Seq(Cell) /\ Len(b3) = n
      /\ StringAt(b3, 0, u1, x1) /\ StringAt(b3, 1 + u1, u2, x2)
      /\ StringAt(b3, 2 + u1 + u2, u3, x3)
  <2>1. /\ 1 + Len(x1) <= Len(b) /\ 2 + u1 + Len(x2) <= Len(b)
        /\ 3 + u1 + u2 + Len(x3) <= Len(b)
    BY <1>1, <1>2, <1>3, <1>5, Zenon DEF Roomy, n
  <2>2. AllFit(b, u1, x1, u2, x2, u3, x3)
    BY <1>1, <1>2, <1>3, <1>5, <2>1, Zenon DEF AllFit
  <2>3. b3 = Filled(b, u1, x1, u2, x2, u3, x3)
    BY Zenon DEF b1, b2, b3, Filled
  <2>4. AllAt(b3, n, u1, x1, u2, x2, u3, x3)
    BY <1>5, <2>2, <2>3, AllWritten, Zenon
  <2> QED BY <2>4, Zenon DEF AllAt
<1> DEFINE d == SubSeq(b3, 1, o)
<1>10. Keeps(d, b3, o) /\ Len(d) = o
  <2>1. d \in Seq(Cell) /\ Len(d) = o
    BY <1>4, <1>7, <1>9, FrontCells, Zenon
  <2>2. \A i \in 1..o : d[i] = b3[i]
    BY <1>4, <1>7, <1>9
  <2> QED BY <1>4, <2>1, <2>2 DEF Keeps
<1> HIDE DEF d
<1>11. /\ 0 + 1 + u1 <= o /\ (1 + u1) + 1 + u2 <= o /\ (2 + u1 + u2) + 1 + u3 <= o
       /\ 1 + u1 = 0 + 1 + u1 /\ 2 + u1 + u2 = (1 + u1) + 1 + u2
  BY DEF o
<1>12. StringAt(d, 0, u1, x1) /\ StringAt(d, 1 + u1, u2, x2) /\ StringAt(d, 2 + u1 + u2, u3, x3)
  BY <1>9, <1>10, <1>11, Kept, Zenon
<1>13. DeserializeSetLeaseInformationMSG(d)
          = <<toString(SubSeq(x1, 1, u1)), toString(SubSeq(x2, 1, u2)),
              toString(SubSeq(x3, 1, u3))>>
  BY <1>11, <1>12, AllRead, Zenon
<1> QED BY <1>1, <1>2, <1>3, <1>8, <1>13, Zenon DEF d
=============================================================================
