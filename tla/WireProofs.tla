----------------------------- MODULE WireProofs -----------------------------
(***************************************************************************)
(* Theorems about Wire: a message and the RPC event in it arrive as they   *)
(* were sent, and what is accepted can be read, for any names, methods,    *)
(* data, ids and codes.                                                    *)
(***************************************************************************)
EXTENDS Wire, SequenceTheorems, WellFoundedInduction, TLAPS

-----------------------------------------------------------------------------
(* Numbers *)

\* An id comes back from its four bytes.
LEMMA IdRoundTrip ==
  ASSUME NEW x \in Nat, x \div 16777216 \in Byte
  PROVE  IdBytes(x) \in Seq(Byte) /\ Len(IdBytes(x)) = 4 /\ IdOf(IdBytes(x)) = x
<1>1. x % 256 \in Byte /\ (x \div 256) % 256 \in Byte /\ (x \div 65536) % 256 \in Byte
      /\ (x \div 16777216) % 256 \in Byte
  BY DEF Byte
<1>2. x = (x % 256) + 256 * ((x \div 256) % 256) + 65536 * ((x \div 65536) % 256) + 16777216 * ((x \div 16777216) % 256)
  BY DEF Byte
<1> QED BY <1>1, <1>2 DEF IdBytes, IdOf

\* A code comes back from its two, with its sign.
LEMMA CodeRoundTrip ==
  ASSUME NEW x \in Int, -32768 <= x, x <= 32767
  PROVE  CodeBytes(x) \in Seq(Byte) /\ Len(CodeBytes(x)) = 2 /\ CodeOf(CodeBytes(x)) = x
<1>1. (x % 256) \in Byte /\ ((x \div 256) % 256) \in Byte
  BY DEF Byte
<1>2. LET v == (x % 256) + 256 * ((x \div 256) % 256) IN x = IF v < 32768 THEN v ELSE v - 65536
  OBVIOUS
<1> QED BY <1>1, <1>2 DEF CodeBytes, CodeOf

-----------------------------------------------------------------------------
(* The parameters *)

\* Names, methods, data and payloads.
LEMMA Parameters ==
  /\ SENDER \in Text /\ TARGET \in Text /\ RECEIVER \in Text
  /\ Method \subseteq Text /\ Data \subseteq Seq(Byte) /\ Raw \subseteq Seq(Byte)
  /\ Nil \notin Seq(Byte)
BY WireAssumption, SMT

\* Codes.
LEMMA CodeRange == \A x \in RpcCode : x \in Int /\ -32768 <= x /\ x <= 32767
BY WireAssumption, SMT

-----------------------------------------------------------------------------
(* Slices *)

\* What precedes a position and what follows it.
LEMMA FromConcat ==
  ASSUME NEW S, NEW a \in Seq(S), NEW b \in Seq(S)
  PROVE  From(a \o b, Len(a)) = b /\ Slice(a \o b, 0, Len(a)) = a
<1> DEFINE c == a \o b
<1>1. /\ c \in Seq(S) /\ Len(c) = Len(a) + Len(b) /\ Len(a) \in Nat /\ Len(b) \in Nat
      /\ \A i \in 1..(Len(a) + Len(b)) : c[i] = IF i <= Len(a) THEN a[i] ELSE b[i - Len(a)]
      /\ \A i \in 1..Len(a) : a[i] \in S
      /\ \A i \in 1..Len(b) : b[i] \in S
  BY ConcatProperties, LenProperties
<1> HIDE DEF c
<1>2. From(c, Len(a)) = b
  <2> DEFINE d == SubSeq(c, Len(a) + 1, Len(c))
  <2>1. \A i \in (Len(a) + 1)..Len(c) : c[i] \in S BY <1>1
  <2>2. /\ d \in Seq(S)
        /\ Len(d) = IF Len(a) + 1 <= Len(c) THEN Len(c) - (Len(a) + 1) + 1 ELSE 0
        /\ \A i \in 1..(Len(c) - (Len(a) + 1) + 1) : d[i] = c[Len(a) + 1 + i - 1]
    BY <1>1, <2>1, SubSeqProperties
  <2> HIDE DEF d
  <2>3. Len(d) = Len(b) BY <1>1, <2>2
  <2>4. ASSUME NEW i \in 1..Len(b) PROVE d[i] = b[i]
    <3>1. d[i] = c[Len(a) + i] BY <1>1, <2>2, <2>4
    <3>2. c[Len(a) + i] = b[i] BY <1>1, <2>4
    <3> QED BY <3>1, <3>2
  <2>5. d = b BY <2>2, <2>3, <2>4, SeqEqual
  <2> QED BY <2>5 DEF d, From
<1>3. Slice(c, 0, Len(a)) = a
  <2> DEFINE d == SubSeq(c, 0 + 1, Len(a))
  <2>1. \A i \in (0 + 1)..Len(a) : c[i] \in S BY <1>1
  <2>2. /\ d \in Seq(S)
        /\ Len(d) = IF 0 + 1 <= Len(a) THEN Len(a) - (0 + 1) + 1 ELSE 0
        /\ \A i \in 1..(Len(a) - (0 + 1) + 1) : d[i] = c[0 + 1 + i - 1]
    BY <1>1, <2>1, SubSeqProperties
  <2> HIDE DEF d
  <2>3. Len(d) = Len(a) BY <1>1, <2>2
  <2>4. ASSUME NEW i \in 1..Len(a) PROVE d[i] = a[i]
    BY <1>1, <2>2, <2>4
  <2>5. d = a BY <2>2, <2>3, <2>4, SeqEqual
  <2> QED BY <2>5 DEF d, Slice
<1> QED BY <1>2, <1>3 DEF c

\* A sequence is what precedes a position and what follows it.
LEMMA SplitAt ==
  ASSUME NEW S, NEW s \in Seq(S), NEW n \in 0..Len(s)
  PROVE  /\ Slice(s, 0, n) \in Seq(S) /\ Len(Slice(s, 0, n)) = n
         /\ From(s, n) \in Seq(S) /\ Len(From(s, n)) = Len(s) - n
         /\ s = Slice(s, 0, n) \o From(s, n)
<1>1. Len(s) \in Nat /\ \A i \in 1..Len(s) : s[i] \in S
  BY LenProperties
<1>2. /\ SubSeq(s, 1, n) \in Seq(S) /\ Len(SubSeq(s, 1, n)) = n
      /\ SubSeq(s, n + 1, Len(s)) \in Seq(S) /\ Len(SubSeq(s, n + 1, Len(s))) = Len(s) - n
  <2>0. n \in Int /\ 0 <= n /\ n <= Len(s) BY <1>1
  <2>1. \A i \in 1..n : s[i] \in S BY <1>1
  <2>2. \A i \in (n + 1)..Len(s) : s[i] \in S BY <1>1
  <2>3. /\ SubSeq(s, 1, n) \in Seq(S)
        /\ Len(SubSeq(s, 1, n)) = IF 1 <= n THEN n - 1 + 1 ELSE 0
    BY <2>0, <2>1, SubSeqProperties
  <2>4. /\ SubSeq(s, n + 1, Len(s)) \in Seq(S)
        /\ Len(SubSeq(s, n + 1, Len(s))) = IF n + 1 <= Len(s) THEN Len(s) - (n + 1) + 1 ELSE 0
    BY <1>1, <2>0, <2>2, SubSeqProperties
  <2> QED BY <1>1, <2>0, <2>3, <2>4
<1>3. SubSeq(s, 1, n) \o SubSeq(s, n + 1, Len(s)) = SubSeq(s, 1, Len(s))
  <2>1. 1 \in 1..(Len(s) + 1) /\ n \in (1 - 1)..Len(s) /\ Len(s) \in n..Len(s) BY <1>1
  <2> QED BY <2>1, ConcatAdjacentSubSeq
<1>4. SubSeq(s, 1, Len(s)) = s BY SubSeqFull
<1>5. Slice(s, 0, n) = SubSeq(s, 1, n)
  <2>1. 0 + 1 = 1 OBVIOUS
  <2> QED BY <2>1, Zenon DEF Slice
<1>6. From(s, n) = SubSeq(s, n + 1, Len(s)) BY DEF From
<1> QED BY <1>2, <1>3, <1>4, <1>5, <1>6

\* The part in the middle.
LEMMA SliceConcat ==
  ASSUME NEW S, NEW a \in Seq(S), NEW b \in Seq(S), NEW c \in Seq(S)
  PROVE  Slice(a \o b \o c, Len(a), Len(a) + Len(b)) = b
<1> DEFINE d == a \o b \o c
<1>1. /\ a \o b \in Seq(S) /\ Len(a \o b) = Len(a) + Len(b) /\ Len(a) \in Nat /\ Len(b) \in Nat
      /\ \A i \in 1..(Len(a) + Len(b)) : (a \o b)[i] = IF i <= Len(a) THEN a[i] ELSE b[i - Len(a)]
      /\ \A i \in 1..Len(a) : a[i] \in S
      /\ \A i \in 1..Len(b) : b[i] \in S
      /\ Len(c) \in Nat
  BY ConcatProperties, LenProperties
<1>2. /\ d \in Seq(S) /\ Len(d) = Len(a \o b) + Len(c)
      /\ \A i \in 1..(Len(a \o b) + Len(c)) : d[i] = IF i <= Len(a \o b) THEN (a \o b)[i] ELSE c[i - Len(a \o b)]
  BY <1>1, ConcatProperties
<1> HIDE DEF d
<1>3. \A i \in 1..Len(b) : d[Len(a) + i] = b[i]
  BY <1>1, <1>2
<1> DEFINE e == SubSeq(d, Len(a) + 1, Len(a) + Len(b))
<1>4. \A i \in (Len(a) + 1)..(Len(a) + Len(b)) : d[i] \in S BY <1>1, <1>2
<1>5. /\ e \in Seq(S)
      /\ Len(e) = IF Len(a) + 1 <= Len(a) + Len(b) THEN Len(a) + Len(b) - (Len(a) + 1) + 1 ELSE 0
      /\ \A i \in 1..(Len(a) + Len(b) - (Len(a) + 1) + 1) : e[i] = d[Len(a) + 1 + i - 1]
  BY <1>1, <1>4, SubSeqProperties
<1> HIDE DEF e
<1>6. Len(e) = Len(b) BY <1>1, <1>5
<1>7. ASSUME NEW i \in 1..Len(b) PROVE e[i] = b[i]
  <2>1. e[i] = d[Len(a) + i] BY <1>1, <1>5, <1>7
  <2> QED BY <1>3, <1>7, <2>1
<1>8. e = b BY <1>5, <1>6, <1>7, SeqEqual
<1> QED BY <1>8 DEF e, d, Slice

-----------------------------------------------------------------------------
(* The first zero byte *)

\* It ends a text.
LEMMA CutText ==
  ASSUME NEW a \in Text, NEW b \in Seq(Byte)
  PROVE  Cut(a \o <<0>> \o b) = Len(a)
<1> DEFINE d == a \o <<0>> \o b
<1>0. a \in Seq(Byte) /\ <<0>> \in Seq(Byte) /\ Len(<<0>>) = 1 /\ <<0>>[1] = 0
  BY SeqMonotonic DEF Text, Byte
<1>1. /\ a \o <<0>> \in Seq(Byte) /\ Len(a \o <<0>>) = Len(a) + 1 /\ Len(a) \in Nat /\ Len(b) \in Nat
      /\ \A i \in 1..(Len(a) + 1) : (a \o <<0>>)[i] = IF i <= Len(a) THEN a[i] ELSE <<0>>[i - Len(a)]
      /\ \A i \in 1..Len(a) : a[i] # 0
  BY <1>0, ConcatProperties, LenProperties, ElementOfSeq DEF Text
<1>2. /\ d \in Seq(Byte) /\ Len(d) = Len(a) + 1 + Len(b)
      /\ \A i \in 1..(Len(a) + 1 + Len(b)) : d[i] = IF i <= Len(a) + 1 THEN (a \o <<0>>)[i] ELSE b[i - (Len(a) + 1)]
  BY <1>1, ConcatProperties
<1> HIDE DEF d
<1>3. ASSUME NEW i \in 1..Len(a) PROVE d[i] # 0
  <2>1. d[i] = (a \o <<0>>)[i] BY <1>1, <1>2, <1>3
  <2>2. (a \o <<0>>)[i] = a[i] BY <1>1, <1>3
  <2> QED BY <1>1, <1>3, <2>1, <2>2
<1>4. d[Len(a) + 1] = 0 BY <1>0, <1>1, <1>2
<1> DEFINE I == {i \in 1..Len(d) : d[i] = 0}
<1>5. Len(a) + 1 \in I /\ \A i \in I : i \in Int /\ Len(a) + 1 <= i
  BY <1>1, <1>2, <1>3, <1>4
<1>6. Min(I) = Len(a) + 1
  <2> HIDE DEF I
  <2> QED BY <1>1, <1>5 DEF Min
<1>7. Cut(d) = (IF I # {} THEN Min(I) ELSE 0) - 1
  BY DEF Cut, SelectInSeq
<1>8. Cut(d) = Len(a)
  <2> HIDE DEF I
  <2> QED BY <1>1, <1>5, <1>6, <1>7
<1> QED BY <1>8 DEF d

\* If there is one, it lies within the bytes.
LEMMA CutRange ==
  ASSUME NEW s \in Seq(Byte)
  PROVE  Cut(s) \in -1..(Len(s) - 1)
<1> DEFINE I == {i \in 1..Len(s) : s[i] = 0}
<1> DEFINE R == OpToRel(<, Nat)
<1>0. Len(s) \in Nat BY LenProperties
<1>1. I \subseteq Nat /\ I \subseteq 1..Len(s) BY <1>0
<1>2. Cut(s) = (IF I # {} THEN Min(I) ELSE 0) - 1
  BY DEF Cut, SelectInSeq
<1>3. CASE I = {}
  <2> HIDE DEF I
  <2> QED BY <1>0, <1>2, <1>3
<1>4. CASE I # {}
  <2>1. IsWellFoundedOn(R, Nat)
    BY NatLessThanWellFounded
  <2>2. PICK m \in I : \A k \in I : ~(<<k, m>> \in R)
    <3> HIDE DEF I, R
    <3> QED BY <1>1, <1>4, <2>1, WFMin
  <2> HIDE DEF I
  <2>7. \A k \in I : ~(k < m)
    BY <1>1, <2>2 DEF OpToRel
  <2> HIDE DEF R
  <2>3. \A k \in I : m <= k
    BY <1>1, <2>7
  <2>4. Min(I) \in I
    BY <2>3 DEF Min
  <2>5. Min(I) \in 1..Len(s) BY <1>1, <2>4
  <2>6. Cut(s) = Min(I) - 1 BY <1>2, <1>4
  <2> QED BY <1>0, <2>5, <2>6
<1> QED BY <1>3, <1>4

-----------------------------------------------------------------------------
(* Fields *)

\* Of bytes, without the set they are of.
LEMMA Assoc ==
  ASSUME NEW a \in Seq(Byte), NEW b \in Seq(Byte), NEW c \in Seq(Byte)
  PROVE  (a \o b) \o c = a \o (b \o c)
BY ConcatAssociative

\* What a concatenation of bytes holds.
LEMMA Joined ==
  ASSUME NEW a \in Seq(Byte), NEW b \in Seq(Byte)
  PROVE  /\ a \o b \in Seq(Byte) /\ Len(a \o b) = Len(a) + Len(b)
         /\ \A i \in 1..(Len(a) + Len(b)) : (a \o b)[i] = IF i <= Len(a) THEN a[i] ELSE b[i - Len(a)]
         /\ Len(a) \in Nat /\ Len(b) \in Nat
BY ConcatProperties, LenProperties

\* The slices at the seam give the two halves back.
LEMMA Halves ==
  ASSUME NEW a \in Seq(Byte), NEW b \in Seq(Byte)
  PROVE  From(a \o b, Len(a)) = b /\ Slice(a \o b, 0, Len(a)) = a
BY FromConcat

\* A slice between two seams gives the part between them.
LEMMA Middle ==
  ASSUME NEW a \in Seq(Byte), NEW b \in Seq(Byte), NEW c \in Seq(Byte)
  PROVE  Slice(a \o b \o c, Len(a), Len(a) + Len(b)) = b
BY SliceConcat

\* A field with the zero byte that ends it, and what follows.
Sep == <<0>>
Delimited(a, c) == a \o Sep \o c

\* The zero byte that ends a field.
LEMMA SepType == Sep \in Seq(Byte) /\ Len(Sep) = 1
BY DEF Sep, Byte

\* A name is bytes, also with the zero byte behind it.
LEMMA TextBytes ==
  ASSUME NEW a \in Text
  PROVE  a \in Seq(Byte) /\ Len(a) \in Nat /\ a \o Sep \in Seq(Byte) /\ Len(a \o Sep) = Len(a) + 1
<1>1. a \in Seq(Byte) BY SeqMonotonic DEF Text
<1>2. Len(a) \in Nat /\ a \o Sep \in Seq(Byte) /\ Len(a \o Sep) = Len(a) + Len(Sep)
  BY <1>1, SepType, Joined
<1> QED BY <1>1, <1>2, SepType

\* A field is found again: its first zero byte is the one that ends it, and the
\* slices before and behind give the name and the rest.
LEMMA Field ==
  ASSUME NEW a \in Text, NEW c \in Seq(Byte)
  PROVE  /\ Delimited(a, c) \in Seq(Byte) /\ Len(Delimited(a, c)) = Len(a) + 1 + Len(c)
         /\ Len(a) \in Nat /\ Len(c) \in Nat
         /\ SubSeq(Delimited(a, c), 1, Len(Delimited(a, c))) = Delimited(a, c)
         /\ Cut(Delimited(a, c)) = Len(a) /\ Slice(Delimited(a, c), 0, Len(a)) = a
         /\ From(Delimited(a, c), Len(a) + 1) = c
<1>0. PICK f \in Seq(Byte) : f = a \o Sep /\ Len(f) = Len(a) + 1 BY TextBytes
<1>1. Delimited(a, c) = f \o c BY <1>0 DEF Delimited
<1>2. Len(a) \in Nat /\ Len(c) \in Nat /\ a \in Seq(Byte) /\ Sep \in Seq(Byte)
  BY TextBytes, SepType, LenProperties
<1>3. /\ f \o c \in Seq(Byte) /\ Len(f \o c) = Len(a) + 1 + Len(c) /\ From(f \o c, Len(a) + 1) = c
      /\ SubSeq(f \o c, 1, Len(f \o c)) = f \o c
  <2>1. f \o c \in Seq(Byte) /\ Len(f \o c) = Len(f) + Len(c) BY Joined
  <2>2. From(f \o c, Len(f)) = c BY Halves
  <2>3. SubSeq(f \o c, 1, Len(f \o c)) = f \o c BY <2>1, SubSeqFull
  <2> QED BY <1>0, <2>1, <2>2, <2>3
<1>4. Slice(f \o c, 0, Len(a)) = a
  <2>1. Sep \o c \in Seq(Byte) /\ f \o c = a \o (Sep \o c) BY <1>0, <1>2, Joined, Assoc
  <2>2. Slice(a \o (Sep \o c), 0, Len(a)) = a BY <1>2, <2>1, Halves
  <2> QED BY <2>1, <2>2
<1>5. Cut(Delimited(a, c)) = Len(a) BY CutText DEF Delimited, Sep
<1> QED BY <1>1, <1>2, <1>3, <1>4, <1>5

\* Two fields.
LEMMA TwoFields ==
  ASSUME NEW a \in Text, NEW d \in Text, NEW c \in Seq(Byte), NEW b, b = Delimited(a, Delimited(d, c))
  PROVE  /\ Cut(From(b, Len(a) + 1)) = Len(d)
         /\ Slice(b, Len(a) + 1, Len(a) + 1 + Len(d)) = d
         /\ From(b, Len(a) + 1 + Len(d) + 1) = c
         /\ Len(b) = Len(a) + 1 + Len(d) + 1 + Len(c)
<1>1. PICK e \in Seq(Byte) : e = Delimited(d, c) /\ Len(e) = Len(d) + 1 + Len(c) /\ Cut(e) = Len(d)
  BY Field
<1>2. From(b, Len(a) + 1) = e /\ Len(b) = Len(a) + 1 + Len(e) /\ Len(a) \in Nat /\ Len(d) \in Nat
      /\ Len(c) \in Nat
  BY <1>1, Field
<1>3. PICK f \in Seq(Byte) : f = a \o Sep /\ Len(f) = Len(a) + 1 BY TextBytes
<1>4. PICK g \in Seq(Byte) : g = d \o Sep /\ Len(g) = Len(d) + 1 BY TextBytes
<1>5. d \in Seq(Byte) /\ Sep \in Seq(Byte) /\ Sep \o c \in Seq(Byte) BY TextBytes, SepType, Joined
<1>6. b = f \o (g \o c) BY <1>3, <1>4 DEF Delimited
<1>7. From(b, Len(a) + 1 + Len(d) + 1) = c
  <2>1. PICK n \in Seq(Byte) : n = f \o g /\ Len(n) = Len(f) + Len(g) BY Joined
  <2>2. Len(n) = Len(a) + 1 + Len(d) + 1 BY <1>2, <1>3, <1>4, <2>1
  <2>3. From(n \o c, Len(n)) = c BY Halves
  <2>4. n \o c = b BY <1>6, <2>1, Assoc
  <2> QED BY <2>2, <2>3, <2>4
<1>8. Slice(b, Len(f), Len(f) + Len(d)) = d
  <2>1. g \o c = d \o (Sep \o c)
    <3>1. (d \o Sep) \o c = d \o (Sep \o c) BY <1>5, Assoc
    <3> QED BY <1>4, <3>1
  <2>2. b = f \o d \o (Sep \o c)
    <3>1. (f \o d) \o (Sep \o c) = f \o (d \o (Sep \o c)) BY <1>5, Assoc
    <3> QED BY <1>6, <2>1, <3>1
  <2>3. Slice(f \o d \o (Sep \o c), Len(f), Len(f) + Len(d)) = d BY <1>5, Middle
  <2> QED BY <2>2, <2>3
<1> QED BY <1>1, <1>2, <1>3, <1>7, <1>8

\* The kind of an event, its id, a part and the rest.
Tagged(k, i, m, c) == <<k>> \o i \o m \o c

\* What the accessors read of them in the bytes b.
Parts(b, k, i, m, c) ==
  /\ b \in Seq(Byte) /\ Len(b) = 5 + Len(m) + Len(c) /\ Len(m) \in Nat /\ Len(c) \in Nat
  /\ b # <<>> /\ b[1] = k /\ Slice(b, 1, 5) = i
  /\ Slice(b, 5, 5 + Len(m)) = m /\ From(b, 5) = m \o c /\ From(b, 5 + Len(m)) = c

\* The accessors' slices give the parts back.
LEMMA EventParts ==
  ASSUME NEW k \in Byte, NEW i \in Seq(Byte), Len(i) = 4, NEW m \in Seq(Byte), NEW c \in Seq(Byte)
  PROVE  Parts(Tagged(k, i, m, c), k, i, m, c)
<1> DEFINE b == Tagged(k, i, m, c)
<1>0. PICK h \in Seq(Byte) : h = <<k>> /\ Len(h) = 1 /\ h[1] = k
  <2>1. <<k>> \in Seq(Byte) /\ Len(<<k>>) = 1 /\ <<k>>[1] = k OBVIOUS
  <2> QED BY <2>1, Zenon
<1>1. PICK g \in Seq(Byte) : g = h \o i BY <1>0, Joined
<1>2. Len(g) = 5 /\ g[1] = k
  <2>1. /\ Len(g) = Len(h) + Len(i)
        /\ \A j \in 1..(Len(h) + Len(i)) : g[j] = IF j <= Len(h) THEN h[j] ELSE i[j - Len(h)]
    BY <1>1, Joined
  <2> QED BY <1>0, <2>1
<1>3. PICK d \in Seq(Byte) : d = m \o c BY Joined
<1>4. Len(d) = Len(m) + Len(c) /\ Len(m) \in Nat /\ Len(c) \in Nat /\ Len(d) \in Nat
  BY <1>3, Joined, LenProperties
<1>5. b = g \o m \o c BY <1>0, <1>1 DEF Tagged
<1> HIDE DEF b
<1>6. b = g \o d BY <1>3, <1>5, Assoc, Zenon
<1>7. b \in Seq(Byte) /\ Len(b) = 5 + Len(m) + Len(c) /\ b[1] = k
  <2>1. /\ b \in Seq(Byte) /\ Len(b) = Len(g) + Len(d)
        /\ \A j \in 1..(Len(g) + Len(d)) : b[j] = IF j <= Len(g) THEN g[j] ELSE d[j - Len(g)]
    <3>1. /\ g \o d \in Seq(Byte) /\ Len(g \o d) = Len(g) + Len(d)
          /\ \A j \in 1..(Len(g) + Len(d)) : (g \o d)[j] = IF j <= Len(g) THEN g[j] ELSE d[j - Len(g)]
      BY Joined
    <3> QED BY <1>6, <3>1
  <2> QED BY <1>2, <1>4, <2>1
<1>8. b # <<>>
  <2>1. Len(<<>>) = 0 BY EmptySeq
  <2> QED BY <1>4, <1>7, <2>1
<1>9. b = h \o i \o d /\ Slice(b, 1, 5) = i
  <2>1. b = h \o i \o d BY <1>1, <1>6
  <2>2. Slice(h \o i \o d, Len(h), Len(h) + Len(i)) = i BY Middle
  <2>3. Len(h) = 1 /\ Len(h) + Len(i) = 5 BY <1>0
  <2> QED BY <2>1, <2>2, <2>3, Zenon
<1>10. Slice(b, 5, 5 + Len(m)) = m
  <2>1. Slice(g \o m \o c, Len(g), Len(g) + Len(m)) = m BY Middle
  <2> QED BY <1>2, <1>5, <2>1
<1>11. From(b, 5) = d BY <1>2, <1>6, Halves
<1>12. From(b, 5 + Len(m)) = c
  <2>1. PICK n \in Seq(Byte) : n = g \o m BY Joined
  <2>4. Len(n) = Len(g) + Len(m) BY <2>1, Joined, Zenon
  <2>2. Len(n) = 5 + Len(m) BY <1>2, <2>4
  <2>3. From(n \o c, Len(n)) = c BY Halves
  <2> QED BY <1>5, <2>1, <2>2, <2>3
<1>13. Parts(b, k, i, m, c) BY <1>3, <1>4, <1>7, <1>8, <1>9, <1>10, <1>11, <1>12 DEF Parts
<1> QED BY <1>13 DEF b

-----------------------------------------------------------------------------
(* The invariant *)

\* What the program asks for is a message, or an RPC event with its header.
Asked == \/ sent = Nil /\ msg \in Plain
         \/ sent \in Event /\ msg = ZcSend(sent)

\* The bytes that are to arrive, and what a frame has in front of them.
Content == OrNothing(msg.header) \o msg.payload
WithReceiver(c) == IF msg.op = "publish_for" THEN Delimited(RECEIVER, c) ELSE c
WithTopic(c) == IF msg.op = "send" THEN c ELSE Delimited(TARGET, c)

\* A frame on a socket states its length, and holds the content behind its
\* fields.
Streamed ==
  /\ stage = "sent" =>
       stream.bytes = Delimited(TARGET, WithReceiver(Content)) /\ stream.len = Len(stream.bytes)
  /\ stage = "written" =>
       stream.bytes = Delimited(SENDER, WithTopic(Content)) /\ stream.len = Len(stream.bytes)

\* A frame in a program has its header in front of the payload or apart.
Carried ==
  /\ fdata.buf \in Seq(Byte) /\ fdata.payload_pos \in 0..Len(fdata.buf)
  /\ stage \in {"routed", "arrived", "parsed"} =>
       /\ fdata.sender = SENDER /\ fdata.topic = TopicOf(msg)
       /\ \/ fdata.header = Nil /\ Payload(fdata) = Content
          \/ fdata.header = msg.header /\ Payload(fdata) = msg.payload

\* All of it, from the request to the parsed event.
Stages == {"asked", "sent", "routed", "written", "arrived", "parsed"}
WireInv ==
  /\ Asked /\ Streamed /\ Carried
  /\ stage \in Stages /\ from \in {"ipc", "internal"} /\ to \in {"ipc", "internal"} /\ stream.len \in Nat
  /\ stage = "parsed" => msg.op = "send" /\ event = TryFrom(fdata)

-----------------------------------------------------------------------------
(* Messages *)

\* The header of an event, kind by kind.
LEMMA HeaderIs ==
  ASSUME NEW e \in Event
  PROVE  /\ e.kind = "Notification" => HeaderOf(e) = <<0>>
         /\ e.kind = "Request" => HeaderOf(e) = <<1>> \o IdBytes(e.id) \o e.method \o <<0>>
         /\ e.kind = "Reply" => HeaderOf(e) = <<17>> \o IdBytes(e.id)
         /\ e.kind = "ErrorReply" => HeaderOf(e) = <<18>> \o IdBytes(e.id) \o CodeBytes(e.code)
<1>1. CASE e.kind = "Notification" BY <1>1, SMT DEF HeaderOf
<1>2. CASE e.kind = "Request" BY <1>2, Zenon DEF HeaderOf
<1>3. CASE e.kind = "Reply" BY <1>3, SMT DEF HeaderOf
<1>4. CASE e.kind = "ErrorReply" BY <1>4, SMT DEF HeaderOf
<1> QED BY <1>1, <1>2, <1>3, <1>4

\* It consists of bytes.
LEMMA HeaderType ==
  ASSUME NEW e \in Event
  PROVE  /\ HeaderOf(e) \in Seq(Byte) /\ HeaderOf(e) # Nil /\ e.data \in Seq(Byte)
         /\ e.kind # "Notification" =>
              IdBytes(e.id) \in Seq(Byte) /\ Len(IdBytes(e.id)) = 4 /\ IdOf(IdBytes(e.id)) = e.id
<1>1. e.data \in Seq(Byte) BY Parameters DEF Event
<1>2. ASSUME e.kind # "Notification"
      PROVE  IdBytes(e.id) \in Seq(Byte) /\ Len(IdBytes(e.id)) = 4 /\ IdOf(IdBytes(e.id)) = e.id
  <2>1. e.id \in RpcId \/ e.id = 0 BY <1>2 DEF Event
  <2>2. \A x \in RpcId : x \in Nat /\ x \div 16777216 \in Byte BY WireAssumption, SMT
  <2>3. 0 \in Nat /\ 0 \div 16777216 \in Byte BY SMT DEF Byte
  <2>4. e.id \in Nat /\ e.id \div 16777216 \in Byte BY <2>1, <2>2, <2>3, SMT
  <2> QED BY <2>4, IdRoundTrip, SMT
<1>3. HeaderOf(e) \in Seq(Byte)
  <2>1. CASE e.kind = "Notification"
    <3>1. HeaderOf(e) = <<0>> BY <2>1, HeaderIs
    <3> QED BY <3>1 DEF Byte
  <2>2. CASE e.kind = "Request"
    <3>1. HeaderOf(e) = <<1>> \o IdBytes(e.id) \o e.method \o <<0>> BY <2>2, HeaderIs
    <3>2. e.method \in Seq(Byte)
      <4>1. e.method \in Text BY <2>2, Parameters DEF Event
      <4> QED BY <4>1, TextBytes
    <3>3. <<1>> \in Seq(Byte) /\ <<0>> \in Seq(Byte) BY DEF Byte
    <3>4. PICK i \in Seq(Byte) : i = IdBytes(e.id) BY <1>2, <2>2
    <3>5. <<1>> \o i \in Seq(Byte) BY <3>3, Joined
    <3>6. <<1>> \o i \o e.method \in Seq(Byte) BY <3>2, <3>5, Joined
    <3>7. <<1>> \o i \o e.method \o <<0>> \in Seq(Byte) BY <3>3, <3>6, Joined
    <3> QED BY <3>1, <3>4, <3>7
  <2>3. CASE e.kind = "Reply"
    <3>1. HeaderOf(e) = <<17>> \o IdBytes(e.id) BY <2>3, HeaderIs
    <3>2. <<17>> \in Seq(Byte) BY DEF Byte
    <3> QED BY <1>2, <2>3, <3>1, <3>2, Joined
  <2>4. CASE e.kind = "ErrorReply"
    <3>1. HeaderOf(e) = <<18>> \o IdBytes(e.id) \o CodeBytes(e.code) BY <2>4, HeaderIs
    <3>2. <<18>> \in Seq(Byte) BY DEF Byte
    <3>3. PICK i \in Seq(Byte) : i = IdBytes(e.id) BY <1>2, <2>4
    <3>4. CodeBytes(e.code) \in Seq(Byte)
      <4>1. e.code \in Int /\ -32768 <= e.code /\ e.code <= 32767 BY <2>4, CodeRange DEF Event
      <4> QED BY <4>1, CodeRoundTrip
    <3>5. <<18>> \o i \in Seq(Byte) BY <3>2, Joined
    <3>6. <<18>> \o i \o CodeBytes(e.code) \in Seq(Byte) BY <3>4, <3>5, Joined
    <3> QED BY <3>1, <3>3, <3>6
  <2> QED BY <2>1, <2>2, <2>3, <2>4 DEF Event
<1>4. HeaderOf(e) # Nil BY <1>3, Parameters
<1> QED BY <1>1, <1>2, <1>3, <1>4

\* What is asked for consists of bytes.
LEMMA AskedType ==
  ASSUME Asked
  PROVE  /\ msg.op \in {"send", "publish", "publish_for"}
         /\ OrNothing(msg.header) \in Seq(Byte) /\ msg.payload \in Seq(Byte) /\ Content \in Seq(Byte)
         /\ Len(Content) = Len(OrNothing(msg.header)) + Len(msg.payload)
         /\ msg \in Plain \cup {ZcSend(e) : e \in Event}
<1>1. CASE sent = Nil /\ msg \in Plain
  <2>1. msg.header = Nil /\ msg.payload \in Seq(Byte) /\ msg.op \in {"send", "publish", "publish_for"}
    BY <1>1, Parameters DEF Plain
  <2>2. OrNothing(msg.header) = <<>> /\ <<>> \in Seq(Byte) BY <2>1 DEF OrNothing
  <2> QED BY <1>1, <2>1, <2>2, Joined DEF Content
<1>2. CASE sent \in Event /\ msg = ZcSend(sent)
  <2>1. msg.header = HeaderOf(sent) /\ msg.payload = sent.data /\ msg.op = "send"
    BY <1>2 DEF ZcSend
  <2>2. OrNothing(msg.header) = HeaderOf(sent) BY <1>2, <2>1, HeaderType DEF OrNothing
  <2>3. OrNothing(msg.header) \in Seq(Byte) /\ msg.payload \in Seq(Byte) BY <1>2, <2>1, <2>2, HeaderType
  <2> QED BY <1>2, <2>1, <2>3, Joined DEF Content
<1> QED BY <1>1, <1>2 DEF Asked

-----------------------------------------------------------------------------
(* The way of a message *)

\* The program's request does not change.
LEMMA SameMsg ==
  ASSUME UNCHANGED <<msg, sent>>
  PROVE  /\ Asked' <=> Asked
         /\ Content' = Content /\ TopicOf(msg)' = TopicOf(msg)
         /\ \A c : WithReceiver(c)' = WithReceiver(c) /\ WithTopic(c)' = WithTopic(c)
BY DEF Asked, Content, TopicOf, WithReceiver, WithTopic

\* Parts that are written one after the other.
Laid(f, r, h, p) ==
  /\ f \o r \o h \o p = f \o (r \o (h \o p))
  /\ Len(f \o r \o h \o p) = Len(f) + Len(r) + Len(h) + Len(p)
  /\ Len(f) \in Nat /\ Len(r) \in Nat /\ Len(h) \in Nat /\ Len(p) \in Nat

\* Their lengths add up.
LEMMA Written ==
  ASSUME NEW f \in Seq(Byte), NEW r \in Seq(Byte), NEW h \in Seq(Byte), NEW p \in Seq(Byte)
  PROVE  Laid(f, r, h, p)
<1>1. PICK g \in Seq(Byte) : g = f \o r /\ Len(g) = Len(f) + Len(r) BY Joined
<1>2. PICK k \in Seq(Byte) : k = g \o h /\ Len(k) = Len(g) + Len(h) BY Joined
<1>3. k \o p \in Seq(Byte) /\ Len(k \o p) = Len(k) + Len(p) BY Joined
<1>4. PICK q \in Seq(Byte) : q = h \o p BY Joined
<1>5. k \o p = g \o q
  <2>1. (g \o h) \o p = g \o (h \o p) BY Assoc
  <2> QED BY <1>2, <1>4, <2>1, Zenon
<1>6. g \o q = f \o (r \o q)
  <2>1. (f \o r) \o q = f \o (r \o q) OBVIOUS
  <2> QED BY <1>1, <2>1, Zenon
<1>7. Len(f) \in Nat /\ Len(r) \in Nat /\ Len(h) \in Nat /\ Len(p) \in Nat BY LenProperties
<1>8. Len(k \o p) = Len(f) + Len(r) + Len(h) + Len(p) BY <1>1, <1>2, <1>3, <1>7
<1>9. f \o r \o h \o p = k \o p BY <1>1, <1>2, Zenon
<1>10. k \o p = f \o (r \o (h \o p)) BY <1>4, <1>5, <1>6, Zenon
<1> QED BY <1>7, <1>8, <1>9, <1>10, Zenon DEF Laid

\* A payload without anything in front.
LEMMA Whole ==
  ASSUME NEW p \in Seq(Byte)
  PROVE  From(p, 0) = p /\ <<>> \o p = p /\ Len(<<>>) = 0 /\ <<>> \in Seq(Byte)
<1>1. SubSeq(p, 1, Len(p)) = p BY SubSeqFull
<1>2. 0 + 1 = 1 OBVIOUS
<1>3. From(p, 0) = p BY <1>1, <1>2, Zenon DEF From
<1>4. <<>> \o p = p BY ConcatEmptySeq
<1>5. Len(<<>>) = 0 /\ <<>> \in Seq(Byte) BY EmptySeq
<1> QED BY <1>3, <1>4, <1>5

\* The in-process client hands the frame over.
LEMMA SendInternalInv ==
  ASSUME WireInv, SendInternal
  PROVE  WireInv'
<1>1. /\ fdata' = [sender |-> SENDER, topic |-> TopicOf(msg), header |-> msg.header,
                   buf |-> msg.payload, payload_pos |-> 0]
      /\ stage' = "routed" /\ UNCHANGED <<msg, sent, from, to, stream, event>>
  BY DEF SendInternal
<1>2. Asked' /\ TopicOf(msg)' = TopicOf(msg) BY <1>1, SameMsg DEF WireInv
<1>3. PICK p \in Seq(Byte) : p = msg.payload BY AskedType DEF WireInv
<1>4. Len(p) \in Nat /\ From(p, 0) = p BY Whole, LenProperties
<1>5. Payload(fdata)' = p BY <1>1, <1>3, <1>4 DEF Payload
<1>6. Carried' BY <1>1, <1>2, <1>3, <1>4, <1>5 DEF Carried
<1>7. Streamed' BY <1>1 DEF Streamed
<1> QED BY <1>1, <1>2, <1>6, <1>7 DEF WireInv, Stages

\* send_frame! of a client writes the length, the target and the parts.
LEMMA SendIpcInv ==
  ASSUME WireInv, SendIpc
  PROVE  WireInv'
<1>1. PICK h \in Seq(Byte), p \in Seq(Byte) : h = OrNothing(msg.header) /\ p = msg.payload /\ h \o p = Content
  BY AskedType DEF WireInv, Content
<1>2. PICK r : r = IF msg.op = "publish_for" THEN RECEIVER \o Sep ELSE <<>> OBVIOUS
<1>3. /\ stream' = [len |-> Len(TARGET) + Len(r) + Len(p) + Len(h) + 1,
                    bytes |-> TARGET \o Sep \o r \o h \o p]
      /\ stage' = "sent" /\ UNCHANGED <<msg, sent, from, to, fdata, event>>
  BY <1>1, <1>2 DEF SendIpc, Sep
<1>4. r \in Seq(Byte) BY <1>2, Parameters, TextBytes, Whole
<1>5. PICK f \in Seq(Byte) : f = TARGET \o Sep /\ Len(f) = Len(TARGET) + 1 /\ Len(TARGET) \in Nat
  BY Parameters, TextBytes
<1>6. PICK b : b = f \o r \o h \o p OBVIOUS
<1>7. /\ b = f \o (r \o (h \o p)) /\ Len(b) = Len(f) + Len(r) + Len(h) + Len(p)
      /\ Len(r) \in Nat /\ Len(h) \in Nat /\ Len(p) \in Nat
  <2>1. Laid(f, r, h, p) BY <1>4, Written
  <2> QED BY <1>6, <2>1, Zenon DEF Laid
<1>8. r \o (h \o p) = WithReceiver(h \o p)
  <2>1. CASE msg.op = "publish_for" BY <1>2, <2>1 DEF WithReceiver, Delimited
  <2>2. CASE msg.op # "publish_for"
    <3>1. h \o p \in Seq(Byte) BY Joined
    <3> QED BY <1>2, <2>2, <3>1, Whole DEF WithReceiver
  <2> QED BY <2>1, <2>2
<1>9. stream'.bytes = b /\ stream'.len = Len(b) BY <1>3, <1>5, <1>6, <1>7
<1>10. Len(b) \in Nat BY <1>5, <1>7
<1>11. b = Delimited(TARGET, WithReceiver(Content)) BY <1>1, <1>5, <1>7, <1>8 DEF Delimited
<1>12. Asked' /\ Content' = Content /\ \A c : WithReceiver(c)' = WithReceiver(c)
  BY <1>3, SameMsg DEF WireInv
<1>13. Streamed'
  <2>1. WithReceiver(Content)' = WithReceiver(Content) BY <1>3 DEF WithReceiver, Content
  <2> QED BY <1>3, <1>9, <1>11, <2>1 DEF Streamed
<1>14. Carried' BY <1>3 DEF WireInv, Carried
<1> QED BY <1>3, <1>9, <1>10, <1>12, <1>13, <1>14 DEF WireInv, Stages

\* handle_reader of the broker reads target and receiver off the frame.
LEMMA BrokerReadInv ==
  ASSUME WireInv, BrokerRead
  PROVE  WireInv'
<1>1. PICK c \in Seq(Byte) : c = Content BY AskedType DEF WireInv
<1>2. TARGET \in Text /\ RECEIVER \in Text BY Parameters
<1>3. PICK w \in Seq(Byte) : w = WithReceiver(c) BY <1>2, Field DEF WithReceiver
<1>4. PICK b \in Seq(Byte) : b = Delimited(TARGET, w) BY <1>2, Field
<1>5. /\ Len(b) = Len(TARGET) + 1 + Len(w) /\ Len(TARGET) \in Nat /\ Len(w) \in Nat
      /\ SubSeq(b, 1, Len(b)) = b /\ Cut(b) = Len(TARGET) /\ Slice(b, 0, Len(TARGET)) = TARGET
      /\ From(b, Len(TARGET) + 1) = w
  BY <1>2, <1>4, Field
<1>6. stream.bytes = b /\ stream.len = Len(b)
  BY <1>1, <1>3, <1>4 DEF WireInv, Streamed, BrokerRead
<1>7. PICK n : n = IF msg.op = "publish_for" THEN Cut(w) + 1 ELSE 0 OBVIOUS
<1>8. /\ fdata' = [sender |-> SENDER,
                   topic |-> IF msg.op = "send" THEN Nil ELSE TARGET,
                   header |-> Nil, buf |-> b, payload_pos |-> Len(TARGET) + 1 + n]
      /\ stage' = "routed" /\ stream' = NoStream /\ UNCHANGED <<msg, sent, from, to, event>>
  BY <1>5, <1>6, <1>7 DEF BrokerRead
<1>9. /\ Len(TARGET) + 1 + n \in 0..Len(b)
      /\ From(b, Len(TARGET) + 1 + n) = c
  <2>1. CASE msg.op = "publish_for"
    <3>1. w = Delimited(RECEIVER, c) BY <1>3, <2>1 DEF WithReceiver
    <3>2. /\ Cut(From(b, Len(TARGET) + 1)) = Len(RECEIVER)
          /\ From(b, Len(TARGET) + 1 + Len(RECEIVER) + 1) = c
          /\ Len(b) = Len(TARGET) + 1 + Len(RECEIVER) + 1 + Len(c)
      BY <1>2, <1>4, <3>1, TwoFields
    <3>3. n = Len(RECEIVER) + 1 BY <1>5, <1>7, <2>1, <3>2
    <3>4. Len(RECEIVER) \in Nat /\ Len(c) \in Nat BY <1>2, TextBytes, LenProperties
    <3>5. Len(TARGET) + 1 + n = Len(TARGET) + 1 + Len(RECEIVER) + 1 BY <1>5, <3>3, <3>4
    <3> QED BY <1>5, <3>2, <3>4, <3>5
  <2>2. CASE msg.op # "publish_for"
    <3>1. w = c /\ n = 0 BY <1>3, <1>7, <2>2 DEF WithReceiver
    <3>2. Len(TARGET) + 1 + n = Len(TARGET) + 1 BY <1>5, <3>1
    <3> QED BY <1>5, <3>1, <3>2
  <2> QED BY <2>1, <2>2
<1>10. Asked' /\ Content' = Content /\ TopicOf(msg)' = TopicOf(msg) BY <1>8, SameMsg DEF WireInv
<1>11. Payload(fdata)' = c BY <1>8, <1>9 DEF Payload
<1>12. Carried' BY <1>1, <1>8, <1>9, <1>10, <1>11 DEF Carried, TopicOf
<1>13. Streamed' BY <1>8 DEF Streamed
<1> QED BY <1>8, <1>10, <1>12, <1>13 DEF WireInv, Stages, NoStream

\* handle_writer of the broker writes sender, topic, header and payload.
LEMMA BrokerWriteInv ==
  ASSUME WireInv, BrokerWrite
  PROVE  WireInv'
<1>0. SENDER \in Text /\ TARGET \in Text /\ TARGET # Nil
  BY Parameters, TextBytes
<1>1. PICK c \in Seq(Byte) : c = Content BY AskedType DEF WireInv
<1>2. /\ fdata.buf \in Seq(Byte) /\ fdata.payload_pos \in 0..Len(fdata.buf)
      /\ fdata.sender = SENDER /\ fdata.topic = TopicOf(msg)
      /\ \/ fdata.header = Nil /\ Payload(fdata) = c
         \/ fdata.header = msg.header /\ Payload(fdata) = msg.payload
  BY <1>1 DEF WireInv, Carried, BrokerWrite
<1>3. PICK p \in Seq(Byte) : p = Payload(fdata) /\ Len(p) = Len(fdata.buf) - fdata.payload_pos
  BY <1>2, SplitAt DEF Payload
<1>4. PICK h \in Seq(Byte) : h = OrNothing(fdata.header) /\ h \o p = c
  <2>1. CASE fdata.header = Nil /\ Payload(fdata) = c
    <3>1. OrNothing(fdata.header) = <<>> BY <2>1 DEF OrNothing
    <3>2. <<>> \in Seq(Byte) /\ <<>> \o c = c BY Whole
    <3> QED BY <1>3, <2>1, <3>1, <3>2
  <2>2. CASE fdata.header = msg.header /\ Payload(fdata) = msg.payload
    <3>1. OrNothing(fdata.header) \in Seq(Byte) BY <2>2, AskedType DEF WireInv
    <3> QED BY <1>1, <1>3, <2>2, <3>1 DEF Content
  <2> QED BY <1>2, <2>1, <2>2
<1>5. PICK t : t = IF msg.op = "send" THEN <<>> ELSE TARGET \o Sep OBVIOUS
<1>6. t \in Seq(Byte) BY <1>0, <1>5, TextBytes, Whole
<1>7. t = IF fdata.topic = Nil THEN <<>> ELSE fdata.topic \o <<0>>
  BY <1>0, <1>2, <1>5 DEF TopicOf, Sep
<1>8. /\ stream' = [len |-> Len(SENDER) + 1 + Len(t) + Len(h) + Len(fdata.buf) - fdata.payload_pos,
                    bytes |-> SENDER \o Sep \o t \o h \o p]
      /\ stage' = "written" /\ fdata' = NoFrame /\ UNCHANGED <<msg, sent, from, to, event>>
  BY <1>2, <1>3, <1>4, <1>7 DEF BrokerWrite, Sep
<1>9. PICK f \in Seq(Byte) : f = SENDER \o Sep /\ Len(f) = Len(SENDER) + 1 /\ Len(SENDER) \in Nat
  BY <1>0, TextBytes
<1>10. PICK b : b = f \o t \o h \o p OBVIOUS
<1>11. /\ b = f \o (t \o (h \o p)) /\ Len(b) = Len(f) + Len(t) + Len(h) + Len(p)
       /\ Len(t) \in Nat /\ Len(h) \in Nat /\ Len(p) \in Nat
  <2>1. Laid(f, t, h, p) BY <1>6, Written
  <2> QED BY <1>10, <2>1, Zenon DEF Laid
<1>12. t \o c = WithTopic(c)
  <2>1. CASE msg.op = "send" BY <1>5, <2>1, Whole DEF WithTopic
  <2>2. CASE msg.op # "send" BY <1>5, <2>2 DEF WithTopic, Delimited
  <2> QED BY <2>1, <2>2
<1>13. stream'.bytes = b /\ stream'.len = Len(b)
  <2>1. Len(fdata.buf) \in Nat /\ fdata.payload_pos \in Nat BY <1>2, LenProperties
  <2>2. Len(SENDER) + 1 + Len(t) + Len(h) + Len(fdata.buf) - fdata.payload_pos = Len(b)
    BY <1>3, <1>9, <1>11, <2>1
  <2> QED BY <1>8, <1>9, <1>10, <2>2
<1>14. Len(b) \in Nat BY <1>9, <1>11
<1>15. b = Delimited(SENDER, WithTopic(Content))
  BY <1>1, <1>4, <1>9, <1>11, <1>12 DEF Delimited
<1>16. Asked' BY <1>8, SameMsg DEF WireInv
<1>17. Streamed'
  <2>1. WithTopic(Content)' = WithTopic(Content) BY <1>8 DEF WithTopic, Content
  <2> QED BY <1>8, <1>13, <1>15, <2>1 DEF Streamed
<1>18. Carried'
  <2>1. <<>> \in Seq(Byte) /\ Len(<<>>) = 0 BY EmptySeq
  <2> QED BY <1>8, <2>1 DEF Carried, NoFrame
<1> QED BY <1>8, <1>13, <1>14, <1>16, <1>17, <1>18 DEF WireInv, Stages

\* handle_read of a client reads sender and topic off the frame.
LEMMA ClientReadInv ==
  ASSUME WireInv, ClientRead
  PROVE  WireInv'
<1>1. PICK c \in Seq(Byte) : c = Content BY AskedType DEF WireInv
<1>2. SENDER \in Text /\ TARGET \in Text BY Parameters
<1>3. PICK w \in Seq(Byte) : w = WithTopic(c) BY <1>2, Field DEF WithTopic
<1>4. PICK b \in Seq(Byte) : b = Delimited(SENDER, w) BY <1>2, Field
<1>5. /\ Len(b) = Len(SENDER) + 1 + Len(w) /\ Len(SENDER) \in Nat /\ Len(w) \in Nat
      /\ SubSeq(b, 1, Len(b)) = b /\ Cut(b) = Len(SENDER) /\ Slice(b, 0, Len(SENDER)) = SENDER
      /\ From(b, Len(SENDER) + 1) = w
  BY <1>2, <1>4, Field
<1>6. stream.bytes = b /\ stream.len = Len(b)
  BY <1>1, <1>3, <1>4 DEF WireInv, Streamed, ClientRead
<1>7. PICK n : n = IF msg.op = "send" THEN -1 ELSE Cut(w) OBVIOUS
<1>8. /\ fdata' = [sender |-> SENDER,
                   topic |-> IF msg.op = "send" THEN Nil
                             ELSE Slice(b, Len(SENDER) + 1, Len(SENDER) + 1 + n),
                   header |-> Nil, buf |-> b, payload_pos |-> Len(SENDER) + n + 2]
      /\ stage' = "arrived" /\ stream' = NoStream /\ UNCHANGED <<msg, sent, from, to, event>>
  BY <1>5, <1>6, <1>7 DEF ClientRead
<1>9. /\ Len(SENDER) + n + 2 \in 0..Len(b)
      /\ From(b, Len(SENDER) + n + 2) = c
      /\ msg.op # "send" => Slice(b, Len(SENDER) + 1, Len(SENDER) + 1 + n) = TARGET
  <2>1. CASE msg.op # "send"
    <3>1. w = Delimited(TARGET, c) BY <1>3, <2>1 DEF WithTopic
    <3>2. /\ Cut(From(b, Len(SENDER) + 1)) = Len(TARGET)
          /\ Slice(b, Len(SENDER) + 1, Len(SENDER) + 1 + Len(TARGET)) = TARGET
          /\ From(b, Len(SENDER) + 1 + Len(TARGET) + 1) = c
          /\ Len(b) = Len(SENDER) + 1 + Len(TARGET) + 1 + Len(c)
      BY <1>2, <1>4, <3>1, TwoFields
    <3>3. n = Len(TARGET) BY <1>5, <1>7, <2>1, <3>2
    <3>4. Len(TARGET) \in Nat /\ Len(c) \in Nat BY <1>2, TextBytes, LenProperties
    <3>5. Len(SENDER) + n + 2 = Len(SENDER) + 1 + Len(TARGET) + 1 BY <1>5, <3>3, <3>4
    <3> QED BY <1>5, <3>2, <3>3, <3>4, <3>5
  <2>2. CASE msg.op = "send"
    <3>1. w = c /\ n = -1 BY <1>3, <1>7, <2>2 DEF WithTopic
    <3>2. Len(SENDER) + n + 2 = Len(SENDER) + 1 BY <1>5, <3>1
    <3> QED BY <1>5, <2>2, <3>1, <3>2
  <2> QED BY <2>1, <2>2
<1>10. Asked' /\ Content' = Content /\ TopicOf(msg)' = TopicOf(msg) BY <1>8, SameMsg DEF WireInv
<1>11. Payload(fdata)' = c BY <1>8, <1>9 DEF Payload
<1>12. fdata'.topic = TopicOf(msg) BY <1>8, <1>9 DEF TopicOf
<1>13. Carried' BY <1>1, <1>8, <1>9, <1>10, <1>11, <1>12 DEF Carried
<1>14. Streamed' BY <1>8 DEF Streamed
<1> QED BY <1>8, <1>10, <1>13, <1>14 DEF WireInv, Stages, NoStream

\* An in-process client gets the frame as it is.
LEMMA RecvInternalInv ==
  ASSUME WireInv, RecvInternal
  PROVE  WireInv'
<1>1. stage = "routed" /\ stage' = "arrived" /\ UNCHANGED <<msg, sent, from, to, stream, fdata, event>>
  BY DEF RecvInternal
<1>2. Asked' /\ Content' = Content /\ TopicOf(msg)' = TopicOf(msg) BY <1>1, SameMsg DEF WireInv
<1>3. Payload(fdata)' = Payload(fdata) BY <1>1 DEF Payload
<1>4. Carried' BY <1>1, <1>2, <1>3 DEF WireInv, Carried
<1>5. Streamed' BY <1>1 DEF Streamed
<1> QED BY <1>1, <1>2, <1>4, <1>5 DEF WireInv, Stages

\* The RPC layer makes an event of it.
LEMMA ParseInv ==
  ASSUME WireInv, Parse
  PROVE  WireInv'
<1>1. /\ stage = "arrived" /\ msg.op = "send" /\ event' = TryFrom(fdata) /\ stage' = "parsed"
      /\ UNCHANGED <<msg, sent, from, to, stream, fdata>>
  BY DEF Parse
<1>2. Asked' /\ Content' = Content /\ TopicOf(msg)' = TopicOf(msg) BY <1>1, SameMsg DEF WireInv
<1>3. Payload(fdata)' = Payload(fdata) BY <1>1 DEF Payload
<1>4. Carried' BY <1>1, <1>2, <1>3 DEF WireInv, Carried
<1>5. Streamed' BY <1>1 DEF Streamed
<1>6. TryFrom(fdata)' = TryFrom(fdata)
  BY <1>1 DEF TryFrom, TryRequest, TryReply, ParsedAt, Body, Payload
<1> QED BY <1>1, <1>2, <1>4, <1>5, <1>6 DEF WireInv, Stages

\* Nothing is on its way at the start.
LEMMA InitWireInv == WireInit => WireInv
<1> SUFFICES ASSUME WireInit PROVE WireInv
  OBVIOUS
<1>1. <<>> \in Seq(Byte) /\ Len(<<>>) = 0 BY EmptySeq
<1>2. Asked BY DEF WireInit, Asked
<1>3. Carried /\ Streamed BY <1>1 DEF WireInit, Carried, Streamed, NoFrame
<1> QED BY <1>1, <1>2, <1>3 DEF WireInit, WireInv, Stages, NoStream

\* Every socket and every queue a message crosses keeps the invariant.
LEMMA NextWireInv ==
  ASSUME WireInv, [WireNext]_wireVars
  PROVE  WireInv'
<1>1. CASE UNCHANGED wireVars
  <2>1. UNCHANGED <<msg, sent, from, to, stage, stream, fdata, event>> BY <1>1 DEF wireVars
  <2>2. Asked' /\ Content' = Content /\ TopicOf(msg)' = TopicOf(msg) BY <2>1, SameMsg DEF WireInv
  <2>3. Payload(fdata)' = Payload(fdata) BY <2>1 DEF Payload
  <2>4. Carried' BY <2>1, <2>2, <2>3 DEF WireInv, Carried
  <2>5. Streamed' BY <2>1 DEF WireInv, Streamed, Content, WithReceiver, WithTopic
  <2>6. TryFrom(fdata)' = TryFrom(fdata)
    BY <2>1 DEF TryFrom, TryRequest, TryReply, ParsedAt, Body, Payload
  <2> QED BY <2>1, <2>2, <2>4, <2>5, <2>6 DEF WireInv
<1>2. CASE SendInternal \/ SendIpc BY <1>2, SendInternalInv, SendIpcInv
<1>3. CASE BrokerRead \/ BrokerWrite BY <1>3, BrokerReadInv, BrokerWriteInv
<1>4. CASE ClientRead \/ RecvInternal BY <1>4, ClientReadInv, RecvInternalInv
<1>5. CASE Parse BY <1>5, ParseInv
<1> QED BY <1>1, <1>2, <1>3, <1>4, <1>5 DEF WireNext

-----------------------------------------------------------------------------
(* RPC events *)

\* TryFrom by the first byte.
LEMMA FirstByte ==
  ASSUME NEW f, Body(f) # <<>>
  PROVE  /\ Body(f)[1] = 0 => TryFrom(f) = Parsed("Notification", IF f.header # Nil THEN 0 ELSE 1, FALSE)
         /\ Body(f)[1] = 1 => TryFrom(f) = TryRequest(f)
         /\ Body(f)[1] = 17 => TryFrom(f) = TryReply(f, "Reply", 5)
         /\ Body(f)[1] = 18 => TryFrom(f) = TryReply(f, "ErrorReply", 7)
         /\ Body(f)[1] \notin {0, 1, 17, 18} => TryFrom(f) = Invalid
<1>1. PICK x : x = Body(f)[1] OBVIOUS
<1>2. TryFrom(f) = CASE x = 0  -> Parsed("Notification", IF f.header # Nil THEN 0 ELSE 1, FALSE)
                     [] x = 1  -> TryRequest(f)
                     [] x = 17 -> TryReply(f, "Reply", 5)
                     [] x = 18 -> TryReply(f, "ErrorReply", 7)
                     [] OTHER  -> Invalid
  BY <1>1, Zenon DEF TryFrom
<1>3. CASE x = 0 BY <1>1, <1>2, <1>3, SMT
<1>4. CASE x = 1 BY <1>1, <1>2, <1>4, SMT
<1>5. CASE x = 17 BY <1>1, <1>2, <1>5, SMT
<1>6. CASE x = 18 BY <1>1, <1>2, <1>6, SMT
<1>7. CASE x \notin {0, 1, 17, 18}
  <2>1. x # 0 /\ x # 1 /\ x # 17 /\ x # 18 BY <1>7
  <2>2. TryFrom(f) = Invalid BY <1>2, <2>1, Zenon
  <2> QED BY <1>1, <2>1, <2>2, Zenon
<1> QED BY <1>1, <1>3, <1>4, <1>5, <1>6, <1>7, Zenon

\* A request and a reply that are accepted.
LEMMA Accepted ==
  ASSUME NEW f, NEW k, NEW n
  PROVE  /\ Len(Body(f)) < 6 => TryRequest(f) = Invalid
         /\ f.header = Nil /\ Cut(From(Body(f), 5)) < 0 => TryRequest(f) = Invalid
         /\ ~(Len(Body(f)) < 6) /\ ~(f.header = Nil /\ Cut(From(Body(f), 5)) < 0)
              => TryRequest(f) = ParsedAt("Request", f, 6 + Cut(From(Body(f), 5)))
         /\ Len(Body(f)) < n => TryReply(f, k, n) = Invalid
         /\ ~(Len(Body(f)) < n) => TryReply(f, k, n) = ParsedAt(k, f, n)
<1>1. /\ Len(Body(f)) < n => TryReply(f, k, n) = Invalid
      /\ ~(Len(Body(f)) < n) => TryReply(f, k, n) = ParsedAt(k, f, n)
  BY Zenon DEF TryReply
<1>2. CASE Len(Body(f)) < 6 BY <1>1, <1>2, Zenon DEF TryRequest
<1>3. CASE f.header = Nil /\ Cut(From(Body(f), 5)) < 0 BY <1>1, <1>3, Zenon DEF TryRequest
<1>4. CASE ~(Len(Body(f)) < 6) /\ ~(f.header = Nil /\ Cut(From(Body(f), 5)) < 0)
  BY <1>1, <1>4, Zenon DEF TryRequest
<1> QED BY <1>1, <1>2, <1>3, <1>4

\* With the header apart, or in front.
LEMMA Apart ==
  ASSUME NEW f, NEW k, NEW n
  PROVE  /\ ParsedAt(k, f, n).kind = k
         /\ f.header # Nil => ParsedAt(k, f, n).payload_pos = 0 /\ ParsedAt(k, f, n).use_header
         /\ f.header = Nil => ParsedAt(k, f, n).payload_pos = n /\ ~ParsedAt(k, f, n).use_header
<1>1. CASE f.header # Nil
  <2>1. ParsedAt(k, f, n) = [kind |-> k, payload_pos |-> 0, use_header |-> TRUE]
    BY <1>1, Zenon DEF ParsedAt, Parsed
  <2> QED BY <1>1, <2>1
<1>2. CASE f.header = Nil
  <2>1. ParsedAt(k, f, n) = [kind |-> k, payload_pos |-> n, use_header |-> FALSE]
    BY <1>2, Zenon DEF ParsedAt, Parsed
  <2> QED BY <1>2, <2>1
<1> QED BY <1>1, <1>2

\* What a parsed frame holds.
LEMMA ParsedFrame ==
  ASSUME WireInv, stage = "parsed"
  PROVE  /\ Payload(fdata) \in Seq(Byte) /\ Len(Payload(fdata)) \in Nat
         /\ Body(fdata) \in Seq(Byte) /\ Len(Body(fdata)) \in Nat
         /\ Body(fdata) = <<>> \/ Len(Body(fdata)) >= 1
         /\ event = TryFrom(fdata)
         /\ \/ fdata.header = Nil /\ Payload(fdata) = Content
            \/ fdata.header = msg.header /\ Payload(fdata) = msg.payload
<1>1. /\ event = TryFrom(fdata)
      /\ \/ fdata.header = Nil /\ Payload(fdata) = Content
         \/ fdata.header = msg.header /\ Payload(fdata) = msg.payload
  BY DEF WireInv, Carried
<1>2. Payload(fdata) \in Seq(Byte) BY <1>1, AskedType DEF WireInv
<1>3. Body(fdata) \in Seq(Byte)
  <2>1. CASE fdata.header = Nil BY <1>2, <2>1 DEF Body
  <2>2. CASE fdata.header # Nil
    <3>1. OrNothing(msg.header) = fdata.header BY <1>1, <2>2 DEF OrNothing
    <3>2. fdata.header \in Seq(Byte) BY <3>1, AskedType DEF WireInv
    <3> QED BY <2>2, <3>2 DEF Body
  <2> QED BY <2>1, <2>2
<1>4. Len(Payload(fdata)) \in Nat /\ Len(Body(fdata)) \in Nat BY <1>2, <1>3, LenProperties
<1>5. Body(fdata) = <<>> \/ Len(Body(fdata)) >= 1
  <2>1. Body(fdata) # <<>> => Len(Body(fdata)) \in Nat \ {0} BY <1>3, EmptySeq
  <2> QED BY <1>4, <2>1
<1> QED BY <1>1, <1>2, <1>3, <1>4, <1>5

\* What TryFrom accepts is long enough for the accessors.
LEMMA AcceptedInRange ==
  ASSUME WireInv
  PROVE  AccessorsInRange
<1> SUFFICES ASSUME stage = "parsed", event.kind # "Invalid"
             PROVE  /\ event.payload_pos <= Len(Payload(fdata))
                    /\ event.kind # "Notification" => Len(EventBytes) >= 5
                    /\ event.kind = "Request" => MethodEnd \in 5..Len(EventBytes)
                    /\ event.kind = "ErrorReply" => Len(EventBytes) >= 7
  BY DEF AccessorsInRange
<1>1. PICK b \in Seq(Byte) : b = Body(fdata) /\ Len(b) \in Nat BY ParsedFrame
<1>2. PICK p \in Seq(Byte) : p = Payload(fdata) /\ Len(p) \in Nat BY ParsedFrame
<1>3. event = TryFrom(fdata) /\ (b = <<>> \/ Len(b) >= 1) BY <1>1, ParsedFrame
<1>4. /\ fdata.header # Nil => b = fdata.header
      /\ fdata.header = Nil => b = p
  BY <1>1, <1>2 DEF Body
<1>5. b # <<>> BY <1>1, <1>3 DEF TryFrom, Invalid
<1>6. CASE b[1] = 0
  <2>1. event = Parsed("Notification", IF fdata.header # Nil THEN 0 ELSE 1, FALSE)
    BY <1>1, <1>3, <1>5, <1>6, FirstByte
  <2>2. event.kind = "Notification" /\ event.payload_pos = IF fdata.header # Nil THEN 0 ELSE 1
    BY <2>1 DEF Parsed
  <2>3. event.payload_pos <= Len(p) BY <1>2, <1>3, <1>4, <1>5, <2>2
  <2> QED BY <1>2, <2>2, <2>3
<1>7. CASE b[1] = 1
  <2>1. event = TryRequest(fdata) BY <1>1, <1>3, <1>5, <1>7, FirstByte
  <2>2. Len(b) >= 6
    <3>1. Len(b) < 6 => event = Invalid BY <1>1, <2>1, Accepted
    <3> QED BY <1>1, <3>1 DEF Invalid
  <2>5. ~(Len(b) < 6) BY <1>1, <2>2
  <2>3. CASE fdata.header # Nil
    <3>1. event = ParsedAt("Request", fdata, 6 + Cut(From(b, 5))) BY <1>1, <2>1, <2>5, <2>3, Accepted
    <3>2. event.kind = "Request" /\ event.payload_pos = 0 /\ event.use_header
      BY <2>3, <3>1, Apart
    <3>3. EventBytes = b /\ MethodEnd = Len(b) - 1
      BY <1>4, <2>3, <3>2 DEF EventBytes, MethodEnd
    <3> QED BY <1>1, <1>2, <2>2, <3>2, <3>3
  <2>4. CASE fdata.header = Nil
    <3>1. PICK m : m = Cut(From(b, 5)) OBVIOUS
    <3>2. m \in Int /\ -1 <= m /\ m <= Len(b) - 6
      <4>1. From(b, 5) \in Seq(Byte) /\ Len(From(b, 5)) = Len(b) - 5
        <5>1. 5 \in 0..Len(b) BY <1>1, <2>2
        <5> QED BY <5>1, SplitAt
      <4>2. Cut(From(b, 5)) \in -1..(Len(From(b, 5)) - 1) BY <4>1, CutRange
      <4> QED BY <1>1, <3>1, <4>1, <4>2
    <3>3. ~(m < 0)
      <4> SUFFICES ASSUME m < 0 PROVE FALSE OBVIOUS
      <4>1. event = Invalid BY <1>1, <2>1, <2>4, <3>1, Accepted
      <4> QED BY <4>1 DEF Invalid
    <3>4. event = ParsedAt("Request", fdata, 6 + m)
      BY <1>1, <2>1, <2>4, <2>5, <3>1, <3>3, Accepted
    <3>5. event.kind = "Request" /\ event.payload_pos = 6 + m /\ ~event.use_header
      BY <2>4, <3>4, Apart
    <3>6. EventBytes = p /\ MethodEnd = 6 + m - 1
      BY <1>2, <3>2, <3>5 DEF EventBytes, MethodEnd
    <3>7. b = p BY <1>4, <2>4
    <3> QED BY <1>1, <1>2, <2>2, <3>2, <3>3, <3>5, <3>6, <3>7
  <2> QED BY <2>3, <2>4
<1>8. ASSUME NEW k, NEW n \in {5, 7}, event = TryReply(fdata, k, n), k # "Request", k = "ErrorReply" => n = 7
      PROVE  /\ event.payload_pos <= Len(p) /\ Len(EventBytes) >= n /\ event.kind = k
             /\ Len(EventBytes) \in Nat
  <2>1. Len(b) >= n
    <3>1. Len(b) < n => event = Invalid BY <1>1, <1>8, Accepted
    <3> QED BY <1>1, <3>1 DEF Invalid
  <2>2. event = ParsedAt(k, fdata, n)
    <3>1. ~(Len(b) < n) BY <1>1, <2>1
    <3> QED BY <1>1, <1>8, <3>1, Accepted
  <2>3. event.kind = k BY <2>2, Apart
  <2>4. CASE fdata.header # Nil
    <3>1. event.payload_pos = 0 /\ event.use_header BY <2>2, <2>4, Apart
    <3>2. EventBytes = b BY <1>4, <2>4, <3>1 DEF EventBytes
    <3> QED BY <1>1, <1>2, <2>1, <2>3, <3>1, <3>2
  <2>5. CASE fdata.header = Nil
    <3>1. event.payload_pos = n /\ ~event.use_header BY <2>2, <2>5, Apart
    <3>2. EventBytes = p /\ b = p BY <1>2, <1>4, <2>5, <3>1 DEF EventBytes
    <3> QED BY <1>1, <1>2, <2>1, <2>3, <3>1, <3>2
  <2> QED BY <2>4, <2>5
<1>9. CASE b[1] = 17
  <2>1. event = TryReply(fdata, "Reply", 5) BY <1>1, <1>3, <1>5, <1>9, FirstByte
  <2>2. event.payload_pos <= Len(p) /\ Len(EventBytes) >= 5 /\ event.kind = "Reply" BY <1>8, <2>1
  <2> QED BY <1>2, <2>2
<1>10. CASE b[1] = 18
  <2>1. event = TryReply(fdata, "ErrorReply", 7) BY <1>1, <1>3, <1>5, <1>10, FirstByte
  <2>2. event.payload_pos <= Len(p) /\ Len(EventBytes) >= 7 /\ event.kind = "ErrorReply"
        /\ Len(EventBytes) \in Nat
    BY <1>8, <2>1
  <2> QED BY <1>2, <2>2
<1>11. CASE b[1] \notin {0, 1, 17, 18}
  <2>1. event = Invalid BY <1>1, <1>3, <1>5, <1>11, FirstByte
  <2> QED BY <2>1 DEF Invalid
<1> QED BY <1>6, <1>7, <1>9, <1>10, <1>11

\* The bytes of the event that was sent, with or without its data behind.
LEMMA SentBody ==
  ASSUME WireInv, stage = "parsed", sent # Nil
  PROVE  /\ sent \in Event /\ event = TryFrom(fdata)
         /\ \E c \in Seq(Byte) :
              /\ Body(fdata) = HeaderOf(sent) \o c
              /\ \/ fdata.header # Nil /\ fdata.header = Body(fdata) /\ Payload(fdata) = sent.data
                 \/ fdata.header = Nil /\ Payload(fdata) = Body(fdata) /\ c = sent.data
<1>1. sent \in Event /\ msg = ZcSend(sent) BY DEF WireInv, Asked
<1>2. event = TryFrom(fdata) BY ParsedFrame
<1>3. PICK h \in Seq(Byte), d \in Seq(Byte) : h = HeaderOf(sent) /\ h # Nil /\ d = sent.data
  BY <1>1, HeaderType
<1>4. msg.header = h /\ msg.payload = d /\ Content = h \o d
  BY <1>1, <1>3 DEF ZcSend, Content, OrNothing
<1>5. \/ fdata.header = Nil /\ Payload(fdata) = h \o d
      \/ fdata.header = h /\ Payload(fdata) = d
  BY <1>4, ParsedFrame
<1>6. CASE fdata.header = Nil /\ Payload(fdata) = h \o d
  <2>1. Body(fdata) = h \o d BY <1>6 DEF Body
  <2> QED BY <1>1, <1>2, <1>3, <1>6, <2>1
<1>7. CASE fdata.header = h /\ Payload(fdata) = d
  <2>1. Body(fdata) = h BY <1>3, <1>7 DEF Body
  <2>2. h \o <<>> = h /\ <<>> \in Seq(Byte) BY ConcatEmptySeq, EmptySeq
  <2>3. Body(fdata) = HeaderOf(sent) \o <<>> BY <1>3, <2>1, <2>2
  <2>4. fdata.header # Nil /\ fdata.header = Body(fdata) /\ Payload(fdata) = sent.data
    BY <1>3, <1>7, <2>1
  <2> QED BY <1>1, <1>2, <2>2, <2>3, <2>4
<1> QED BY <1>5, <1>6, <1>7

\* Where the accessors find the parts of an event that has an id.
LEMMA SeenParts ==
  ASSUME NEW k \in Byte, NEW i \in Seq(Byte), Len(i) = 4, NEW m \in Seq(Byte), NEW c \in Seq(Byte),
         Body(fdata) = Tagged(k, i, m, c),
         \/ fdata.header # Nil /\ fdata.header = Body(fdata) /\ Payload(fdata) = sent.data
         \/ fdata.header = Nil /\ Payload(fdata) = Body(fdata) /\ c = sent.data,
         NEW kind, event = ParsedAt(kind, fdata, 5 + Len(m)),
         sent.data \in Seq(Byte)
  PROVE  /\ event.kind = kind /\ Len(m) \in Nat
         /\ Slice(EventBytes, 1, 5) = i /\ Slice(EventBytes, 5, 5 + Len(m)) = m
         /\ From(Payload(fdata), event.payload_pos) = sent.data
<1>1. PICK b : b = Body(fdata) OBVIOUS
<1>2. /\ Slice(b, 1, 5) = i /\ Slice(b, 5, 5 + Len(m)) = m /\ From(b, 5 + Len(m)) = c /\ Len(m) \in Nat
  <2>1. Parts(Tagged(k, i, m, c), k, i, m, c) BY EventParts
  <2> QED BY <1>1, <2>1 DEF Parts
<1>3. event.kind = kind BY Apart
<1>4. CASE fdata.header # Nil
  <2>1. event.payload_pos = 0 /\ event.use_header BY <1>4, Apart
  <2>2. EventBytes = b BY <1>1, <1>4, <2>1 DEF EventBytes
  <2>3. From(sent.data, 0) = sent.data BY Whole
  <2>4. From(Payload(fdata), event.payload_pos) = sent.data BY <1>4, <2>1, <2>3, Zenon
  <2> QED BY <1>2, <1>3, <2>2, <2>4
<1>5. CASE fdata.header = Nil
  <2>1. event.payload_pos = 5 + Len(m) /\ ~event.use_header BY <1>5, Apart
  <2>2. EventBytes = b BY <1>1, <1>5, <2>1 DEF EventBytes
  <2>3. From(Payload(fdata), event.payload_pos) = c BY <1>1, <1>2, <1>5, <2>1
  <2> QED BY <1>2, <1>3, <1>5, <2>2, <2>3
<1> QED BY <1>4, <1>5

\* An event is read as the one that was sent.
LEMMA EventArrives ==
  ASSUME WireInv, stage = "parsed", sent # Nil
  PROVE  EventSeen = sent
<1>1. sent \in Event /\ event = TryFrom(fdata) BY SentBody
<1>2. PICK c \in Seq(Byte) :
        /\ Body(fdata) = HeaderOf(sent) \o c
        /\ \/ fdata.header # Nil /\ fdata.header = Body(fdata) /\ Payload(fdata) = sent.data
           \/ fdata.header = Nil /\ Payload(fdata) = Body(fdata) /\ c = sent.data
  BY SentBody
<1>3. sent.data \in Seq(Byte) BY <1>1, HeaderType
<1>4. PICK i : i = IdBytes(sent.id) OBVIOUS
<1>5. sent.kind # "Notification" => i \in Seq(Byte) /\ Len(i) = 4 /\ IdOf(i) = sent.id
  BY <1>1, <1>4, HeaderType
<1>6. sent = [kind |-> sent.kind, id |-> sent.id, method |-> sent.method, code |-> sent.code,
              data |-> sent.data]
  BY <1>1 DEF Event
<1>7. CASE sent.kind = "Notification"
  <2>1. HeaderOf(sent) = <<0>> BY <1>1, <1>7, HeaderIs
  <2>2. sent.id = 0 /\ sent.method = <<>> /\ sent.code = 0 BY <1>1, <1>7 DEF Event
  <2>3. PICK h \in Seq(Byte) : h = <<0>> /\ Len(h) = 1 /\ h[1] = 0
    <3>1. <<0>> \in Seq(Byte) /\ Len(<<0>>) = 1 /\ <<0>>[1] = 0 BY DEF Byte
    <3> QED BY <3>1, Zenon
  <2>4. PICK b \in Seq(Byte) : b = Body(fdata) /\ b = h \o c BY <1>2, <2>1, <2>3, Joined
  <2>5. Len(b) = 1 + Len(c) /\ Len(c) \in Nat /\ b[1] = 0 /\ From(b, 1) = c
    <3>1. /\ Len(h \o c) = Len(h) + Len(c) /\ Len(c) \in Nat
          /\ \A j \in 1..(Len(h) + Len(c)) : (h \o c)[j] = IF j <= Len(h) THEN h[j] ELSE c[j - Len(h)]
      BY Joined
    <3>2. From(h \o c, Len(h)) = c BY Halves
    <3>3. (h \o c)[1] = h[1] BY <2>3, <3>1
    <3> QED BY <2>3, <2>4, <3>1, <3>2, <3>3
  <2>6. b # <<>>
    <3>1. Len(<<>>) = 0 BY EmptySeq
    <3> QED BY <2>5, <3>1
  <2>7. event = Parsed("Notification", IF fdata.header # Nil THEN 0 ELSE 1, FALSE)
    BY <1>1, <2>4, <2>5, <2>6, FirstByte
  <2>8. event.kind = "Notification" /\ event.payload_pos = IF fdata.header # Nil THEN 0 ELSE 1
    BY <2>7 DEF Parsed
  <2>9. From(Payload(fdata), event.payload_pos) = sent.data
    <3>1. CASE fdata.header # Nil
      <4>1. From(sent.data, 0) = sent.data BY <1>3, Whole
      <4> QED BY <1>2, <2>8, <3>1, <4>1
    <3>2. CASE fdata.header = Nil BY <1>2, <2>4, <2>5, <2>8, <3>2
    <3> QED BY <3>1, <3>2
  <2> QED BY <1>6, <1>7, <2>2, <2>8, <2>9 DEF EventSeen
<1>8. CASE sent.kind = "Request"
  <2>1. HeaderOf(sent) = <<1>> \o i \o sent.method \o Sep
    <3>1. HeaderOf(sent) = <<1>> \o IdBytes(sent.id) \o sent.method \o <<0>> BY <1>1, <1>8, HeaderIs
    <3> QED BY <1>4, <3>1, Zenon DEF Sep
  <2>2. sent.method \in Text /\ sent.code = 0 BY <1>1, <1>8, Parameters DEF Event
  <2>3. PICK m \in Seq(Byte) : m = sent.method \o Sep /\ Len(m) = Len(sent.method) + 1
    BY <2>2, TextBytes
  <2>4. sent.method \in Seq(Byte) /\ Len(sent.method) \in Nat BY <2>2, TextBytes
  <2>5. 1 \in Byte BY DEF Byte
  <2>6. Body(fdata) = Tagged(1, i, m, c)
    <3>1. PICK g \in Seq(Byte) : g = <<1>> \o i
      <4>1. <<1>> \in Seq(Byte) BY DEF Byte
      <4> QED BY <1>5, <1>8, <4>1, Joined
    <3>2. g \o sent.method \o Sep = g \o (sent.method \o Sep) BY <2>4, SepType, Assoc
    <3>3. Body(fdata) = g \o m \o c BY <1>2, <2>1, <2>3, <3>1, <3>2, Zenon
    <3> QED BY <3>1, <3>3, Zenon DEF Tagged
  <2>7. PICK b : b = Body(fdata) /\ b = Tagged(1, i, m, c) BY <2>6
  <2>8. /\ Len(b) = 5 + Len(m) + Len(c) /\ Len(c) \in Nat /\ b # <<>> /\ b[1] = 1
        /\ From(b, 5) = m \o c
    <3>1. Parts(Tagged(1, i, m, c), 1, i, m, c) BY <1>5, <1>8, <2>5, EventParts
    <3> QED BY <2>7, <3>1 DEF Parts
  <2>9. Cut(From(b, 5)) = Len(sent.method)
    <3>1. m \o c = Delimited(sent.method, c) BY <2>3 DEF Delimited
    <3> QED BY <2>2, <2>8, <3>1, Field
  <2>10. event = TryRequest(fdata) BY <1>1, <2>7, <2>8, FirstByte
  <2>11. ~(Len(b) < 6) /\ ~(Len(sent.method) < 0) /\ 6 + Len(sent.method) = 5 + Len(m)
    BY <2>3, <2>4, <2>8
  <2>12. event = ParsedAt("Request", fdata, 5 + Len(m))
    <3>1. event = ParsedAt("Request", fdata, 6 + Len(sent.method))
      BY <2>7, <2>9, <2>10, <2>11, Accepted
    <3> QED BY <2>11, <3>1
  <2>13. /\ event.kind = "Request" /\ Slice(EventBytes, 1, 5) = i
         /\ From(Payload(fdata), event.payload_pos) = sent.data
    BY <1>2, <1>3, <1>5, <1>8, <2>5, <2>6, <2>12, SeenParts
  <2>14. Slice(b, 5, 5 + Len(sent.method)) = sent.method
    <3>1. PICK q \in Seq(Byte) : q = Sep \o c BY SepType, Joined
    <3>2. PICK g \in Seq(Byte) : g = <<1>> \o i
      <4>1. <<1>> \in Seq(Byte) BY DEF Byte
      <4> QED BY <1>5, <1>8, <4>1, Joined
    <3>3. m \o c = sent.method \o q
      <4>1. PICK d \in Seq(Byte) : d = sent.method BY <2>4
      <4>2. (d \o Sep) \o c = d \o (Sep \o c) BY SepType, Assoc
      <4> QED BY <2>3, <3>1, <4>1, <4>2
    <3>4. b = g \o (m \o c)
      <4>1. g \o m \o c = g \o (m \o c) BY Assoc
      <4>2. b = g \o m \o c BY <2>7, <3>2, Zenon DEF Tagged
      <4> QED BY <4>1, <4>2
    <3>5. b = g \o sent.method \o q
      <4>1. g \o sent.method \o q = g \o (sent.method \o q) BY <2>4, Assoc
      <4> QED BY <3>3, <3>4, <4>1
    <3>6. b = Tagged(1, i, sent.method, q) BY <3>2, <3>5, Zenon DEF Tagged
    <3>7. Parts(Tagged(1, i, sent.method, q), 1, i, sent.method, q)
      BY <1>5, <1>8, <2>4, <2>5, EventParts
    <3> QED BY <3>6, <3>7 DEF Parts
  <2>15. Slice(EventBytes, 5, MethodEnd) = sent.method
    <3>1. EventBytes = b
      <4>1. event.use_header <=> fdata.header # Nil BY <2>12, Apart
      <4> QED BY <1>2, <2>7, <4>1 DEF EventBytes
    <3>2. CASE fdata.header = Nil
      <4>1. event.payload_pos = 5 + Len(m) /\ ~event.use_header BY <2>12, <3>2, Apart
      <4>2. MethodEnd = 5 + Len(sent.method) BY <2>3, <2>4, <4>1 DEF MethodEnd
      <4> QED BY <2>14, <3>1, <4>2
    <3>3. CASE fdata.header # Nil
      <4>1. event.use_header BY <2>12, <3>3, Apart
      <4>2. fdata.header = HeaderOf(sent)
        <5>1. fdata.header = msg.header BY <3>3, ParsedFrame
        <5>2. msg = ZcSend(sent) BY DEF WireInv, Asked
        <5> QED BY <5>1, <5>2 DEF ZcSend
      <4>3. Len(HeaderOf(sent)) = 5 + Len(m)
        <5>1. PICK h : h = HeaderOf(sent) /\ h = Tagged(1, i, sent.method, Sep)
          BY <2>1, Zenon DEF Tagged
        <5>2. Len(h) = 5 + Len(sent.method) + Len(Sep)
          <6>1. Parts(Tagged(1, i, sent.method, Sep), 1, i, sent.method, Sep)
            BY <1>5, <1>8, <2>4, <2>5, SepType, EventParts
          <6> QED BY <5>1, <6>1 DEF Parts
        <5>3. Len(Sep) = 1 BY SepType
        <5> QED BY <2>3, <2>4, <5>1, <5>2, <5>3
      <4>4. MethodEnd = 5 + Len(sent.method) BY <2>3, <2>4, <4>1, <4>2, <4>3 DEF MethodEnd
      <4> QED BY <2>14, <3>1, <4>4
    <3> QED BY <3>2, <3>3
  <2> QED BY <1>5, <1>6, <1>8, <2>2, <2>13, <2>15 DEF EventSeen
<1>9. CASE sent.kind = "Reply"
  <2>1. HeaderOf(sent) = <<17>> \o i BY <1>1, <1>4, <1>9, HeaderIs
  <2>2. sent.method = <<>> /\ sent.code = 0 BY <1>1, <1>9 DEF Event
  <2>3. PICK m \in Seq(Byte) : m = <<>> /\ Len(m) = 0
    <3>1. <<>> \in Seq(Byte) /\ Len(<<>>) = 0 BY EmptySeq
    <3> QED BY <3>1, Zenon
  <2>4. 17 \in Byte BY DEF Byte
  <2>5. Body(fdata) = Tagged(17, i, m, c)
    <3>1. <<17>> \in Seq(Byte) BY DEF Byte
    <3>2. <<17>> \o i \in Seq(Byte) BY <1>5, <1>9, <3>1, Joined
    <3>3. <<17>> \o i \o <<>> = <<17>> \o i BY <3>2, ConcatEmptySeq
    <3> QED BY <1>2, <2>1, <2>3, <3>3, Zenon DEF Tagged
  <2>6. PICK b : b = Body(fdata) /\ b = Tagged(17, i, m, c) BY <2>5
  <2>7. Len(b) = 5 + Len(m) + Len(c) /\ Len(c) \in Nat /\ b # <<>> /\ b[1] = 17
    <3>1. Parts(Tagged(17, i, m, c), 17, i, m, c) BY <1>5, <1>9, <2>3, <2>4, EventParts
    <3> QED BY <2>6, <3>1 DEF Parts
  <2>8. event = TryReply(fdata, "Reply", 5) BY <1>1, <2>6, <2>7, FirstByte
  <2>9. ~(Len(b) < 5) /\ 5 = 5 + Len(m) BY <2>3, <2>7
  <2>10. event = ParsedAt("Reply", fdata, 5 + Len(m))
    <3>1. event = ParsedAt("Reply", fdata, 5) BY <2>6, <2>8, <2>9, Accepted
    <3> QED BY <2>9, <3>1
  <2>11. /\ event.kind = "Reply" /\ Slice(EventBytes, 1, 5) = i
         /\ From(Payload(fdata), event.payload_pos) = sent.data
    BY <1>2, <1>3, <1>5, <1>9, <2>4, <2>5, <2>10, SeenParts
  <2> QED BY <1>5, <1>6, <1>9, <2>2, <2>11 DEF EventSeen
<1>10. CASE sent.kind = "ErrorReply"
  <2>1. HeaderOf(sent) = <<18>> \o i \o CodeBytes(sent.code) BY <1>1, <1>4, <1>10, HeaderIs
  <2>2. sent.method = <<>> BY <1>1, <1>10 DEF Event
  <2>3. PICK m \in Seq(Byte) : m = CodeBytes(sent.code) /\ Len(m) = 2 /\ CodeOf(m) = sent.code
    <3>1. sent.code \in Int /\ -32768 <= sent.code /\ sent.code <= 32767
      BY <1>1, <1>10, CodeRange DEF Event
    <3> QED BY <3>1, CodeRoundTrip
  <2>4. 18 \in Byte BY DEF Byte
  <2>5. PICK b : b = Body(fdata) /\ b = Tagged(18, i, m, c) BY <1>2, <2>1, <2>3, Zenon DEF Tagged
  <2>6. Len(b) = 5 + Len(m) + Len(c) /\ Len(c) \in Nat /\ b # <<>> /\ b[1] = 18
    <3>1. Parts(Tagged(18, i, m, c), 18, i, m, c) BY <1>5, <1>10, <2>4, EventParts
    <3> QED BY <2>5, <3>1 DEF Parts
  <2>7. event = TryReply(fdata, "ErrorReply", 7) BY <1>1, <2>5, <2>6, FirstByte
  <2>8. ~(Len(b) < 7) /\ 7 = 5 + Len(m) BY <2>3, <2>6
  <2>9. event = ParsedAt("ErrorReply", fdata, 5 + Len(m))
    <3>1. event = ParsedAt("ErrorReply", fdata, 7) BY <2>5, <2>7, <2>8, Accepted
    <3> QED BY <2>8, <3>1
  <2>10. /\ event.kind = "ErrorReply" /\ Slice(EventBytes, 1, 5) = i
         /\ Slice(EventBytes, 5, 5 + Len(m)) = m
         /\ From(Payload(fdata), event.payload_pos) = sent.data
    BY <1>2, <1>3, <1>5, <1>10, <2>4, <2>5, <2>9, SeenParts
  <2>11. Slice(EventBytes, 5, 7) = m BY <2>8, <2>10
  <2> QED BY <1>5, <1>6, <1>10, <2>2, <2>3, <2>10, <2>11 DEF EventSeen
<1> QED BY <1>1, <1>7, <1>8, <1>9, <1>10 DEF Event

\* The invariant says how a message arrives.
LEMMA InvArrives ==
  ASSUME WireInv
  PROVE  MessageArrives
<1>1. ASSUME stage \in {"arrived", "parsed"}
      PROVE  /\ fdata.sender = SENDER /\ fdata.topic = TopicOf(msg)
             /\ OrNothing(fdata.header) \o Payload(fdata) = OrNothing(msg.header) \o msg.payload
  <2>1. /\ fdata.sender = SENDER /\ fdata.topic = TopicOf(msg)
        /\ \/ fdata.header = Nil /\ Payload(fdata) = Content
           \/ fdata.header = msg.header /\ Payload(fdata) = msg.payload
    BY <1>1 DEF WireInv, Carried
  <2>2. CASE fdata.header = Nil /\ Payload(fdata) = Content
    <3>1. OrNothing(fdata.header) = <<>> BY <2>2 DEF OrNothing
    <3>2. <<>> \o Content = Content BY AskedType, Whole DEF WireInv
    <3> QED BY <2>1, <2>2, <3>1, <3>2 DEF Content
  <2>3. CASE fdata.header = msg.header /\ Payload(fdata) = msg.payload BY <2>1, <2>3
  <2> QED BY <2>1, <2>2, <2>3
<1>2. ASSUME stage = "parsed", sent # Nil PROVE EventSeen = sent BY <1>2, EventArrives
<1> QED BY <1>1, <1>2 DEF MessageArrives

\* The variables keep their types.
LEMMA InvWireTypes ==
  ASSUME WireInv
  PROVE  WireTypeOK
BY AskedType DEF WireInv, Carried, Stages, WireTypeOK

-----------------------------------------------------------------------------
(* Theorems *)

\* The invariant holds on the whole way of a message.
LEMMA WireInvariant == WireSpec => []WireInv
BY InitWireInv, NextWireInv, PTL DEF WireSpec

\* In every behaviour the variables of a message's way keep their types.
THEOREM WireTypes == WireSpec => []WireTypeOK
BY WireInvariant, InvWireTypes, PTL

\* Whatever kinds of clients a message goes between, whatever bytes it holds
\* and however long its names are, the receiver sees the sender, the topic and
\* the payload that were sent, and an RPC event is read as the one that was
\* sent, for every u32 id and every i16 code (send_frame!, handle_reader,
\* handle_writer, handle_read, send_reply!, RpcEvent::try_from).
THEOREM MessagesArrive == WireSpec => []MessageArrives
BY WireInvariant, InvArrives, PTL

\* Any message that RpcEvent::try_from accepts, whatever it holds, is long
\* enough for the accessors that the RPC layer uses on an event of its kind.
THEOREM EventsReadable == WireSpec => []AccessorsInRange
BY WireInvariant, AcceptedInRange, PTL
=============================================================================
