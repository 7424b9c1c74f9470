------------------------- MODULE AnswerStreamProofs -------------------------
(***************************************************************************)
(* Proofs about AnswerStream: what of the model's answer the student reads *)
(* and hears, with which question it ends, and that it comes to an end,    *)
(* for answers and chunks of any length, any number of retries and errors, *)
(* and a client that leaves at any moment.                                 *)
(***************************************************************************)
EXTENDS AnswerStream, SequenceTheorems, FiniteSetTheorems, WellFoundedInduction, TLAPS

-----------------------------------------------------------------------------
(* Units and texts *)

Unit == {"word", "blank", "open", "stop", "q", "bye", "left", "right"}
Text == Seq(Unit)
Half == {"left", "right"}

(* No half of a sentinel; no planned question *)
NoHalf(s) == \A i \in 1 .. Len(s) : s[i] \notin Half
NoQuestion(s) == \A i \in 1 .. Len(s) : s[i] # "q"

LEMMA Sizes == TAIL_SIZE = 3 /\ Len(SENTINEL) = 2 /\ SLACK = 1 /\ SENTINEL[1] = "left" /\ SENTINEL[2] = "right"
  BY DEF TAIL_SIZE, SLACK, SENTINEL

(* Two texts with the same units are the same *)
LEMMA SameText ==
  ASSUME NEW s \in Text, NEW t \in Text, Len(s) = Len(t), \A i \in 1 .. Len(s) : s[i] = t[i]
  PROVE  s = t
  BY SeqEqual DEF Text

LEMMA Texts ==
  ASSUME NEW s \in Text
  PROVE  /\ Len(s) \in Nat /\ DOMAIN s = 1 .. Len(s)
         /\ \A i \in 1 .. Len(s) : s[i] \in Unit
         /\ s \o <<>> = s /\ <<>> \o s = s /\ SubSeq(s, 1, Len(s)) = s
<1>1. s \in Seq(Unit)
  BY DEF Text
<1> QED BY <1>1, LenProperties, ConcatEmptySeq, SubSeqFull, ElementOfSeq

LEMMA Joined ==
  ASSUME NEW s \in Text, NEW t \in Text
  PROVE  /\ s \o t \in Text /\ Len(s \o t) = Len(s) + Len(t)
         /\ \A i \in 1 .. Len(s) : (s \o t)[i] = s[i]
         /\ \A i \in 1 .. Len(t) : (s \o t)[Len(s) + i] = t[i]
<1>1. s \in Seq(Unit) /\ t \in Seq(Unit) /\ Len(s) \in Nat /\ Len(t) \in Nat
  BY Texts DEF Text
<1>2. /\ s \o t \in Seq(Unit) /\ Len(s \o t) = Len(s) + Len(t)
      /\ \A i \in 1 .. Len(s) + Len(t) : (s \o t)[i] = IF i <= Len(s) THEN s[i] ELSE t[i - Len(s)]
  BY <1>1, ConcatProperties
<1>3. ASSUME NEW i \in 1 .. Len(t) PROVE (s \o t)[Len(s) + i] = t[i]
  BY <1>1, <1>2, <1>3
<1> QED BY <1>1, <1>2, <1>3 DEF Text

(* A part of a text *)
LEMMA Part ==
  ASSUME NEW s \in Text, NEW m \in Nat, NEW n \in Nat, 1 <= m, n <= Len(s)
  PROVE  /\ SubSeq(s, m, n) \in Text
         /\ Len(SubSeq(s, m, n)) = IF m <= n THEN n - m + 1 ELSE 0
         /\ \A i \in 1 .. Len(SubSeq(s, m, n)) : SubSeq(s, m, n)[i] = s[m + i - 1]
<1>1. \A i \in m .. n : s[i] \in Unit
  BY Texts
<1>2. /\ SubSeq(s, m, n) \in Seq(Unit)
      /\ Len(SubSeq(s, m, n)) = IF m <= n THEN n - m + 1 ELSE 0
      /\ \A i \in 1 .. n - m + 1 : SubSeq(s, m, n)[i] = s[m + i - 1]
  BY <1>1, SubSeqProperties
<1> QED BY <1>2 DEF Text

(* A text cut in two is the two together *)
LEMMA Cut ==
  ASSUME NEW s \in Text, NEW k \in Nat, NEW n \in Nat, k <= n, n <= Len(s)
  PROVE  SubSeq(s, 1, k) \o SubSeq(s, k + 1, n) = SubSeq(s, 1, n)
<1>1. s \in Seq(Unit) /\ Len(s) \in Nat
  BY Texts DEF Text
<1>2. 1 \in 1 .. Len(s) + 1 /\ k \in 1 - 1 .. Len(s) /\ n \in k .. Len(s)
  BY <1>1
<1> QED BY <1>1, <1>2, ConcatAdjacentSubSeq

LEMMA Regrouped ==
  ASSUME NEW s \in Text, NEW t \in Text, NEW u \in Text
  PROVE  (s \o t) \o u = s \o (t \o u)
  BY ConcatAssociative DEF Text

LEMMA PlainJoined ==
  ASSUME NEW s \in Text, NEW t \in Text
  PROVE  /\ NoHalf(s \o t) <=> NoHalf(s) /\ NoHalf(t)
         /\ NoQuestion(s \o t) <=> NoQuestion(s) /\ NoQuestion(t)
<1>0. Len(s) \in Nat /\ Len(t) \in Nat
  BY Texts
<1>1. Len(s \o t) = Len(s) + Len(t) /\ (\A i \in 1 .. Len(s) : (s \o t)[i] = s[i])
      /\ \A i \in 1 .. Len(t) : (s \o t)[Len(s) + i] = t[i]
  BY Joined
<1>2. ASSUME NEW x PROVE (\A i \in 1 .. Len(s \o t) : (s \o t)[i] # x) <=>
                         (\A i \in 1 .. Len(s) : s[i] # x) /\ (\A i \in 1 .. Len(t) : t[i] # x)
  <2>1. ASSUME \A i \in 1 .. Len(s \o t) : (s \o t)[i] # x, NEW i \in 1 .. Len(t) PROVE t[i] # x
    <3>1. Len(s) + i \in 1 .. Len(s \o t)
      BY <1>0, <1>1
    <3> QED BY <1>1, <2>1, <3>1
  <2>2. ASSUME \A i \in 1 .. Len(s \o t) : (s \o t)[i] # x, NEW i \in 1 .. Len(s) PROVE s[i] # x
    <3>1. i \in 1 .. Len(s \o t)
      BY <1>0, <1>1
    <3> QED BY <1>1, <2>2, <3>1
  <2>3. ASSUME \A i \in 1 .. Len(s) : s[i] # x, \A i \in 1 .. Len(t) : t[i] # x, NEW i \in 1 .. Len(s \o t)
        PROVE  (s \o t)[i] # x
    <3>1. CASE i <= Len(s)
      BY <1>0, <1>1, <2>3, <3>1
    <3>2. CASE ~(i <= Len(s))
      <4>1. i - Len(s) \in 1 .. Len(t) /\ i = Len(s) + (i - Len(s))
        BY <1>0, <1>1, <3>2
      <4> QED BY <1>1, <2>3, <4>1
    <3> QED BY <3>1, <3>2
  <2> QED BY <2>1, <2>2, <2>3
<1>3. \A v \in {s, t, s \o t} : NoHalf(v) <=> (\A i \in 1 .. Len(v) : v[i] # "left") /\ (\A i \in 1 .. Len(v) : v[i] # "right")
  BY DEF NoHalf, Half
<1> QED BY <1>2, <1>3 DEF NoQuestion

-----------------------------------------------------------------------------
(* RStrip keeps a text up to its last unit that is not a blank *)

LEMMA GreatestExists ==
  ASSUME NEW n \in Nat, NEW S, S \subseteq 0 .. n, S # {}
  PROVE  Max(S) \in S /\ \A j \in S : Max(S) >= j
<1> DEFINE D == {k \in Nat : n - k \in S}
<1>1. D # {} /\ D \subseteq Nat
  <2>1. PICK x \in S : TRUE
    OBVIOUS
  <2>2. n - x \in Nat /\ n - (n - x) = x
    BY <2>1
  <2> QED BY <2>1, <2>2
<1>2. PICK k \in D : \A y \in D : ~ (<<y, k>> \in OpToRel(<, Nat))
  BY <1>1, NatLessThanWellFounded, WFMin
<1>3. ASSUME NEW j \in S PROVE n - k >= j
  <2>1. j \in Nat /\ n - j \in D /\ k \in Nat
    <3>1. j \in Nat /\ n - j \in Nat /\ n - (n - j) = j
      OBVIOUS
    <3> QED BY <3>1
  <2>2. n - j \in Nat /\ ~ (n - j < k)
    BY <1>2, <2>1 DEF OpToRel
  <2> QED BY <2>1, <2>2
<1>4. n - k \in S
  OBVIOUS
<1> QED BY <1>3, <1>4 DEF Max

(* Where the last of them stands *)
IsEnd(s, k) ==
  k \in 0 .. Len(s) /\ (k > 0 => s[k] # "blank") /\ \A i \in 1 .. Len(s) : i > k => s[i] = "blank"

LEMMA RStripAt ==
  ASSUME NEW s \in Text, NEW k \in Nat, IsEnd(s, k)
  PROVE  RStrip(s) = SubSeq(s, 1, k)
<1>1. Len(s) \in Nat /\ DOMAIN s = 1 .. Len(s)
  BY Texts
<1>2. Solid(s) \cup {0} \subseteq 0 .. Len(s) /\ Solid(s) \cup {0} # {}
  BY <1>1 DEF Solid
<1>n. 0 .. Len(s) \subseteq Nat
  BY <1>1
<1>m. /\ Max(Solid(s) \cup {0}) \in Solid(s) \cup {0}
      /\ \A j \in Solid(s) \cup {0} : Max(Solid(s) \cup {0}) >= j
  BY <1>1, <1>2, GreatestExists
<1>3. PICK m \in Nat : /\ m = Max(Solid(s) \cup {0}) /\ m \in Solid(s) \cup {0}
                      /\ \A j \in Solid(s) \cup {0} : m >= j
  BY <1>2, <1>n, <1>m
<1>0. Solid(s) = {i \in 1 .. Len(s) : s[i] # "blank"}
  BY <1>1 DEF Solid, Blank
<1>e. k \in 0 .. Len(s) /\ (k > 0 => s[k] # "blank") /\ \A i \in 1 .. Len(s) : i > k => s[i] = "blank"
  BY DEF IsEnd
<1>4. k \in Solid(s) \cup {0}
  <2>1. k = 0 \/ (k > 0 /\ k \in 1 .. Len(s))
    BY <1>1, <1>e
  <2> QED BY <1>0, <1>e, <2>1
<1>5. m <= k
  <2>1. CASE m = 0
    BY <1>e, <1>1, <2>1
  <2>2. CASE m # 0
    <3>1. m \in 1 .. Len(s) /\ s[m] # "blank"
      BY <1>0, <1>3, <2>2
    <3>2. ~(m > k)
      BY <1>e, <3>1
    <3> QED BY <1>1, <1>e, <3>1, <3>2
  <2> QED BY <2>1, <2>2
<1>6. m = k
  <2>1. m >= k
    BY <1>3, <1>4
  <2>2. m \in Nat /\ k \in Nat
    BY <1>3
  <2> QED BY <1>5, <2>1, <2>2
<1> QED BY <1>3, <1>6 DEF RStrip

LEMMA EndExists ==
  ASSUME NEW s \in Text PROVE \E k \in 0 .. Len(s) : IsEnd(s, k)
<1>1. Len(s) \in Nat /\ DOMAIN s = 1 .. Len(s)
  BY Texts
<1>2. Solid(s) \cup {0} \subseteq 0 .. Len(s) /\ Solid(s) \cup {0} # {}
  BY <1>1 DEF Solid
<1>n. 0 .. Len(s) \subseteq Nat
  BY <1>1
<1>m. /\ Max(Solid(s) \cup {0}) \in Solid(s) \cup {0}
      /\ \A j \in Solid(s) \cup {0} : Max(Solid(s) \cup {0}) >= j
  BY <1>1, <1>2, GreatestExists
<1>3. PICK m \in Nat : /\ m = Max(Solid(s) \cup {0}) /\ m \in Solid(s) \cup {0}
                      /\ \A j \in Solid(s) \cup {0} : m >= j
  BY <1>2, <1>n, <1>m
<1>0. Solid(s) = {i \in 1 .. Len(s) : s[i] # "blank"}
  BY <1>1 DEF Solid, Blank
<1>4. IsEnd(s, m)
  <2>1. m \in 0 .. Len(s) /\ (m > 0 => s[m] # "blank")
    BY <1>0, <1>1, <1>2, <1>3
  <2>2. ASSUME NEW i \in 1 .. Len(s), i > m PROVE s[i] = "blank"
    <3>1. s[i] # "blank" => i \in Solid(s)
      BY <1>0
    <3>2. i \in Solid(s) => m >= i
      BY <1>3
    <3>3. ~(m >= i)
      BY <1>1, <2>1, <2>2
    <3> QED BY <3>1, <3>2, <3>3
  <2> QED BY <2>1, <2>2 DEF IsEnd
<1> QED BY <1>1, <1>2, <1>3, <1>4

LEMMA Stripped ==
  ASSUME NEW s \in Text
  PROVE  /\ RStrip(s) \in Text /\ Len(RStrip(s)) \in 0 .. Len(s)
         /\ IsEnd(s, Len(RStrip(s)))
         /\ \A i \in 1 .. Len(RStrip(s)) : RStrip(s)[i] = s[i]
         /\ RStrip(s) = SubSeq(s, 1, Len(RStrip(s)))
<1>1. PICK k \in 0 .. Len(s) : IsEnd(s, k)
  BY EndExists
<1>2. RStrip(s) = SubSeq(s, 1, k)
  BY <1>1, RStripAt
<1>3. Len(s) \in Nat /\ k \in Nat /\ k <= Len(s) /\ 1 \in Nat /\ 1 <= 1
  BY Texts
<1>4. RStrip(s) \in Text /\ Len(RStrip(s)) = (IF 1 <= k THEN k - 1 + 1 ELSE 0)
      /\ \A i \in 1 .. Len(RStrip(s)) : RStrip(s)[i] = s[1 + i - 1]
  BY <1>2, <1>3, Part
<1>5. Len(RStrip(s)) = k
  BY <1>3, <1>4
<1>6. \A i \in 1 .. Len(RStrip(s)) : RStrip(s)[i] = s[i]
  BY <1>3, <1>4, <1>5
<1> QED BY <1>1, <1>2, <1>4, <1>5, <1>6

(* Stripping what was stripped already, at the end of something *)
LEMMA StrippedTwice ==
  ASSUME NEW s \in Text, NEW x \in Text
  PROVE  RStrip(s \o RStrip(x)) = RStrip(s \o x)
<1> DEFINE k == Len(RStrip(x))
           y == RStrip(x)
<1>1. /\ y \in Text /\ k = Len(y) /\ k \in 0 .. Len(x) /\ IsEnd(x, k) /\ \A i \in 1 .. k : y[i] = x[i]
      /\ Len(s) \in Nat /\ Len(x) \in Nat
  BY Stripped, Texts
<1> HIDE DEF k, y
<1>2. /\ s \o y \in Text /\ Len(s \o y) = Len(s) + k
      /\ \A i \in 1 .. Len(s) : (s \o y)[i] = s[i]
      /\ \A i \in 1 .. k : (s \o y)[Len(s) + i] = y[i]
  BY <1>1, Joined
<1>3. /\ s \o x \in Text /\ Len(s \o x) = Len(s) + Len(x)
      /\ \A i \in 1 .. Len(s) : (s \o x)[i] = s[i]
      /\ \A i \in 1 .. Len(x) : (s \o x)[Len(s) + i] = x[i]
  BY Joined
<1>4. ASSUME NEW i \in 1 .. Len(s) + k PROVE (s \o y)[i] = (s \o x)[i]
  <2>1. CASE i <= Len(s)
    BY <1>1, <1>2, <1>3, <2>1
  <2>2. CASE ~(i <= Len(s))
    <3>1. i - Len(s) \in 1 .. k /\ i - Len(s) \in 1 .. Len(x) /\ i = Len(s) + (i - Len(s))
      BY <1>1, <2>2
    <3> QED BY <1>1, <1>2, <1>3, <3>1
  <2> QED BY <2>1, <2>2
<1>5. ASSUME NEW i \in 1 .. Len(s) + Len(x), i > Len(s) + k PROVE (s \o x)[i] = "blank"
  <2>1. i - Len(s) \in 1 .. Len(x) /\ i - Len(s) > k /\ i = Len(s) + (i - Len(s))
    BY <1>1, <1>5
  <2>2. x[i - Len(s)] = "blank"
    BY <1>1, <2>1 DEF IsEnd
  <2> QED BY <1>3, <2>1, <2>2
<1>6. PICK m \in 0 .. Len(s \o y) : IsEnd(s \o y, m)
  BY <1>2, EndExists
<1>7. m \in Nat /\ m <= Len(s) + k /\ m <= Len(s) + Len(x) /\ Len(s) + k \in Nat /\ Len(s) + Len(x) \in Nat
  BY <1>1, <1>2, <1>6
<1>8. IsEnd(s \o x, m)
  <2>1. m > 0 => (s \o x)[m] # "blank"
    <3>1. m > 0 => m \in 1 .. Len(s) + k
      BY <1>7
    <3>2. m > 0 => (s \o y)[m] # "blank"
      BY <1>6 DEF IsEnd
    <3> QED BY <1>4, <3>1, <3>2
  <2>2. ASSUME NEW i \in 1 .. Len(s \o x), i > m PROVE (s \o x)[i] = "blank"
    <3>1. CASE i > Len(s) + k
      BY <1>3, <1>5, <3>1
    <3>2. CASE ~(i > Len(s) + k)
      <4>1. i \in 1 .. Len(s) + k
        BY <1>3, <1>7, <3>2
      <4> QED BY <1>2, <1>4, <1>6, <2>2, <4>1 DEF IsEnd
    <3> QED BY <3>1, <3>2
  <2>3. m \in 0 .. Len(s \o x)
    BY <1>3, <1>7
  <2> QED BY <2>1, <2>2, <2>3 DEF IsEnd
<1>9. RStrip(s \o y) = SubSeq(s \o y, 1, m) /\ RStrip(s \o x) = SubSeq(s \o x, 1, m)
  <2>1. RStrip(s \o y) = SubSeq(s \o y, 1, m)
    BY <1>2, <1>6, <1>7, RStripAt
  <2>2. RStrip(s \o x) = SubSeq(s \o x, 1, m)
    BY <1>3, <1>7, <1>8, RStripAt
  <2> QED BY <2>1, <2>2
<1>10. SubSeq(s \o y, 1, m) = SubSeq(s \o x, 1, m)
  <2>0. 1 \in Nat /\ 1 <= 1 /\ m \in Nat /\ m <= Len(s \o y) /\ m <= Len(s \o x)
    BY <1>2, <1>3, <1>7
  <2>1. /\ SubSeq(s \o y, 1, m) \in Text /\ Len(SubSeq(s \o y, 1, m)) = (IF 1 <= m THEN m - 1 + 1 ELSE 0)
        /\ \A i \in 1 .. Len(SubSeq(s \o y, 1, m)) : SubSeq(s \o y, 1, m)[i] = (s \o y)[1 + i - 1]
    BY <1>2, <2>0, Part
  <2>2. /\ SubSeq(s \o x, 1, m) \in Text /\ Len(SubSeq(s \o x, 1, m)) = (IF 1 <= m THEN m - 1 + 1 ELSE 0)
        /\ \A i \in 1 .. Len(SubSeq(s \o x, 1, m)) : SubSeq(s \o x, 1, m)[i] = (s \o x)[1 + i - 1]
    BY <1>3, <2>0, Part
  <2>3. Len(SubSeq(s \o y, 1, m)) = m
    BY <2>0, <2>1
  <2>4. \A i \in 1 .. m : SubSeq(s \o y, 1, m)[i] = SubSeq(s \o x, 1, m)[i]
    BY <1>4, <1>7, <2>1, <2>2, <2>3
  <2> QED BY <2>1, <2>2, <2>3, <2>4, SameText
<1> QED BY <1>9, <1>10 DEF y

-----------------------------------------------------------------------------
(* Answers and their sentinel *)

(* A sentinel at most, whole, and no planned question *)
Shaped(a) ==
  /\ a \in Text /\ NoQuestion(a)
  /\ \A i \in 1 .. Len(a) : a[i] = "left" => i < Len(a) /\ a[i + 1] = "right"
  /\ \A i \in 1 .. Len(a) : a[i] = "right" => i > 1 /\ a[i - 1] = "left"
  /\ \A i, j \in 1 .. Len(a) : a[i] = "left" /\ a[j] = "left" => i = j

LEMMA EmptyText == <<>> \in Text /\ Len(<<>>) = 0 /\ NoHalf(<<>>) /\ NoQuestion(<<>>) /\ Shaped(<<>>)
<1>1. <<>> \in Text /\ Len(<<>>) = 0
  BY EmptySeq DEF Text
<1> QED BY <1>1 DEF NoHalf, NoQuestion, Shaped

LEMMA BehindText ==
  ASSUME NEW s \in Text, NoHalf(s), NoQuestion(s), NEW t, Shaped(t)
  PROVE  Shaped(s \o t)
<1> DEFINE a == s \o t
           n == Len(s)
<1>1. /\ n \in Nat /\ Len(t) \in Nat /\ t \in Text
      /\ a \in Text /\ Len(a) = n + Len(t)
      /\ \A i \in 1 .. n : a[i] = s[i]
      /\ \A i \in 1 .. Len(t) : a[n + i] = t[i]
  BY Joined, Texts DEF Shaped
<1>2. NoQuestion(a)
  BY <1>1, PlainJoined DEF Shaped
<1>3. \A i \in 1 .. n : a[i] \notin Half
  BY <1>1 DEF NoHalf
<1> HIDE DEF a, n
<1>4. ASSUME NEW i \in 1 .. Len(a), a[i] \in Half PROVE i - n \in 1 .. Len(t) /\ a[i] = t[i - n] /\ i = n + (i - n)
  <2>1. i \notin 1 .. n
    BY <1>3, <1>4
  <2>2. i - n \in 1 .. Len(t) /\ i = n + (i - n)
    BY <1>1, <2>1
  <2> QED BY <1>1, <2>2
<1>5. ASSUME NEW i \in 1 .. Len(a), a[i] = "left" PROVE i < Len(a) /\ a[i + 1] = "right"
  <2>1. i - n \in 1 .. Len(t) /\ t[i - n] = "left" /\ i = n + (i - n)
    BY <1>4, <1>5 DEF Half
  <2>2. i - n < Len(t) /\ t[(i - n) + 1] = "right"
    BY <2>1 DEF Shaped
  <2>3. (i - n) + 1 \in 1 .. Len(t) /\ n + ((i - n) + 1) = i + 1 /\ i < Len(a)
    BY <1>1, <2>1, <2>2
  <2> QED BY <1>1, <2>2, <2>3
<1>6. ASSUME NEW i \in 1 .. Len(a), a[i] = "right" PROVE i > 1 /\ a[i - 1] = "left"
  <2>1. i - n \in 1 .. Len(t) /\ t[i - n] = "right" /\ i = n + (i - n)
    BY <1>4, <1>6 DEF Half
  <2>2. i - n > 1 /\ t[(i - n) - 1] = "left"
    BY <2>1 DEF Shaped
  <2>3. (i - n) - 1 \in 1 .. Len(t) /\ n + ((i - n) - 1) = i - 1 /\ i > 1
    BY <1>1, <2>1, <2>2
  <2> QED BY <1>1, <2>2, <2>3
<1>7. ASSUME NEW i \in 1 .. Len(a), NEW j \in 1 .. Len(a), a[i] = "left", a[j] = "left" PROVE i = j
  <2>1. i - n \in 1 .. Len(t) /\ t[i - n] = "left"
    BY <1>4, <1>7 DEF Half
  <2>2. j - n \in 1 .. Len(t) /\ t[j - n] = "left"
    BY <1>4, <1>7 DEF Half
  <2>3. i - n = j - n
    BY <2>1, <2>2 DEF Shaped
  <2> QED BY <1>1, <2>3
<1> QED BY <1>1, <1>2, <1>5, <1>6, <1>7 DEF Shaped, a

LEMMA Endings ==
  \A end \in {<<>>, <<Blank, Blank, Blank>>, SENTINEL, SENTINEL \o <<Blank>>, SENTINEL \o <<Word, Stop>>} :
    Shaped(end)
<1> USE DEF Blank, Word, Stop
<1>1. Shaped(<<"blank", "blank", "blank">>)
  BY DEF Shaped, Text, Unit, NoQuestion
<1>2. Shaped(<<"left", "right">>)
  BY DEF Shaped, Text, Unit, NoQuestion
<1>3. Shaped(<<"left", "right", "blank">>)
  BY DEF Shaped, Text, Unit, NoQuestion
<1>4. Shaped(<<"left", "right", "word", "stop">>)
  BY DEF Shaped, Text, Unit, NoQuestion
<1>5. SENTINEL = <<"left", "right">> /\ SENTINEL \o <<Blank>> = <<"left", "right", "blank">>
      /\ SENTINEL \o <<Word, Stop>> = <<"left", "right", "word", "stop">>
  <2>1. /\ <<"left", "right">> \in Text /\ <<"blank">> \in Text /\ <<"word", "stop">> \in Text
        /\ <<"left", "right", "blank">> \in Text /\ <<"left", "right", "word", "stop">> \in Text
    BY DEF Text, Unit
  <2>2. <<"left", "right">> \o <<"blank">> = <<"left", "right", "blank">>
    <3> DEFINE x == <<"left", "right">> \o <<"blank">>
               y == <<"left", "right", "blank">>
    <3>1. x \in Text /\ Len(x) = 3 /\ x[1] = "left" /\ x[2] = "right" /\ x[2 + 1] = "blank"
      <4>1. x \in Text /\ Len(x) = Len(<<"left", "right">>) + Len(<<"blank">>)
            /\ (\A i \in 1 .. Len(<<"left", "right">>) : x[i] = <<"left", "right">>[i])
            /\ \A i \in 1 .. Len(<<"blank">>) : x[Len(<<"left", "right">>) + i] = <<"blank">>[i]
        BY <2>1, Joined
      <4> HIDE DEF x
      <4> QED BY <4>1
    <3>2. y \in Text /\ Len(y) = 3 /\ y[1] = "left" /\ y[2] = "right" /\ y[3] = "blank"
      BY <2>1
    <3> HIDE DEF x, y
    <3>3. \A i \in 1 .. 3 : (i = 1 \/ i = 2 \/ i = 3) /\ 2 + 1 = 3
      OBVIOUS
    <3>4. x = y
      BY <3>1, <3>2, <3>3, SameText
    <3> QED BY <3>4 DEF x, y
  <2>3. <<"left", "right">> \o <<"word", "stop">> = <<"left", "right", "word", "stop">>
    <3> DEFINE x == <<"left", "right">> \o <<"word", "stop">>
               y == <<"left", "right", "word", "stop">>
    <3>1. x \in Text /\ Len(x) = 4 /\ x[1] = "left" /\ x[2] = "right" /\ x[2 + 1] = "word" /\ x[2 + 2] = "stop"
      <4>1. x \in Text /\ Len(x) = Len(<<"left", "right">>) + Len(<<"word", "stop">>)
            /\ (\A i \in 1 .. Len(<<"left", "right">>) : x[i] = <<"left", "right">>[i])
            /\ \A i \in 1 .. Len(<<"word", "stop">>) : x[Len(<<"left", "right">>) + i] = <<"word", "stop">>[i]
        BY <2>1, Joined
      <4> HIDE DEF x
      <4> QED BY <4>1
    <3>2. y \in Text /\ Len(y) = 4 /\ y[1] = "left" /\ y[2] = "right" /\ y[3] = "word" /\ y[4] = "stop"
      BY <2>1
    <3> HIDE DEF x, y
    <3>3. \A i \in 1 .. 4 : (i = 1 \/ i = 2 \/ i = 3 \/ i = 4) /\ 2 + 1 = 3 /\ 2 + 2 = 4
      OBVIOUS
    <3>4. x = y
      BY <3>1, <3>2, <3>3, SameText
    <3> QED BY <3>4 DEF x, y
  <2> QED BY <2>2, <2>3 DEF SENTINEL
<1> QED BY <1>1, <1>2, <1>3, <1>4, <1>5, EmptyText

LEMMA AnswerShape == \A a \in Answer : Shaped(a)
<1> SUFFICES ASSUME NEW a \in Answer PROVE Shaped(a)
  OBVIOUS
<1> DEFINE T == BoundedSeq({Word, Blank, Open, Stop}, MaxLength)
           E == {<<>>, <<Blank, Blank, Blank>>, SENTINEL, SENTINEL \o <<Blank>>, SENTINEL \o <<Word, Stop>>}
<1>a. Answer = {text \o end : text \in T, end \in E}
  BY DEF Answer
<1>e. \A end \in E : Shaped(end)
  BY Endings
<1> HIDE DEF T, E
<1>0. a \in {text \o end : text \in T, end \in E}
  BY <1>a
<1>1. PICK text \in T, end \in E : a = text \o end
  BY <1>0
<1>2. PICK m \in 0 .. MaxLength : text \in [1 .. m -> {Word, Blank, Open, Stop}]
  BY <1>1 DEF T, BoundedSeq, SeqOf
<1>3. text \in Seq({Word, Blank, Open, Stop})
  BY <1>2, BoundsAssumption
<1>4. \A i \in 1 .. Len(text) : text[i] \in {Word, Blank, Open, Stop}
  BY <1>3, ElementOfSeq
<1>5. text \in Text
  <2>1. {Word, Blank, Open, Stop} \subseteq Unit
    BY DEF Word, Blank, Open, Stop, Unit
  <2> QED BY <1>3, <2>1, SeqMonotonic DEF Text
<1>6. NoHalf(text) /\ NoQuestion(text)
  BY <1>4 DEF NoHalf, NoQuestion, Half, Word, Blank, Open, Stop
<1> QED BY <1>1, <1>5, <1>6, <1>e, BehindText

(* Where the sentinel stands *)
At(s, p) == p \in 1 .. Len(s) /\ p < Len(s) /\ s[p] = "left" /\ s[p + 1] = "right"

LEMMA HasSentinelAt ==
  ASSUME NEW s \in Text
  PROVE  HasSentinel(s) <=> \E p \in 1 .. Len(s) : At(s, p)
<1>0. Len(s) \in Nat /\ SENTINEL \in Text
  BY Texts DEF SENTINEL, Text, Unit
<1>1. ASSUME HasSentinel(s) PROVE \E p \in 1 .. Len(s) : At(s, p)
  <2>1. PICK i \in 0 .. Len(s), j \in 0 .. Len(s) : SENTINEL = SubSeq(s, i + 1, j)
    BY <1>1 DEF HasSentinel, SubSeqs
  <2>2. i + 1 \in Nat /\ j \in Nat /\ 1 <= i + 1 /\ j <= Len(s)
    BY <1>0
  <2>3. /\ Len(SENTINEL) = IF i + 1 <= j THEN j - (i + 1) + 1 ELSE 0
        /\ \A k \in 1 .. Len(SENTINEL) : SENTINEL[k] = s[(i + 1) + k - 1]
    BY <2>1, <2>2, Part
  <2>4. j = i + 2
    <3>1. i \in Nat /\ j \in Nat
      BY <1>0
    <3>2. CASE i + 1 <= j
      <4>1. Len(SENTINEL) = j - (i + 1) + 1
        BY <2>3, <3>2
      <4>2. 2 = j - (i + 1) + 1
        BY ONLY <4>1, Sizes
      <4> QED BY ONLY <3>1, <4>2
    <3>3. CASE ~(i + 1 <= j)
      <4>1. Len(SENTINEL) = 0
        BY <2>3, <3>3
      <4> QED BY <4>1, Sizes
    <3> QED BY <3>2, <3>3
  <2>5. 1 \in 1 .. Len(SENTINEL) /\ 2 \in 1 .. Len(SENTINEL) /\ (i + 1) + 1 - 1 = i + 1 /\ (i + 1) + 2 - 1 = (i + 1) + 1
    BY <2>2, Sizes
  <2>6. s[i + 1] = "left" /\ s[(i + 1) + 1] = "right"
    BY <2>3, <2>5, Sizes
  <2>7. i + 1 \in 1 .. Len(s) /\ i + 1 < Len(s)
    BY <1>0, <2>2, <2>4
  <2> QED BY <2>6, <2>7 DEF At
<1>2. ASSUME NEW p \in 1 .. Len(s), At(s, p) PROVE HasSentinel(s)
  <2>1. p \in Nat /\ p + 1 \in Nat /\ 1 <= p /\ p + 1 <= Len(s) /\ p < Len(s) /\ p <= p + 1
    BY <1>0, <1>2 DEF At
  <2>2. /\ SubSeq(s, p, p + 1) \in Text /\ Len(SubSeq(s, p, p + 1)) = (p + 1) - p + 1
        /\ \A k \in 1 .. Len(SubSeq(s, p, p + 1)) : SubSeq(s, p, p + 1)[k] = s[p + k - 1]
    BY <2>1, Part
  <2>3. Len(SubSeq(s, p, p + 1)) = 2 /\ p + 1 - 1 = p /\ p + 2 - 1 = p + 1
    BY <2>1, <2>2
  <2>4. 1 \in 1 .. 2 /\ 2 \in 1 .. 2 /\ \A k \in 1 .. 2 : k = 1 \/ k = 2
    OBVIOUS
  <2>5. SubSeq(s, p, p + 1)[1] = "left" /\ SubSeq(s, p, p + 1)[2] = "right"
    BY <1>2, <2>2, <2>3, <2>4 DEF At
  <2>6. SubSeq(s, p, p + 1) = SENTINEL
    BY <1>0, <2>2, <2>3, <2>4, <2>5, Sizes, SameText
  <2>7. p - 1 \in 0 .. Len(s) /\ p + 1 \in 0 .. Len(s) /\ (p - 1) + 1 = p
    BY <1>0, <2>1
  <2>8. SENTINEL = SubSeq(s, (p - 1) + 1, p + 1)
    BY <2>6, <2>7
  <2>9. \E i, j \in 0 .. Len(s) : SENTINEL = SubSeq(s, i + 1, j)
    BY <2>7, <2>8
  <2> QED BY <2>9 DEF HasSentinel, SubSeqs
<1> QED BY <1>1, <1>2

(* The text without its one sentinel *)
LEMMA SentinelOut ==
  ASSUME NEW s \in Text, NEW p \in Nat, At(s, p), \A i \in 1 .. Len(s) : s[i] = "left" => i = p
  PROVE  WithoutSentinel(s) = SubSeq(s, 1, p - 1) \o SubSeq(s, p + 2, Len(s))
<1>0. /\ Len(s) \in Nat /\ p \in 1 .. Len(s) /\ p + 1 \in 1 .. Len(s) /\ p + 1 <= Len(s) /\ p - 1 \in Nat
      /\ s[p] = "left" /\ s[p + 1] = "right"
  BY Texts DEF At
<1>1. ASSUME NEW i \in 0 .. Len(s) PROVE SENTINEL \in SubSeqs(SubSeq(s, 1, i)) <=> p + 1 <= i
  <2> DEFINE t == SubSeq(s, 1, i)
  <2>1. i \in Nat /\ i <= Len(s) /\ 1 \in Nat /\ 1 <= 1
    BY <1>0
  <2>2. t \in Text /\ Len(t) = (IF 1 <= i THEN i - 1 + 1 ELSE 0) /\ \A k \in 1 .. Len(t) : t[k] = s[1 + k - 1]
    BY <2>1, Part
  <2>3. Len(t) = i
    BY <2>1, <2>2
  <2>4. \A k \in 1 .. i : t[k] = s[k]
    BY <2>2, <2>3
  <2> HIDE DEF t
  <2>5. ASSUME p + 1 <= i PROVE At(t, p)
    <3>1. p \in 1 .. i /\ p + 1 \in 1 .. i /\ p < i
      BY <1>0, <2>1, <2>5
    <3> QED BY <1>0, <2>3, <2>4, <3>1 DEF At
  <2>6. ASSUME NEW q \in 1 .. Len(t), At(t, q) PROVE p + 1 <= i
    <3>1. q \in 1 .. i /\ q < i /\ t[q] = "left"
      BY <2>3, <2>6 DEF At
    <3>2. q \in 1 .. Len(s) /\ s[q] = "left"
      BY <2>1, <2>4, <3>1, <1>0
    <3>3. q = p
      BY <3>2
    <3> QED BY <2>1, <3>1, <3>3
  <2>7. HasSentinel(t) <=> \E q \in 1 .. Len(t) : At(t, q)
    BY <2>2, HasSentinelAt
  <2>8. p + 1 <= i => p \in 1 .. Len(t)
    BY <2>5 DEF At
  <2>9. HasSentinel(t) <=> SENTINEL \in SubSeqs(t)
    BY DEF HasSentinel
  <2>10. HasSentinel(t) <=> p + 1 <= i
    BY <2>5, <2>6, <2>7, <2>8
  <2> QED BY <2>9, <2>10 DEF t
<1> DEFINE Q(i) == SENTINEL \in SubSeqs(SubSeq(s, 1, i)) /\ \A j \in 0 .. i - 1 : SENTINEL \notin SubSeqs(SubSeq(s, 1, j))
<1>2. p + 1 \in 0 .. Len(s) /\ Q(p + 1)
  <2>1. p + 1 \in 0 .. Len(s) /\ p + 1 <= p + 1
    BY <1>0
  <2>2. \A j \in 0 .. (p + 1) - 1 : j \in 0 .. Len(s) /\ ~(p + 1 <= j)
    BY <1>0
  <2> QED BY <1>1, <2>1, <2>2
<1>3. ASSUME NEW i \in 0 .. Len(s), Q(i) PROVE i = p + 1
  <2>1. p + 1 <= i
    BY <1>1, <1>3
  <2>2. ~(p + 1 \in 0 .. i - 1)
    BY <1>2, <1>3
  <2> QED BY <1>0, <2>1, <2>2
<1>4. (CHOOSE i \in 0 .. Len(s) : Q(i)) = p + 1
  <2> HIDE DEF Q
  <2> QED BY <1>2, <1>3
<1>5. IndexFirstSubSeq(SENTINEL, s) = p
  <2>1. IndexFirstSubSeq(SENTINEL, s) = (p + 1) - (Len(SENTINEL) - 1)
    BY <1>4 DEF IndexFirstSubSeq
  <2> QED BY <1>0, <2>1, Sizes
<1>6. SENTINEL \in SubSeqs(s)
  <2>1. HasSentinel(s)
    BY <1>0, HasSentinelAt
  <2> QED BY <2>1 DEF HasSentinel
<1>7. SubSeq(s, 1, p - 1) \in Text
  <2>1. p - 1 \in Nat /\ p - 1 <= Len(s) /\ 1 \in Nat /\ 1 <= 1
    BY <1>0
  <2> QED BY <2>1, Part
<1>8. WithoutSentinel(s) = SubSeq(s, 1, p - 1) \o <<>> \o SubSeq(s, p + Len(SENTINEL), Len(s))
  BY <1>5, <1>6 DEF WithoutSentinel, ReplaceFirstSubSeq, ReplaceSubSeqAt
<1>9. SubSeq(s, 1, p - 1) \o <<>> = SubSeq(s, 1, p - 1)
  BY <1>7, Texts
<1> QED BY <1>8, <1>9, Sizes

(* An answer without a whole sentinel has no half of one *)
LEMMA NoHalfAlone ==
  ASSUME NEW a, Shaped(a), ~HasSentinel(a) PROVE NoHalf(a)
<1>1. a \in Text /\ Len(a) \in Nat /\ ~ \E p \in 1 .. Len(a) : At(a, p)
  BY HasSentinelAt, Texts DEF Shaped
<1>2. ASSUME NEW i \in 1 .. Len(a), a[i] = "left" PROVE FALSE
  BY <1>1, <1>2 DEF Shaped, At
<1>3. ASSUME NEW i \in 1 .. Len(a), a[i] = "right" PROVE FALSE
  <2>1. i > 1 /\ a[i - 1] = "left" /\ i - 1 \in 1 .. Len(a)
    BY <1>1, <1>3 DEF Shaped
  <2> QED BY <1>2, <2>1
<1> QED BY <1>2, <1>3 DEF NoHalf, Half

(* A sentinel in the withheld end of an answer is the answer's *)
LEMMA SentinelInTail ==
  ASSUME NEW s \in Text, NEW t \in Text, Shaped(s \o t), HasSentinel(t)
  PROVE  /\ WithoutSentinel(t) \in Text /\ WithoutSentinel(s \o t) = s \o WithoutSentinel(t)
         /\ NoHalf(s) /\ NoHalf(WithoutSentinel(t)) /\ NoQuestion(WithoutSentinel(t))
<1> DEFINE a == s \o t
           n == Len(s)
<1>1. /\ n \in Nat /\ Len(t) \in Nat /\ a \in Text /\ Len(a) = n + Len(t)
      /\ \A i \in 1 .. n : a[i] = s[i]
      /\ \A i \in 1 .. Len(t) : a[n + i] = t[i]
  BY Joined, Texts
<1>2. PICK p \in 1 .. Len(t) : At(t, p)
  BY HasSentinelAt
<1>3. p \in Nat /\ p < Len(t) /\ t[p] = "left" /\ t[p + 1] = "right" /\ p + 1 \in 1 .. Len(t) /\ p - 1 \in Nat
  BY <1>1, <1>2 DEF At
<1>s. Shaped(a)
  OBVIOUS
<1> HIDE DEF a, n
<1>4. /\ n + p \in Nat /\ n + p \in 1 .. Len(a) /\ n + p < Len(a) /\ (n + p) + 1 = n + (p + 1)
      /\ a[n + p] = "left" /\ a[(n + p) + 1] = "right"
  BY <1>1, <1>3
<1>5. At(a, n + p)
  BY <1>4 DEF At
<1>6. \A i \in 1 .. Len(a) : a[i] = "left" => i = n + p
  BY <1>4, <1>s DEF Shaped
<1>7. ASSUME NEW i \in 1 .. Len(a), a[i] = "right" PROVE i = n + p + 1
  <2>1. i > 1 /\ a[i - 1] = "left" /\ i - 1 \in 1 .. Len(a)
    BY <1>1, <1>7, <1>s DEF Shaped
  <2>2. i - 1 = n + p
    BY <1>6, <2>1
  <2> QED BY <1>1, <1>3, <2>2
<1>8. ASSUME NEW i \in 1 .. Len(t) PROVE (t[i] = "left" => i = p) /\ (t[i] = "right" => i = p + 1) /\ t[i] # "q"
  <2>1. n + i \in 1 .. Len(a) /\ a[n + i] = t[i]
    BY <1>1
  <2>2. t[i] = "left" => n + i = n + p
    BY <1>6, <2>1
  <2>3. t[i] = "right" => n + i = n + p + 1
    BY <1>7, <2>1
  <2>4. a[n + i] # "q"
    BY <1>s, <2>1 DEF Shaped, NoQuestion
  <2> QED BY <1>1, <1>3, <2>1, <2>2, <2>3, <2>4
<1> DEFINE before == SubSeq(t, 1, p - 1)
           after == SubSeq(t, p + 2, Len(t))
<1>9. WithoutSentinel(t) = before \o after
  BY <1>2, <1>3, <1>8, SentinelOut
<1>10. WithoutSentinel(a) = SubSeq(a, 1, (n + p) - 1) \o SubSeq(a, (n + p) + 2, Len(a))
  BY <1>1, <1>4, <1>5, <1>6, SentinelOut
<1>11. /\ before \in Text /\ Len(before) = p - 1
       /\ \A i \in 1 .. Len(before) : before[i] = t[i]
  <2>1. 1 \in Nat /\ 1 <= 1 /\ p - 1 \in Nat /\ p - 1 <= Len(t)
    BY <1>1, <1>3
  <2>2. /\ before \in Text /\ Len(before) = (IF 1 <= p - 1 THEN (p - 1) - 1 + 1 ELSE 0)
        /\ \A i \in 1 .. Len(before) : before[i] = t[1 + i - 1]
    BY <2>1, Part
  <2> HIDE DEF before
  <2>3. Len(before) = p - 1
    BY <1>3, <2>2
  <2>4. \A i \in 1 .. Len(before) : 1 + i - 1 = i
    BY <1>3, <2>3
  <2> QED BY <2>2, <2>3, <2>4
<1>12. /\ after \in Text /\ Len(after) = Len(t) - (p + 1)
       /\ \A i \in 1 .. Len(after) : after[i] = t[(p + 1) + i]
  <2>1. p + 2 \in Nat /\ 1 <= p + 2 /\ Len(t) \in Nat /\ Len(t) <= Len(t)
    BY <1>1, <1>3
  <2>2. /\ after \in Text /\ Len(after) = (IF p + 2 <= Len(t) THEN Len(t) - (p + 2) + 1 ELSE 0)
        /\ \A i \in 1 .. Len(after) : after[i] = t[(p + 2) + i - 1]
    BY <2>1, Part
  <2> HIDE DEF after
  <2>3. Len(after) = Len(t) - (p + 1)
    BY <1>1, <1>3, <2>2
  <2>4. \A i \in 1 .. Len(after) : (p + 2) + i - 1 = (p + 1) + i
    BY <1>1, <1>3, <2>3
  <2> QED BY <2>2, <2>3, <2>4
<1> HIDE DEF before, after
<1>13. NoHalf(before) /\ NoQuestion(before)
  <2>1. ASSUME NEW i \in 1 .. Len(before) PROVE i \in 1 .. Len(t) /\ i # p /\ i # p + 1 /\ before[i] = t[i]
    BY <1>1, <1>3, <1>11
  <2> QED BY <1>8, <2>1 DEF NoHalf, NoQuestion, Half
<1>14. NoHalf(after) /\ NoQuestion(after)
  <2>1. ASSUME NEW i \in 1 .. Len(after)
        PROVE  (p + 1) + i \in 1 .. Len(t) /\ (p + 1) + i # p /\ (p + 1) + i # p + 1 /\ after[i] = t[(p + 1) + i]
    BY <1>1, <1>3, <1>12
  <2> QED BY <1>8, <2>1 DEF NoHalf, NoQuestion, Half
<1>15. NoHalf(s)
  <2>1. ASSUME NEW i \in 1 .. n PROVE i \in 1 .. Len(a) /\ i # n + p /\ i # n + p + 1 /\ a[i] = s[i]
    BY <1>1, <1>3
  <2>2. \A i \in 1 .. n : s[i] # "left" /\ s[i] # "right"
    BY <1>6, <1>7, <2>1
  <2> QED BY <2>2 DEF NoHalf, Half, n
<1>16. SubSeq(a, 1, (n + p) - 1) = s \o before
  <2>1. 1 \in Nat /\ 1 <= 1 /\ (n + p) - 1 \in Nat /\ (n + p) - 1 <= Len(a)
    BY <1>1, <1>3, <1>4
  <2> DEFINE x == SubSeq(a, 1, (n + p) - 1)
  <2>2. /\ x \in Text /\ Len(x) = (IF 1 <= (n + p) - 1 THEN ((n + p) - 1) - 1 + 1 ELSE 0)
        /\ \A i \in 1 .. Len(x) : x[i] = a[1 + i - 1]
    BY <1>1, <2>1, Part
  <2> HIDE DEF x
  <2>3. Len(x) = (n + p) - 1
    BY <1>1, <1>3, <2>2
  <2>4. /\ s \o before \in Text /\ Len(s \o before) = n + (p - 1)
        /\ \A i \in 1 .. n : (s \o before)[i] = s[i]
        /\ \A i \in 1 .. p - 1 : (s \o before)[n + i] = before[i]
    <3>1. /\ s \o before \in Text /\ Len(s \o before) = Len(s) + Len(before)
          /\ \A i \in 1 .. Len(s) : (s \o before)[i] = s[i]
          /\ \A i \in 1 .. Len(before) : (s \o before)[Len(s) + i] = before[i]
      BY <1>11, Joined
    <3>2. Len(before) = p - 1 /\ Len(s) = n
      BY <1>11 DEF n
    <3> QED BY <3>1, <3>2
  <2>5. ASSUME NEW i \in 1 .. (n + p) - 1 PROVE x[i] = (s \o before)[i]
    <3>1. x[i] = a[i]
      <4>1. i \in 1 .. Len(x) /\ 1 + i - 1 = i
        BY <1>1, <1>3, <2>3
      <4> QED BY <2>2, <4>1
    <3>2. CASE i <= n
      BY <1>1, <2>4, <3>1, <3>2
    <3>3. CASE ~(i <= n)
      <4>1. i - n \in 1 .. p - 1 /\ i - n \in 1 .. Len(t) /\ i = n + (i - n)
        BY <1>1, <1>3, <3>3
      <4>2. a[i] = t[i - n]
        BY <1>1, <4>1
      <4>3. (s \o before)[i] = before[i - n]
        BY <2>4, <4>1
      <4>4. before[i - n] = t[i - n]
        BY <1>11, <4>1
      <4> QED BY <3>1, <4>2, <4>3, <4>4
    <3> QED BY <3>2, <3>3
  <2>6. Len(x) = Len(s \o before) /\ \A i \in 1 .. Len(x) : x[i] = (s \o before)[i]
    BY <1>1, <1>3, <2>3, <2>4, <2>5
  <2>7. x = s \o before
    BY <2>2, <2>4, <2>6, SameText
  <2> QED BY <2>7 DEF x
<1>17. SubSeq(a, (n + p) + 2, Len(a)) = after
  <2>1. (n + p) + 2 \in Nat /\ 1 <= (n + p) + 2 /\ Len(a) \in Nat /\ Len(a) <= Len(a)
    BY <1>1, <1>3
  <2> DEFINE x == SubSeq(a, (n + p) + 2, Len(a))
  <2>2. /\ x \in Text /\ Len(x) = (IF (n + p) + 2 <= Len(a) THEN Len(a) - ((n + p) + 2) + 1 ELSE 0)
        /\ \A i \in 1 .. Len(x) : x[i] = a[((n + p) + 2) + i - 1]
    BY <1>1, <2>1, Part
  <2> HIDE DEF x
  <2>3. Len(x) = Len(after)
    BY <1>1, <1>3, <1>12, <2>2
  <2>4. ASSUME NEW i \in 1 .. Len(x) PROVE x[i] = after[i]
    <3>1. i \in 1 .. Len(after) /\ (p + 1) + i \in 1 .. Len(t) /\ ((n + p) + 2) + i - 1 = n + ((p + 1) + i)
      BY <1>1, <1>3, <1>12, <2>3
    <3>2. x[i] = a[n + ((p + 1) + i)]
      BY <2>2, <3>1
    <3>3. a[n + ((p + 1) + i)] = t[(p + 1) + i]
      BY <1>1, <3>1
    <3> QED BY <1>12, <3>1, <3>2, <3>3
  <2>5. x = after
    BY <1>12, <2>2, <2>3, <2>4, SameText
  <2> QED BY <2>5 DEF x
<1>18. WithoutSentinel(a) = s \o (before \o after)
  <2>1. WithoutSentinel(a) = (s \o before) \o after
    BY <1>10, <1>16, <1>17
  <2>2. (s \o before) \o after = s \o (before \o after)
    BY <1>11, <1>12, Regrouped
  <2> QED BY <2>1, <2>2
<1>19. before \o after \in Text /\ NoHalf(before \o after) /\ NoQuestion(before \o after)
  BY <1>11, <1>12, <1>13, <1>14, Joined, PlainJoined
<1> QED BY <1>9, <1>15, <1>18, <1>19 DEF a

(* What stripping leaves has nothing that was not there *)
LEMMA StripKeeps ==
  ASSUME NEW s \in Text
  PROVE  (NoHalf(s) => NoHalf(RStrip(s))) /\ (NoQuestion(s) => NoQuestion(RStrip(s)))
<1>1. /\ Len(RStrip(s)) \in 0 .. Len(s) /\ Len(s) \in Nat
      /\ \A i \in 1 .. Len(RStrip(s)) : RStrip(s)[i] = s[i]
  BY Stripped, Texts
<1>2. \A i \in 1 .. Len(RStrip(s)) : i \in 1 .. Len(s)
  BY <1>1
<1> QED BY <1>1, <1>2 DEF NoHalf, NoQuestion

-----------------------------------------------------------------------------
(* The interceptors *)

EndsWith(t, q) == Len(t) >= 2 /\ t[Len(t) - 1] = q[1] /\ t[Len(t)] = q[2]

LEMMA Questions ==
  \A q \in Question : q \in Text /\ Len(q) = 2 /\ q[1] = "q" /\ q[2] \in {"open", "stop"} /\ NoHalf(q)
<1>1. <<"q", "open">> \in Text /\ <<"q", "stop">> \in Text
  BY DEF Text, Unit
<1>2. NoHalf(<<"q", "open">>) /\ NoHalf(<<"q", "stop">>)
  BY DEF NoHalf, Half
<1> QED BY <1>1, <1>2 DEF Question, Open, Stop

LEMMA Asking ==
  ASSUME NEW s \in Text, NEW q \in Question
  PROVE  LET f == Appended(s, q)
         IN /\ f \in Text /\ Len(f) = Len(RStrip(s)) + 4
            /\ EndsWith(f, q) /\ RStrip(f) = f
            /\ NoHalf(s) => NoHalf(f)
            /\ NoQuestion(s) => \A i \in 1 .. Len(f) : f[i] = "q" => i = Len(f) - 1
            /\ q[2] = "open" => HasOpenQuestion(f)
<1> DEFINE r == RStrip(s)
           gap == <<Blank, Blank>>
           rg == r \o gap
           f == rg \o q
           n == Len(r)
<1>1. r \in Text /\ n \in Nat /\ (NoHalf(s) => NoHalf(r)) /\ (NoQuestion(s) => NoQuestion(r))
  BY Stripped, StripKeeps, Texts
<1>2. gap \in Text /\ Len(gap) = 2 /\ gap[1] = "blank" /\ gap[2] = "blank" /\ NoHalf(gap) /\ NoQuestion(gap)
  <2>1. gap = <<"blank", "blank">>
    BY DEF Blank
  <2> QED BY <2>1 DEF Text, Unit, NoHalf, Half, NoQuestion
<1>3. q \in Text /\ Len(q) = 2 /\ q[1] = "q" /\ q[2] \in {"open", "stop"} /\ NoHalf(q)
  BY Questions
<1>f. Appended(s, q) = f
  BY DEF Appended
<1>n. n = Len(r)
  OBVIOUS
<1> HIDE DEF r, gap, n
<1>4. rg \in Text /\ Len(rg) = n + 2 /\ (NoHalf(r) => NoHalf(rg)) /\ (NoQuestion(r) => NoQuestion(rg))
  <2>1. rg \in Text /\ Len(rg) = Len(r) + Len(gap)
    BY <1>1, <1>2, Joined
  <2>2. (NoHalf(r) => NoHalf(rg)) /\ (NoQuestion(r) => NoQuestion(rg))
    BY <1>1, <1>2, PlainJoined
  <2> HIDE DEF rg
  <2> QED BY <1>2, <1>n, <2>1, <2>2
<1> HIDE DEF rg
<1>5. /\ f \in Text /\ Len(f) = Len(rg) + Len(q)
      /\ \A i \in 1 .. Len(rg) : f[i] = rg[i]
      /\ \A i \in 1 .. Len(q) : f[Len(rg) + i] = q[i]
      /\ NoHalf(rg) => NoHalf(f)
  BY <1>3, <1>4, Joined, PlainJoined
<1> HIDE DEF f
<1>6. Len(f) = n + 4 /\ Len(f) - 1 = Len(rg) + 1 /\ Len(f) = Len(rg) + 2 /\ 1 \in 1 .. Len(q) /\ 2 \in 1 .. Len(q)
      /\ Len(f) \in 1 .. Len(f) /\ Len(f) \in Nat
  BY <1>1, <1>3, <1>4, <1>5
<1>7. f[Len(f) - 1] = "q" /\ f[Len(f)] = q[2]
  BY <1>3, <1>5, <1>6
<1>8. EndsWith(f, q)
  BY <1>1, <1>3, <1>6, <1>7 DEF EndsWith
<1>9. RStrip(f) = f
  <2>1. IsEnd(f, Len(f))
    <3>1. f[Len(f)] # "blank"
      BY <1>3, <1>7
    <3>2. Len(f) \in 0 .. Len(f) /\ \A i \in 1 .. Len(f) : ~(i > Len(f))
      BY <1>6
    <3> QED BY <3>1, <3>2 DEF IsEnd
  <2>2. RStrip(f) = SubSeq(f, 1, Len(f))
    BY <1>5, <1>6, <2>1, RStripAt
  <2> QED BY <1>5, <2>2, Texts
<1>10. ASSUME NoQuestion(s), NEW i \in 1 .. Len(f), f[i] = "q" PROVE i = Len(f) - 1
  <2>1. CASE i \in 1 .. Len(rg)
    <3>1. rg[i] # "q"
      BY <1>1, <1>4, <1>10, <2>1 DEF NoQuestion
    <3> QED BY <1>5, <1>10, <2>1, <3>1
  <2>2. CASE i = Len(f)
    BY <1>3, <1>7, <1>10, <2>2
  <2>3. CASE i # Len(f) /\ i \notin 1 .. Len(rg)
    BY <1>6, <2>3, <1>4, <1>1
  <2> QED BY <2>1, <2>2, <2>3
<1>11. q[2] = "open" => HasOpenQuestion(f)
  BY <1>6, <1>7 DEF HasOpenQuestion, Contains, Open
<1>12. NoHalf(s) => NoHalf(f)
  BY <1>1, <1>4, <1>5
<1> QED BY <1>f, <1>5, <1>6, <1>n, <1>8, <1>9, <1>10, <1>11, <1>12 DEF r

(* What check_output makes of an answer that has no planned question in it yet *)
LEMMA CheckedText ==
  ASSUME NEW s \in Text, NoQuestion(s), NEW guard \in {"none", "strict", "relaxed"}, NEW q \in Question,
         NEW manner \in Manner
  PROVE  LET final == CheckOutput(s, guard, q, manner)
         IN /\ final \in Text
            /\ NoHalf(s) => NoHalf(final)
            /\ guard = "strict" =>
                 \/ HasOpenQuestion(s) /\ ~manner.blunt
                 \/ /\ EndsWith(final, q)
                    /\ Len(final) >= Len(RStrip(s)) + 2
                    /\ s # <<>> => Len(final) >= Len(RStrip(s)) + 4
            /\ q[2] = "open" => \A i \in 1 .. Len(final) : final[i] = "q" => i = Len(final) - 1
<1> DEFINE first == IF guard = "strict" THEN DirectAnswer(s, q, manner) ELSE s
           final == CheckOutput(s, guard, q, manner)
<1>q. q \in Text /\ Len(q) = 2 /\ q[1] = "q" /\ q[2] \in {"open", "stop"} /\ NoHalf(q)
  BY Questions
<1>r. RStrip(s) \in Text /\ Len(RStrip(s)) \in Nat
  BY Stripped, Texts
<1>a. /\ Appended(s, q) \in Text /\ Len(Appended(s, q)) = Len(RStrip(s)) + 4
      /\ EndsWith(Appended(s, q), q) /\ RStrip(Appended(s, q)) = Appended(s, q)
      /\ NoHalf(s) => NoHalf(Appended(s, q))
      /\ \A i \in 1 .. Len(Appended(s, q)) : Appended(s, q)[i] = "q" => i = Len(Appended(s, q)) - 1
      /\ q[2] = "open" => HasOpenQuestion(Appended(s, q))
  BY Asking
<1>m. manner.blunt \in BOOLEAN
  BY DEF Manner
(* What the first interceptor leaves *)
<1>1. \/ first = s /\ (guard = "strict" => HasOpenQuestion(s) /\ ~manner.blunt)
      \/ s = <<>> /\ first = q
      \/ s # <<>> /\ first = Appended(s, q)
  BY DEF DirectAnswer
<1>2. final = Rhetorical(first, q, manner, first # s)
  BY DEF CheckOutput
<1> HIDE DEF first, final
<1>3. final = first \/ (final = Appended(first, q) /\ ~HasOpenQuestion(first))
  BY <1>2 DEF Rhetorical
<1>4. CASE first = s /\ (guard = "strict" => HasOpenQuestion(s) /\ ~manner.blunt)
  <2>1. CASE final = s
    BY <1>4, <2>1 DEF NoQuestion, final
  <2>2. CASE final = Appended(s, q)
    BY <1>4, <1>a, <2>2 DEF final
  <2> QED BY <1>3, <1>4, <2>1, <2>2
<1>5. CASE s = <<>> /\ first = q
  <2>1. RStrip(q) = q
    <3>1. IsEnd(q, 2)
      BY <1>q DEF IsEnd
    <3>2. RStrip(q) = SubSeq(q, 1, 2)
      BY <1>q, <3>1, RStripAt
    <3> QED BY <1>q, <3>2, Texts
  <2>2. Len(RStrip(s)) = 0
    BY <1>5, Stripped, EmptyText
  <2>3. EndsWith(q, q)
    BY <1>q DEF EndsWith
  <2>4. \A i \in 1 .. Len(q) : q[i] = "q" => i = Len(q) - 1
    <3>1. \A i \in 1 .. 2 : i = 1 \/ i = 2
      OBVIOUS
    <3> QED BY <1>q, <3>1
  <2>5. CASE final = q
    <3>1. Len(final) >= Len(RStrip(s)) + 2
      <4>1. Len(final) = 2
        BY <1>q, <2>5
      <4> QED BY ONLY <2>2, <4>1
    <3>2. final \in Text /\ NoHalf(final) /\ EndsWith(final, q) /\ \A i \in 1 .. Len(final) : final[i] = "q" => i = Len(final) - 1
      BY <1>q, <2>3, <2>4, <2>5
    <3> QED BY <1>5, <3>1, <3>2 DEF final
  <2>6. CASE final = Appended(q, q) /\ ~HasOpenQuestion(q)
    <3>1. /\ Appended(q, q) \in Text /\ Len(Appended(q, q)) = Len(RStrip(q)) + 4
          /\ EndsWith(Appended(q, q), q) /\ (NoHalf(q) => NoHalf(Appended(q, q)))
      BY <1>q, Asking
    <3>2. q[2] # "open"
      BY <1>q, <2>6 DEF HasOpenQuestion, Contains, Open
    <3>3. Len(Appended(q, q)) = 6
      BY <1>q, <2>1, <3>1
    <3>4. Len(final) = 6 /\ EndsWith(final, q) /\ final \in Text /\ NoHalf(final)
      BY <1>q, <2>6, <3>1, <3>3
    <3>5. Len(final) >= Len(RStrip(s)) + 2
      BY <2>2, <3>4
    <3> QED BY <1>5, <3>2, <3>4, <3>5 DEF final
  <2> QED BY <1>3, <1>5, <2>5, <2>6
<1>6. CASE s # <<>> /\ first = Appended(s, q)
  <2>1. CASE final = first
    <3>1. Len(final) = Len(RStrip(s)) + 4
      BY <1>a, <1>6, <2>1
    <3>2. Len(final) >= Len(RStrip(s)) + 2 /\ Len(final) >= Len(RStrip(s)) + 4
      BY <1>r, <3>1
    <3>3. /\ final \in Text /\ EndsWith(final, q) /\ (NoHalf(s) => NoHalf(final))
          /\ \A i \in 1 .. Len(final) : final[i] = "q" => i = Len(final) - 1
      BY <1>a, <1>6, <2>1
    <3> QED BY <3>2, <3>3 DEF final
  <2>2. CASE final = Appended(first, q) /\ ~HasOpenQuestion(first)
    <3>1. first \in Text /\ RStrip(first) = first /\ (NoHalf(s) => NoHalf(first)) /\ Len(first) = Len(RStrip(s)) + 4
      BY <1>6, <1>a
    <3>2. /\ final \in Text /\ Len(final) = Len(first) + 4
          /\ EndsWith(final, q) /\ (NoHalf(first) => NoHalf(final))
      BY <2>2, <3>1, Asking
    <3>3. q[2] # "open"
      BY <1>6, <1>a, <2>2
    <3>4. Len(final) >= Len(RStrip(s)) + 2 /\ Len(final) >= Len(RStrip(s)) + 4
      BY <1>r, <3>1, <3>2
    <3> QED BY <3>1, <3>2, <3>3, <3>4 DEF final
  <2> QED BY <1>3, <2>1, <2>2
<1> QED BY <1>1, <1>4, <1>5, <1>6

(* A text that ends with the question has it as a suffix *)
LEMMA SuffixOfEnd ==
  ASSUME NEW t \in Text, NEW q \in Question, EndsWith(t, q)
  PROVE  IsSuffix(q, t)
<1>1. Len(t) \in Nat /\ Len(t) >= 2 /\ t[Len(t) - 1] = q[1] /\ t[Len(t)] = q[2] /\ q \in Text /\ Len(q) = 2
  BY Texts, Questions DEF EndsWith
<1> DEFINE u == [i \in 1 .. Len(q) |-> q[(Len(q) - i) + 1]]
           v == [i \in 1 .. Len(t) |-> t[(Len(t) - i) + 1]]
<1>2. u \in Text /\ Len(u) = 2 /\ u[1] = q[2] /\ u[2] = q[1]
  <2>1. \A i \in 1 .. Len(q) : (Len(q) - i) + 1 \in 1 .. Len(q) /\ q[(Len(q) - i) + 1] \in Unit
    <3>1. \A i \in 1 .. Len(q) : (Len(q) - i) + 1 \in 1 .. Len(q)
      BY <1>1
    <3> QED BY <1>1, <3>1, Texts
  <2>2. u \in [1 .. Len(q) -> Unit]
    BY <2>1
  <2>3. u \in Seq(Unit) /\ Len(u) = Len(q)
    BY <1>1, <2>2
  <2>4. 1 \in 1 .. Len(q) /\ 2 \in 1 .. Len(q) /\ (Len(q) - 1) + 1 = 2 /\ (Len(q) - 2) + 1 = 1
    BY <1>1
  <2>5. u[1] = q[2] /\ u[2] = q[1]
    BY <2>4
  <2> QED BY <1>1, <2>3, <2>5 DEF Text
<1>3. v \in Text /\ Len(v) = Len(t) /\ v[1] = t[Len(t)] /\ v[2] = t[Len(t) - 1]
  <2>1. \A i \in 1 .. Len(t) : (Len(t) - i) + 1 \in 1 .. Len(t) /\ t[(Len(t) - i) + 1] \in Unit
    <3>1. \A i \in 1 .. Len(t) : (Len(t) - i) + 1 \in 1 .. Len(t)
      BY <1>1
    <3> QED BY <1>1, <3>1, Texts
  <2>2. v \in [1 .. Len(t) -> Unit]
    BY <2>1
  <2>3. v \in Seq(Unit) /\ Len(v) = Len(t)
    BY <1>1, <2>2
  <2>4. 1 \in 1 .. Len(t) /\ 2 \in 1 .. Len(t) /\ (Len(t) - 1) + 1 = Len(t) /\ (Len(t) - 2) + 1 = Len(t) - 1
    BY <1>1
  <2>5. v[1] = t[Len(t)] /\ v[2] = t[Len(t) - 1]
    BY <2>4
  <2> QED BY <2>3, <2>5 DEF Text
<1>4. Reverse(q) = u /\ Reverse(t) = v
  BY DEF Reverse
<1> HIDE DEF u, v
<1>5. SubSeq(u, 1, 2) = u
  BY <1>2, Texts
<1>6. SubSeq(v, 1, 2) = u
  <2>1. 1 \in Nat /\ 2 \in Nat /\ 1 <= 1 /\ 2 <= Len(v)
    BY <1>1, <1>3
  <2> DEFINE x == SubSeq(v, 1, 2)
  <2>2. x \in Text /\ Len(x) = (IF 1 <= 2 THEN 2 - 1 + 1 ELSE 0) /\ \A i \in 1 .. Len(x) : x[i] = v[1 + i - 1]
    BY <1>3, <2>1, Part
  <2> HIDE DEF x
  <2>3. Len(x) = 2 /\ x[1] = v[1] /\ x[2] = v[2]
    BY <2>2
  <2>4. \A i \in 1 .. 2 : i = 1 \/ i = 2
    OBVIOUS
  <2>5. x = u
    BY <1>1, <1>2, <1>3, <2>2, <2>3, <2>4, SameText
  <2> QED BY <2>5 DEF x
<1> QED BY <1>1, <1>2, <1>3, <1>4, <1>5, <1>6 DEF IsSuffix, IsPrefix

-----------------------------------------------------------------------------
(* A sentinel at the end of an answer, give or take the slack, leaves no half of one before the last three units *)
AtEnd(a) == HasSentinel(SubSeq(a, Max({0, Len(a) - Len(SENTINEL) - SLACK}) + 1, Len(a)))

LEMMA EndSentinel ==
  ASSUME NEW a, Shaped(a), AtEnd(a)
  PROVE  \E p \in 1 .. Len(a) : /\ At(a, p) /\ p + 2 >= Len(a)
                                /\ \A i \in 1 .. Len(a) : i < p => a[i] \notin Half
<1>1. a \in Text /\ Len(a) \in Nat
  BY Texts DEF Shaped
<1>2. PICK m \in Nat : m = Max({0, Len(a) - Len(SENTINEL) - SLACK}) /\ m <= Len(a) /\ m + 3 >= Len(a)
  <2> DEFINE S == {0, Len(a) - Len(SENTINEL) - SLACK}
  <2>1. S = {0, Len(a) - 3}
    <3>1. Len(a) - Len(SENTINEL) - SLACK = Len(a) - 3
      BY <1>1, Sizes
    <3> QED BY <3>1
  <2>2. ASSUME Len(a) >= 3 PROVE Max(S) \in Nat /\ Max(S) <= Len(a) /\ Max(S) + 3 >= Len(a)
    <3>1. S \subseteq 0 .. Len(a) /\ S # {}
      BY <1>1, <2>1, <2>2
    <3> HIDE DEF S
    <3>2. Max(S) \in S /\ \A j \in S : Max(S) >= j
      BY <1>1, <3>1, GreatestExists
    <3>3. Max(S) \in Nat /\ Max(S) <= Len(a) /\ Max(S) >= Len(a) - 3
      BY <1>1, <2>1, <3>1, <3>2
    <3> QED BY <1>1, <3>3 DEF S
  <2>3. ASSUME Len(a) < 3 PROVE Max(S) \in Nat /\ Max(S) <= Len(a) /\ Max(S) + 3 >= Len(a)
    <3>1. 0 \in S /\ \A j \in S : 0 >= j
      BY <1>1, <2>1, <2>3
    <3>2. \A x \in S : (\A j \in S : x >= j) => x = 0
      BY <1>1, <2>1, <2>3
    <3> HIDE DEF S
    <3>3. Max(S) = 0
      BY <3>1, <3>2 DEF Max
    <3>4. 0 \in Nat /\ 0 <= Len(a) /\ 0 + 3 >= Len(a)
      BY <1>1, <2>3
    <3>5. Max(S) \in Nat /\ Max(S) <= Len(a) /\ Max(S) + 3 >= Len(a)
      BY <3>3, <3>4
    <3> QED BY <3>5 DEF S
  <2> HIDE DEF S
  <2>4. Max(S) \in Nat /\ Max(S) <= Len(a) /\ Max(S) + 3 >= Len(a)
    BY <1>1, <2>2, <2>3
  <2> QED BY <2>4 DEF S
<1> DEFINE t == SubSeq(a, m + 1, Len(a))
<1>3. /\ t \in Text /\ Len(t) \in Nat /\ m + Len(t) = Len(a)
      /\ \A i \in 1 .. Len(t) : t[i] = a[m + i]
  <2>1. m + 1 \in Nat /\ 1 <= m + 1 /\ Len(a) <= Len(a)
    BY <1>1, <1>2
  <2>2. t \in Text /\ Len(t) = (IF m + 1 <= Len(a) THEN Len(a) - (m + 1) + 1 ELSE 0)
        /\ \A i \in 1 .. Len(t) : t[i] = a[(m + 1) + i - 1]
    BY <1>1, <2>1, Part
  <2> HIDE DEF t
  <2>3. Len(t) = Len(a) - m
    BY <1>1, <1>2, <2>2
  <2>4. \A i \in 1 .. Len(t) : (m + 1) + i - 1 = m + i
    BY <1>1, <1>2, <2>3
  <2>5. Len(t) \in Nat /\ m + Len(t) = Len(a)
    BY <1>1, <1>2, <2>3
  <2>6. \A i \in 1 .. Len(t) : t[i] = a[m + i]
    BY <2>2, <2>4
  <2> QED BY <2>2, <2>5, <2>6
<1>4. HasSentinel(t)
  BY <1>2 DEF AtEnd
<1> HIDE DEF t
<1>5. PICK q \in 1 .. Len(t) : At(t, q)
  BY <1>3, <1>4, HasSentinelAt
<1>6. /\ q \in Nat /\ m + q \in 1 .. Len(a) /\ m + q < Len(a) /\ m + (q + 1) = (m + q) + 1 /\ q + 1 \in 1 .. Len(t)
      /\ (m + q) + 2 >= Len(a)
  <2>1. q < Len(t)
    BY <1>5 DEF At
  <2> QED BY <1>1, <1>2, <1>3, <2>1
<1>7. At(a, m + q)
  BY <1>3, <1>5, <1>6 DEF At
<1>8. a[m + q] = "left"
  BY <1>7 DEF At
<1>9. ASSUME NEW i \in 1 .. Len(a), i < m + q PROVE a[i] \notin Half
  <2>0. a[i] = "left" => i = m + q
    BY <1>6, <1>8 DEF Shaped
  <2>1. a[i] # "left"
    BY <1>2, <1>6, <1>9, <2>0
  <2>2. ASSUME a[i] = "right" PROVE FALSE
    <3>1. i > 1 /\ a[i - 1] = "left" /\ i - 1 \in 1 .. Len(a)
      BY <1>1, <2>2 DEF Shaped
    <3>2. i - 1 = m + q
      BY <1>6, <1>8, <3>1 DEF Shaped
    <3> QED BY <1>2, <1>6, <1>9, <3>2
  <2> QED BY <2>1, <2>2 DEF Half
<1> QED BY <1>6, <1>7, <1>9

(* The part of such an answer that has left the tail *)
LEMMA EndWithheld ==
  ASSUME NEW a, Shaped(a), AtEnd(a), NEW x \in Text, NEW t \in Text, NEW g \in 0 .. Len(a),
         x \o t = SubSeq(a, 1, g), Len(t) = 3 \/ x = <<>>
  PROVE  NoHalf(x) /\ (g = Len(a) => HasSentinel(t))
<1>1. a \in Text /\ Len(a) \in Nat /\ g \in Nat /\ g <= Len(a) /\ Len(x) \in Nat /\ Len(t) \in Nat
  BY Texts DEF Shaped
<1>2. PICK p \in 1 .. Len(a) : At(a, p) /\ p + 2 >= Len(a) /\ \A i \in 1 .. Len(a) : i < p => a[i] \notin Half
  BY EndSentinel
<1>3. p \in Nat /\ p < Len(a) /\ a[p] = "left" /\ a[p + 1] = "right"
  BY <1>2 DEF At
<1>4. Len(x) + Len(t) = g /\ (\A i \in 1 .. Len(x) : x[i] = a[i]) /\ (\A i \in 1 .. Len(t) : t[i] = a[Len(x) + i])
  <2> DEFINE y == SubSeq(a, 1, g)
  <2>1. y \in Text /\ Len(y) = (IF 1 <= g THEN g - 1 + 1 ELSE 0) /\ \A i \in 1 .. Len(y) : y[i] = a[1 + i - 1]
    BY <1>1, Part
  <2>2. Len(x \o t) = Len(x) + Len(t) /\ (\A i \in 1 .. Len(x) : (x \o t)[i] = x[i])
        /\ \A i \in 1 .. Len(t) : (x \o t)[Len(x) + i] = t[i]
    BY Joined
  <2>3. x \o t = y
    OBVIOUS
  <2> HIDE DEF y
  <2>4. Len(y) = g /\ Len(x) + Len(t) = g
    BY <1>1, <2>1, <2>2, <2>3
  <2>5. \A i \in 1 .. g : y[i] = a[i]
    BY <1>1, <2>1, <2>4
  <2>6. \A i \in 1 .. Len(x) : i \in 1 .. g
    BY <1>1, <2>4
  <2>7. \A i \in 1 .. Len(t) : Len(x) + i \in 1 .. g
    BY <1>1, <2>4
  <2> QED BY <2>2, <2>3, <2>4, <2>5, <2>6, <2>7
<1>5. Len(x) < p
  <2>1. CASE x = <<>>
    BY <1>3, <2>1, EmptyText
  <2>2. CASE Len(t) = 3
    BY <1>1, <1>2, <1>3, <1>4, <2>2
  <2> QED BY <2>1, <2>2
<1>6. NoHalf(x)
  <2>1. \A i \in 1 .. Len(x) : i \in 1 .. Len(a) /\ i < p
    BY <1>1, <1>3, <1>5
  <2> QED BY <1>2, <1>4, <2>1 DEF NoHalf
<1>7. ASSUME g = Len(a) PROVE HasSentinel(t)
  <2>1. /\ p - Len(x) \in 1 .. Len(t) /\ p - Len(x) < Len(t) /\ (p - Len(x)) + 1 \in 1 .. Len(t)
        /\ Len(x) + (p - Len(x)) = p /\ Len(x) + ((p - Len(x)) + 1) = p + 1
    BY <1>1, <1>3, <1>4, <1>5, <1>7
  <2>2. At(t, p - Len(x))
    BY <1>3, <1>4, <2>1 DEF At
  <2> QED BY <2>1, <2>2, HasSentinelAt
<1> QED BY <1>6, <1>7

-----------------------------------------------------------------------------
(***************************************************************************)
(* Concatenation.  FlattenSeq is a recursive function: that there is one,  *)
(* and what it does to one more part, is shown by induction over a set of  *)
(* numbers.                                                                *)
(***************************************************************************)
LEMMA Counting ==
  ASSUME NEW T, 0 \in T, \A n \in Nat : n \in T => n + 1 \in T
  PROVE  \A n \in Nat : n \in T
<1> SUFFICES ASSUME Nat \ T # {} PROVE FALSE
  OBVIOUS
<1>1. PICK n \in Nat \ T : \A m \in Nat \ T : ~ (<<m, n>> \in OpToRel(<, Nat))
  BY NatLessThanWellFounded, WFMin
<1>2. n \in Nat /\ n # 0 /\ n - 1 \in Nat /\ (n - 1) + 1 = n
  OBVIOUS
<1>3. n - 1 \notin T
  BY <1>2
<1>4. <<n - 1, n>> \in OpToRel(<, Nat)
  BY <1>2 DEF OpToRel
<1> QED BY <1>1, <1>2, <1>3, <1>4

FlattensTo(f, q, n) == f = [i \in 1 .. n |-> IF i = 1 THEN q[i] ELSE f[i - 1] \o q[i]]

LEMMA FlattenExists ==
  ASSUME NEW q, NEW n \in Nat PROVE \E f : FlattensTo(f, q, n)
<1> DEFINE T == {k \in Nat : \E f : FlattensTo(f, q, k)}
<1>1. 0 \in T
  <2> DEFINE f == [i \in 1 .. 0 |-> q[i]]
  <2>1. 1 .. 0 = {}
    OBVIOUS
  <2>2. FlattensTo(f, q, 0)
    <3>1. \A i \in 1 .. 0 : q[i] = IF i = 1 THEN q[i] ELSE f[i - 1] \o q[i]
      BY <2>1
    <3> QED BY <2>1, <3>1 DEF FlattensTo
  <2> QED BY <2>2
<1>2. ASSUME NEW k \in Nat, k \in T PROVE k + 1 \in T
  <2>1. PICK f : FlattensTo(f, q, k)
    BY <1>2
  <2> DEFINE g == [i \in 1 .. k + 1 |-> IF i = 1 THEN q[i] ELSE f[i - 1] \o q[i]]
  <2>2. \A i \in 1 .. k : g[i] = f[i]
    <3>1. \A i \in 1 .. k : f[i] = IF i = 1 THEN q[i] ELSE f[i - 1] \o q[i]
      BY <2>1 DEF FlattensTo
    <3>2. \A i \in 1 .. k : i \in 1 .. k + 1
      OBVIOUS
    <3> QED BY <3>1, <3>2
  <2>3. \A i \in 1 .. k + 1 : i # 1 => i - 1 \in 1 .. k
    OBVIOUS
  <2>4. FlattensTo(g, q, k + 1)
    BY <2>2, <2>3 DEF FlattensTo
  <2> QED BY <2>4
<1> HIDE DEF T
<1>3. n \in T
  BY <1>1, <1>2, Counting
<1> QED BY <1>3 DEF T

Agree(q, r, n) == \A i \in 1 .. n : q[i] = r[i]

LEMMA FlattenAgrees ==
  ASSUME NEW n \in Nat, NEW m \in Nat, NEW q, NEW r, NEW f, NEW g,
         n <= m, n # 0, Agree(q, r, n), FlattensTo(f, q, n), FlattensTo(g, r, m)
  PROVE  f[n] = g[n]
<1> DEFINE T == {k \in Nat : k \in 1 .. n => f[k] = g[k]}
<1>1. 0 \in T
  OBVIOUS
<1>2. ASSUME NEW k \in Nat, k \in T PROVE k + 1 \in T
  <2> SUFFICES ASSUME k + 1 \in 1 .. n PROVE f[k + 1] = g[k + 1]
    OBVIOUS
  <2>1. f[k + 1] = IF k + 1 = 1 THEN q[k + 1] ELSE f[(k + 1) - 1] \o q[k + 1]
    BY DEF FlattensTo
  <2>3. k + 1 \in 1 .. m
    OBVIOUS
  <2>4. g[k + 1] = IF k + 1 = 1 THEN r[k + 1] ELSE g[(k + 1) - 1] \o r[k + 1]
    BY <2>3 DEF FlattensTo
  <2>2. (k + 1) - 1 = k /\ (k # 0 => k \in 1 .. n)
    OBVIOUS
  <2>5. q[k + 1] = r[k + 1]
    BY DEF Agree
  <2> QED BY <1>2, <2>1, <2>2, <2>4, <2>5
<1> HIDE DEF T
<1>3. n \in T
  BY <1>1, <1>2, Counting
<1> QED BY <1>3 DEF T

LEMMA FlattenEmpty == FlattenSeq(<<>>) = <<>>
  BY DEF FlattenSeq

(* The concatenation of a sequence that is not empty *)
LEMMA FlattenLast ==
  ASSUME NEW q, Len(q) \in Nat, Len(q) # 0
  PROVE  \E f : FlattensTo(f, q, Len(q)) /\ FlattenSeq(q) = f[Len(q)]
<1> DEFINE f == CHOOSE flatten : flatten = [i \in 1 .. Len(q) |-> IF i = 1 THEN q[i] ELSE flatten[i - 1] \o q[i]]
<1>2. \E g : g = [i \in 1 .. Len(q) |-> IF i = 1 THEN q[i] ELSE g[i - 1] \o q[i]]
  BY FlattenExists DEF FlattensTo
<1>3. f = [i \in 1 .. Len(q) |-> IF i = 1 THEN q[i] ELSE f[i - 1] \o q[i]]
  BY <1>2
<1>4. FlattenSeq(q) = f[Len(q)]
  BY DEF FlattenSeq
<1> HIDE DEF f
<1> QED BY <1>3, <1>4 DEF FlattensTo

LEMMA FlattenAppend ==
  ASSUME NEW S, NEW q \in Seq(Seq(S)), NEW x \in Seq(S)
  PROVE  FlattenSeq(q) \in Seq(S) => FlattenSeq(Append(q, x)) = FlattenSeq(q) \o x
<1> DEFINE r == Append(q, x)
<1>1. /\ r \in Seq(Seq(S)) /\ Len(q) \in Nat /\ Len(r) = Len(q) + 1 /\ r[Len(r)] = x
      /\ \A i \in 1 .. Len(q) : q[i] = r[i]
  OBVIOUS
<1> HIDE DEF r
<1>2. PICK g : FlattensTo(g, r, Len(r)) /\ FlattenSeq(r) = g[Len(r)]
  <2>1. Len(r) \in Nat /\ Len(r) # 0
    BY <1>1
  <2> QED BY <2>1, FlattenLast
<1>3. Len(r) \in 1 .. Len(r) /\ Len(r) - 1 = Len(q)
  BY <1>1
<1>4. g[Len(r)] = IF Len(r) = 1 THEN r[Len(r)] ELSE g[Len(r) - 1] \o r[Len(r)]
  BY <1>2, <1>3 DEF FlattensTo
<1>5. CASE Len(q) = 0
  <2>1. q = <<>>
    BY <1>5
  <2>2. FlattenSeq(q) = <<>>
    BY <2>1, FlattenEmpty
  <2>3. <<>> \o x = x
    OBVIOUS
  <2> QED BY <1>1, <1>2, <1>4, <1>5, <2>2, <2>3 DEF r
<1>6. CASE Len(q) # 0
  <2>1. PICK f : FlattensTo(f, q, Len(q)) /\ FlattenSeq(q) = f[Len(q)]
    BY <1>1, <1>6, FlattenLast
  <2>2. f[Len(q)] = g[Len(q)]
    <3>1. Len(q) \in Nat /\ Len(r) \in Nat /\ Len(q) <= Len(r)
      BY <1>1
    <3>2. Agree(q, r, Len(q))
      <4>1. \A i \in 1 .. Len(q) : q[i] = r[i]
        BY ONLY <1>1
      <4> QED BY ONLY <4>1 DEF Agree
    <3> QED BY <1>2, <1>6, <2>1, <3>1, <3>2, FlattenAgrees
  <2> QED BY <1>1, <1>2, <1>3, <1>4, <1>6, <2>1, <2>2 DEF r
<1> QED BY <1>5, <1>6

LEMMA FlattenType ==
  ASSUME NEW S, NEW q \in Seq(Seq(S))
  PROVE  FlattenSeq(q) \in Seq(S)
<1> DEFINE T == {n \in Nat : \A r \in Seq(Seq(S)) : Len(r) = n => FlattenSeq(r) \in Seq(S)}
<1>1. 0 \in T
  <2> SUFFICES ASSUME NEW r \in Seq(Seq(S)), Len(r) = 0 PROVE FlattenSeq(r) \in Seq(S)
    OBVIOUS
  <2>1. r = <<>>
    OBVIOUS
  <2> QED BY <2>1, FlattenEmpty, EmptySeq
<1>2. ASSUME NEW n \in Nat, n \in T PROVE n + 1 \in T
  <2> SUFFICES ASSUME NEW r \in Seq(Seq(S)), Len(r) = n + 1 PROVE FlattenSeq(r) \in Seq(S)
    OBVIOUS
  <2> DEFINE f == SubSeq(r, 1, n)
  <2>1. f \in Seq(Seq(S)) /\ Len(f) = n /\ r[n + 1] \in Seq(S) /\ r = Append(f, r[n + 1])
    OBVIOUS
  <2>2. FlattenSeq(f) \in Seq(S)
    BY <1>2, <2>1
  <2> HIDE DEF f
  <2>3. FlattenSeq(r) = FlattenSeq(f) \o r[n + 1]
    BY <2>1, <2>2, FlattenAppend
  <2> QED BY <2>1, <2>2, <2>3
<1> HIDE DEF T
<1>3. \A n \in Nat : n \in T
  BY <1>1, <1>2, Counting
<1> QED BY <1>3 DEF T

(* Concatenation under a name, so that the provers need not look inside *)
Cat(s, t) == s \o t

LEMMA CatFacts ==
  ASSUME NEW S, NEW a \in Seq(S), NEW b \in Seq(S), NEW c \in Seq(S)
  PROVE  /\ Cat(a, b) \in Seq(S) /\ Cat(a, <<>>) = a /\ Cat(<<>>, a) = a
         /\ Cat(Cat(a, b), c) = Cat(a, Cat(b, c))
<1>1. a \o b \in Seq(S)
  BY ConcatProperties
<1>2. a \o <<>> = a /\ <<>> \o a = a
  BY ConcatEmptySeq
<1>3. (a \o b) \o c = a \o (b \o c)
  BY ConcatAssociative
<1> QED BY <1>1, <1>2, <1>3 DEF Cat

(* One more part; with Append, too, under a name *)
Add(q, x) == Append(q, x)

LEMMA FlattenAdd ==
  ASSUME NEW S, NEW q \in Seq(Seq(S)), NEW x \in Seq(S)
  PROVE  FlattenSeq(Add(q, x)) = Cat(FlattenSeq(q), x) /\ FlattenSeq(q) \in Seq(S) /\ Add(q, x) \in Seq(Seq(S))
<1>1. FlattenSeq(q) \in Seq(S)
  BY FlattenType
<1>2. FlattenSeq(Append(q, x)) = FlattenSeq(q) \o x
  BY <1>1, FlattenAppend
<1>3. Append(q, x) \in Seq(Seq(S))
  OBVIOUS
<1> QED BY <1>1, <1>2, <1>3 DEF Cat, Add

LEMMA CatAdd ==
  ASSUME NEW S, NEW q \in Seq(S), NEW f \in Seq(S), NEW x \in S
  PROVE  Cat(q, Add(f, x)) = Add(Cat(q, f), x)
<1>1. q \o f \in Seq(S) /\ <<x>> \in Seq(S)
  BY ConcatProperties
<1>2. Append(f, x) = f \o <<x>> /\ Append(q \o f, x) = (q \o f) \o <<x>>
  BY <1>1, AppendIsConcat
<1>3. (q \o f) \o <<x>> = q \o (f \o <<x>>)
  BY <1>1, ConcatAssociative
<1> QED BY <1>2, <1>3 DEF Cat, Add

LEMMA FlattenCatAdd ==
  ASSUME NEW S, NEW q \in Seq(Seq(S)), NEW f \in Seq(Seq(S)), NEW x \in Seq(S),
         FlattenSeq(Cat(q, f)) = Cat(FlattenSeq(q), FlattenSeq(f))
  PROVE  FlattenSeq(Cat(q, Add(f, x))) = Cat(FlattenSeq(q), FlattenSeq(Add(f, x)))
<1>1. Cat(q, f) \in Seq(Seq(S)) /\ Cat(q, Add(f, x)) = Add(Cat(q, f), x)
  BY CatFacts, CatAdd
<1>2. FlattenSeq(q) \in Seq(S) /\ FlattenSeq(f) \in Seq(S)
  BY FlattenType
<1>3. FlattenSeq(Add(Cat(q, f), x)) = Cat(FlattenSeq(Cat(q, f)), x) /\ FlattenSeq(Add(f, x)) = Cat(FlattenSeq(f), x)
  BY <1>1, FlattenAdd
<1>4. Cat(Cat(FlattenSeq(q), FlattenSeq(f)), x) = Cat(FlattenSeq(q), Cat(FlattenSeq(f), x))
  BY <1>2, CatFacts
<1> QED BY <1>1, <1>3, <1>4

LEMMA FlattenConcat ==
  ASSUME NEW S, NEW q \in Seq(Seq(S)), NEW r \in Seq(Seq(S))
  PROVE  FlattenSeq(Cat(q, r)) = Cat(FlattenSeq(q), FlattenSeq(r))
<1> DEFINE T == {n \in Nat : \A t \in Seq(Seq(S)) : Len(t) = n => FlattenSeq(Cat(q, t)) = Cat(FlattenSeq(q), FlattenSeq(t))}
<1>1. 0 \in T
  <2> SUFFICES ASSUME NEW t \in Seq(Seq(S)), Len(t) = 0 PROVE FlattenSeq(Cat(q, t)) = Cat(FlattenSeq(q), FlattenSeq(t))
    OBVIOUS
  <2>1. t = <<>>
    OBVIOUS
  <2>2. Cat(q, <<>>) = q /\ FlattenSeq(q) \in Seq(S)
    BY FlattenType, CatFacts
  <2>3. Cat(FlattenSeq(q), <<>>) = FlattenSeq(q)
    BY <2>2, CatFacts
  <2> QED BY <2>1, <2>2, <2>3, FlattenEmpty
<1>2. ASSUME NEW n \in Nat, n \in T PROVE n + 1 \in T
  <2> SUFFICES ASSUME NEW t \in Seq(Seq(S)), Len(t) = n + 1
               PROVE  FlattenSeq(Cat(q, t)) = Cat(FlattenSeq(q), FlattenSeq(t))
    OBVIOUS
  <2> DEFINE f == SubSeq(t, 1, n)
             x == t[n + 1]
  <2>1. f \in Seq(Seq(S)) /\ Len(f) = n /\ x \in Seq(S) /\ t = Append(f, x)
    OBVIOUS
  <2>2. FlattenSeq(Cat(q, f)) = Cat(FlattenSeq(q), FlattenSeq(f))
    BY <1>2, <2>1
  <2>3. t = Add(f, x)
    BY <2>1 DEF Add
  <2> HIDE DEF f, x, T
  <2>4. FlattenSeq(Cat(q, Add(f, x))) = Cat(FlattenSeq(q), FlattenSeq(Add(f, x)))
    BY <2>1, <2>2, FlattenCatAdd
  <2> QED BY <2>3, <2>4
<1> HIDE DEF T
<1>3. \A n \in Nat : n \in T
  BY <1>1, <1>2, Counting
<1>4. Len(r) \in Nat
  OBVIOUS
<1> QED BY <1>3, <1>4 DEF T

LEMMA FlattenOne ==
  ASSUME NEW S, NEW x \in Seq(S)
  PROVE  FlattenSeq(<<x>>) = x /\ FlattenSeq(<<<<>>>>) = <<>>
<1>1. ASSUME NEW y \in Seq(S) PROVE FlattenSeq(<<y>>) = y
  <2>1. <<>> \in Seq(Seq(S)) /\ <<>> \in Seq(S) /\ Append(<<>>, y) = <<y>> /\ <<>> \o y = y
    OBVIOUS
  <2> QED BY <2>1, FlattenEmpty, FlattenAppend
<1> QED BY <1>1, EmptySeq

(* The pieces that are empty add nothing *)
LEMMA FlattenNothing ==
  ASSUME NEW S, NEW q \in Seq(Seq(S)), \A i \in 1 .. Len(q) : q[i] = <<>>
  PROVE  FlattenSeq(q) = <<>>
<1> DEFINE T == {n \in Nat : n <= Len(q) => FlattenSeq(SubSeq(q, 1, n)) = <<>>}
<1>1. 0 \in T
  <2>1. SubSeq(q, 1, 0) = <<>>
    OBVIOUS
  <2> QED BY <2>1, FlattenEmpty
<1>2. ASSUME NEW n \in Nat, n \in T PROVE n + 1 \in T
  <2> SUFFICES ASSUME n + 1 <= Len(q) PROVE FlattenSeq(SubSeq(q, 1, n + 1)) = <<>>
    OBVIOUS
  <2>1. n <= Len(q) /\ n + 1 \in 1 .. Len(q)
    OBVIOUS
  <2>2. FlattenSeq(SubSeq(q, 1, n)) = <<>> /\ q[n + 1] = <<>>
    BY <1>2, <2>1
  <2>3. SubSeq(q, 1, n + 1) = Append(SubSeq(q, 1, n), q[n + 1]) /\ SubSeq(q, 1, n) \in Seq(Seq(S))
    BY <2>1
  <2>4. <<>> \in Seq(S) /\ <<>> \o <<>> = <<>>
    BY EmptySeq, ConcatEmptySeq
  <2>5. ASSUME NEW f \in Seq(Seq(S)), FlattenSeq(f) = <<>> PROVE FlattenSeq(Append(f, <<>>)) = <<>>
    BY <2>4, <2>5, FlattenAppend
  <2> QED BY <2>2, <2>3, <2>5
<1> HIDE DEF T
<1>3. \A n \in Nat : n \in T
  BY <1>1, <1>2, Counting
<1>4. Len(q) \in Nat /\ SubSeq(q, 1, Len(q)) = q
  BY SubSeqFull
<1>5. ASSUME NEW n \in Nat, n = Len(q) PROVE FlattenSeq(SubSeq(q, 1, n)) = <<>>
  BY <1>3, <1>5 DEF T
<1> QED BY <1>4, <1>5

-----------------------------------------------------------------------------
(* The words of a text *)

Letters(s) == [i \in DOMAIN s |-> IF s[i] = "blank" THEN <<>> ELSE <<s[i]>>]

LEMMA LettersType ==
  ASSUME NEW s \in Text
  PROVE  /\ Letters(s) \in Seq(Seq(Unit)) /\ Len(Letters(s)) = Len(s)
         /\ Words(s) = FlattenSeq(Letters(s)) /\ Words(s) \in Text
<1>1. Len(s) \in Nat /\ DOMAIN s = 1 .. Len(s) /\ \A i \in 1 .. Len(s) : s[i] \in Unit
  BY Texts
<1>2. \A i \in 1 .. Len(s) : (IF s[i] = "blank" THEN <<>> ELSE <<s[i]>>) \in Seq(Unit)
  BY <1>1
<1>3. Letters(s) \in [1 .. Len(s) -> Seq(Unit)]
  BY <1>1, <1>2 DEF Letters
<1>4. Letters(s) \in Seq(Seq(Unit)) /\ Len(Letters(s)) = Len(s)
  BY <1>1, <1>3
<1>5. Words(s) = FlattenSeq(Letters(s))
  BY DEF Words, Letters, Blank
<1> QED BY <1>4, <1>5, FlattenType DEF Text

LEMMA WordsJoined ==
  ASSUME NEW s \in Text, NEW t \in Text
  PROVE  Words(s \o t) = Cat(Words(s), Words(t))
<1>1. /\ s \o t \in Text /\ Len(s) \in Nat /\ Len(t) \in Nat /\ Len(s \o t) = Len(s) + Len(t)
      /\ DOMAIN s = 1 .. Len(s) /\ DOMAIN t = 1 .. Len(t) /\ DOMAIN (s \o t) = 1 .. Len(s) + Len(t)
      /\ \A i \in 1 .. Len(s) : (s \o t)[i] = s[i]
      /\ \A i \in 1 .. Len(t) : (s \o t)[Len(s) + i] = t[i]
  BY Joined, Texts
<1> DEFINE a == Letters(s)
           b == Letters(t)
           c == Letters(s \o t)
<1>2. /\ a \in Seq(Seq(Unit)) /\ b \in Seq(Seq(Unit)) /\ c \in Seq(Seq(Unit))
      /\ Len(a) = Len(s) /\ Len(b) = Len(t) /\ Len(c) = Len(s) + Len(t)
  BY <1>1, LettersType
<1>3. ASSUME NEW i \in 1 .. Len(s) PROVE c[i] = a[i]
  <2>1. i \in 1 .. Len(s) + Len(t)
    BY <1>1
  <2> QED BY <1>1, <2>1 DEF Letters
<1>4. ASSUME NEW i \in 1 .. Len(t) PROVE c[Len(s) + i] = b[i]
  <2>1. Len(s) + i \in 1 .. Len(s) + Len(t)
    BY <1>1
  <2> QED BY <1>1, <2>1 DEF Letters
<1>5. /\ Words(s) = FlattenSeq(a) /\ Words(t) = FlattenSeq(b) /\ Words(s \o t) = FlattenSeq(c)
  BY <1>1, LettersType
<1> HIDE DEF a, b, c
<1>6. a \o b \in Seq(Seq(Unit)) /\ Len(a \o b) = Len(c)
  <2>1. a \o b \in Seq(Seq(Unit)) /\ Len(a \o b) = Len(a) + Len(b)
    BY <1>2, ConcatProperties
  <2> QED BY <1>2, <2>1
<1>7. ASSUME NEW i \in 1 .. Len(c) PROVE c[i] = (a \o b)[i]
  <2>1. (a \o b)[i] = IF i <= Len(a) THEN a[i] ELSE b[i - Len(a)]
    BY <1>2, ConcatProperties
  <2>2. CASE i <= Len(a)
    BY <1>1, <1>2, <1>3, <2>1, <2>2
  <2>3. CASE ~ (i <= Len(a))
    <3>1. i - Len(s) \in 1 .. Len(t) /\ Len(s) + (i - Len(s)) = i
      BY <1>1, <1>2, <2>3
    <3> QED BY <1>2, <1>4, <2>1, <2>3, <3>1
  <2> QED BY <2>2, <2>3
<1>8. c = Cat(a, b)
  BY <1>2, <1>6, <1>7, SeqEqual DEF Cat
<1> QED BY <1>2, <1>5, <1>8, FlattenConcat

LEMMA NoWords ==
  ASSUME NEW s \in Text, \A i \in 1 .. Len(s) : s[i] = "blank"
  PROVE  Words(s) = <<>>
<1>1. \A i \in 1 .. Len(Letters(s)) : Letters(s)[i] = <<>>
  BY LettersType, Texts DEF Letters
<1> QED BY <1>1, LettersType, FlattenNothing

LEMMA WordsEmpty == Words(<<>>) = <<>>
<1>1. <<>> \in Text /\ \A i \in 1 .. Len(<<>>) : <<>>[i] = "blank"
  BY EmptyText
<1> QED BY <1>1, NoWords

(* Stripping takes no word *)
LEMMA LeastExists ==
  ASSUME NEW S, S \subseteq Nat, S # {}
  PROVE  Min(S) \in S /\ \A j \in S : Min(S) <= j
<1>1. PICK x \in S : \A y \in S : ~ (<<y, x>> \in OpToRel(<, Nat))
  BY NatLessThanWellFounded, WFMin
<1>2. ASSUME NEW y \in S PROVE x <= y
  <2>1. x \in Nat /\ y \in Nat
    OBVIOUS
  <2>2. ~ (y < x)
    BY <1>1, <2>1 DEF OpToRel
  <2> QED BY <2>1, <2>2
<1> QED BY <1>2 DEF Min

LEMMA WordsStripped ==
  ASSUME NEW s \in Text
  PROVE  Strip(s) \in Text /\ Words(Strip(s)) = Words(s) /\ (Strip(s) = <<>> => Words(s) = <<>>)
<1>1. Len(s) \in Nat /\ DOMAIN s = 1 .. Len(s) /\ SubSeq(s, 1, Len(s)) = s
  BY Texts
<1>2. CASE Solid(s) = {}
  <2>1. Strip(s) = <<>>
    BY <1>2 DEF Strip
  <2>2. \A i \in 1 .. Len(s) : s[i] = "blank"
    BY <1>1, <1>2 DEF Solid, Blank
  <2> QED BY <2>1, <2>2, NoWords, WordsEmpty, EmptyText
<1>3. CASE Solid(s) # {}
  <2> DEFINE m == Min(Solid(s))
             n == Max(Solid(s))
  <2>1. Solid(s) \subseteq 1 .. Len(s)
    BY <1>1 DEF Solid
  <2>2. m \in Solid(s) /\ \A j \in Solid(s) : m <= j
    BY <1>3, <2>1, LeastExists
  <2>3. n \in Solid(s) /\ \A j \in Solid(s) : n >= j
    <3>1. Solid(s) \subseteq 0 .. Len(s)
      BY <2>1
    <3> QED BY <1>1, <1>3, <3>1, GreatestExists
  <2>4. Strip(s) = SubSeq(s, m, n)
    BY <1>3 DEF Strip
  <2> HIDE DEF m, n
  <2>5. m \in 1 .. Len(s) /\ n \in 1 .. Len(s) /\ m <= n /\ m - 1 \in 0 .. Len(s) /\ (m - 1) + 1 = m
    BY <1>1, <2>1, <2>2, <2>3
  <2> DEFINE a == SubSeq(s, 1, m - 1)
             b == SubSeq(s, m, n)
             c == SubSeq(s, n + 1, Len(s))
  <2>6. a \in Text /\ b \in Text /\ c \in Text /\ SubSeq(s, 1, n) \in Text
    BY <1>1, <2>5, Part
  <2>7. a \o b = SubSeq(s, 1, n) /\ SubSeq(s, 1, n) \o c = s
    <3>1. m - 1 \in Nat /\ n \in Nat /\ m - 1 <= n /\ n <= Len(s)
      BY <1>1, <2>5
    <3>2. a \o b = SubSeq(s, 1, n)
      BY <2>5, <3>1, Cut
    <3>3. SubSeq(s, 1, n) \o c = SubSeq(s, 1, Len(s))
      <4>1. PICK l \in Nat : l = Len(s)
        BY <1>1
      <4>2. n \in Nat /\ n <= l /\ l <= Len(s)
        BY <3>1, <4>1
      <4>3. SubSeq(s, 1, n) \o SubSeq(s, n + 1, l) = SubSeq(s, 1, l)
        BY <4>2, Cut
      <4> QED BY <4>1, <4>3
    <3> QED BY <1>1, <3>2, <3>3
  <2>8. Words(a) = <<>>
    <3>1. ASSUME NEW i \in 1 .. Len(a) PROVE a[i] = "blank"
      <4>1. Len(a) = m - 1 /\ a[i] = s[i] /\ i \in 1 .. Len(s) /\ i < m
        BY <1>1, <2>5, Part
      <4>2. i \notin Solid(s)
        BY <2>1, <2>2, <2>5, <4>1
      <4> QED BY <1>1, <4>1, <4>2 DEF Solid, Blank
    <3> QED BY <2>6, <3>1, NoWords
  <2>9. Words(c) = <<>>
    <3>1. ASSUME NEW i \in 1 .. Len(c) PROVE c[i] = "blank"
      <4>1. c[i] = s[n + i] /\ n + i \in 1 .. Len(s) /\ n + i > n
        BY <1>1, <2>5, Part
      <4>2. n + i \notin Solid(s)
        BY <2>1, <2>3, <2>5, <4>1
      <4> QED BY <1>1, <4>1, <4>2 DEF Solid, Blank
    <3> QED BY <2>6, <3>1, NoWords
  <2>10. Len(b) # 0
    BY <1>1, <2>5, Part
  <2> HIDE DEF a, b, c
  <2>11. Words(s) = Cat(Cat(Words(a), Words(b)), Words(c))
    <3>1. Words(SubSeq(s, 1, n)) = Cat(Words(a), Words(b))
      BY <2>6, <2>7, WordsJoined
    <3>2. Words(SubSeq(s, 1, n) \o c) = Cat(Words(SubSeq(s, 1, n)), Words(c))
      BY <2>6, WordsJoined
    <3> QED BY <2>7, <3>1, <3>2
  <2>12. Words(b) \in Text
    BY <2>6, LettersType
  <2>13. Words(s) = Words(b)
    BY <2>8, <2>9, <2>11, <2>12, CatFacts DEF Text
  <2>14. b # <<>>
    BY <2>10, EmptyText
  <2> QED BY <2>4, <2>6, <2>13, <2>14 DEF b
<1> QED BY <1>2, <1>3

-----------------------------------------------------------------------------
(* The sentences cut out of a text *)

LEMMA LastEnds ==
  ASSUME NEW s \in Text, NEW k \in 0 .. Len(s)
  PROVE  /\ LastEnd(s, k) \in 0 .. k /\ (k \in Ends(s) => LastEnd(s, k) = k)
         /\ k # 0 /\ k \notin Ends(s) => LastEnd(s, k) = LastEnd(s, k - 1)
<1> DEFINE C(n) == {i \in Ends(s) : i <= n} \cup {0}
<1>1. Len(s) \in Nat /\ Ends(s) \subseteq 1 .. Len(s) /\ k \in Nat
  BY Texts DEF Ends
<1>2. ASSUME NEW n \in Nat PROVE LastEnd(s, n) \in C(n) /\ \A j \in C(n) : LastEnd(s, n) >= j
  <2>1. C(n) \subseteq 0 .. Len(s) /\ C(n) # {}
    BY <1>1
  <2>2. LastEnd(s, n) = Max(C(n))
    BY DEF LastEnd
  <2> HIDE DEF C
  <2> QED BY <1>1, <2>1, <2>2, GreatestExists
<1>3. LastEnd(s, k) \in 0 .. k
  BY <1>1, <1>2
<1>4. ASSUME k \in Ends(s) PROVE LastEnd(s, k) = k
  BY <1>1, <1>2, <1>3, <1>4
<1>5. ASSUME k # 0, k \notin Ends(s) PROVE LastEnd(s, k) = LastEnd(s, k - 1)
  <2>1. k - 1 \in Nat
    BY <1>1, <1>5
  <2>2. C(k) = C(k - 1)
    BY <1>1, <1>5
  <2> QED BY <2>2 DEF LastEnd
<1> QED BY <1>3, <1>4, <1>5

LEMMA PieceType ==
  ASSUME NEW s \in Text, NEW i \in 1 .. Len(s)
  PROVE  /\ Piece(s, i) \in Text
         /\ Cat(Words(SubSeq(s, 1, LastEnd(s, i - 1))), Words(Piece(s, i))) = Words(SubSeq(s, 1, i))
<1>1. Len(s) \in Nat /\ i \in Nat /\ i <= Len(s)
  BY Texts
<1> DEFINE k == LastEnd(s, i - 1)
<1>2. k \in 0 .. i - 1
  <2>1. i - 1 \in 0 .. Len(s)
    BY <1>1
  <2> QED BY <2>1, LastEnds
<1> HIDE DEF k
<1>3. k \in Nat /\ k <= i /\ k <= Len(s) /\ k + 1 \in Nat /\ 1 <= k + 1
  BY <1>1, <1>2
<1>4. SubSeq(s, 1, k) \in Text /\ SubSeq(s, k + 1, i) \in Text
  BY <1>1, <1>3, Part
<1>5. SubSeq(s, 1, k) \o SubSeq(s, k + 1, i) = SubSeq(s, 1, i)
  BY <1>1, <1>3, Cut
<1>6. Piece(s, i) = Strip(SubSeq(s, k + 1, i))
  BY DEF Piece, k
<1>7. Words(SubSeq(s, 1, i)) = Cat(Words(SubSeq(s, 1, k)), Words(SubSeq(s, k + 1, i)))
  BY <1>4, <1>5, WordsJoined
<1> QED BY <1>4, <1>6, <1>7, WordsStripped DEF k

(* The sentence that ends at a place, if one does *)
Cuts(s) == [i \in DOMAIN s |-> IF i \in Ends(s) /\ Piece(s, i) # <<>> THEN <<Piece(s, i)>> ELSE <<>>]

LEMMA CutsType ==
  ASSUME NEW s \in Text
  PROVE  /\ Cuts(s) \in Seq(Seq(Text)) /\ Len(Cuts(s)) = Len(s)
         /\ Complete(s) = FlattenSeq(Cuts(s)) /\ Complete(s) \in Seq(Text)
<1>1. Len(s) \in Nat /\ DOMAIN s = 1 .. Len(s)
  BY Texts
<1>2. ASSUME NEW i \in 1 .. Len(s)
      PROVE  (IF i \in Ends(s) /\ Piece(s, i) # <<>> THEN <<Piece(s, i)>> ELSE <<>>) \in Seq(Text)
  <2>1. Piece(s, i) \in Text
    BY PieceType
  <2>2. <<Piece(s, i)>> \in Seq(Text) /\ <<>> \in Seq(Text)
    BY <2>1
  <2> QED BY <2>2
<1>3. Cuts(s) \in [1 .. Len(s) -> Seq(Text)]
  BY <1>1, <1>2 DEF Cuts
<1>4. Cuts(s) \in Seq(Seq(Text)) /\ Len(Cuts(s)) = Len(s)
  BY <1>1, <1>3
<1>5. Complete(s) = FlattenSeq(Cuts(s))
  BY DEF Complete, Sentences, Cuts
<1> QED BY <1>4, <1>5, FlattenType

(* What a sequence of texts says *)
Said(q) == Words(FlattenSeq(q))

LEMMA SaidFacts ==
  /\ Said(<<>>) = <<>>
  /\ \A q \in Seq(Text) : FlattenSeq(q) \in Text /\ Said(q) \in Text
  /\ \A t \in Text : <<t>> \in Seq(Text) /\ Said(<<t>>) = Words(t)
  /\ \A q, r \in Seq(Text) : Cat(q, r) \in Seq(Text) /\ Said(Cat(q, r)) = Cat(Said(q), Said(r))
<1>1. Said(<<>>) = <<>>
  BY FlattenEmpty, WordsEmpty DEF Said
<1>2. ASSUME NEW q \in Seq(Text) PROVE FlattenSeq(q) \in Text /\ Said(q) \in Text
  BY FlattenType, LettersType DEF Said, Text
<1>3. ASSUME NEW t \in Text PROVE <<t>> \in Seq(Text) /\ Said(<<t>>) = Words(t)
  BY FlattenOne DEF Said, Text
<1>4. ASSUME NEW q \in Seq(Text), NEW r \in Seq(Text)
      PROVE  Cat(q, r) \in Seq(Text) /\ Said(Cat(q, r)) = Cat(Said(q), Said(r))
  <2>1. Cat(q, r) \in Seq(Text)
    BY CatFacts
  <2>2. FlattenSeq(Cat(q, r)) = Cat(FlattenSeq(q), FlattenSeq(r))
    BY FlattenConcat DEF Text
  <2>3. Words(FlattenSeq(q) \o FlattenSeq(r)) = Cat(Words(FlattenSeq(q)), Words(FlattenSeq(r)))
    BY <1>2, WordsJoined
  <2> QED BY <2>1, <2>2, <2>3 DEF Said, Cat
<1> QED BY <1>1, <1>2, <1>3, <1>4

(* One more place: a sentence ends there, or does not *)
LEMMA CutSaid ==
  ASSUME NEW s \in Text, NEW k \in Nat, k + 1 <= Len(s), NEW q \in Seq(Seq(Text)),
         Said(FlattenSeq(q)) = Words(SubSeq(s, 1, LastEnd(s, k)))
  PROVE  Said(FlattenSeq(Add(q, Cuts(s)[k + 1]))) = Words(SubSeq(s, 1, LastEnd(s, k + 1)))
<1> DEFINE x == Cuts(s)[k + 1]
           p == Piece(s, k + 1)
<1>1. Len(s) \in Nat /\ DOMAIN s = 1 .. Len(s) /\ k + 1 \in 1 .. Len(s) /\ k + 1 \in 0 .. Len(s) /\ (k + 1) - 1 = k
  BY Texts
<1>2. x = IF k + 1 \in Ends(s) /\ p # <<>> THEN <<p>> ELSE <<>>
  BY <1>1 DEF Cuts
<1>3. p \in Text /\ Cat(Words(SubSeq(s, 1, LastEnd(s, k))), Words(p)) = Words(SubSeq(s, 1, k + 1))
  BY <1>1, PieceType
<1>4. /\ k + 1 \in Ends(s) => LastEnd(s, k + 1) = k + 1
      /\ k + 1 \notin Ends(s) => LastEnd(s, k + 1) = LastEnd(s, k)
  BY <1>1, LastEnds
<1> HIDE DEF x, p
<1>5. FlattenSeq(q) \in Seq(Text) /\ x \in Seq(Text)
  BY <1>2, <1>3, FlattenType
<1>6. FlattenSeq(Add(q, x)) = Cat(FlattenSeq(q), x)
  BY <1>5, FlattenAdd
<1>7. Said(FlattenSeq(Add(q, x))) = Cat(Said(FlattenSeq(q)), Said(x))
  BY <1>5, <1>6, SaidFacts
<1>8. Said(x) = IF k + 1 \in Ends(s) THEN Words(p) ELSE <<>>
  <2>1. p = <<>> => Words(p) = <<>>
    BY WordsEmpty
  <2> QED BY <1>2, <1>3, <2>1, SaidFacts
<1>9. CASE k + 1 \in Ends(s)
  BY <1>3, <1>4, <1>7, <1>8, <1>9 DEF x
<1>10. CASE k + 1 \notin Ends(s)
  <2>1. Cat(Said(FlattenSeq(q)), <<>>) = Said(FlattenSeq(q))
    BY <1>5, SaidFacts, CatFacts DEF Text
  <2> QED BY <1>4, <1>7, <1>8, <1>10, <2>1 DEF x
<1> QED BY <1>9, <1>10

(* The sentences say the text up to where the last of them ends, and the rest is kept *)
LEMMA SentencesSay ==
  ASSUME NEW s \in Text
  PROVE  /\ Complete(s) \in Seq(Text) /\ Remainder(s) \in Text
         /\ Cat(Said(Complete(s)), Words(Remainder(s))) = Words(s)
<1> DEFINE q(n) == SubSeq(Cuts(s), 1, n)
           T == {n \in Nat : n <= Len(s) => Said(FlattenSeq(q(n))) = Words(SubSeq(s, 1, LastEnd(s, n)))}
<1>1. Len(s) \in Nat /\ SubSeq(s, 1, Len(s)) = s /\ 0 \in 0 .. Len(s)
  BY Texts
<1>2. 0 \in T
  <2>1. LastEnd(s, 0) = 0
    BY <1>1, LastEnds
  <2>2. q(0) = <<>> /\ SubSeq(s, 1, 0) = <<>>
    BY SubSeqEmpty
  <2> QED BY <2>1, <2>2, FlattenEmpty, SaidFacts, WordsEmpty
<1>3. ASSUME NEW n \in Nat, n \in T PROVE n + 1 \in T
  <2> SUFFICES ASSUME n + 1 <= Len(s) PROVE Said(FlattenSeq(q(n + 1))) = Words(SubSeq(s, 1, LastEnd(s, n + 1)))
    OBVIOUS
  <2>1. n <= Len(s) /\ Said(FlattenSeq(q(n))) = Words(SubSeq(s, 1, LastEnd(s, n)))
    BY <1>1, <1>3
  <2>2. Cuts(s) \in Seq(Seq(Text)) /\ Len(Cuts(s)) = Len(s)
    BY CutsType
  <2>3. q(n) \in Seq(Seq(Text)) /\ q(n + 1) = Append(q(n), Cuts(s)[n + 1])
    BY <1>1, <2>2
  <2> HIDE DEF q
  <2> QED BY <2>1, <2>3, CutSaid DEF Add
<1> HIDE DEF T
<1>4. \A n \in Nat : n \in T
  BY <1>2, <1>3, Counting
<1>5. Said(Complete(s)) = Words(SubSeq(s, 1, SplitPoint(s)))
  <2>1. PICK n \in Nat : n = Len(s)
    BY <1>1
  <2>2. Said(FlattenSeq(q(n))) = Words(SubSeq(s, 1, LastEnd(s, n)))
    BY <1>4, <2>1 DEF T
  <2>3. q(n) = Cuts(s)
    <3>1. Cuts(s) \in Seq(Seq(Text)) /\ Len(Cuts(s)) = n
      BY <2>1, CutsType
    <3> QED BY <3>1, SubSeqFull
  <2> QED BY <2>1, <2>2, <2>3, CutsType DEF SplitPoint
<1>6. SplitPoint(s) \in 0 .. Len(s)
  <2>1. Len(s) \in 0 .. Len(s)
    BY <1>1
  <2> QED BY <2>1, LastEnds DEF SplitPoint
<1> DEFINE k == SplitPoint(s)
           a == SubSeq(s, 1, k)
           b == SubSeq(s, k + 1, Len(s))
<1> HIDE DEF k
<1>7. k \in Nat /\ k <= Len(s) /\ k + 1 \in Nat /\ 1 <= k + 1
  BY <1>1, <1>6 DEF k
<1>8. a \in Text /\ b \in Text
  BY <1>1, <1>7, Part
<1>9. a \o b = s
  <2>1. PICK n \in Nat : n = Len(s)
    BY <1>1
  <2>2. SubSeq(s, 1, k) \o SubSeq(s, k + 1, n) = SubSeq(s, 1, n)
    <3>1. k <= n /\ n <= Len(s)
      BY <1>7, <2>1
    <3> QED BY <1>7, <3>1, Cut
  <2> QED BY <1>1, <2>1, <2>2
<1>10. Remainder(s) = b
  BY DEF Remainder, k
<1> HIDE DEF a, b
<1>11. Words(s) = Cat(Words(a), Words(b))
  BY <1>8, <1>9, WordsJoined
<1>12. Said(Complete(s)) = Words(a)
  BY <1>5 DEF a, k
<1> QED BY <1>8, <1>10, <1>11, <1>12, CutsType

-----------------------------------------------------------------------------
(***************************************************************************)
(* The inductive invariant of the text.  While the model speaks, what was  *)
(* sent, is about to be sent and is withheld make up what was received; at *)
(* the end, what was sent and is about to be is the answer, but for its    *)
(* sentinel and for blanks at its end.                                     *)
(***************************************************************************)
Near == AtEnd(answer)

TextTypes == Shaped(answer) /\ sent \in Text /\ pending \in Text /\ tail \in Text /\ got \in 0 .. Len(answer)

Streaming ==
  /\ ~captured
  /\ (sent \o pending) \o tail = SubSeq(answer, 1, got)
  /\ eligible => sent = <<>> /\ pending = <<>>
  /\ ~eligible => Len(tail) = 3 \/ (sent = <<>> /\ pending = <<>>)

Arrived ==
  IF captured THEN ~eligible /\ RStrip(sent \o pending) = RStrip(WithoutSentinel(answer))
              ELSE sent \o pending = answer

Stages ==
  /\ pc \in {"cache", "request"} =>
       ~ended /\ ~captured /\ got = 0 /\ answer = <<>> /\ sent = <<>> /\ tail = <<>> /\ pending = <<>>
  /\ pc \in {"stream", "speak", "flush", "farewell", "check", "done"} => pending = <<>>
  /\ pc = "stream" => ~ended
  /\ pc \in {"flush", "check"} => ended
  /\ pc \in {"stream", "emit", "speak"} /\ ~ended => Streaming
  /\ pc \in {"emit", "speak", "flush", "check"} /\ ended => Arrived
  /\ pc = "farewell" => sent = <<>>

Hidden == eligible \/ Near => NoHalf(sent) /\ NoHalf(pending)

Unasked == pc \notin {"correct", "done"} => checked = NotChecked /\ NoQuestion(sent) /\ NoQuestion(pending)

Asked ==
  /\ checked = NotChecked \/ checked.question \in Question
  /\ /\ pc \in {"correct", "done"} /\ checked.guard = "strict" /\ ~captured
     /\ Len(checked.text) - Len(RStrip(checked.text)) <= 2
     => (HasOpenQuestion(checked.text) /\ ~checked.blunt) \/ EndsWith(sent \o pending, checked.question)
  /\ Contains(checked.question, Open) =>
       \E k \in Int : \A i \in 1 .. Len(sent \o pending) : (sent \o pending)[i] = "q" => i = k

TextInv == TextTypes /\ Stages /\ Hidden /\ Unasked /\ Asked

LEMMA NothingAsked ==
  ~Contains(NotChecked.question, Open) /\ NotChecked.guard # "strict"
<1>1. NotChecked.question = <<>> /\ NotChecked.guard = "none"
  BY DEF NotChecked
<1>2. Len(<<>>) = 0
  BY EmptyText
<1> QED BY <1>1, <1>2 DEF Contains

LEMMA TextInit == Init => TextInv
<1> SUFFICES ASSUME Init PROVE TextInv
  OBVIOUS
<1>1. /\ pc = "cache" /\ answer = <<>> /\ got = 0 /\ ended = FALSE /\ captured = FALSE
      /\ tail = <<>> /\ pending = <<>> /\ sent = <<>> /\ checked = NotChecked
  BY DEF Init
<1>2. TextTypes
  BY <1>1, EmptyText DEF TextTypes
<1>3. Stages
  BY <1>1 DEF Stages
<1>4. Hidden /\ Unasked
  BY <1>1, EmptyText DEF Hidden, Unasked
<1>5. Asked
  BY <1>1, NothingAsked DEF Asked
<1> QED BY <1>2, <1>3, <1>4, <1>5 DEF TextInv

(* A step that leaves the text alone *)
LEMMA SameTexts ==
  ASSUME TextInv, UNCHANGED <<textVars, eligible, checked>>,
         \/ pc' = pc
         \/ pc' \in {"failed", "halted"} /\ pc \notin {"correct", "done"}
         \/ pc = "cache" /\ pc' = "request"
         \/ pc = "speak" /\ pc' = "flush" /\ ended
         \/ pc = "speak" /\ pc' = "stream" /\ ~ended
         \/ pc = "flush" /\ pc' = "check"
         \/ pc = "speak" /\ pc' = "speak"
  PROVE  TextInv'
<1> USE DEF TextInv, textVars
<1>1. TextTypes' /\ Hidden'
  BY DEF TextTypes, Hidden, Near
<1>2. Stages'
  BY DEF Stages, Streaming, Arrived
<1>3. pc \in {"correct", "done"} <=> pc' \in {"correct", "done"}
  OBVIOUS
<1>4. Unasked' /\ Asked'
  BY <1>3 DEF Unasked, Asked
<1> QED BY <1>1, <1>2, <1>4

LEMMA TextOpenStream ==
  ASSUME TextInv, OpenStream PROVE TextInv'
<1> USE DEF TextInv
<1>1. /\ answer' \in Answer /\ got' = 0 /\ pc' = "stream" /\ pc = "request"
      /\ sent = <<>> /\ tail = <<>> /\ pending = <<>> /\ ~ended /\ ~captured /\ checked = NotChecked
      /\ UNCHANGED <<eligible, ended, tail, captured, pending, sent, checked>>
  BY DEF OpenStream, Stages, Unasked
<1>2. TextTypes'
  <2>1. Shaped(answer')
    BY <1>1, AnswerShape
  <2>2. Len(answer') \in Nat
    BY <2>1, Texts DEF Shaped
  <2> QED BY <1>1, <2>1, <2>2, EmptyText DEF TextTypes
<1>3. Streaming'
  <2>1. <<>> \o <<>> = <<>>
    BY EmptyText, Texts
  <2>2. SubSeq(answer', 1, 0) = <<>>
    BY SubSeqEmpty
  <2>3. ((sent \o pending) \o tail)' = SubSeq(answer', 1, got')
    BY <1>1, <2>1, <2>2
  <2> QED BY <1>1, <2>3 DEF Streaming
<1>4. Stages'
  BY <1>1, <1>3 DEF Stages
<1>5. Hidden' /\ Unasked'
  BY <1>1, EmptyText DEF Hidden, Unasked
<1>6. Asked'
  BY <1>1, NothingAsked DEF Asked
<1> QED BY <1>2, <1>4, <1>5, <1>6

LEMMA TextReceive ==
  ASSUME TextInv, NEW n \in 1 .. MaxChunk, Receive(n), ~eligible => Len(tail) <= 3
  PROVE  TextInv' /\ (~eligible => Len(tail') <= 3)
<1> USE DEF TextInv
<1> DEFINE chunk == SubSeq(answer, got + 1, got + n)
           held == tail \o chunk
           out == IF eligible \/ Len(held) <= TAIL_SIZE THEN 0 ELSE Len(held) - TAIL_SIZE
<1>1. /\ pc = "stream" /\ ~ended /\ got + n <= Len(answer) /\ got' = got + n
      /\ tail' = SubSeq(held, out + 1, Len(held)) /\ pending' = SubSeq(held, 1, out)
      /\ pc' = (IF out = 0 THEN "stream" ELSE "emit")
      /\ UNCHANGED <<eligible, answer, ended, captured, sent, checked>>
  BY DEF Receive, callVars
<1>2. /\ answer \in Text /\ Shaped(answer) /\ Len(answer) \in Nat /\ got \in Nat /\ n \in Nat /\ got + 1 \in Nat
      /\ got + n \in Nat /\ got <= got + n /\ sent \in Text /\ tail \in Text /\ pending = <<>> /\ Streaming
      /\ NoQuestion(sent) /\ checked = NotChecked /\ 1 <= got + 1
  BY <1>1, Texts, BoundsAssumption DEF TextTypes, Stages, Unasked, Shaped
<1>3. chunk \in Text
  BY <1>1, <1>2, Part
<1> HIDE DEF chunk
<1>4. held \in Text /\ Len(held) \in Nat
  BY <1>2, <1>3, Joined, Texts
<1>5. (sent \o tail) \o chunk = SubSeq(answer, 1, got + n)
  <2>1. sent \o tail = SubSeq(answer, 1, got)
    BY <1>2, Texts DEF Streaming
  <2>2. SubSeq(answer, 1, got) \o SubSeq(answer, got + 1, got + n) = SubSeq(answer, 1, got + n)
    BY <1>1, <1>2, Cut
  <2> QED BY <2>1, <2>2 DEF chunk
<1>6. sent \o held = SubSeq(answer, 1, got + n)
  BY <1>2, <1>3, <1>5, Regrouped
<1> HIDE DEF held
<1>7. out \in Nat /\ out <= Len(held) /\ (eligible => out = 0)
      /\ (~eligible /\ out # 0 => Len(held) - out = 3) /\ (~eligible /\ out = 0 => Len(held) <= 3)
  <2>1. CASE eligible \/ Len(held) <= 3
    <3>1. out = 0
      BY <2>1, Sizes
    <3> HIDE DEF out
    <3> QED BY <1>4, <2>1, <3>1
  <2>2. CASE ~(eligible \/ Len(held) <= 3)
    <3>1. out = Len(held) - 3
      BY <2>2, Sizes
    <3> HIDE DEF out
    <3>2. ~eligible /\ Len(held) > 3
      BY <1>4, <2>2
    <3>3. out \in Nat /\ out <= Len(held) /\ out # 0 /\ Len(held) - out = 3
      <4>1. \A h \in Nat : h > 3 => h - 3 \in Nat /\ h - 3 <= h /\ h - 3 # 0 /\ h - (h - 3) = 3
        OBVIOUS
      <4> QED BY <1>4, <3>1, <3>2, <4>1
    <3> QED BY <3>2, <3>3
  <2> QED BY <2>1, <2>2
<1> HIDE DEF out
<1>8. pending' \in Text /\ tail' \in Text /\ Len(tail') = Len(held) - out /\ (out = 0 => pending' = <<>>)
  <2>1. out + 1 \in Nat /\ 1 <= out + 1 /\ Len(held) <= Len(held) /\ 1 \in Nat /\ 1 <= 1
    BY <1>4, <1>7
  <2>2. pending' \in Text /\ Len(pending') = (IF 1 <= out THEN out - 1 + 1 ELSE 0)
    BY <1>1, <1>4, <1>7, <2>1, Part
  <2>3. tail' \in Text /\ Len(tail') = (IF out + 1 <= Len(held) THEN Len(held) - (out + 1) + 1 ELSE 0)
    BY <1>1, <1>4, <2>1, Part
  <2>4. Len(tail') = Len(held) - out
    BY <1>4, <1>7, <2>3
  <2>5. out = 0 => pending' = <<>>
    BY <1>1, SubSeqEmpty
  <2> QED BY <2>2, <2>3, <2>4, <2>5
<1>9. pending' \o tail' = held
  <2>0. Len(held) <= Len(held)
    BY <1>4
  <2>1. SubSeq(held, 1, out) \o SubSeq(held, out + 1, Len(held)) = SubSeq(held, 1, Len(held))
    BY <1>4, <1>7, <2>0, Cut
  <2> QED BY <1>1, <1>4, <2>1, Texts
<1>10. (sent \o pending') \o tail' = SubSeq(answer, 1, got + n)
  BY <1>2, <1>6, <1>8, <1>9, Regrouped
<1>11. ~eligible /\ Len(tail') # 3 => sent = <<>> /\ pending' = <<>>
  <2>1. ASSUME ~eligible, Len(tail') # 3 PROVE sent = <<>> /\ out = 0
    <3>1. out = 0
      BY <1>7, <1>8, <2>1
    <3>2. Len(tail) # 3
      <4>1. Len(held) = Len(tail) + Len(chunk) /\ Len(tail) \in Nat /\ Len(chunk) = n
        <5>1. Len(held) = Len(tail) + Len(chunk)
          BY <1>2, <1>3, Joined DEF held
        <5>2. Len(chunk) = (IF got + 1 <= got + n THEN (got + n) - (got + 1) + 1 ELSE 0)
          BY <1>1, <1>2, Part DEF chunk
        <5>3. got + 1 <= got + n /\ (got + n) - (got + 1) + 1 = n
          BY <1>2
        <5> QED BY <1>2, <5>1, <5>2, <5>3, Texts
      <4>2. Len(held) <= 3
        BY <1>7, <2>1, <3>1
      <4>3. n \in Nat /\ n >= 1
        BY BoundsAssumption
      <4>4. \A k, c, h \in Nat : h = k + c /\ c >= 1 /\ h <= 3 => k # 3
        OBVIOUS
      <4>5. Len(held) \in Nat /\ Len(tail) \in Nat /\ Len(chunk) \in Nat /\ Len(chunk) >= 1
        BY <1>4, <4>1, <4>3
      <4> QED BY <4>1, <4>2, <4>4, <4>5
    <3>3. sent = <<>>
      BY <1>2, <2>1, <3>2 DEF Streaming
    <3> QED BY <3>1, <3>3
  <2> QED BY <2>1, <1>8
<1>12. Streaming'
  BY <1>1, <1>2, <1>7, <1>8, <1>10, <1>11 DEF Streaming
<1>13. TextTypes'
  <2>1. got' \in 0 .. Len(answer')
    BY <1>1, <1>2
  <2> QED BY <1>1, <1>2, <1>8, <2>1 DEF TextTypes
<1>14. Stages'
  BY <1>1, <1>8, <1>12 DEF Stages
<1>15. NoQuestion(pending')
  <2>1. NoQuestion(SubSeq(answer, 1, got + n))
    <3> DEFINE z == SubSeq(answer, 1, got + n)
    <3>1. Len(z) = (IF 1 <= got + n THEN (got + n) - 1 + 1 ELSE 0) /\ \A i \in 1 .. Len(z) : z[i] = answer[1 + i - 1]
      BY <1>1, <1>2, Part
    <3> HIDE DEF z
    <3>2. ASSUME NEW i \in 1 .. Len(z) PROVE z[i] # "q"
      <4>1. Len(z) = got + n
        BY <1>2, <3>1
      <4>2. 1 + i - 1 \in 1 .. Len(answer)
        BY <1>1, <1>2, <4>1
      <4>3. NoQuestion(answer)
        BY <1>2 DEF Shaped
      <4> QED BY <3>1, <4>2, <4>3 DEF NoQuestion
    <3>3. NoQuestion(z)
      BY <3>2 DEF NoQuestion
    <3> QED BY <3>3 DEF z
  <2>2. PICK a \in Text, b \in Text, c \in Text : a = sent /\ b = pending' /\ c = tail'
    BY <1>2, <1>8
  <2>3. a \o b \in Text /\ NoQuestion((a \o b) \o c)
    <3>1. a \o b \in Text
      BY <2>2, Joined
    <3>2. (a \o b) \o c = SubSeq(answer, 1, got + n)
      BY <1>10, <2>2
    <3> QED BY ONLY <2>1, <3>1, <3>2
  <2>4. NoQuestion(a \o b)
    BY ONLY <2>3, PlainJoined, a \in Text, b \in Text, c \in Text
  <2>5. NoQuestion(b)
    BY ONLY <2>4, PlainJoined, a \in Text, b \in Text
  <2> QED BY <2>2, <2>5
<1>16. Unasked' /\ Asked'
  BY <1>1, <1>2, <1>15, NothingAsked DEF Unasked, Asked
<1>17. Hidden'
  <2>1. CASE eligible
    <3>1. out = 0 /\ sent' = <<>> /\ pending' = <<>>
      BY <1>1, <1>2, <1>7, <1>8, <2>1 DEF Streaming
    <3> QED BY <3>1, EmptyText DEF Hidden
  <2>2. CASE ~eligible /\ Near
    <3>1. sent \o pending' \in Text /\ got + n \in 0 .. Len(answer) /\ AtEnd(answer)
      BY <1>1, <1>2, <1>8, <2>2, Joined DEF Near
    <3>2. Len(tail') = 3 \/ sent \o pending' = <<>>
      BY <1>11, <2>2, EmptyText, Texts
    <3>3. NoHalf(sent \o pending')
      BY <1>2, <1>8, <1>10, <3>1, <3>2, EndWithheld
    <3>4. NoHalf(sent) /\ NoHalf(pending')
      BY <1>2, <1>8, <3>3, PlainJoined
    <3> QED BY <1>1, <3>4 DEF Hidden
  <2>3. CASE ~eligible /\ ~Near
    BY <1>1, <2>3 DEF Hidden, Near
  <2> QED BY <2>1, <2>2, <2>3
<1>18. ~eligible => Len(tail') <= 3
  BY <1>4, <1>7, <1>8
<1> QED BY <1>1, <1>13, <1>14, <1>16, <1>17, <1>18

LEMMA TextStreamEnds ==
  ASSUME TextInv, StreamEnds
  PROVE  TextInv'
<1> USE DEF TextInv
<1>1. /\ pc = "stream" /\ got = Len(answer) /\ ended' = TRUE /\ captured' = HasSentinel(tail) /\ tail' = <<>>
      /\ pending' = (IF ~captured' THEN tail ELSE IF eligible THEN <<>> ELSE RStrip(WithoutSentinel(tail)))
      /\ pc' = (IF eligible THEN IF captured' THEN "farewell" ELSE "emit"
                ELSE IF pending' = <<>> THEN "flush" ELSE "emit")
      /\ UNCHANGED <<eligible, answer, got, sent, checked>>
  BY DEF StreamEnds, callVars
<1>2. /\ Shaped(answer) /\ answer \in Text /\ Len(answer) \in Nat /\ sent \in Text /\ tail \in Text /\ pending = <<>>
      /\ Streaming /\ NoQuestion(sent) /\ NoQuestion(answer) /\ checked = NotChecked
  BY <1>1, Texts DEF TextTypes, Stages, Unasked, Shaped
<1>3. sent \o tail = answer
  <2>1. sent \o tail = SubSeq(answer, 1, Len(answer))
    BY <1>1, <1>2, Texts DEF Streaming
  <2> QED BY <1>2, <2>1, Texts
<1>4. NoQuestion(tail)
  BY <1>2, <1>3, PlainJoined
<1>5. CASE HasSentinel(tail) /\ eligible
  <2>1. pc' = "farewell" /\ pending' = <<>> /\ sent' = <<>> /\ captured' /\ ended'
    BY <1>1, <1>2, <1>5 DEF Streaming
  <2>2. TextTypes' /\ Hidden' /\ Unasked'
    BY <1>1, <1>2, <2>1, EmptyText DEF TextTypes, Hidden, Unasked
  <2>3. Stages'
    BY <2>1 DEF Stages
  <2>4. Asked'
    BY <1>1, <1>2, NothingAsked DEF Asked
  <2> QED BY <2>2, <2>3, <2>4
<1>6. CASE HasSentinel(tail) /\ ~eligible
  <2>1. /\ WithoutSentinel(tail) \in Text /\ WithoutSentinel(answer) = sent \o WithoutSentinel(tail)
        /\ NoHalf(sent) /\ NoHalf(WithoutSentinel(tail)) /\ NoQuestion(WithoutSentinel(tail))
    BY <1>2, <1>3, <1>6, SentinelInTail
  <2>2. /\ pending' = RStrip(WithoutSentinel(tail)) /\ captured' /\ ended' /\ sent' = sent
        /\ pc' = (IF pending' = <<>> THEN "flush" ELSE "emit")
    BY <1>1, <1>6
  <2>3. pending' \in Text /\ NoHalf(pending') /\ NoQuestion(pending')
    BY <2>1, <2>2, Stripped, StripKeeps
  <2>4. RStrip(sent \o pending') = RStrip(WithoutSentinel(answer))
    BY <1>2, <2>1, <2>2, StrippedTwice
  <2>5. Arrived'
    BY <1>1, <1>6, <2>2, <2>4 DEF Arrived
  <2>6. TextTypes' /\ Hidden' /\ Unasked'
    BY <1>1, <1>2, <2>1, <2>2, <2>3, EmptyText DEF TextTypes, Hidden, Unasked
  <2>7. Stages'
    BY <2>2, <2>5 DEF Stages
  <2>8. Asked'
    BY <1>1, <1>2, NothingAsked DEF Asked
  <2> QED BY <2>6, <2>7, <2>8
<1>7. CASE ~HasSentinel(tail)
  <2>1. /\ pending' = tail /\ ~captured' /\ ended' /\ sent' = sent
        /\ pc' = (IF ~eligible /\ pending' = <<>> THEN "flush" ELSE "emit")
    BY <1>1, <1>7
  <2>2. Arrived'
    BY <1>1, <1>3, <2>1 DEF Arrived
  <2>3. Hidden'
    <3>1. CASE eligible
      <4>1. sent = <<>> /\ tail = answer
        BY <1>2, <1>3, <3>1, Texts DEF Streaming
      <4>2. NoHalf(tail)
        BY <1>2, <1>7, <4>1, NoHalfAlone
      <4> QED BY <1>1, <2>1, <4>1, <4>2, EmptyText DEF Hidden
    <3>2. CASE ~eligible /\ Near
      <4>1. Len(tail) = 3 \/ sent = <<>>
        BY <1>2, <3>2 DEF Streaming
      <4>2. Len(answer) \in 0 .. Len(answer) /\ sent \o tail = SubSeq(answer, 1, Len(answer)) /\ AtEnd(answer)
        BY <1>2, <1>3, <3>2, Texts DEF Near
      <4>3. HasSentinel(tail)
        BY <1>2, <4>1, <4>2, EndWithheld
      <4> QED BY <1>7, <4>3
    <3>3. CASE ~eligible /\ ~Near
      BY <1>1, <3>3 DEF Hidden, Near
    <3> QED BY <3>1, <3>2, <3>3
  <2>4. TextTypes' /\ Unasked'
    BY <1>1, <1>2, <1>4, <2>1, EmptyText DEF TextTypes, Unasked
  <2>5. Stages'
    BY <2>1, <2>2 DEF Stages
  <2>6. Asked'
    BY <1>1, <1>2, NothingAsked DEF Asked
  <2> QED BY <2>3, <2>4, <2>5, <2>6
<1> QED BY <1>5, <1>6, <1>7

LEMMA TextEmit ==
  ASSUME TextInv, Emit
  PROVE  TextInv'
<1> USE DEF TextInv
<1>1. /\ pc = "emit" /\ sent' = sent \o pending /\ pending' = <<>>
      /\ pc' \in {"speak", "flush", "stream"} /\ (pc' = "flush" => ended) /\ (pc' = "stream" => ~ended)
      /\ UNCHANGED <<eligible, answer, got, ended, tail, captured, checked>>
  BY DEF Emit, callVars
<1>2. sent \in Text /\ pending \in Text /\ checked = NotChecked
      /\ NoQuestion(sent) /\ NoQuestion(pending)
  BY <1>1 DEF TextTypes, Unasked
<1>3. sent' \in Text /\ sent' \o pending' = sent \o pending
  <2>1. sent \o pending \in Text
    BY <1>2, Joined
  <2> QED BY <1>1, <2>1, Texts
<1>4. TextTypes'
  BY <1>1, <1>3, EmptyText DEF TextTypes
<1>5. Hidden' /\ Unasked'
  <2>1. NoQuestion(sent')
    BY <1>1, <1>2, PlainJoined
  <2>2. NoHalf(sent) /\ NoHalf(pending) => NoHalf(sent')
    BY <1>1, <1>2, PlainJoined
  <2> QED BY <1>1, <1>2, <2>1, <2>2, EmptyText DEF Hidden, Unasked, Near
<1>6. ~ended => Streaming'
  <2>1. ~ended => Streaming
    BY <1>1 DEF Stages
  <2>2. <<>> \o <<>> = <<>>
    BY EmptyText, Texts
  <2>3. ASSUME Streaming PROVE Streaming'
    <3>1. ~captured' /\ (sent' \o pending') \o tail' = SubSeq(answer', 1, got')
      BY <1>1, <1>3, <2>3 DEF Streaming
    <3>2. sent = <<>> /\ pending = <<>> => sent' = <<>> /\ pending' = <<>>
      BY <1>1, <2>2
    <3> QED BY <1>1, <2>3, <3>1, <3>2 DEF Streaming
  <2> QED BY <2>1, <2>3
<1>7. ended => Arrived'
  <2>1. ended => Arrived
    BY <1>1 DEF Stages
  <2> QED BY <1>1, <1>3, <2>1 DEF Arrived
<1>8. Stages'
  BY <1>1, <1>6, <1>7 DEF Stages
<1>9. Asked'
  BY <1>1, <1>2, NothingAsked DEF Asked
<1> QED BY <1>4, <1>5, <1>8, <1>9

(* What is sent of a text in addition to another ends as the text does, when it is longer by two units *)
LEMMA EndKept ==
  ASSUME NEW s \in Text, NEW f \in Text, NEW q \in Question
  PROVE  LET d == SubSeq(f, Len(s) + 1, Len(f))
         IN /\ d \in Text
            /\ NoHalf(f) => NoHalf(d)
            /\ EndsWith(f, q) /\ Len(f) >= Len(s) + 2 => EndsWith(s \o d, q)
            /\ NoQuestion(s) /\ (\A i \in 1 .. Len(f) : f[i] = "q" => i = Len(f) - 1)
                 => \A i \in 1 .. Len(s \o d) : (s \o d)[i] = "q" => i = Len(f) - 1
<1> DEFINE d == SubSeq(f, Len(s) + 1, Len(f))
           x == s \o d
<1>1. Len(s) \in Nat /\ Len(f) \in Nat /\ Len(f) <= Len(f) /\ Len(s) + 1 \in Nat /\ 1 <= Len(s) + 1
  BY Texts
<1>2. d \in Text /\ Len(d) = (IF Len(s) + 1 <= Len(f) THEN Len(f) - (Len(s) + 1) + 1 ELSE 0)
      /\ \A i \in 1 .. Len(d) : d[i] = f[(Len(s) + 1) + i - 1]
  BY <1>1, Part
<1>3. /\ Len(x) = Len(s) + Len(d)
      /\ \A i \in 1 .. Len(s) : x[i] = s[i]
      /\ \A i \in 1 .. Len(d) : x[Len(s) + i] = d[i]
  BY <1>2, Joined
<1> HIDE DEF d, x
<1>4. ASSUME NEW i \in 1 .. Len(d) PROVE Len(s) + i \in 1 .. Len(f) /\ d[i] = f[Len(s) + i]
  <2>1. Len(s) + 1 <= Len(f) /\ Len(d) = Len(f) - Len(s) /\ i \in Nat /\ i >= 1
    BY <1>1, <1>2
  <2>2. (Len(s) + 1) + i - 1 = Len(s) + i /\ Len(s) + i \in 1 .. Len(f)
    BY <1>1, <2>1
  <2> QED BY <1>2, <2>2
<1>5. ASSUME NoHalf(f) PROVE NoHalf(d)
  BY <1>4, <1>5 DEF NoHalf
<1>6. ASSUME EndsWith(f, q), Len(f) >= Len(s) + 2 PROVE EndsWith(x, q)
  <2>1. Len(d) = Len(f) - Len(s) /\ Len(d) \in 1 .. Len(d) /\ Len(d) - 1 \in 1 .. Len(d) /\ Len(s) + 1 <= Len(f)
    BY <1>1, <1>2, <1>6
  <2>2. Len(x) = Len(f) /\ Len(s) + Len(d) = Len(f) /\ Len(s) + (Len(d) - 1) = Len(f) - 1 /\ Len(f) >= 2
    BY <1>1, <1>3, <1>6, <2>1
  <2>3. x[Len(f)] = f[Len(f)]
    BY <1>3, <1>4, <2>1, <2>2
  <2>4. x[Len(f) - 1] = f[Len(f) - 1]
    BY <1>3, <1>4, <2>1, <2>2
  <2> QED BY <1>6, <2>2, <2>3, <2>4 DEF EndsWith
<1>7. ASSUME NoQuestion(s), \A i \in 1 .. Len(f) : f[i] = "q" => i = Len(f) - 1,
             NEW i \in 1 .. Len(x), x[i] = "q"
      PROVE  i = Len(f) - 1
  <2>1. i \notin 1 .. Len(s)
    BY <1>3, <1>7 DEF NoQuestion
  <2>2. Len(d) \in Nat
    BY <1>2, Texts
  <2>3. i - Len(s) \in 1 .. Len(d) /\ i = Len(s) + (i - Len(s))
    BY <1>1, <1>3, <2>1, <2>2
  <2>4. x[i] = f[i] /\ i \in 1 .. Len(f)
    BY <1>3, <1>4, <2>3
  <2> QED BY <1>7, <2>4
<1> QED BY <1>2, <1>5, <1>6, <1>7 DEF d, x

LEMMA TextCheck ==
  ASSUME TextInv, Check
  PROVE  TextInv'
<1> USE DEF TextInv
<1>1. /\ pc = "check" /\ UNCHANGED <<eligible, answer, got, ended, tail, captured, sent>>
  BY DEF Check, callVars
<1>2. PICK guard \in {"none", "strict", "relaxed"}, question \in Question, manner \in Manner :
        /\ checked' = [guard |-> guard, question |-> question, blunt |-> manner.blunt, text |-> sent]
        /\ LET final == IF guard = "none" \/ captured THEN sent ELSE CheckOutput(sent, guard, question, manner)
           IN /\ pending' = SubSeq(final, Len(sent) + 1, Len(final))
              /\ pc' = IF final = sent THEN "done" ELSE "correct"
  BY DEF Check
<1> DEFINE plain == guard = "none" \/ captured
           final == IF plain THEN sent ELSE CheckOutput(sent, guard, question, manner)
<1>3. /\ sent \in Text /\ NoQuestion(sent) /\ Len(sent) \in Nat /\ Len(RStrip(sent)) \in Nat
      /\ Len(RStrip(sent)) <= Len(sent) /\ (sent = <<>> => Len(sent) = 0)
  <2>1. sent \in Text /\ NoQuestion(sent)
    BY <1>1 DEF TextTypes, Unasked
  <2>2. Len(sent) \in Nat /\ Len(RStrip(sent)) \in 0 .. Len(sent) /\ (sent = <<>> => Len(sent) = 0)
    BY <2>1, Texts, Stripped, EmptyText
  <2> QED BY <2>1, <2>2
<1>4. checked'.guard = guard /\ checked'.question = question /\ checked'.blunt = manner.blunt /\ checked'.text = sent
  BY <1>2
<1>5. pending' = SubSeq(final, Len(sent) + 1, Len(final)) /\ pc' = (IF final = sent THEN "done" ELSE "correct")
  BY <1>2
<1>c. /\ CheckOutput(sent, guard, question, manner) \in Text
      /\ NoHalf(sent) => NoHalf(CheckOutput(sent, guard, question, manner))
      /\ guard = "strict" =>
           \/ HasOpenQuestion(sent) /\ ~manner.blunt
           \/ /\ EndsWith(CheckOutput(sent, guard, question, manner), question)
              /\ Len(CheckOutput(sent, guard, question, manner)) >= Len(RStrip(sent)) + 2
              /\ sent # <<>> => Len(CheckOutput(sent, guard, question, manner)) >= Len(RStrip(sent)) + 4
      /\ question[2] = "open" =>
           \A i \in 1 .. Len(CheckOutput(sent, guard, question, manner)) :
             CheckOutput(sent, guard, question, manner)[i] = "q" => i = Len(CheckOutput(sent, guard, question, manner)) - 1
  BY <1>3, CheckedText
<1>6. /\ final \in Text /\ (NoHalf(sent) => NoHalf(final))
      /\ question[2] = "open" => \A i \in 1 .. Len(final) : final[i] = "q" => i = Len(final) - 1
  <2>1. CASE plain
    BY <1>3, <2>1 DEF NoQuestion
  <2>2. CASE ~plain
    <3>1. final = CheckOutput(sent, guard, question, manner)
      BY <2>2
    <3> HIDE DEF final
    <3> QED BY <1>c, <3>1
  <2> QED BY <2>1, <2>2
<1>7. guard = "strict" /\ ~captured /\ Len(sent) - Len(RStrip(sent)) <= 2
        => (HasOpenQuestion(sent) /\ ~manner.blunt) \/ (EndsWith(final, question) /\ Len(final) >= Len(sent) + 2)
  <2> SUFFICES ASSUME guard = "strict", ~captured, Len(sent) - Len(RStrip(sent)) <= 2,
                      ~(HasOpenQuestion(sent) /\ ~manner.blunt)
               PROVE  EndsWith(final, question) /\ Len(final) >= Len(sent) + 2
    OBVIOUS
  <2>1. final = CheckOutput(sent, guard, question, manner)
    OBVIOUS
  <2> HIDE DEF final
  <2>2. /\ EndsWith(final, question) /\ Len(final) >= Len(RStrip(sent)) + 2
        /\ sent # <<>> => Len(final) >= Len(RStrip(sent)) + 4
    BY <1>c, <2>1
  <2>3. Len(final) \in Nat
    BY <1>6, Texts
  <2>4. Len(final) >= Len(sent) + 2
    <3>1. CASE sent = <<>>
      <4>1. Len(sent) = 0
        BY <1>3, <3>1
      <4> QED BY <1>3, <2>2, <2>3, <4>1
    <3>2. CASE sent # <<>>
      <4>1. \A k, r, l \in Nat : l >= r + 4 /\ k - r <= 2 => l >= k + 2
        OBVIOUS
      <4> QED BY <1>3, <2>2, <2>3, <3>2, <4>1
    <3> QED BY <3>1, <3>2
  <2> QED BY <2>2, <2>4
<1> HIDE DEF final, plain
<1>8. /\ pending' \in Text /\ (NoHalf(final) => NoHalf(pending'))
      /\ EndsWith(final, question) /\ Len(final) >= Len(sent) + 2 => EndsWith(sent \o pending', question)
      /\ NoQuestion(sent) /\ (\A i \in 1 .. Len(final) : final[i] = "q" => i = Len(final) - 1)
           => \A i \in 1 .. Len(sent \o pending') : (sent \o pending')[i] = "q" => i = Len(final) - 1
  BY <1>3, <1>5, <1>6, EndKept
<1>9. TextTypes' /\ Unasked'
  BY <1>1, <1>5, <1>8 DEF TextTypes, Unasked
<1>10. Hidden'
  BY <1>1, <1>6, <1>8 DEF Hidden, Near
<1>11. Stages'
  <2>1. ASSUME final = sent PROVE pending' = <<>>
    <3>1. SubSeq(sent, Len(sent) + 1, Len(sent)) = <<>>
      <4>1. Len(sent) + 1 > Len(sent)
        BY <1>3
      <4> QED BY <1>3, <4>1, SubSeqEmpty
    <3> QED BY <1>5, <2>1, <3>1
  <2>2. pc' = "done" => final = sent
    BY <1>5
  <2>3. pc' = "done" \/ pc' = "correct"
    BY <1>5
  <2> QED BY <2>1, <2>2, <2>3 DEF Stages
<1>12. Asked'
  <2>1. checked'.question \in Question
    BY <1>4
  <2>2. checked'.guard = "strict" /\ ~captured' /\ Len(checked'.text) - Len(RStrip(checked'.text)) <= 2
          => (HasOpenQuestion(checked'.text) /\ ~checked'.blunt) \/ EndsWith(sent' \o pending', checked'.question)
    BY <1>1, <1>4, <1>7, <1>8
  <2>3. Contains(checked'.question, Open) =>
          \E k \in Int : \A i \in 1 .. Len(sent' \o pending') : (sent' \o pending')[i] = "q" => i = k
    <3>1. ASSUME Contains(question, Open) PROVE question[2] = "open"
      <4>1. PICK i \in 1 .. Len(question) : question[i] = "open"
        BY <3>1 DEF Contains, Open
      <4>2. Len(question) = 2 /\ question[1] = "q" /\ (i = 1 \/ i = 2)
        <5>1. Len(question) = 2 /\ question[1] = "q"
          BY Questions
        <5> QED BY <4>1, <5>1
      <4> QED BY <4>1, <4>2
    <3>2. Len(final) - 1 \in Int
      <4>1. Len(final) \in Nat
        BY <1>6, Texts
      <4> QED BY <4>1
    <3> QED BY <1>1, <1>3, <1>4, <1>6, <1>8, <3>1, <3>2
  <2> QED BY <2>1, <2>2, <2>3 DEF Asked
<1> QED BY <1>9, <1>10, <1>11, <1>12

LEMMA TextCorrect ==
  ASSUME TextInv, Correct
  PROVE  TextInv'
<1> USE DEF TextInv
<1>1. /\ pc = "correct" /\ pc' = "done" /\ sent' = sent \o pending /\ pending' = <<>>
      /\ UNCHANGED <<eligible, answer, got, ended, tail, captured, checked>>
  BY DEF Correct, callVars
<1>2. sent \in Text /\ pending \in Text /\ sent' \in Text /\ sent' \o pending' = sent \o pending
  <2>1. sent \in Text /\ pending \in Text
    BY DEF TextTypes
  <2>2. sent \o pending \in Text
    BY <2>1, Joined
  <2> QED BY <1>1, <2>1, <2>2, Texts
<1>3. TextTypes' /\ Stages'
  BY <1>1, <1>2, EmptyText DEF TextTypes, Stages
<1>4. Hidden' /\ Unasked'
  <2>1. NoHalf(sent) /\ NoHalf(pending) => NoHalf(sent')
    BY <1>1, <1>2, PlainJoined
  <2> QED BY <1>1, <2>1, EmptyText DEF Hidden, Near, Unasked
<1>5. Asked'
  BY <1>1, <1>2 DEF Asked
<1> QED BY <1>3, <1>4, <1>5

LEMMA TextFarewell ==
  ASSUME TextInv, Farewell
  PROVE  TextInv'
<1> USE DEF TextInv
<1>1. /\ pc = "farewell" /\ pc' = "done" /\ sent' = <<"bye", "stop">> /\ pending' = pending
      /\ UNCHANGED <<eligible, answer, got, ended, tail, captured, checked>>
  BY DEF Farewell, callVars, FAREWELL, Stop
<1>2. pending = <<>> /\ checked = NotChecked
  BY <1>1 DEF Stages, Unasked
<1>3. sent' \in Text /\ NoHalf(sent')
  BY <1>1 DEF Text, Unit, NoHalf, Half
<1>4. TextTypes' /\ Stages' /\ Hidden' /\ Unasked'
  BY <1>1, <1>2, <1>3, EmptyText DEF TextTypes, Stages, Hidden, Near, Unasked
<1>5. Asked'
  BY <1>1, <1>2, NothingAsked DEF Asked
<1> QED BY <1>4, <1>5

LEMMA TextNext ==
  ASSUME TextInv, ~eligible => Len(tail) <= 3, Next
  PROVE  TextInv'
<1>1. CASE GetCache
  BY <1>1, SameTexts DEF GetCache
<1>2. CASE OpenStream
  BY <1>2, TextOpenStream
<1>3. CASE Busy
  BY <1>3, SameTexts DEF Busy, Raise
<1>4. CASE ServerError
  BY <1>4, SameTexts DEF ServerError, Raise
<1>5. CASE OtherError
  BY <1>5, SameTexts DEF OtherError, Raise
<1>6. CASE StreamError
  BY <1>6, SameTexts DEF StreamError, callVars
<1>7. CASE \E n \in 1 .. MaxChunk : Receive(n)
  BY <1>7, TextReceive
<1>8. CASE StreamEnds
  BY <1>8, TextStreamEnds
<1>9. CASE Emit
  BY <1>9, TextEmit
<1>10. CASE Check
  BY <1>10, TextCheck
<1>11. CASE Speak
  <2>1. UNCHANGED <<textVars, eligible, checked>> /\ pc = "speak"
    BY <1>11 DEF Speak, callVars
  <2>2. pc' = "speak" \/ (pc' = "flush" /\ ended) \/ (pc' = "stream" /\ ~ended)
    BY <1>11 DEF Speak
  <2> QED BY <2>1, <2>2, SameTexts
<1>12. CASE Flush
  <2>1. UNCHANGED <<textVars, eligible, checked>> /\ pc = "flush" /\ pc' = "check"
    BY <1>12 DEF Flush, callVars
  <2> QED BY <2>1, SameTexts
<1>13. CASE Farewell
  BY <1>13, TextFarewell
<1>14. CASE Correct
  BY <1>14, TextCorrect
<1>15. CASE Halt
  BY <1>15, SameTexts DEF Halt, callVars
<1>16. CASE Others
  BY <1>16, SameTexts DEF Others
<1> QED BY <1>1, <1>2, <1>3, <1>4, <1>5, <1>6, <1>7, <1>8, <1>9, <1>10, <1>11, <1>12, <1>13, <1>14, <1>15, <1>16
     DEF Next, TurnStep, CallStep, TextStep, SpeechStep

-----------------------------------------------------------------------------
(***************************************************************************)
(* Types, and the voice: while the turn goes on, the voice of the stream   *)
(* is the session's once that has one, and until then nothing was heard.   *)
(***************************************************************************)
Place == {"cache", "request", "stream", "emit", "speak", "flush", "farewell", "check", "correct"} \cup Over

CallTypes ==
  /\ pc \in Place /\ entry \in {"none", "live", "dead"}
  /\ call \in [handle : {"inline", "live", "dead"}, attempt : 0 .. 2, dropped : BOOLEAN]
  /\ eligible \in BOOLEAN /\ ended \in BOOLEAN /\ captured \in BOOLEAN /\ faulted \in BOOLEAN

ShortTail == ~eligible => Len(tail) <= 3

SpeechTypes ==
  /\ voice \in Voice \cup {None}
  /\ wrap = [buffer |-> wrap.buffer, queue |-> wrap.queue, seq |-> wrap.seq, voice |-> wrap.voice]
  /\ wrap.voice \in Voice \cup {None} /\ wrap.seq \in Nat
  /\ lastSeq \in -1 .. wrap.seq
  /\ \E S : spoken \in Seq(S)

Voiced ==
  /\ pc # "done" /\ voice # None => wrap.voice = voice
  /\ \A i \in DOMAIN spoken : spoken[i].ok => voice # None /\ voice = spoken[i].voice

StreamInv == TextInv /\ CallTypes /\ ShortTail /\ SpeechTypes /\ Voiced

LEMMA Silent == None \notin Voice
  BY DEF None, Voice

(* One more utterance *)
LEMMA Uttered ==
  ASSUME \E S : spoken \in Seq(S), NEW kind, NEW text, NEW number, NEW given \in Voice \cup {None},
         Synthesize(kind, text, number, given)
  PROVE  /\ \E S : spoken' \in Seq(S)
         /\ DOMAIN spoken' = DOMAIN spoken \cup {Len(spoken) + 1}
         /\ \A i \in DOMAIN spoken : spoken'[i] = spoken[i]
         /\ Last(spoken') = spoken'[Len(spoken) + 1]
         /\ Last(spoken').voice \in Voice /\ (given # None => Last(spoken').voice = given)
         /\ Last(spoken').ok \in BOOLEAN /\ Last(spoken').number = number
<1>1. PICK S : spoken \in Seq(S)
  OBVIOUS
<1>2. PICK ok \in BOOLEAN, v \in (IF given = None THEN Voice ELSE {given}) :
        spoken' = Append(spoken, [kind |-> kind, text |-> text, number |-> number, voice |-> v, ok |-> ok])
  BY DEF Synthesize
<1> DEFINE u == [kind |-> kind, text |-> text, number |-> number, voice |-> v, ok |-> ok]
<1>3. u.voice = v /\ u.ok = ok /\ u.number = number
  OBVIOUS
<1>4. v \in Voice /\ (given # None => v = given)
  BY <1>2
<1>5. spoken' = Append(spoken, u)
  BY <1>2
<1> HIDE DEF u
<1>6. spoken \in Seq(S \cup {u}) /\ u \in S \cup {u}
  <2>1. S \subseteq S \cup {u}
    OBVIOUS
  <2> QED BY <1>1, <2>1, SeqMonotonic
<1>7. /\ spoken' \in Seq(S \cup {u}) /\ Len(spoken') = Len(spoken) + 1
      /\ \A i \in 1 .. Len(spoken) : spoken'[i] = spoken[i]
      /\ spoken'[Len(spoken) + 1] = u
  BY <1>5, <1>6, AppendProperties
<1>8. Len(spoken) \in Nat /\ DOMAIN spoken = 1 .. Len(spoken) /\ DOMAIN spoken' = 1 .. Len(spoken) + 1
  BY <1>6, <1>7, LenProperties
<1>9. DOMAIN spoken' = DOMAIN spoken \cup {Len(spoken) + 1}
  BY <1>8
<1>10. Last(spoken') = u
  BY <1>7 DEF Last
<1> QED BY <1>2, <1>3, <1>4, <1>7, <1>8, <1>9, <1>10

(* Nothing is said *)
LEMMA SameSpeech ==
  ASSUME SpeechTypes, Voiced, UNCHANGED <<voice, lastSeq, spoken>>,
         \/ wrap' = wrap
         \/ \E b, q : wrap' = [buffer |-> b, queue |-> q, seq |-> wrap.seq, voice |-> wrap.voice],
         pc' # "done" => pc # "done"
  PROVE  SpeechTypes' /\ Voiced'
<1>1. /\ wrap' = [buffer |-> wrap'.buffer, queue |-> wrap'.queue, seq |-> wrap'.seq, voice |-> wrap'.voice]
      /\ wrap'.seq = wrap.seq /\ wrap'.voice = wrap.voice
  BY DEF SpeechTypes
<1> QED BY <1>1 DEF SpeechTypes, Voiced

(* A part of the answer is said *)
LEMMA SpeechSpeak ==
  ASSUME SpeechTypes, Voiced, pc # "done", NEW kind, NEW text, NEW b, NEW q, NEW n \in {wrap.seq, wrap.seq + 1},
         Synthesize(kind, text, wrap.seq, wrap.voice), Heard,
         wrap' = [buffer |-> b, queue |-> q, seq |-> n, voice |-> Last(spoken').voice]
  PROVE  SpeechTypes' /\ Voiced'
<1> DEFINE u == Last(spoken')
<1>1. /\ \E S : spoken' \in Seq(S)
      /\ DOMAIN spoken' = DOMAIN spoken \cup {Len(spoken) + 1}
      /\ \A i \in DOMAIN spoken : spoken'[i] = spoken[i]
      /\ spoken'[Len(spoken) + 1] = u
      /\ u.voice \in Voice /\ (wrap.voice # None => u.voice = wrap.voice)
      /\ u.ok \in BOOLEAN /\ u.number = wrap.seq
  <2>1. (\E S : spoken \in Seq(S)) /\ wrap.voice \in Voice \cup {None}
    BY DEF SpeechTypes
  <2> QED BY <2>1, Uttered
<1>2. /\ voice' = (IF voice = None /\ u.ok THEN u.voice ELSE voice)
      /\ lastSeq' = (IF u.ok THEN u.number ELSE lastSeq)
      /\ wrap' = [buffer |-> b, queue |-> q, seq |-> n, voice |-> u.voice]
  BY DEF Heard
<1> HIDE DEF u
<1>3. /\ voice \in Voice \cup {None} /\ wrap.seq \in Nat /\ lastSeq \in -1 .. wrap.seq /\ n \in Nat /\ wrap.seq <= n
      /\ (voice # None => wrap.voice = voice)
      /\ \A i \in DOMAIN spoken : spoken[i].ok => voice # None /\ voice = spoken[i].voice
  BY DEF SpeechTypes, Voiced
<1>4. wrap'.seq = n /\ wrap'.voice = u.voice
      /\ wrap' = [buffer |-> wrap'.buffer, queue |-> wrap'.queue, seq |-> wrap'.seq, voice |-> wrap'.voice]
  BY <1>2
<1>5. lastSeq' \in -1 .. n
  BY <1>1, <1>2, <1>3
<1>6. voice' \in Voice \cup {None} /\ (voice' # None => voice' = u.voice) /\ (u.ok => voice' = u.voice)
  BY <1>1, <1>2, <1>3, Silent
<1>7. SpeechTypes'
  BY <1>1, <1>3, <1>4, <1>5, <1>6 DEF SpeechTypes
<1>8. ASSUME NEW i \in DOMAIN spoken', spoken'[i].ok PROVE voice' # None /\ voice' = spoken'[i].voice
  <2>1. CASE i \in DOMAIN spoken
    BY <1>1, <1>2, <1>3, <1>8, <2>1
  <2>2. CASE i = Len(spoken) + 1
    BY <1>1, <1>6, <1>8, <2>2, Silent
  <2> QED BY <1>1, <2>1, <2>2
<1>9. Voiced'
  BY <1>4, <1>6, <1>8 DEF Voiced
<1> QED BY <1>7, <1>9

(* The last words, of the farewell or the correction *)
LEMMA SpeechLast ==
  ASSUME SpeechTypes, Voiced, NEW kind, NEW text, pc' = "done", UNCHANGED <<wrap, lastSeq>>,
         Synthesize(kind, text, lastSeq + 1, voice),
         voice' = IF voice = None THEN Last(spoken').voice ELSE voice
  PROVE  SpeechTypes' /\ Voiced'
<1> DEFINE u == Last(spoken')
<1>1. /\ \E S : spoken' \in Seq(S)
      /\ DOMAIN spoken' = DOMAIN spoken \cup {Len(spoken) + 1}
      /\ \A i \in DOMAIN spoken : spoken'[i] = spoken[i]
      /\ spoken'[Len(spoken) + 1] = u
      /\ u.voice \in Voice /\ (voice # None => u.voice = voice)
  <2>1. (\E S : spoken \in Seq(S)) /\ voice \in Voice \cup {None}
    BY DEF SpeechTypes
  <2> QED BY <2>1, Uttered
<1>2. voice' = u.voice
  BY <1>1
<1> HIDE DEF u
<1>3. SpeechTypes'
  BY <1>1, <1>2 DEF SpeechTypes
<1>4. ASSUME NEW i \in DOMAIN spoken', spoken'[i].ok PROVE voice' # None /\ voice' = spoken'[i].voice
  <2>1. CASE i \in DOMAIN spoken
    <3>1. voice # None /\ voice = spoken[i].voice
      BY <1>1, <1>4, <2>1 DEF Voiced
    <3> QED BY <1>1, <1>2, <2>1, <3>1, Silent
  <2>2. CASE i = Len(spoken) + 1
    BY <1>1, <1>2, <2>2, Silent
  <2> QED BY <1>1, <2>1, <2>2
<1> QED BY <1>3, <1>4 DEF Voiced

LEMMA StreamInit == Init => StreamInv
<1> SUFFICES ASSUME Init PROVE StreamInv
  OBVIOUS
<1>1. TextInv
  BY TextInit
<1>2. CallTypes
  <2>1. call = [handle |-> "inline", attempt |-> 0, dropped |-> FALSE]
    BY DEF Init
  <2>2. call \in [handle : {"inline", "live", "dead"}, attempt : 0 .. 2, dropped : BOOLEAN]
    BY <2>1
  <2>3. /\ pc = "cache" /\ entry \in {"none", "live", "dead"} /\ eligible \in BOOLEAN
        /\ ended = FALSE /\ captured = FALSE /\ faulted = FALSE
    BY DEF Init
  <2> QED BY <2>2, <2>3 DEF CallTypes, Place
<1>3. ShortTail
  <2>1. tail = <<>>
    BY DEF Init
  <2> QED BY <2>1, EmptyText DEF ShortTail
<1>4. /\ voice \in {None, "es"} /\ lastSeq = -1 /\ spoken = <<>>
      /\ wrap = [buffer |-> <<>>, queue |-> <<>>, seq |-> 0, voice |-> voice]
  BY DEF Init
<1>5. SpeechTypes
  <2>1. spoken \in Seq({})
    BY <1>4
  <2>2. \E S : spoken \in Seq(S)
    BY <2>1
  <2>3. wrap.seq = 0 /\ wrap.voice = voice
        /\ wrap = [buffer |-> wrap.buffer, queue |-> wrap.queue, seq |-> wrap.seq, voice |-> wrap.voice]
    BY <1>4
  <2>4. voice \in Voice \cup {None}
    BY <1>4 DEF Voice
  <2>5. lastSeq \in -1 .. wrap.seq
    BY <1>4, <2>3
  <2> QED BY <2>2, <2>3, <2>4, <2>5 DEF SpeechTypes
<1>6. Voiced
  <2>1. DOMAIN spoken = {}
    BY <1>4
  <2> QED BY <1>4, <2>1 DEF Voiced
<1> QED BY <1>1, <1>2, <1>3, <1>5, <1>6 DEF StreamInv

LEMMA CallNext ==
  ASSUME CallTypes, Next
  PROVE  CallTypes'
<1> USE DEF CallTypes, Place, Over
<1>1. CASE GetCache
  BY <1>1 DEF GetCache, textVars
<1>2. CASE OpenStream
  <2>1. /\ call' = [call EXCEPT !.handle = "inline", !.attempt = 0, !.dropped = FALSE]
        /\ pc' = "stream" /\ entry' = "none" /\ faulted' = FALSE /\ UNCHANGED <<eligible, ended, captured>>
    BY <1>2 DEF OpenStream
  <2>0. PICK h \in {"inline", "live", "dead"}, a \in 0 .. 2, d \in BOOLEAN : call = [handle |-> h, attempt |-> a, dropped |-> d]
    OBVIOUS
  <2>2. call' = [handle |-> "inline", attempt |-> 0, dropped |-> FALSE]
    BY <2>0, <2>1
  <2>3. call' \in [handle : {"inline", "live", "dead"}, attempt : 0 .. 2, dropped : BOOLEAN]
    BY <2>2
  <2> QED BY <2>1, <2>3
<1>3. CASE Busy
  BY <1>3 DEF Busy, Raise, textVars, MAX_ATTEMPTS
<1>4. CASE ServerError
  BY <1>4 DEF ServerError, Raise, textVars
<1>5. CASE OtherError
  <2>1. /\ UNCHANGED <<eligible, ended, captured>> /\ faulted' \in BOOLEAN
        /\ \/ pc' = pc /\ call.attempt < 2 /\ entry' = "none"
              /\ call' = [handle |-> "inline", attempt |-> call.attempt + 1, dropped |-> TRUE]
           \/ pc' = "failed" /\ UNCHANGED <<entry, call>>
    BY <1>5 DEF OtherError, Raise, textVars, MAX_ATTEMPTS
  <2>2. CASE pc' = "failed" /\ UNCHANGED <<entry, call>>
    BY <2>1, <2>2
  <2>3. CASE /\ pc' = pc /\ call.attempt < 2 /\ entry' = "none"
             /\ call' = [handle |-> "inline", attempt |-> call.attempt + 1, dropped |-> TRUE]
    <3>1. call.attempt \in 0 .. 2
      OBVIOUS
    <3>2. call.attempt + 1 \in 0 .. 2
      BY <2>3, <3>1
    <3>3. call' \in [handle : {"inline", "live", "dead"}, attempt : 0 .. 2, dropped : BOOLEAN]
      BY <2>3, <3>2
    <3> QED BY <2>1, <2>3, <3>3
  <2> QED BY <2>1, <2>2, <2>3
<1>6. CASE StreamError
  BY <1>6 DEF StreamError, callVars, textVars
<1>7. CASE \E n \in 1 .. MaxChunk : Receive(n)
  <2>1. PICK n \in 1 .. MaxChunk : Receive(n)
    BY <1>7
  <2>2. pc' \in {"stream", "emit"} /\ UNCHANGED <<entry, call, eligible, ended, captured, faulted>>
    BY <2>1 DEF Receive, callVars
  <2> QED BY <2>2
<1>8. CASE StreamEnds
  <2>1. /\ pc' \in {"farewell", "emit", "flush"} /\ ended' = TRUE /\ captured' = HasSentinel(tail)
        /\ UNCHANGED <<entry, call, eligible, faulted>>
    BY <1>8 DEF StreamEnds, callVars
  <2> QED BY <2>1 DEF HasSentinel
<1>9. CASE Emit
  <2>1. pc' \in {"speak", "flush", "stream"} /\ UNCHANGED <<entry, call, eligible, ended, captured, faulted>>
    BY <1>9 DEF Emit, callVars
  <2> QED BY <2>1
<1>10. CASE Check
  <2>1. pc' \in {"done", "correct"} /\ UNCHANGED <<entry, call, eligible, ended, captured, faulted>>
    BY <1>10 DEF Check, callVars
  <2> QED BY <2>1
<1>11. CASE Speak
  <2>1. pc' \in {"speak", "flush", "stream"} /\ UNCHANGED <<entry, call, eligible, ended, captured, faulted>>
    BY <1>11 DEF Speak, callVars, textVars
  <2> QED BY <2>1
<1>12. CASE Flush
  <2>1. pc' = "check" /\ UNCHANGED <<entry, call, eligible, ended, captured, faulted>>
    BY <1>12 DEF Flush, callVars, textVars
  <2> QED BY <2>1
<1>13. CASE Farewell
  <2>1. pc' = "done" /\ UNCHANGED <<entry, call, eligible, ended, captured, faulted>>
    BY <1>13 DEF Farewell, callVars
  <2> QED BY <2>1
<1>14. CASE Correct
  <2>1. pc' = "done" /\ UNCHANGED <<entry, call, eligible, ended, captured, faulted>>
    BY <1>14 DEF Correct, callVars
  <2> QED BY <2>1
<1>15. CASE Halt
  BY <1>15 DEF Halt, callVars, textVars
<1>16. CASE Others
  BY <1>16 DEF Others, textVars
<1> QED BY <1>1, <1>2, <1>3, <1>4, <1>5, <1>6, <1>7, <1>8, <1>9, <1>10, <1>11, <1>12, <1>13, <1>14, <1>15, <1>16
     DEF Next, TurnStep, CallStep, TextStep, SpeechStep

LEMMA TailNext ==
  ASSUME TextInv, ShortTail, Next
  PROVE  ShortTail'
<1>1. CASE \E n \in 1 .. MaxChunk : Receive(n)
  <2>1. PICK n \in 1 .. MaxChunk : Receive(n)
    BY <1>1
  <2>2. ~eligible => Len(tail') <= 3
    BY <2>1, TextReceive DEF ShortTail
  <2>3. eligible' = eligible
    BY <2>1 DEF Receive, callVars
  <2> QED BY <2>2, <2>3 DEF ShortTail
<1>2. CASE StreamEnds
  <2>1. tail' = <<>>
    BY <1>2 DEF StreamEnds
  <2> QED BY <2>1, EmptyText DEF ShortTail
<1>3. CASE ~(\E n \in 1 .. MaxChunk : Receive(n)) /\ ~StreamEnds
  <2>1. UNCHANGED <<tail, eligible>>
    BY <1>3 DEF Next, TurnStep, CallStep, TextStep, SpeechStep, GetCache, OpenStream, Busy, ServerError, OtherError,
                StreamError, Emit, Check, Speak, Flush, Farewell, Correct, Halt, Others, textVars, callVars
  <2> QED BY <2>1 DEF ShortTail
<1> QED BY <1>1, <1>2, <1>3

LEMMA SpeechNext ==
  ASSUME SpeechTypes, Voiced, Next
  PROVE  SpeechTypes' /\ Voiced'
<1>1. CASE Speak
  <2>1. /\ pc = "speak" /\ Synthesize("answer", Head(wrap.queue), wrap.seq, wrap.voice) /\ Heard
        /\ wrap' = [wrap EXCEPT !.queue = Tail(@), !.seq = @ + 1, !.voice = Last(spoken').voice]
    BY <1>1 DEF Speak
  <2>2. wrap' = [buffer |-> wrap.buffer, queue |-> Tail(wrap.queue), seq |-> wrap.seq + 1, voice |-> Last(spoken').voice]
    BY <2>1 DEF SpeechTypes
  <2>3. pc # "done"
    BY <2>1
  <2> QED BY <2>1, <2>2, <2>3, SpeechSpeak
<1>2. CASE Flush /\ Strip(wrap.buffer) # <<>>
  <2>1. /\ pc = "flush" /\ Synthesize("answer", Strip(wrap.buffer), wrap.seq, wrap.voice) /\ Heard
        /\ wrap' = [wrap EXCEPT !.buffer = <<>>, !.voice = Last(spoken').voice]
    BY <1>2 DEF Flush
  <2>2. wrap' = [buffer |-> <<>>, queue |-> wrap.queue, seq |-> wrap.seq, voice |-> Last(spoken').voice]
    BY <2>1 DEF SpeechTypes
  <2>3. pc # "done"
    BY <2>1
  <2> QED BY <2>1, <2>2, <2>3, SpeechSpeak
<1>3. CASE Farewell
  <2>1. /\ pc' = "done" /\ UNCHANGED <<wrap, lastSeq>> /\ Synthesize("farewell", FAREWELL, lastSeq + 1, voice)
        /\ voice' = IF voice = None THEN Last(spoken').voice ELSE voice
    BY <1>3 DEF Farewell
  <2> QED BY <2>1, SpeechLast
<1>4. CASE Correct
  <2>1. /\ pc' = "done" /\ UNCHANGED <<wrap, lastSeq>> /\ Synthesize("question", pending, lastSeq + 1, voice)
        /\ voice' = IF voice = None THEN Last(spoken').voice ELSE voice
    BY <1>4 DEF Correct
  <2> QED BY <2>1, SpeechLast
<1>5. CASE Emit
  <2>1. /\ pc = "emit" /\ UNCHANGED <<voice, lastSeq, spoken>>
        /\ wrap' = [wrap EXCEPT !.buffer = Remainder(@ \o pending), !.queue = Complete(wrap.buffer \o pending)]
    BY <1>5 DEF Emit
  <2>2. wrap' = [buffer |-> Remainder(wrap.buffer \o pending), queue |-> Complete(wrap.buffer \o pending),
                 seq |-> wrap.seq, voice |-> wrap.voice]
    BY <2>1 DEF SpeechTypes
  <2>3. pc # "done"
    BY <2>1
  <2> QED BY <2>1, <2>2, <2>3, SameSpeech
<1>6. CASE ~Speak /\ ~(Flush /\ Strip(wrap.buffer) # <<>>) /\ ~Farewell /\ ~Correct /\ ~Emit
  <2>1. UNCHANGED <<voice, lastSeq, spoken, wrap>> /\ pc # "done"
    <3>1. CASE GetCache \/ OpenStream \/ StreamError \/ Halt \/ Others
      BY <3>1 DEF GetCache, OpenStream, StreamError, Halt, Others, speechVars
    <3>2. CASE Busy \/ ServerError \/ OtherError
      BY <3>2 DEF Busy, ServerError, OtherError, speechVars
    <3>3. CASE \E n \in 1 .. MaxChunk : Receive(n)
      BY <3>3 DEF Receive, speechVars
    <3>4. CASE StreamEnds
      BY <3>4 DEF StreamEnds, speechVars
    <3>5. CASE Check
      BY <3>5 DEF Check, speechVars
    <3>6. CASE Flush
      BY <1>6, <3>6 DEF Flush
    <3> QED BY <1>6, <3>1, <3>2, <3>3, <3>4, <3>5, <3>6 DEF Next, TurnStep, CallStep, TextStep, SpeechStep
  <2> QED BY <2>1, SameSpeech
<1> QED BY <1>1, <1>2, <1>3, <1>4, <1>5, <1>6

LEMMA StreamStep == StreamInv /\ [Next]_vars => StreamInv'
<1> SUFFICES ASSUME StreamInv, [Next]_vars PROVE StreamInv'
  OBVIOUS
<1>1. TextInv /\ CallTypes /\ ShortTail /\ SpeechTypes /\ Voiced
  BY DEF StreamInv
<1>2. CASE Next
  BY <1>1, <1>2, TextNext, CallNext, TailNext, SpeechNext DEF StreamInv, ShortTail
<1>3. CASE UNCHANGED vars
  <2>0. UNCHANGED <<pc, entry, call, eligible, answer, got, ended, tail, captured, pending, sent, wrap, voice, lastSeq,
                    spoken, checked, faulted>>
    BY <1>3 DEF vars, callVars, textVars, speechVars
  <2>1. TextInv'
    BY <1>1, <2>0, SameTexts DEF textVars
  <2>2. CallTypes' /\ ShortTail' /\ SpeechTypes' /\ Voiced'
    BY <1>1, <2>0 DEF CallTypes, ShortTail, SpeechTypes, Voiced
  <2> QED BY <2>1, <2>2 DEF StreamInv
<1> QED BY <1>2, <1>3

LEMMA StreamInvariant == Spec => []StreamInv
  BY StreamInit, StreamStep, PTL DEF Spec

-----------------------------------------------------------------------------
(***************************************************************************)
(* The inductive invariant of the speech.  At every place of the stream    *)
(* what was uttered, waits to be and is buffered says together what was    *)
(* sent.  That alone is not inductive: Emit puts new sentences in the      *)
(* place of the queue, so it must be empty there, and the buffer may have  *)
(* no word left when the interceptors run.                                 *)
(***************************************************************************)
Parts == [i \in DOMAIN spoken |-> IF spoken[i].kind = "answer" THEN spoken[i].text ELSE <<>>]

Balanced == Cat(Cat(Said(Parts), Said(wrap.queue)), Words(wrap.buffer)) = Words(sent)

SpeechInv ==
  /\ Parts \in Seq(Text) /\ wrap.queue \in Seq(Text) /\ wrap.buffer \in Text
  /\ pc \in {"cache", "request"} => Parts = <<>> /\ wrap.queue = <<>> /\ wrap.buffer = <<>>
  /\ pc \in {"stream", "emit", "flush", "check"} => wrap.queue = <<>>
  /\ pc = "speak" => wrap.queue # <<>>
  /\ pc = "check" => Words(wrap.buffer) = <<>>
  /\ pc \in {"stream", "emit", "speak", "flush", "check"} => Balanced

LEMMA SpeechInit == Init => SpeechInv
<1> SUFFICES ASSUME Init PROVE SpeechInv
  OBVIOUS
<1>1. /\ pc = "cache" /\ spoken = <<>>
      /\ wrap = [buffer |-> <<>>, queue |-> <<>>, seq |-> 0, voice |-> voice]
  BY DEF Init
<1>2. Parts = <<>>
  BY <1>1 DEF Parts
<1>3. wrap.queue = <<>> /\ wrap.buffer = <<>> /\ <<>> \in Seq(Text) /\ <<>> \in Text
  BY <1>1, EmptyText
<1> QED BY <1>1, <1>2, <1>3 DEF SpeechInv

(* One more utterance: only one of the answer adds to what was said of it *)
LEMMA PartsUttered ==
  ASSUME \E S : spoken \in Seq(S), Parts \in Seq(Text), NEW kind, NEW text \in Text, NEW number, NEW given,
         Synthesize(kind, text, number, given)
  PROVE  /\ Parts' \in Seq(Text)
         /\ kind = "answer" => Said(Parts') = Cat(Said(Parts), Words(text))
<1> DEFINE x == IF kind = "answer" THEN text ELSE <<>>
<1>1. PICK S : spoken \in Seq(S)
  OBVIOUS
<1>2. PICK ok \in BOOLEAN, v \in (IF given = None THEN Voice ELSE {given}) :
        spoken' = Append(spoken, [kind |-> kind, text |-> text, number |-> number, voice |-> v, ok |-> ok])
  BY DEF Synthesize
<1> DEFINE u == [kind |-> kind, text |-> text, number |-> number, voice |-> v, ok |-> ok]
<1>3. u.kind = kind /\ u.text = text
  OBVIOUS
<1>4. spoken' = Append(spoken, u)
  BY <1>2
<1> HIDE DEF u
<1>5. spoken \in Seq(S \cup {u}) /\ u \in S \cup {u}
  <2>1. S \subseteq S \cup {u}
    OBVIOUS
  <2> QED BY <1>1, <2>1, SeqMonotonic
<1>6. /\ spoken' \in Seq(S \cup {u}) /\ Len(spoken') = Len(spoken) + 1
      /\ \A i \in 1 .. Len(spoken) : spoken'[i] = spoken[i]
      /\ spoken'[Len(spoken) + 1] = u
  BY <1>4, <1>5, AppendProperties
<1>7. Len(spoken) \in Nat /\ DOMAIN spoken = 1 .. Len(spoken) /\ DOMAIN spoken' = 1 .. Len(spoken) + 1
  BY <1>5, <1>6, LenProperties
<1>8. x \in Text
  BY EmptyText
<1>9. /\ Add(Parts, x) \in Seq(Text) /\ Len(Add(Parts, x)) = Len(Parts) + 1
      /\ \A i \in 1 .. Len(Parts) : Add(Parts, x)[i] = Parts[i]
      /\ Add(Parts, x)[Len(Parts) + 1] = x
  BY <1>8, AppendProperties DEF Add
<1>10. Len(Parts) = Len(spoken) /\ DOMAIN Parts = DOMAIN spoken
  <2>1. DOMAIN Parts = DOMAIN spoken
    BY DEF Parts
  <2>2. Len(Parts) \in Nat /\ DOMAIN Parts = 1 .. Len(Parts)
    BY LenProperties
  <2> QED BY <1>7, <2>1, <2>2
<1>11. DOMAIN Parts' = 1 .. Len(spoken) + 1 /\ DOMAIN Add(Parts, x) = 1 .. Len(spoken) + 1
  <2>1. DOMAIN Parts' = DOMAIN spoken'
    BY DEF Parts
  <2>2. DOMAIN Add(Parts, x) = 1 .. Len(Add(Parts, x))
    BY <1>9, LenProperties
  <2> QED BY <1>7, <1>9, <1>10, <2>1, <2>2
<1>12. ASSUME NEW i \in 1 .. Len(spoken) + 1 PROVE Parts'[i] = Add(Parts, x)[i]
  <2>0. Parts'[i] = IF spoken'[i].kind = "answer" THEN spoken'[i].text ELSE <<>>
    BY <1>7 DEF Parts
  <2>1. CASE i \in 1 .. Len(spoken)
    <3>1. Parts[i] = IF spoken[i].kind = "answer" THEN spoken[i].text ELSE <<>>
      BY <1>7, <2>1 DEF Parts
    <3> QED BY <1>6, <1>9, <1>10, <2>0, <2>1, <3>1
  <2>2. CASE i = Len(spoken) + 1
    BY <1>3, <1>6, <1>9, <1>10, <2>0, <2>2
  <2>3. i \in 1 .. Len(spoken) \/ i = Len(spoken) + 1
    BY <1>7
  <2> QED BY <2>1, <2>2, <2>3
<1>13. Parts' = Add(Parts, x)
  <2>1. Parts' = [i \in DOMAIN Parts' |-> Parts'[i]]
    BY DEF Parts
  <2>2. Add(Parts, x) = [i \in 1 .. Len(spoken) + 1 |-> Add(Parts, x)[i]]
    <3>1. Add(Parts, x) \in [1 .. Len(Add(Parts, x)) -> Text]
      BY <1>9, ElementOfSeq, SeqDef
    <3> QED BY <1>9, <1>10, <3>1
  <2> HIDE DEF x
  <2> QED BY <1>11, <1>12, <2>1, <2>2
<1>14. ASSUME kind = "answer" PROVE Said(Parts') = Cat(Said(Parts), Words(text))
  <2>1. x = text
    BY <1>14
  <2>2. FlattenSeq(Add(Parts, text)) = Cat(FlattenSeq(Parts), text) /\ FlattenSeq(Parts) \in Text
    BY FlattenAdd DEF Text
  <2>3. Words(FlattenSeq(Parts) \o text) = Cat(Words(FlattenSeq(Parts)), Words(text))
    BY <2>2, WordsJoined
  <2> QED BY <1>13, <2>1, <2>2, <2>3 DEF Said, Cat
<1> QED BY <1>9, <1>13, <1>14

(* Nothing is said or sent *)
LEMMA SpeechKept ==
  ASSUME SpeechInv, UNCHANGED <<wrap, spoken, sent>>,
         \/ pc' = pc
         \/ pc' \in Over \cup {"farewell", "correct"}
         \/ pc = "cache" /\ pc' = "request"
         \/ pc = "request" /\ pc' = "stream" /\ sent = <<>>
         \/ pc = "stream" /\ pc' \in {"emit", "flush"}
         \/ pc = "flush" /\ pc' = "check" /\ Strip(wrap.buffer) = <<>>
  PROVE  SpeechInv'
<1>1. Parts' = Parts /\ (Balanced' <=> Balanced)
  BY DEF Parts, Balanced
<1>2. Parts \in Seq(Text) /\ wrap.queue \in Seq(Text) /\ wrap.buffer \in Text
  BY DEF SpeechInv
<1>3. CASE pc' = pc
  BY <1>1, <1>3 DEF SpeechInv
<1>4. CASE pc' \in Over \cup {"farewell", "correct"}
  BY <1>1, <1>4 DEF SpeechInv, Over
<1>5. CASE pc = "cache" /\ pc' = "request"
  BY <1>1, <1>5 DEF SpeechInv
<1>6. CASE pc = "request" /\ pc' = "stream" /\ sent = <<>>
  <2>1. Parts = <<>> /\ wrap.queue = <<>> /\ wrap.buffer = <<>>
    BY <1>6 DEF SpeechInv
  <2>2. Said(<<>>) = <<>> /\ Words(<<>>) = <<>> /\ Cat(<<>>, <<>>) = <<>>
    BY SaidFacts, WordsEmpty, EmptyText, CatFacts DEF Text
  <2>3. Balanced
    BY <1>6, <2>1, <2>2 DEF Balanced
  <2> QED BY <1>1, <1>2, <1>6, <2>1, <2>3 DEF SpeechInv
<1>7. CASE pc = "stream" /\ pc' \in {"emit", "flush"}
  BY <1>1, <1>7 DEF SpeechInv
<1>8. CASE pc = "flush" /\ pc' = "check" /\ Strip(wrap.buffer) = <<>>
  <2>1. Words(wrap.buffer) = <<>>
    BY <1>2, <1>8, WordsStripped
  <2> QED BY <1>1, <1>8, <2>1 DEF SpeechInv
<1> QED BY <1>3, <1>4, <1>5, <1>6, <1>7, <1>8

(* A chunk goes out: its sentences wait to be said, the rest is buffered *)
LEMMA SpeechEmit ==
  ASSUME SpeechInv, SpeechTypes, sent \in Text, pending \in Text, Emit
  PROVE  SpeechInv'
<1> DEFINE s == wrap.buffer \o pending
           u == Said(Parts)
           b == Words(wrap.buffer)
           w == Words(pending)
<1>1. /\ pc = "emit" /\ sent' = sent \o pending /\ spoken' = spoken
      /\ wrap' = [wrap EXCEPT !.buffer = Remainder(s), !.queue = Complete(s)]
      /\ pc' = IF wrap'.queue # <<>> THEN "speak" ELSE IF ended THEN "flush" ELSE "stream"
  BY DEF Emit
<1>2. wrap'.buffer = Remainder(s) /\ wrap'.queue = Complete(s)
  BY <1>1 DEF SpeechTypes
<1>3. Parts' = Parts
  BY <1>1 DEF Parts
<1>4. Parts \in Seq(Text) /\ wrap.queue = <<>> /\ wrap.buffer \in Text /\ Balanced
  BY <1>1 DEF SpeechInv
<1>5. s \in Text
  BY <1>4, Joined
<1>6. Complete(s) \in Seq(Text) /\ Remainder(s) \in Text /\ Cat(Said(Complete(s)), Words(Remainder(s))) = Words(s)
  BY <1>5, SentencesSay
<1>7. Words(s) = Cat(b, w) /\ Words(sent \o pending) = Cat(Words(sent), w)
  BY <1>4, WordsJoined
<1>8. /\ u \in Text /\ b \in Text /\ w \in Text /\ Said(Complete(s)) \in Text /\ Words(Remainder(s)) \in Text
  BY <1>4, <1>6, SaidFacts, LettersType
<1>9. Cat(u, b) = Words(sent)
  <2>1. Cat(Cat(u, <<>>), b) = Words(sent)
    BY <1>4, SaidFacts DEF Balanced
  <2>2. Cat(u, <<>>) = u
    BY <1>8, CatFacts DEF Text
  <2> QED BY <2>1, <2>2
<1>10. Cat(Cat(u, Said(Complete(s))), Words(Remainder(s))) = Words(sent \o pending)
  <2>1. Cat(Cat(u, Said(Complete(s))), Words(Remainder(s))) = Cat(u, Cat(Said(Complete(s)), Words(Remainder(s))))
    BY <1>8, CatFacts DEF Text
  <2>2. Cat(u, Cat(b, w)) = Cat(Cat(u, b), w)
    BY <1>8, CatFacts DEF Text
  <2> QED BY <1>6, <1>7, <1>9, <2>1, <2>2
<1>11. Balanced'
  BY <1>1, <1>2, <1>3, <1>10 DEF Balanced
<1> HIDE DEF s, u, b, w
<1>12. pc' \in {"speak", "flush", "stream"} /\ (pc' = "speak" <=> wrap'.queue # <<>>)
  BY <1>1
<1> QED BY <1>2, <1>3, <1>4, <1>6, <1>11, <1>12 DEF SpeechInv

(* The next sentence goes from the queue into what was said *)
LEMMA SpeechUttered ==
  ASSUME SpeechInv, SpeechTypes, sent \in Text, Speak
  PROVE  SpeechInv'
<1> DEFINE h == Head(wrap.queue)
           t == Tail(wrap.queue)
           u == Said(Parts)
           b == Words(wrap.buffer)
<1>1. /\ pc = "speak" /\ sent' = sent /\ Synthesize("answer", h, wrap.seq, wrap.voice)
      /\ wrap' = [wrap EXCEPT !.queue = Tail(@), !.seq = @ + 1, !.voice = Last(spoken').voice]
      /\ pc' = IF wrap'.queue # <<>> THEN "speak" ELSE IF ended THEN "flush" ELSE "stream"
  BY DEF Speak, textVars
<1>2. wrap'.buffer = wrap.buffer /\ wrap'.queue = t
  BY <1>1 DEF SpeechTypes
<1>3. Parts \in Seq(Text) /\ wrap.queue \in Seq(Text) /\ wrap.queue # <<>> /\ wrap.buffer \in Text /\ Balanced
  BY <1>1 DEF SpeechInv
<1>4. h \in Text /\ t \in Seq(Text) /\ wrap.queue = <<h>> \o t
  BY <1>3, HeadTailProperties
<1>5. Parts' \in Seq(Text) /\ Said(Parts') = Cat(u, Words(h))
  <2>1. \E S : spoken \in Seq(S)
    BY DEF SpeechTypes
  <2> HIDE DEF h, t
  <2> QED BY <1>1, <1>3, <1>4, <2>1, PartsUttered
<1> HIDE DEF h, t
<1>6. Said(wrap.queue) = Cat(Words(h), Said(t))
  <2>1. <<h>> \in Seq(Text) /\ Said(<<h>>) = Words(h)
    BY <1>4, SaidFacts
  <2>2. wrap.queue = Cat(<<h>>, t)
    BY <1>4 DEF Cat
  <2> QED BY <1>4, <2>1, <2>2, SaidFacts
<1>7. u \in Text /\ Words(h) \in Text /\ Said(t) \in Text
  BY <1>3, <1>4, SaidFacts, LettersType
<1>8. Cat(Cat(u, Words(h)), Said(t)) = Cat(u, Cat(Words(h), Said(t)))
  BY <1>7, CatFacts DEF Text
<1>9. Balanced'
  BY <1>1, <1>2, <1>3, <1>5, <1>6, <1>8 DEF Balanced
<1>10. pc' \in {"speak", "flush", "stream"} /\ (pc' = "speak" <=> wrap'.queue # <<>>)
  BY <1>1
<1> HIDE DEF u, b
<1> QED BY <1>2, <1>3, <1>4, <1>5, <1>9, <1>10 DEF SpeechInv

(* What is left in the buffer is said, too *)
LEMMA SpeechFlushed ==
  ASSUME SpeechInv, SpeechTypes, sent \in Text, Flush, Strip(wrap.buffer) # <<>>
  PROVE  SpeechInv'
<1> DEFINE x == Strip(wrap.buffer)
           u == Said(Parts)
<1>1. /\ pc = "flush" /\ pc' = "check" /\ sent' = sent /\ Synthesize("answer", x, wrap.seq, wrap.voice)
      /\ wrap' = [wrap EXCEPT !.buffer = <<>>, !.voice = Last(spoken').voice]
  BY DEF Flush, textVars
<1>2. wrap'.buffer = <<>> /\ wrap'.queue = wrap.queue
  BY <1>1 DEF SpeechTypes
<1>3. Parts \in Seq(Text) /\ wrap.queue = <<>> /\ wrap.queue \in Seq(Text) /\ wrap.buffer \in Text /\ Balanced
  BY <1>1 DEF SpeechInv
<1>4. x \in Text /\ Words(x) = Words(wrap.buffer)
  BY <1>3, WordsStripped
<1>5. Parts' \in Seq(Text) /\ Said(Parts') = Cat(u, Words(x))
  <2>1. \E S : spoken \in Seq(S)
    BY DEF SpeechTypes
  <2> HIDE DEF x
  <2> QED BY <1>1, <1>3, <1>4, <2>1, PartsUttered
<1> HIDE DEF x
<1>6. u \in Text /\ Words(x) \in Text /\ Cat(u, Words(x)) \in Text
  BY <1>3, <1>4, SaidFacts, LettersType, CatFacts DEF Text
<1>7. Cat(u, Words(x)) = Words(sent)
  <2>1. Cat(Cat(u, <<>>), Words(x)) = Words(sent)
    BY <1>3, <1>4, SaidFacts DEF Balanced
  <2>2. Cat(u, <<>>) = u
    BY <1>6, CatFacts DEF Text
  <2> QED BY <2>1, <2>2
<1>8. Cat(Cat(Cat(u, Words(x)), Said(<<>>)), Words(<<>>)) = Words(sent)
  <2>1. Said(<<>>) = <<>> /\ Words(<<>>) = <<>>
    BY SaidFacts, WordsEmpty
  <2>2. Cat(Cat(u, Words(x)), <<>>) = Cat(u, Words(x))
    BY <1>6, CatFacts DEF Text
  <2> QED BY <1>7, <2>1, <2>2
<1>9. Balanced'
  BY <1>1, <1>2, <1>3, <1>5, <1>8 DEF Balanced
<1> HIDE DEF u
<1> QED BY <1>1, <1>2, <1>3, <1>5, <1>9, EmptyText, WordsEmpty DEF SpeechInv

(* The goodbye and the correction are heard beside the speech of the answer *)
LEMMA SpeechBeside ==
  ASSUME SpeechInv, SpeechTypes, NEW kind, NEW text \in Text, kind # "answer", NEW n,
         Synthesize(kind, text, n, voice), pc' = "done", UNCHANGED wrap
  PROVE  SpeechInv'
<1>1. Parts \in Seq(Text) /\ wrap.queue \in Seq(Text) /\ wrap.buffer \in Text /\ \E S : spoken \in Seq(S)
  BY DEF SpeechInv, SpeechTypes
<1>2. Parts' \in Seq(Text)
  BY <1>1, PartsUttered
<1> QED BY <1>1, <1>2 DEF SpeechInv

LEMMA SpeechInvStep ==
  ASSUME StreamInv, SpeechInv, Next
  PROVE  SpeechInv'
<1>0. TextInv /\ SpeechTypes /\ sent \in Text /\ pending \in Text
  BY DEF StreamInv, TextInv, TextTypes
<1>1. CASE GetCache \/ Others
  <2>1. UNCHANGED <<wrap, spoken, sent>> /\ (pc' = pc \/ (pc = "cache" /\ pc' = "request"))
    BY <1>1 DEF GetCache, Others, textVars, speechVars
  <2> QED BY <2>1, SpeechKept
<1>2. CASE OpenStream
  <2>1. UNCHANGED <<wrap, spoken, sent>> /\ pc = "request" /\ pc' = "stream"
    BY <1>2 DEF OpenStream, speechVars
  <2>2. sent = <<>>
    BY <1>0, <2>1 DEF TextInv, Stages
  <2> QED BY <2>1, <2>2, SpeechKept
<1>3. CASE Busy \/ ServerError \/ OtherError \/ StreamError \/ Halt
  <2>1. UNCHANGED <<wrap, spoken, sent>> /\ (pc' = pc \/ pc' \in Over)
    BY <1>3 DEF Busy, ServerError, OtherError, StreamError, Halt, Raise, Over, textVars, speechVars
  <2> QED BY <2>1, SpeechKept
<1>4. CASE \E n \in 1 .. MaxChunk : Receive(n)
  <2>1. PICK n \in 1 .. MaxChunk : Receive(n)
    BY <1>4
  <2>2. UNCHANGED <<wrap, spoken, sent>> /\ pc = "stream" /\ pc' \in {"stream", "emit"}
    BY <2>1 DEF Receive, speechVars
  <2> QED BY <2>2, SpeechKept
<1>5. CASE StreamEnds
  <2>1. UNCHANGED <<wrap, spoken, sent>> /\ pc = "stream" /\ pc' \in {"farewell", "emit", "flush"}
    BY <1>5 DEF StreamEnds, speechVars
  <2> QED BY <2>1, SpeechKept
<1>6. CASE Emit
  BY <1>0, <1>6, SpeechEmit
<1>7. CASE Check
  <2>1. UNCHANGED <<wrap, spoken, sent>> /\ pc' \in {"done", "correct"}
    BY <1>7 DEF Check, speechVars
  <2> QED BY <2>1, SpeechKept DEF Over
<1>8. CASE Speak
  BY <1>0, <1>8, SpeechUttered
<1>9. CASE Flush /\ Strip(wrap.buffer) # <<>>
  BY <1>0, <1>9, SpeechFlushed
<1>10. CASE Flush /\ Strip(wrap.buffer) = <<>>
  <2>1. UNCHANGED <<wrap, spoken, sent>> /\ pc = "flush" /\ pc' = "check"
    BY <1>10 DEF Flush, textVars
  <2> QED BY <1>10, <2>1, SpeechKept
<1>11. CASE Farewell
  <2>1. Synthesize("farewell", FAREWELL, lastSeq + 1, voice) /\ pc' = "done" /\ UNCHANGED wrap
    BY <1>11 DEF Farewell
  <2>2. FAREWELL \in Text
    BY DEF FAREWELL, Stop, Text, Unit
  <2> QED BY <1>0, <2>1, <2>2, SpeechBeside
<1>12. CASE Correct
  <2>1. Synthesize("question", pending, lastSeq + 1, voice) /\ pc' = "done" /\ UNCHANGED wrap
    BY <1>12 DEF Correct
  <2> QED BY <1>0, <2>1, SpeechBeside
<1> QED BY <1>1, <1>2, <1>3, <1>4, <1>5, <1>6, <1>7, <1>8, <1>9, <1>10, <1>11, <1>12
     DEF Next, TurnStep, CallStep, TextStep, SpeechStep

LEMMA SpeechStutters == SpeechInv /\ UNCHANGED vars => SpeechInv'
<1> SUFFICES ASSUME SpeechInv, UNCHANGED vars PROVE SpeechInv'
  OBVIOUS
<1>1. UNCHANGED <<wrap, spoken, sent>> /\ pc' = pc
  BY DEF vars, textVars, speechVars
<1> QED BY <1>1, SpeechKept

LEMMA SpeechInvariant == Spec => []SpeechInv
<1>1. StreamInv /\ SpeechInv /\ [Next]_vars => SpeechInv'
  BY SpeechInvStep, SpeechStutters
<1> QED BY <1>1, SpeechInit, StreamInvariant, PTL DEF Spec

-----------------------------------------------------------------------------
(***************************************************************************)
(* A forgotten cache alone fails no turn: the first error with a cache     *)
(* leaves an attempt, and the attempt after it has none to forget ("drop   *)
(* it once and fall back to an inline-prefix retry").                      *)
(***************************************************************************)
FailsForAFault == pc = "failed" => faulted

(* Inductive: what is known of the call before anything else went wrong *)
CacheInv ==
  /\ FailsForAFault
  /\ pc = "cache" => call.handle = "inline"
  /\ pc \in {"cache", "request"} /\ ~faulted /\ (pc = "request" => call.handle # "inline") =>
       call.attempt = 0 /\ call.dropped = FALSE

LEMMA CacheInit == Init => CacheInv
<1> SUFFICES ASSUME Init PROVE CacheInv
  OBVIOUS
<1>1. pc = "cache" /\ call = [handle |-> "inline", attempt |-> 0, dropped |-> FALSE] /\ faulted = FALSE
  BY DEF Init
<1>2. call.handle = "inline" /\ call.attempt = 0 /\ call.dropped = FALSE
  BY <1>1
<1> QED BY <1>1, <1>2 DEF CacheInv, FailsForAFault

LEMMA CacheStep == StreamInv /\ CacheInv /\ [Next]_vars => CacheInv'
<1> SUFFICES ASSUME CallTypes, CacheInv, [Next]_vars PROVE CacheInv'
  BY DEF StreamInv
<1>0. /\ pc = "failed" => faulted
      /\ pc = "cache" => call.handle = "inline"
      /\ pc \in {"cache", "request"} /\ ~faulted /\ (pc = "request" => call.handle # "inline") =>
           call.attempt = 0 /\ call.dropped = FALSE
  BY DEF CacheInv, FailsForAFault
<1> USE DEF CacheInv, FailsForAFault
<1>1. CASE GetCache
  <2>1. /\ pc = "cache" /\ pc' = "request" /\ faulted' = faulted
        /\ call' = call \/ call' = [call EXCEPT !.handle = entry] \/ call' = [call EXCEPT !.handle = "live"]
    BY <1>1 DEF GetCache
  <2>2. call'.attempt = call.attempt /\ call'.dropped = call.dropped
    BY <2>1 DEF CallTypes
  <2> QED BY <1>0, <2>1, <2>2
<1>2. CASE Others
  <2>1. /\ pc' = pc /\ faulted' = faulted
        /\ call' = call \/ (call.handle = "live" /\ call' = [call EXCEPT !.handle = "dead"])
    BY <1>2 DEF Others
  <2>2. CASE call' = call
    BY <1>0, <2>1, <2>2
  <2>3. CASE call.handle = "live" /\ call' = [call EXCEPT !.handle = "dead"]
    <3>1. call'.attempt = call.attempt /\ call'.dropped = call.dropped
      BY <2>3 DEF CallTypes
    <3> QED BY <1>0, <2>1, <2>3, <3>1
  <2> QED BY <2>1, <2>2, <2>3
<1>3. CASE OtherError
  <2>1. /\ pc = "request" /\ faulted' = (faulted \/ call.handle # "dead")
        /\ IF call.handle # "inline" /\ ~call.dropped /\ call.attempt < 2
           THEN pc' = pc /\ call' = [handle |-> "inline", attempt |-> call.attempt + 1, dropped |-> TRUE]
           ELSE pc' = "failed"
    BY <1>3 DEF OtherError, Raise, MAX_ATTEMPTS
  <2>2. CASE call.handle # "inline" /\ ~call.dropped /\ call.attempt < 2
    <3>1. pc' = "request" /\ call'.handle = "inline"
      BY <2>1, <2>2
    <3> QED BY <3>1
  <2>3. CASE ~(call.handle # "inline" /\ ~call.dropped /\ call.attempt < 2)
    <3>1. pc' = "failed"
      BY <2>1, <2>3
    <3>2. faulted'
      <4>1. CASE faulted \/ call.handle # "dead"
        BY <2>1, <4>1
      <4>2. CASE ~faulted /\ call.handle = "dead"
        <5>1. call.attempt = 0 /\ call.dropped = FALSE
          BY <1>0, <2>1, <4>2
        <5> QED BY <2>3, <4>2, <5>1
      <4> QED BY <4>1, <4>2
    <3> QED BY <3>1, <3>2
  <2> QED BY <2>2, <2>3
<1>4. CASE Busy \/ ServerError \/ StreamError
  <2>1. faulted' = TRUE /\ pc' \in {pc, "failed"} /\ pc \in {"request", "stream"}
    BY <1>4 DEF Busy, ServerError, StreamError, Raise
  <2> QED BY <2>1
<1>5. CASE OpenStream \/ (\E n \in 1 .. MaxChunk : Receive(n)) \/ StreamEnds \/ Emit \/ Check
            \/ Speak \/ Flush \/ Farewell \/ Correct \/ Halt
  <2>1. pc' \notin {"cache", "request", "failed"}
    BY <1>5 DEF OpenStream, Receive, StreamEnds, Emit, Check, Speak, Flush, Farewell, Correct, Halt
  <2> QED BY <2>1
<1>6. CASE UNCHANGED vars
  <2>1. UNCHANGED <<pc, call, faulted>>
    BY <1>6 DEF vars, callVars
  <2> QED BY <1>0, <2>1
<1> QED BY <1>1, <1>2, <1>3, <1>4, <1>5, <1>6 DEF Next, TurnStep, CallStep, TextStep, SpeechStep

-----------------------------------------------------------------------------
(***************************************************************************)
(* How far a turn is from its end: the stage it is in; within the request  *)
(* the attempts, within the stream the units to come; behind a chunk the   *)
(* places up to the next one; and the sentences to say.                    *)
(***************************************************************************)
Stage ==
  CASE pc = "cache" -> 6
    [] pc = "request" -> 5
    [] pc \in {"stream", "emit", "speak"} -> 4
    [] pc = "flush" -> 3
    [] pc \in {"check", "farewell"} -> 2
    [] pc = "correct" -> 1
    [] OTHER -> 0

Ahead ==
  CASE pc = "request" -> MAX_ATTEMPTS - call.attempt
    [] pc \in {"stream", "emit", "speak"} -> Len(answer) - got + (IF ended THEN 0 ELSE 1)
    [] OTHER -> 0

Talk == IF pc = "emit" THEN 2 ELSE IF pc = "speak" THEN 1 ELSE 0

Unsaid == Len(wrap.queue)

Far(a, b, c, d) == <<a, <<b, <<c, d>>>>>>
Distance == Far(Stage, Ahead, Talk, Unsaid)

(* Distances in the order of the dictionary *)
Below == OpToRel(<, Nat)
Closer ==
  LexPairOrdering(Below, LexPairOrdering(Below, LexPairOrdering(Below, Below, Nat, Nat), Nat, Nat \X Nat),
                  Nat, Nat \X (Nat \X Nat))

LEMMA CloserIsWellFounded == IsWellFoundedOn(Closer, Nat \X (Nat \X (Nat \X Nat)))
<1>1. IsWellFoundedOn(Below, Nat)
  BY NatLessThanWellFounded DEF Below
<1>2. IsWellFoundedOn(LexPairOrdering(Below, Below, Nat, Nat), Nat \X Nat)
  BY <1>1, WFLexPairOrdering
<1>3. IsWellFoundedOn(LexPairOrdering(Below, LexPairOrdering(Below, Below, Nat, Nat), Nat, Nat \X Nat),
                      Nat \X (Nat \X Nat))
  BY <1>1, <1>2, WFLexPairOrdering
<1> QED BY <1>1, <1>3, WFLexPairOrdering DEF Closer

LEMMA InDictionary ==
  ASSUME NEW a \in Nat, NEW b \in Nat, NEW c \in Nat, NEW d \in Nat,
         NEW e \in Nat, NEW f \in Nat, NEW g \in Nat, NEW h \in Nat,
         \/ a < e
         \/ a = e /\ b < f
         \/ a = e /\ b = f /\ c < g
         \/ a = e /\ b = f /\ c = g /\ d < h
  PROVE  <<Far(a, b, c, d), Far(e, f, g, h)>> \in Closer
<1>1. \A i, j \in Nat : i < j => <<i, j>> \in Below
  BY DEF Below, OpToRel
<1>2. ASSUME c < g \/ (c = g /\ d < h)
      PROVE  << <<c, d>>, <<g, h>> >> \in LexPairOrdering(Below, Below, Nat, Nat)
  BY <1>1, <1>2 DEF LexPairOrdering
<1> DEFINE L == LexPairOrdering(Below, Below, Nat, Nat)
           M == LexPairOrdering(Below, L, Nat, Nat \X Nat)
<1> HIDE DEF L
<1>3. ASSUME b < f \/ (b = f /\ << <<c, d>>, <<g, h>> >> \in L)
      PROVE  << <<b, <<c, d>>>>, <<f, <<g, h>>>> >> \in M
  BY <1>1, <1>3 DEF LexPairOrdering
<1> HIDE DEF M
<1>4. ASSUME a < e \/ (a = e /\ << <<b, <<c, d>>>>, <<f, <<g, h>>>> >> \in M)
      PROVE  << <<a, <<b, <<c, d>>>>>>, <<e, <<f, <<g, h>>>>>> >> \in LexPairOrdering(Below, M, Nat, Nat \X (Nat \X Nat))
  BY <1>1, <1>4 DEF LexPairOrdering
<1> QED BY <1>2, <1>3, <1>4 DEF Closer, Far, L, M

LEMMA DistanceType ==
  StreamInv /\ SpeechInv => Stage \in Nat /\ Ahead \in Nat /\ Talk \in Nat /\ Unsaid \in Nat
<1> SUFFICES ASSUME StreamInv, SpeechInv PROVE Stage \in Nat /\ Ahead \in Nat /\ Talk \in Nat /\ Unsaid \in Nat
  OBVIOUS
<1>1. /\ call.attempt \in 0 .. 2 /\ got \in 0 .. Len(answer) /\ Len(answer) \in Nat /\ Len(wrap.queue) \in Nat
  BY Texts, LenProperties DEF StreamInv, CallTypes, TextInv, TextTypes, Shaped, SpeechInv
<1>2. Stage \in Nat /\ Talk \in Nat /\ Unsaid \in Nat
  BY <1>1 DEF Stage, Talk, Unsaid
<1>3. Ahead \in Nat
  BY <1>1 DEF Ahead, MAX_ATTEMPTS
<1> QED BY <1>2, <1>3

(* A step comes nearer when it gets to a later stage, or stays in one and uses up something of it *)
LEMMA ComesNearer ==
  ASSUME StreamInv, SpeechInv, StreamInv', SpeechInv',
         \/ Stage' < Stage
         \/ Stage' = Stage /\ Ahead' < Ahead
         \/ Stage' = Stage /\ Ahead' = Ahead /\ Talk' < Talk
         \/ Stage' = Stage /\ Ahead' = Ahead /\ Talk' = Talk /\ Unsaid' < Unsaid
  PROVE  <<Distance', Distance>> \in Closer
<1>1. PICK e \in Nat, f \in Nat, g \in Nat, h \in Nat : e = Stage /\ f = Ahead /\ g = Talk /\ h = Unsaid
  BY DistanceType
<1>2. (Stage \in Nat /\ Ahead \in Nat /\ Talk \in Nat /\ Unsaid \in Nat)'
  BY DistanceType, PTL
<1>3. PICK a \in Nat, b \in Nat, c \in Nat, d \in Nat : a = Stage' /\ b = Ahead' /\ c = Talk' /\ d = Unsaid'
  BY <1>2
<1>4. <<Far(a, b, c, d), Far(e, f, g, h)>> \in Closer
  <2>1. \/ a < e
        \/ a = e /\ b < f
        \/ a = e /\ b = f /\ c < g
        \/ a = e /\ b = f /\ c = g /\ d < h
    BY <1>1, <1>3
  <2> QED BY ONLY <2>1, InDictionary
<1>5. Distance' = Far(a, b, c, d) /\ Distance = Far(e, f, g, h)
  BY <1>1, <1>3 DEF Distance
<1> QED BY <1>4, <1>5

LEMMA StepComesNearer ==
  ASSUME StreamInv, SpeechInv, StreamInv', SpeechInv', TurnStep
  PROVE  <<Distance', Distance>> \in Closer
<1> SUFFICES \/ Stage' < Stage
             \/ Stage' = Stage /\ Ahead' < Ahead
             \/ Stage' = Stage /\ Ahead' = Ahead /\ Talk' < Talk
             \/ Stage' = Stage /\ Ahead' = Ahead /\ Talk' = Talk /\ Unsaid' < Unsaid
  BY ComesNearer
<1>0. /\ call.attempt \in 0 .. 2 /\ got \in 0 .. Len(answer) /\ Len(answer) \in Nat /\ ended \in BOOLEAN
      /\ call = [handle |-> call.handle, attempt |-> call.attempt, dropped |-> call.dropped]
  BY Texts DEF StreamInv, CallTypes, TextInv, TextTypes, Shaped
<1>1. CASE GetCache
  <2>1. pc = "cache" /\ pc' = "request"
    BY <1>1 DEF GetCache
  <2> QED BY <2>1 DEF Stage
<1>2. CASE OpenStream
  <2>1. pc = "request" /\ pc' = "stream"
    BY <1>2 DEF OpenStream
  <2> QED BY <2>1 DEF Stage
<1>3. CASE Busy \/ ServerError \/ OtherError
  <2>1. /\ pc = "request"
        /\ \/ pc' = "failed"
           \/ /\ pc' = "request"
              /\ \/ call' = [call EXCEPT !.attempt = @ + 1]
                 \/ call' = [handle |-> "inline", attempt |-> call.attempt + 1, dropped |-> TRUE]
    BY <1>3 DEF Busy, ServerError, OtherError, Raise
  <2>2. CASE pc' = "failed"
    BY <2>1, <2>2 DEF Stage
  <2>3. CASE pc' = "request"
    <3>1. call'.attempt = call.attempt + 1
      BY <1>0, <2>1, <2>3
    <3> QED BY <1>0, <2>1, <2>3, <3>1 DEF Stage, Ahead, MAX_ATTEMPTS
  <2> QED BY <2>1, <2>2, <2>3
<1>4. CASE StreamError
  <2>1. pc = "stream" /\ pc' = "failed"
    BY <1>4 DEF StreamError
  <2> QED BY <2>1 DEF Stage
<1>5. CASE \E n \in 1 .. MaxChunk : Receive(n)
  <2>1. PICK n \in 1 .. MaxChunk : Receive(n)
    BY <1>5
  <2>2. pc = "stream" /\ pc' \in {"stream", "emit"} /\ got' = got + n /\ UNCHANGED <<answer, ended>>
    BY <2>1 DEF Receive
  <2>3. n \in Nat /\ n > 0
    BY BoundsAssumption
  <2> QED BY <1>0, <2>2, <2>3 DEF Stage, Ahead
<1>6. CASE StreamEnds
  <2>1. /\ pc = "stream" /\ pc' \in {"farewell", "emit", "flush"} /\ ended' = TRUE /\ UNCHANGED <<answer, got>>
    BY <1>6 DEF StreamEnds
  <2>2. ended = FALSE
    BY <1>0, <2>1 DEF StreamInv, TextInv, Stages
  <2> QED BY <1>0, <2>1, <2>2 DEF Stage, Ahead
<1>7. CASE Emit
  <2>1. pc = "emit" /\ pc' \in {"speak", "flush", "stream"} /\ UNCHANGED <<answer, got, ended>>
    BY <1>7 DEF Emit
  <2> QED BY <1>0, <2>1 DEF Stage, Ahead, Talk
<1>8. CASE Speak
  <2>1. /\ pc = "speak" /\ pc' \in {"speak", "flush", "stream"} /\ UNCHANGED <<answer, got, ended>>
        /\ wrap' = [wrap EXCEPT !.queue = Tail(@), !.seq = @ + 1, !.voice = Last(spoken').voice]
    BY <1>8 DEF Speak, textVars
  <2>2. wrap'.queue = Tail(wrap.queue)
    BY <2>1 DEF StreamInv, SpeechTypes
  <2>3. wrap.queue \in Seq(Text) /\ wrap.queue # <<>>
    BY <2>1 DEF SpeechInv
  <2>4. Len(wrap'.queue) < Len(wrap.queue)
    <3>1. Len(wrap.queue) \in Nat /\ Len(Tail(wrap.queue)) = Len(wrap.queue) - 1
      BY <2>3, HeadTailProperties, LenProperties
    <3> QED BY <2>2, <3>1
  <2> QED BY <1>0, <2>1, <2>4 DEF Stage, Ahead, Talk, Unsaid
<1>9. CASE Check \/ Flush \/ Farewell \/ Correct \/ Halt
  <2>1. \/ pc = "check" /\ pc' \in {"done", "correct"}
        \/ pc = "flush" /\ pc' = "check"
        \/ pc \in {"farewell", "correct"} /\ pc' = "done"
        \/ pc \in {"emit", "speak", "flush"} /\ pc' = "halted"
    BY <1>9 DEF Check, Flush, Farewell, Correct, Halt
  <2> QED BY <2>1 DEF Stage
<1> QED BY <1>1, <1>2, <1>3, <1>4, <1>5, <1>6, <1>7, <1>8, <1>9 DEF TurnStep, CallStep, TextStep, SpeechStep

LEMMA OthersLeaveDistance == StreamInv /\ Others => Distance' = Distance
<1> SUFFICES ASSUME StreamInv, Others PROVE Distance' = Distance
  OBVIOUS
<1>1. UNCHANGED <<pc, answer, got, ended, wrap>> /\ (call' = call \/ call' = [call EXCEPT !.handle = "dead"])
  BY DEF Others, textVars, speechVars
<1>2. call'.attempt = call.attempt
  BY <1>1 DEF StreamInv, CallTypes
<1> QED BY <1>1, <1>2 DEF Distance, Stage, Ahead, Talk, Unsaid

-----------------------------------------------------------------------------
(* The theorems *)

(***************************************************************************)
(* Every state the turn reaches is well formed: no more than three units   *)
(* are withheld from a turn that cannot close, and an audio frame never    *)
(* has a number beyond those used up.                                      *)
(***************************************************************************)
THEOREM StreamTypeCorrect == Spec => []TypeOK
<1>1. StreamInv => TypeOK
  <2> SUFFICES ASSUME StreamInv PROVE TypeOK
    OBVIOUS
  <2>1. CallTypes /\ ShortTail /\ SpeechTypes /\ got \in 0 .. Len(answer)
    BY DEF StreamInv, TextInv, TextTypes
  <2>2. ~eligible => Len(tail) <= TAIL_SIZE
    BY <2>1, Sizes DEF ShortTail
  <2>3. MAX_ATTEMPTS - 1 = 2
    BY DEF MAX_ATTEMPTS
  <2>4. /\ pc \in Place /\ entry \in {"none", "live", "dead"}
        /\ call.handle \in {"inline", "live", "dead"} /\ call.attempt \in 0 .. MAX_ATTEMPTS - 1
        /\ call.dropped \in BOOLEAN
        /\ eligible \in BOOLEAN /\ ended \in BOOLEAN /\ captured \in BOOLEAN /\ faulted \in BOOLEAN
    BY <2>1, <2>3 DEF CallTypes
  <2>5. /\ voice \in Voice \cup {None} /\ wrap.voice \in Voice \cup {None}
        /\ wrap.seq \in Nat /\ lastSeq \in -1 .. wrap.seq
    BY <2>1 DEF SpeechTypes
  <2> QED BY <2>1, <2>2, <2>4, <2>5 DEF TypeOK, Place
<1> QED BY <1>1, StreamInvariant, PTL

(* A text put together again from its parts begins with the first *)
LEMMA Begins ==
  ASSUME NEW x \in Text, NEW y \in Text, NEW a \in Text, NEW g \in 0 .. Len(a), x \o y = SubSeq(a, 1, g)
  PROVE  IsPrefix(x, a)
<1>1. /\ Len(a) \in Nat /\ g \in Nat /\ g <= Len(a) /\ Len(x) \in Nat /\ Len(y) \in Nat
      /\ SubSeq(x, 1, Len(x)) = x /\ 1 \in Nat /\ 1 <= 1
  BY Texts
<1>2. /\ Len(x \o y) = Len(x) + Len(y)
      /\ \A i \in 1 .. Len(x) : (x \o y)[i] = x[i]
  BY Joined
<1> DEFINE z == SubSeq(a, 1, g)
           w == SubSeq(a, 1, Len(x))
<1>3. Len(z) = (IF 1 <= g THEN g - 1 + 1 ELSE 0) /\ \A i \in 1 .. Len(z) : z[i] = a[1 + i - 1]
  BY <1>1, Part
<1>e. x \o y = z
  OBVIOUS
<1> HIDE DEF z
<1>4. Len(x) <= Len(a) /\ \A i \in 1 .. Len(x) : i \in 1 .. Len(z)
  <2>1. Len(z) = g
    BY <1>1, <1>3
  <2>2. Len(x) + Len(y) = g
    BY <1>2, <1>e, <2>1
  <2> QED BY <1>1, <2>1, <2>2
<1>5. w \in Text /\ Len(w) = (IF 1 <= Len(x) THEN Len(x) - 1 + 1 ELSE 0) /\ \A i \in 1 .. Len(w) : w[i] = a[1 + i - 1]
  BY <1>1, <1>4, Part
<1> HIDE DEF w
<1>6. Len(w) = Len(x)
  BY <1>1, <1>5
<1>7. \A i \in 1 .. Len(w) : w[i] = x[i]
  BY <1>2, <1>3, <1>4, <1>5, <1>6, <1>e
<1>8. w = x
  BY <1>5, <1>6, <1>7, SameText
<1> QED BY <1>1, <1>4, <1>8 DEF IsPrefix, w

(***************************************************************************)
(* The student reads a beginning of one answer of the model and, when the  *)
(* interceptors see it, the whole of it without the sentinel.              *)
(***************************************************************************)
THEOREM StudentReadsTheAnswer == Spec => []TextFaithful
<1>1. StreamInv => TextFaithful
  <2> SUFFICES ASSUME TextInv PROVE TextFaithful
    BY DEF StreamInv
  <2>1. answer \in Text /\ sent \in Text /\ pending \in Text /\ tail \in Text /\ got \in 0 .. Len(answer)
    BY DEF TextInv, TextTypes, Shaped
  <2>2. ASSUME pc \in {"request", "stream", "emit", "speak"} /\ ~ended PROVE IsPrefix(sent, answer)
    <3>1. CASE pc = "request"
      <4>1. sent = <<>> /\ answer = <<>> /\ sent \o <<>> = SubSeq(answer, 1, 0) /\ 0 \in 0 .. Len(answer)
        BY <3>1, SubSeqEmpty, EmptyText, Texts DEF TextInv, Stages
      <4> QED BY <2>1, <4>1, EmptyText, Begins
    <3>2. CASE pc # "request"
      <4>1. (sent \o pending) \o tail = SubSeq(answer, 1, got)
        BY <2>2, <3>2 DEF TextInv, Stages, Streaming
      <4>2. sent \o (pending \o tail) = SubSeq(answer, 1, got) /\ pending \o tail \in Text
        <5>1. pending \o tail \in Text
          BY <2>1, Joined
        <5>2. (sent \o pending) \o tail = sent \o (pending \o tail)
          BY <2>1, Regrouped
        <5> QED BY <4>1, <5>1, <5>2
      <4> QED BY <2>1, <4>2, Begins
    <3> QED BY <3>1, <3>2
  <2>3. ASSUME pc = "check" PROVE IF captured THEN RStrip(sent) = RStrip(WithoutSentinel(answer)) ELSE sent = answer
    <3>1. Arrived /\ pending = <<>> /\ sent \o <<>> = sent
      BY <2>1, <2>3, Texts DEF TextInv, Stages
    <3> QED BY <3>1 DEF Arrived
  <2> QED BY <2>2, <2>3 DEF TextFaithful
<1> QED BY <1>1, StreamInvariant, PTL

(***************************************************************************)
(* However the answer is cut into chunks, and whatever stands before its   *)
(* sentinel, no half of the sentinel reaches the student.                  *)
(***************************************************************************)
THEOREM SentinelStaysHidden == Spec => []SentinelHidden
<1>1. StreamInv => SentinelHidden
  <2> SUFFICES ASSUME TextInv, eligible \/ Near, NEW i \in DOMAIN SENTINEL PROVE ~Contains(sent, SENTINEL[i])
    BY DEF StreamInv, SentinelHidden, Near, AtEnd
  <2>1. NoHalf(sent) /\ sent \in Text
    BY DEF TextInv, Hidden, TextTypes
  <2>2. SENTINEL[i] \in Half
    BY DEF SENTINEL, Half
  <2> QED BY <2>1, <2>2 DEF NoHalf, Contains
<1> QED BY <1>1, StreamInvariant, PTL

(***************************************************************************)
(* Under the guardrail a turn that is done has left the student with a     *)
(* question, and in no turn is an open planned question put twice.         *)
(***************************************************************************)
THEOREM TheStudentIsAsked == Spec => []AlwaysAsks
<1>1. StreamInv => AlwaysAsks
  <2> SUFFICES ASSUME TextInv PROVE AlwaysAsks
    BY DEF StreamInv
  <2>1. sent \in Text /\ pending \in Text /\ sent \o pending \in Text /\ DOMAIN sent = 1 .. Len(sent)
    BY Texts, Joined DEF TextInv, TextTypes
  <2>2. ASSUME pc = "done", checked.guard = "strict", ~captured, Len(checked.text) - Len(RStrip(checked.text)) <= 2
        PROVE  (HasOpenQuestion(checked.text) /\ ~checked.blunt) \/ IsSuffix(checked.question, sent)
    <3>1. pending = <<>> /\ sent \o pending = sent
      BY <2>1, <2>2, Texts DEF TextInv, Stages
    <3>2. checked # NotChecked
      BY <2>2, NothingAsked
    <3>3. checked.question \in Question
      BY <3>2 DEF TextInv, Asked
    <3>4. (HasOpenQuestion(checked.text) /\ ~checked.blunt) \/ EndsWith(sent, checked.question)
      BY <2>2, <3>1 DEF TextInv, Asked
    <3> QED BY <2>1, <3>3, <3>4, SuffixOfEnd
  <2>3. ASSUME Contains(checked.question, Open) PROVE Cardinality({i \in DOMAIN sent : sent[i] = "q"}) <= 1
    <3> DEFINE Q == {i \in DOMAIN sent : sent[i] = "q"}
    <3>1. PICK k \in Int : \A i \in 1 .. Len(sent \o pending) : (sent \o pending)[i] = "q" => i = k
      BY <2>3 DEF TextInv, Asked
    <3>2. Q \subseteq {k}
      <4>1. /\ Len(sent \o pending) = Len(sent) + Len(pending) /\ Len(sent) \in Nat /\ Len(pending) \in Nat
            /\ \A i \in 1 .. Len(sent) : (sent \o pending)[i] = sent[i]
        BY <2>1, Joined, Texts
      <4>2. \A i \in 1 .. Len(sent) : i \in 1 .. Len(sent \o pending)
        BY <4>1
      <4> QED BY <2>1, <3>1, <4>1, <4>2
    <3> HIDE DEF Q
    <3>3. IsFiniteSet({k}) /\ Cardinality({k}) = 1
      BY FS_Singleton
    <3>4. Cardinality(Q) \in Nat /\ Cardinality(Q) <= 1
      BY <3>2, <3>3, FS_Subset, FS_CardinalityType
    <3> QED BY <3>4 DEF Q
  <2> QED BY <2>2, <2>3 DEF AlwaysAsks
<1> QED BY <1>1, StreamInvariant, PTL

(***************************************************************************)
(* What is heard in a turn, the goodbye and the correction included, is in *)
(* the session's one voice (session-level voice lock).                     *)
(***************************************************************************)
THEOREM TurnsSpeakWithOneVoice == Spec => []OneVoice
<1>1. StreamInv => OneVoice
  BY DEF StreamInv, Voiced, OneVoice
<1> QED BY <1>1, StreamInvariant, PTL

(***************************************************************************)
(* The speech says the text: at every place of the stream what was         *)
(* uttered, waits to be and is buffered is what was sent, word by word,    *)
(* however the chunks cut the sentences; when the interceptors run nothing *)
(* is left unsaid; and it is said in one voice (audio_stream.wrap).        *)
(***************************************************************************)
THEOREM SpeechSaysTheText == Spec => []SpeechIsText
<1>1. StreamInv /\ SpeechInv => SpeechIsText
  <2> SUFFICES ASSUME StreamInv, SpeechInv PROVE SpeechIsText
    OBVIOUS
  <2>1. Parts \in Seq(Text) /\ wrap.queue \in Seq(Text) /\ wrap.buffer \in Text /\ SpokenText = FlattenSeq(Parts)
    BY DEF SpeechInv, SpokenText, Parts
  <2>2. SpokenText \in Text /\ FlattenSeq(wrap.queue) \in Text /\ Words(SpokenText) = Said(Parts)
    BY <2>1, SaidFacts DEF Said
  <2>3. ASSUME pc \in {"stream", "emit", "speak", "flush", "check"}
        PROVE  Words(SpokenText \o FlattenSeq(wrap.queue) \o wrap.buffer) = Words(sent)
    <3>1. SpokenText \o FlattenSeq(wrap.queue) \in Text
      BY <2>2, Joined
    <3>2. Words(SpokenText \o FlattenSeq(wrap.queue)) = Cat(Said(Parts), Said(wrap.queue))
      BY <2>2, WordsJoined DEF Said
    <3>3. Words((SpokenText \o FlattenSeq(wrap.queue)) \o wrap.buffer)
            = Cat(Words(SpokenText \o FlattenSeq(wrap.queue)), Words(wrap.buffer))
      BY <2>1, <3>1, WordsJoined
    <3>4. Balanced
      BY <2>3 DEF SpeechInv
    <3> QED BY <3>2, <3>3, <3>4 DEF Balanced
  <2>4. ASSUME pc = "check" PROVE Words(SpokenText) = Words(sent)
    <3>1. wrap.queue = <<>> /\ Words(wrap.buffer) = <<>> /\ Balanced
      BY <2>4 DEF SpeechInv
    <3>2. Said(Parts) \in Text /\ Said(<<>>) = <<>>
      BY <2>1, SaidFacts
    <3>3. Cat(Cat(Said(Parts), <<>>), <<>>) = Said(Parts)
      BY <3>2, CatFacts DEF Text
    <3> QED BY <2>2, <3>1, <3>2, <3>3 DEF Balanced
  <2>5. OneVoice
    BY DEF StreamInv, Voiced, OneVoice
  <2> QED BY <2>3, <2>4, <2>5 DEF SpeechIsText
<1> QED BY <1>1, StreamInvariant, SpeechInvariant, PTL

(***************************************************************************)
(* A turn fails for a fault of its own request, never because the prompt   *)
(* cache was forgotten between the lookup and the request: the retry goes  *)
(* out with the prompt in the call (generate_answer_stream: "drop it once  *)
(* and fall back to an inline-prefix retry").                              *)
(***************************************************************************)
THEOREM CacheLossIsSurvived == Spec => []FailsForAFault
<1>1. CacheInv => FailsForAFault
  BY DEF CacheInv
<1> QED BY <1>1, CacheInit, CacheStep, StreamInvariant, PTL DEF Spec

(***************************************************************************)
(* No turn goes on for ever: every step of a turn, the retries and the     *)
(* sentences included, brings it nearer to its end in an order in which    *)
(* nothing can come nearer for ever, and the other turns that share its    *)
(* prompt cannot throw it back (generate_answer_stream, wrap).             *)
(***************************************************************************)
Approaches == [][(TurnStep => <<Distance', Distance>> \in Closer) /\ (Others => Distance' = Distance)]_vars

THEOREM TurnsRunOut ==
  IsWellFoundedOn(Closer, Nat \X (Nat \X (Nat \X Nat))) /\ (Spec => Approaches)
<1>1. /\ StreamInv /\ SpeechInv /\ StreamInv' /\ SpeechInv' /\ [Next]_vars
      => [(TurnStep => <<Distance', Distance>> \in Closer) /\ (Others => Distance' = Distance)]_vars
  BY StepComesNearer, OthersLeaveDistance
<1>2. Spec => Approaches
  BY <1>1, StreamInvariant, SpeechInvariant, PTL DEF Spec, Approaches
<1> QED BY <1>2, CloserIsWellFounded

=============================================================================
