----------------------------- MODULE TokenProofs ----------------------------
(***************************************************************************)
(* Theorems about how variant B comes to a token and keeps it: the search  *)
(* of an answer's text, the arithmetic of time, and the life of the token. *)
(* They hold for every answer that has a head and that grants what it is   *)
(* said to grant, for every part of it that the client may have kept, and  *)
(* for the lengths of minutes, hours and days that the code has, through   *)
(* all years from 2000 on.                                                 *)
(***************************************************************************)
EXTENDS Integers, WellFoundedInduction, NaturalsInduction, SequenceTheorems, TLAPS,
        TokenLife

(* A set of numbers has a least one. *)
LEMMA Smallest ==
  ASSUME NEW S \in SUBSET Nat, S # {}
  PROVE \E x \in S : \A y \in S : x <= y
<1>1. IsWellFoundedOn(OpToRel(<, Nat), Nat)
  BY NatLessThanWellFounded
<1>2. \E x \in S : \A y \in S : ~ (<<y, x>> \in OpToRel(<, Nat))
  BY <1>1, WFMin, Zenon
<1>3. \E x \in S : \A y \in S : ~(y < x)
  BY <1>2, Zenon DEF OpToRel
<1> QED
  BY <1>3

LEMMA MinIsLeast ==
  ASSUME NEW S \in SUBSET Nat, S # {}
  PROVE  Min(S) \in S /\ \A y \in S : Min(S) <= y
BY Smallest DEF Min

LEMMA PlacesAreNumbers ==
  ASSUME NEW str, NEW pattern, NEW from \in Nat \ {0}
  PROVE  \A i \in Places(str, pattern, from) : i \in Nat \ {0} /\ i >= from
BY DEF Places

(* find gives the first place, or npos. *)
LEMMA Found ==
  ASSUME NEW str, NEW pattern, NEW from \in Nat \ {0}
  PROVE  /\ find(str, pattern, from) = npos => Places(str, pattern, from) = {}
         /\ find(str, pattern, from) # npos =>
              /\ find(str, pattern, from) \in Places(str, pattern, from)
              /\ find(str, pattern, from) \in Nat \ {0}
              /\ \A i \in Places(str, pattern, from) : find(str, pattern, from) <= i
         /\ Places(str, pattern, from) # {} => find(str, pattern, from) # npos
<1>1. Places(str, pattern, from) \in SUBSET (Nat \ {0})
  BY DEF Places
<1>2. CASE Places(str, pattern, from) = {}
  BY <1>2 DEF find
<1>3. CASE Places(str, pattern, from) # {}
  BY <1>1, <1>3, MinIsLeast DEF find, npos
<1> QED
  BY <1>2, <1>3

LEMMA PlacesFrom ==
  ASSUME NEW str, NEW pattern, NEW from \in Nat \ {0}, NEW later \in Nat \ {0},
         from <= later
  PROVE  \A i : i \in Places(str, pattern, later) <=>
               i \in Places(str, pattern, from) /\ i >= later
BY DEF Places

(* The characters of a place. *)
LEMMA PlaceIs ==
  ASSUME NEW str \in Text, NEW pattern \in Text, NEW from \in Nat \ {0}, NEW i
  PROVE  i \in Places(str, pattern, from) <=>
           /\ i \in Nat /\ i >= from /\ i + Len(pattern) - 1 <= Len(str)
           /\ \A j \in 1 .. Len(pattern) : str[i + j - 1] = pattern[j]
<1> SUFFICES ASSUME i \in from .. Len(str) - Len(pattern) + 1
             PROVE  SubSeq(str, i, i + Len(pattern) - 1) = pattern <=>
                      \A j \in 1 .. Len(pattern) : str[i + j - 1] = pattern[j]
  BY DEF Places, Text
<1> DEFINE s == SubSeq(str, i, i + Len(pattern) - 1)
<1>1. /\ s \in Seq(Char) /\ Len(s) = Len(pattern)
      /\ \A j \in 1 .. Len(pattern) : s[j] = str[i + j - 1]
  BY DEF Text
<1> QED
  BY <1>1 DEF Text

(* Induction up to n: what holds of 0 and is passed on holds of all. *)
LEMMA UpTo ==
  ASSUME NEW n \in Nat, NEW S, 0 \in S,
         \A i \in 0 .. n - 1 : i \in S => i + 1 \in S
  PROVE  0 .. n \subseteq S
<1> DEFINE Missing == (0 .. n) \ S
<1> SUFFICES ASSUME Missing # {} PROVE FALSE
  OBVIOUS
<1>0. Missing \in SUBSET Nat
  OBVIOUS
<1>1. PICK x \in Missing : \A y \in Missing : x <= y
  <2> HIDE DEF Missing
  <2> QED  BY <1>0, Smallest
<1>2. x - 1 \in 0 .. n - 1 /\ x - 1 \notin Missing
  BY <1>1
<1>3. x - 1 \in S /\ (x - 1) + 1 = x
  BY <1>2
<1> QED
  BY <1>1, <1>2, <1>3

-----------------------------------------------------------------------------
(* Sequences of characters: their length, what is joined, and parts. *)
LEMMA TextLength ==
  ASSUME NEW s \in Text
  PROVE  Len(s) \in Nat /\ \A i \in 1 .. Len(s) : s[i] \in Char
BY ElementOfSeq, LenProperties DEF Text

LEMMA TextSame ==
  ASSUME NEW s \in Text, NEW u \in Text, Len(s) = Len(u),
         \A i \in 1 .. Len(s) : s[i] = u[i]
  PROVE  s = u
BY SeqEqual, Zenon DEF Text

LEMMA TextEmpty == <<>> \in Text /\ Len(<<>>) = 0
BY EmptySeq, Zenon DEF Text

LEMMA TextJoined ==
  ASSUME NEW s \in Text, NEW u \in Text
  PROVE  /\ s \o u \in Text
         /\ Len(s \o u) = Len(s) + Len(u)
         /\ \A i \in 1 .. Len(s) : (s \o u)[i] = s[i]
         /\ \A i \in 1 .. Len(u) : (s \o u)[Len(s) + i] = u[i]
<1>1. /\ s \o u \in Text
      /\ Len(s \o u) = Len(s) + Len(u)
      /\ \A i \in 1 .. Len(s) + Len(u) :
           (s \o u)[i] = IF i <= Len(s) THEN s[i] ELSE u[i - Len(s)]
  BY ConcatProperties, Zenon DEF Text
<1>2. ASSUME NEW i \in 1 .. Len(s) PROVE (s \o u)[i] = s[i]
  BY <1>1, TextLength
<1>3. ASSUME NEW i \in 1 .. Len(u) PROVE (s \o u)[Len(s) + i] = u[i]
  <2>1. /\ Len(s) + i \in 1 .. Len(s) + Len(u) /\ ~(Len(s) + i <= Len(s))
        /\ (Len(s) + i) - Len(s) = i
    BY TextLength
  <2> QED
    BY <1>1, <2>1
<1> QED
  BY <1>1, <1>2, <1>3

LEMMA TextAppended ==
  ASSUME NEW s \in Text, NEW c \in Char
  PROVE  /\ Append(s, c) \in Text /\ Len(Append(s, c)) = Len(s) + 1
         /\ \A i \in 1 .. Len(s) : Append(s, c)[i] = s[i]
         /\ Append(s, c)[Len(s) + 1] = c
<1>1. s \in Seq(Char)
  BY DEF Text
<1>2. /\ Append(s, c) \in Seq(Char) /\ Len(Append(s, c)) = Len(s) + 1
      /\ \A i \in 1 .. Len(s) : Append(s, c)[i] = s[i]
      /\ Append(s, c)[Len(s) + 1] = c
  BY <1>1, AppendProperties
<1> QED
  BY <1>2 DEF Text

LEMMA TextPart ==
  ASSUME NEW s \in Text, NEW m \in Nat, NEW n \in Nat, n <= Len(s)
  PROVE  /\ SubSeq(s, m + 1, n) \in Text
         /\ m <= n => /\ Len(SubSeq(s, m + 1, n)) = n - m
                      /\ \A i \in 1 .. n - m : SubSeq(s, m + 1, n)[i] = s[m + i]
         /\ m >= n => SubSeq(s, m + 1, n) = <<>>
<1>1. \A i \in m + 1 .. n : s[i] \in Char
  BY TextLength
<1>2. m + 1 \in Int /\ n \in Int
  OBVIOUS
<1> DEFINE l == m + 1
<1> HIDE DEF l
<1>3. l \in Int /\ \A i \in l .. n : s[i] \in Char
  BY <1>1, <1>2 DEF l
<1>4. /\ SubSeq(s, l, n) \in Seq(Char)
      /\ Len(SubSeq(s, l, n)) = IF l <= n THEN n - l + 1 ELSE 0
      /\ \A i \in 1 .. n - l + 1 : SubSeq(s, l, n)[i] = s[l + i - 1]
  BY <1>2, <1>3, SubSeqProperties
<1>5. n < l => SubSeq(s, l, n) = <<>>
  BY <1>2, <1>3, SubSeqEmpty
<1>6. SubSeq(s, m + 1, n) \in Text
  BY <1>4 DEF l, Text
<1>7. m <= n => /\ Len(SubSeq(s, m + 1, n)) = n - m
               /\ \A i \in 1 .. n - m : SubSeq(s, m + 1, n)[i] = s[m + i]
  <2> SUFFICES ASSUME m <= n
               PROVE  /\ Len(SubSeq(s, l, n)) = n - m
                      /\ \A i \in 1 .. n - m : SubSeq(s, l, n)[i] = s[m + i]
    BY DEF l
  <2>1. n - l + 1 = n - m /\ \A i \in 1 .. n - m : l + i - 1 = m + i
    BY DEF l
  <2>2. Len(SubSeq(s, l, n)) = n - m
    <3>1. CASE l <= n
      BY <3>1, <2>1, <1>4
    <3>2. CASE ~(l <= n)
      BY <3>2, <1>4 DEF l
    <3> QED  BY <3>1, <3>2
  <2> QED
    BY <2>1, <2>2, <1>4
<1>8. m >= n => SubSeq(s, m + 1, n) = <<>>
  BY <1>5 DEF l
<1> QED
  BY <1>6, <1>7, <1>8

LEMMA KeepIsText ==
  ASSUME NEW kept \in Text, NEW c \in Char
  PROVE  keep(kept, c) \in Text
<1>1. Append(kept, c) \in Text
  BY TextAppended
<1> QED
  BY <1>1 DEF keep

(* What is kept of the first n characters, for each n. *)
Keeps(str, kept, length) ==
  /\ kept \in [0 .. length -> Text]
  /\ kept[0] = <<>>
  /\ \A n \in 1 .. length : kept[n] = keep(kept[n - 1], str[n])

LEMMA KeptExists ==
  ASSUME NEW str \in Text
  PROVE  \E kept : Keeps(str, kept, Len(str))
<1> DEFINE S == {n \in 0 .. Len(str) : \E f : Keeps(str, f, n)}
<1>1. 0 \in S
  <2>1. Keeps(str, [m \in 0 .. 0 |-> <<>>], 0)
    BY DEF Text, Keeps
  <2> QED
    BY <2>1 DEF Text
<1>2. ASSUME NEW i \in 0 .. Len(str) - 1, i \in S PROVE i + 1 \in S
  <2>1. PICK f : Keeps(str, f, i)
    BY <1>2
  <2> DEFINE next == keep(f[i], str[i + 1])
             g == [m \in 0 .. i + 1 |-> IF m = i + 1 THEN next ELSE f[m]]
  <2>2. str[i + 1] \in Char /\ f[i] \in Text
    BY <2>1 DEF Text, Keeps
  <2>3. next \in Text
    BY <2>2, KeepIsText
  <2> HIDE DEF next
  <2>4. g \in [0 .. i + 1 -> Text] /\ g[0] = <<>>
    BY <2>1, <2>3 DEF Keeps
  <2>5. ASSUME NEW m \in 1 .. i + 1
        PROVE  g[m] = keep(g[m - 1], str[m])
    <3>1. CASE m = i + 1
      <4>1. g[m] = next /\ g[m - 1] = f[i]
        BY <3>1
      <4> QED  BY <4>1, <3>1 DEF next
    <3>2. CASE m # i + 1
      <4>1. m \in 1 .. i /\ g[m] = f[m] /\ g[m - 1] = f[m - 1]
        BY <3>2
      <4>2. f[m] = keep(f[m - 1], str[m])
        BY <4>1, <2>1 DEF Keeps
      <4> QED
        BY <4>1, <4>2
    <3> QED  BY <3>1, <3>2
  <2> HIDE DEF g
  <2>6. Keeps(str, g, i + 1)
    BY <2>4, <2>5 DEF Keeps
  <2> QED
    BY <2>6
<1>3. Len(str) \in Nat
  BY DEF Text
<1>4. Len(str) \in S
  <2> HIDE DEF S
  <2>1. 0 .. Len(str) \subseteq S
    BY <1>1, <1>2, <1>3, UpTo
  <2> QED
    BY <2>1, <1>3
<1> QED
  BY <1>4

LEMMA CleanIsKept ==
  ASSUME NEW str \in Text
  PROVE  \E kept : Keeps(str, kept, Len(str)) /\ clean_whitespace(str) = kept[Len(str)]
<1> DEFINE IsIt(f) == f = [n \in 0 .. Len(str) |->
             IF n = 0 THEN <<>> ELSE keep(f[n - 1], str[n])]
<1>0. Len(str) \in Nat
  BY DEF Text
<1>1. PICK kept : Keeps(str, kept, Len(str))
  BY KeptExists
<1>2. IsIt(kept)
  <2>1. kept = [n \in 0 .. Len(str) |-> kept[n]]
    BY <1>1 DEF Keeps
  <2>2. \A n \in 0 .. Len(str) :
          kept[n] = IF n = 0 THEN <<>> ELSE keep(kept[n - 1], str[n])
    BY <1>1 DEF Keeps
  <2> QED
    BY <2>1, <2>2
<1>3. IsIt(CHOOSE f : IsIt(f))
  <2> HIDE DEF IsIt
  <2> QED  BY <1>2
<1>4. clean_whitespace(str) = (CHOOSE f : IsIt(f))[Len(str)]
  BY DEF clean_whitespace
<1> DEFINE k == CHOOSE f : IsIt(f)
<1>5. IsIt(k) /\ clean_whitespace(str) = k[Len(str)]
  BY <1>3, <1>4
<1> HIDE DEF k
<1>6. \A n \in 0 .. Len(str) :
        k[n] = IF n = 0 THEN <<>> ELSE keep(k[n - 1], str[n])
  BY <1>5
<1>7. k[0] = <<>> /\ \A n \in 1 .. Len(str) : k[n] = keep(k[n - 1], str[n])
  BY <1>0, <1>6
<1>8. \A n \in 0 .. Len(str) : k[n] \in Text
  <2> DEFINE S == {n \in 0 .. Len(str) : k[n] \in Text}
  <2>1. 0 \in S
    <3>1. k[0] \in Text /\ 0 \in 0 .. Len(str)
      BY <1>0, <1>7, EmptySeq DEF Text
    <3> QED
      BY <3>1
  <2>2. ASSUME NEW i \in 0 .. Len(str) - 1, i \in S PROVE i + 1 \in S
    <3>1. str[i + 1] \in Char /\ (i + 1) - 1 = i /\ i + 1 \in 1 .. Len(str)
      BY DEF Text
    <3>2. k[i + 1] = keep(k[i], str[i + 1])
      BY <1>7, <3>1
    <3>3. k[i] \in Text
      BY <2>2
    <3>4. k[i + 1] \in Text
      BY <3>1, <3>2, <3>3, KeepIsText
    <3> QED
      BY <3>1, <3>4
  <2> HIDE DEF S
  <2>3. 0 .. Len(str) \subseteq S
    BY <1>0, <2>1, <2>2, UpTo
  <2> QED
    BY <2>3 DEF S
<1>9. k \in [0 .. Len(str) -> Text]
  BY <1>5, <1>8
<1> QED
  BY <1>5, <1>7, <1>9 DEF Keeps

(* A contiguous part of a text: what follows its first k characters. *)
IsPart(part, whole, k) ==
  /\ k \in Nat /\ k + Len(part) <= Len(whole)
  /\ \A i \in 1 .. Len(part) : part[i] = whole[k + i]

LEMMA JoinThenAppend ==
  ASSUME NEW a \in Text, NEW b \in Text, NEW c \in Char
  PROVE  Append(a \o b, c) = a \o Append(b, c)
<1>1. a \in Seq(Char) /\ b \in Seq(Char) /\ <<c>> \in Seq(Char)
  <2>1. <<c>> = Append(<<>>, c)
    OBVIOUS
  <2> QED
    BY <2>1, TextEmpty, TextAppended DEF Text
<1>2. a \o b \in Seq(Char)
  BY <1>1, ConcatProperties, Zenon
<1>3. Append(a \o b, c) = (a \o b) \o <<c>> /\ Append(b, c) = b \o <<c>>
  BY <1>1, <1>2, AppendIsConcat, Zenon
<1>4. (a \o b) \o <<c>> = a \o (b \o <<c>>)
  BY <1>1, ConcatAssociative
<1> QED
  BY <1>3, <1>4

Joined(s, u) == s \o u

LEMMA KeptOfPart ==
  ASSUME NEW whole \in Text, NEW part \in Text, NEW k, NEW w, NEW p,
         IsPart(part, whole, k),
         Keeps(whole, w, Len(whole)), Keeps(part, p, Len(part))
  PROVE  \A q \in 0 .. Len(part) : w[k + q] = Joined(w[k], p[q])
<1> DEFINE S == {q \in 0 .. Len(part) : w[k + q] = w[k] \o p[q]}
<1>1. /\ Len(part) \in Nat /\ Len(whole) \in Nat /\ k \in Nat
      /\ k + Len(part) <= Len(whole)
  BY DEF Text, IsPart
<1>2. /\ \A n \in 0 .. Len(part) : p[n] \in Text
      /\ \A n \in 0 .. Len(whole) : w[n] \in Text
  BY DEF Keeps
<1>3. 0 \in S
  <2>1. k \in 0 .. Len(whole) /\ p[0] = <<>> /\ k + 0 = k
    BY <1>1 DEF Keeps
  <2>2. w[k] \in Seq(Char)
    BY <1>2, <2>1 DEF Text
  <2>3. w[k] \o <<>> = w[k]
    BY <2>2, ConcatEmptySeq, Zenon
  <2>4. w[k + 0] = w[k] \o p[0]
    BY <2>1, <2>3
  <2>5. 0 \in 0 .. Len(part)
    BY <1>1
  <2> QED
    BY <2>4, <2>5
<1>4. ASSUME NEW i \in 0 .. Len(part) - 1, i \in S PROVE i + 1 \in S
  <2>1. /\ i + 1 \in 1 .. Len(part) /\ i \in 0 .. Len(part) /\ (i + 1) - 1 = i
        /\ k + i + 1 \in 1 .. Len(whole) /\ (k + i + 1) - 1 = k + i
        /\ k + (i + 1) = k + i + 1 /\ k \in 0 .. Len(whole)
    BY <1>1
  <2>2. part[i + 1] = whole[k + i + 1] /\ part[i + 1] \in Char
    BY <2>1, TextLength DEF IsPart
  <2>3. p[i + 1] = keep(p[i], part[i + 1])
    BY <2>1 DEF Keeps
  <2>4. w[k + i + 1] = keep(w[k + i], part[i + 1])
    BY <2>1, <2>2 DEF Keeps
  <2>5. w[k + i] = w[k] \o p[i]
    BY <1>4
  <2>6. w[k] \in Text /\ p[i] \in Text
    BY <2>1, <1>2
  <2>7. ASSUME NEW a \in Text, NEW b \in Text, NEW c \in Char
        PROVE  keep(a \o b, c) = a \o keep(b, c)
    <3>1. Append(a \o b, c) = a \o Append(b, c)
      BY JoinThenAppend
    <3> QED
      BY <3>1 DEF keep
  <2>8. keep(w[k] \o p[i], part[i + 1]) = w[k] \o keep(p[i], part[i + 1])
    BY <2>2, <2>6, <2>7
  <2>9. w[k + (i + 1)] = w[k] \o p[i + 1]
    BY <2>1, <2>3, <2>4, <2>5, <2>8
  <2>10. i + 1 \in 0 .. Len(part)
    BY <2>1, <1>1
  <2> QED
    BY <2>9, <2>10
<1> HIDE DEF S
<1>5. 0 .. Len(part) \subseteq S
  BY <1>1, <1>3, <1>4, UpTo
<1> QED
  BY <1>5 DEF S, Joined

LEMMA CleanIsText ==
  ASSUME NEW str \in Text
  PROVE  clean_whitespace(str) \in Text
<1>1. Len(str) \in Nat
  BY DEF Text
<1> QED
  BY <1>1, CleanIsKept DEF Keeps

(* Of a part of a text, a part of what is kept of the text is kept. *)
LEMMA CleanOfPart ==
  ASSUME NEW whole \in Text, NEW part \in Text, NEW k, IsPart(part, whole, k)
  PROVE  \E j : IsPart(clean_whitespace(part), clean_whitespace(whole), j)
<1>1. /\ Len(part) \in Nat /\ Len(whole) \in Nat /\ k \in Nat
      /\ k + Len(part) <= Len(whole)
  BY TextLength DEF IsPart
<1> DEFINE m == k + Len(part)
           rest == SubSeq(whole, m + 1, Len(whole))
           cleaned == clean_whitespace(part)
<1>2. m \in Nat /\ m <= Len(whole)
  BY <1>1
<1> HIDE DEF m
<1>3. rest \in Text /\ Len(rest) = Len(whole) - m /\ IsPart(rest, whole, m)
  BY <1>1, <1>2, TextPart DEF IsPart
<1>4. PICK w : Keeps(whole, w, Len(whole)) /\ clean_whitespace(whole) = w[Len(whole)]
  BY CleanIsKept
<1>5. PICK p : Keeps(part, p, Len(part)) /\ cleaned = p[Len(part)]
  BY CleanIsKept
<1> HIDE DEF rest, cleaned
<1>6. PICK r : Keeps(rest, r, Len(rest))
  BY <1>3, KeptExists
<1>7. w[m] = w[k] \o cleaned
  <2>1. Len(part) \in 0 .. Len(part)
    BY <1>1
  <2>2. \A q \in 0 .. Len(part) : w[k + q] = Joined(w[k], p[q])
    BY <1>4, <1>5, KeptOfPart
  <2> QED
    BY <2>1, <2>2, <1>5 DEF m, Joined
<1>8. w[m + Len(rest)] = w[m] \o r[Len(rest)] /\ m + Len(rest) = Len(whole)
  <2>1. Len(rest) \in 0 .. Len(rest) /\ m + Len(rest) = Len(whole)
    BY <1>1, <1>2, <1>3
  <2>2. \A q \in 0 .. Len(rest) : w[m + q] = Joined(w[m], r[q])
    BY <1>3, <1>4, <1>6, KeptOfPart
  <2> QED
    BY <2>1, <2>2 DEF Joined
<1>9. w[k] \in Text /\ cleaned \in Text /\ w[m] \in Text /\ r[Len(rest)] \in Text
  <2>1. /\ k \in 0 .. Len(whole) /\ m \in 0 .. Len(whole)
        /\ Len(part) \in 0 .. Len(part) /\ Len(rest) \in 0 .. Len(rest)
    BY <1>1, <1>2, <1>3
  <2>2. /\ \A n \in 0 .. Len(whole) : w[n] \in Text
        /\ \A n \in 0 .. Len(part) : p[n] \in Text
        /\ \A n \in 0 .. Len(rest) : r[n] \in Text
    BY <1>4, <1>5, <1>6 DEF Keeps
  <2> QED
    BY <1>5, <2>1, <2>2
<1>10. /\ Len(w[m]) = Len(w[k]) + Len(cleaned)
       /\ Len(w[k]) \in Nat /\ Len(cleaned) \in Nat
       /\ \A i \in 1 .. Len(cleaned) : w[m][Len(w[k]) + i] = cleaned[i]
  <2> DEFINE v == w[k]
  <2>1. v \in Text
    BY <1>9
  <2> HIDE DEF v
  <2>2. /\ Len(v \o cleaned) = Len(v) + Len(cleaned)
        /\ Len(v) \in Nat /\ Len(cleaned) \in Nat
        /\ \A i \in 1 .. Len(cleaned) : (v \o cleaned)[Len(v) + i] = cleaned[i]
    BY <1>9, <2>1, TextJoined, TextLength
  <2> QED
    BY <1>7, <2>2 DEF v
<1>11. /\ Len(w[m]) <= Len(clean_whitespace(whole))
       /\ \A i \in 1 .. Len(w[m]) : clean_whitespace(whole)[i] = w[m][i]
  <2> DEFINE u == r[Len(rest)]
             v == w[m]
  <2>1. clean_whitespace(whole) = Joined(v, u)
    BY <1>4, <1>8 DEF Joined
  <2>2. u \in Text /\ v \in Text
    BY <1>9
  <2> HIDE DEF u, v
  <2>3. /\ Len(v \o u) = Len(v) + Len(u) /\ Len(v) \in Nat /\ Len(u) \in Nat
        /\ \A i \in 1 .. Len(v) : (v \o u)[i] = v[i]
    BY <2>2, TextJoined, TextLength
  <2>4. /\ Len(v) <= Len(clean_whitespace(whole))
        /\ \A i \in 1 .. Len(v) : clean_whitespace(whole)[i] = v[i]
    BY <2>1, <2>3 DEF Joined
  <2> QED
    BY <2>4 DEF v
<1>12. IsPart(cleaned, clean_whitespace(whole), Len(w[k]))
  <2>1. Len(w[k]) + Len(cleaned) <= Len(clean_whitespace(whole))
    BY <1>10, <1>11
  <2>2. ASSUME NEW i \in 1 .. Len(cleaned)
        PROVE  cleaned[i] = clean_whitespace(whole)[Len(w[k]) + i]
    <3>1. Len(w[k]) + i \in 1 .. Len(w[m])
      BY <1>10
    <3> QED
      BY <3>1, <1>10, <1>11
  <2> QED
    BY <1>10, <2>1, <2>2 DEF IsPart
<1> QED
  BY <1>12 DEF cleaned

-----------------------------------------------------------------------------
(* The same part, by the places of its first and its last character. *)
LEMMA TextBetween ==
  ASSUME NEW s \in Text, NEW l \in Nat \ {0}, NEW n \in Nat,
         l <= n + 1, n <= Len(s)
  PROVE  /\ SubSeq(s, l, n) \in Text
         /\ Len(SubSeq(s, l, n)) = n - l + 1
         /\ \A i \in 1 .. n - l + 1 : SubSeq(s, l, n)[i] = s[l + i - 1]
<1> DEFINE m == l - 1
<1>1. m \in Nat /\ m + 1 = l /\ m <= n /\ n - l + 1 = n - m
  OBVIOUS
<1>2. \A i \in 1 .. n - m : m + i = l + i - 1
  OBVIOUS
<1> HIDE DEF m
<1> QED
  BY <1>1, <1>2, TextPart

(* A place in a part is a place in the whole. *)
LEMMA PlacesOfPart ==
  ASSUME NEW whole \in Text, NEW part \in Text, NEW pattern \in Text, NEW k,
         IsPart(part, whole, k), NEW from \in Nat \ {0}, NEW i \in Nat
  PROVE  i \in Places(part, pattern, from) <=>
           /\ k + i \in Places(whole, pattern, k + from)
           /\ i + Len(pattern) - 1 <= Len(part)
<1>1. /\ k \in Nat /\ Len(part) \in Nat /\ Len(pattern) \in Nat /\ Len(whole) \in Nat
      /\ k + Len(part) <= Len(whole) /\ k + from \in Nat \ {0}
  BY TextLength DEF IsPart
<1>2. i \in Places(part, pattern, from) <=>
        /\ i \in Nat /\ i >= from /\ i + Len(pattern) - 1 <= Len(part)
        /\ \A j \in 1 .. Len(pattern) : part[i + j - 1] = pattern[j]
  BY PlaceIs
<1> DEFINE later == k + from
           place == k + i
<1>3. place \in Places(whole, pattern, later) <=>
        /\ place \in Nat /\ place >= later
        /\ place + Len(pattern) - 1 <= Len(whole)
        /\ \A j \in 1 .. Len(pattern) : whole[place + j - 1] = pattern[j]
  <2>1. later \in Nat \ {0}
    BY <1>1
  <2> HIDE DEF later, place
  <2> QED
    BY <2>1, PlaceIs
<1>4. ASSUME i >= from, i + Len(pattern) - 1 <= Len(part), NEW j \in 1 .. Len(pattern)
      PROVE  part[i + j - 1] = whole[(k + i) + j - 1]
  <2>1. i + j - 1 \in 1 .. Len(part) /\ k + (i + j - 1) = (k + i) + j - 1
    BY <1>1, <1>4
  <2> QED
    BY <2>1 DEF IsPart
<1> QED
  BY <1>1, <1>2, <1>3, <1>4

(* What a part gives is the value that the whole says, or nothing. *)
LEMMA BetweenInPart ==
  ASSUME NEW whole \in Text, NEW part \in Text, NEW k, IsPart(part, whole, k),
         NEW a \in Text, NEW b1 \in Text, NEW b2 \in Text, NEW value \in Text,
         Len(b1) >= 1, Len(b1) <= Len(b2),
         Says(whole, a, b1, b2, value)
  PROVE  /\ parse_string_between(part, a, b1, b2) \in {Nothing, value}
         /\ part = whole => parse_string_between(part, a, b1, b2) = value
<1> DEFINE s == find(part, a, 1)
           f == s + Len(a)
           e1 == find(part, b1, f)
           e2 == find(part, b2, f)
           e == IF e1 # npos THEN e1 ELSE e2
<1>1. parse_string_between(part, a, b1, b2) =
        IF s = npos \/ e = npos THEN Nothing ELSE SubSeq(part, f, e - 1)
  BY DEF parse_string_between
<1>2. /\ k \in Nat /\ Len(part) \in Nat /\ Len(whole) \in Nat
      /\ k + Len(part) <= Len(whole) /\ Len(a) \in Nat /\ Len(b1) \in Nat
      /\ Len(b2) \in Nat /\ Len(value) \in Nat
  BY TextLength DEF IsPart
<1>3. PICK start \in DOMAIN whole :
        LET from == start + Len(a)
            end == from + Len(value)
            ends == Places(whole, b1, from)
        IN  /\ Places(whole, a, 1) = {start}
            /\ \/ end \in ends
               \/ ends = {} /\ end \in Places(whole, b2, from)
            /\ SubSeq(whole, from, end - 1) = value
            /\ \A i \in ends \cup Places(whole, b2, from) : i >= end
  BY DEF Says
<1> DEFINE from == start + Len(a)
           end == from + Len(value)
<1>4. start \in Nat \ {0} /\ from \in Nat \ {0} /\ end \in Nat \ {0}
  <2>1. start \in Nat \ {0}
    BY <1>3, LenProperties DEF Text
  <2> QED
    BY <1>2, <2>1
<1>5. /\ Places(whole, a, 1) = {start}
      /\ \/ end \in Places(whole, b1, from)
         \/ Places(whole, b1, from) = {} /\ end \in Places(whole, b2, from)
      /\ SubSeq(whole, from, end - 1) = value
      /\ \A i \in Places(whole, b1, from) : i >= end
      /\ \A i \in Places(whole, b2, from) : i >= end
  BY <1>3
<1>6. end = from + Len(value)
  OBVIOUS
<1> HIDE DEF s, from, end
<1>7. s # npos => s \in Nat \ {0} /\ k + s = start
  <2> SUFFICES ASSUME s # npos PROVE s \in Nat \ {0} /\ k + s = start
    OBVIOUS
  <2>1. s \in Places(part, a, 1) /\ s \in Nat \ {0}
    BY Found DEF s
  <2>2. k + s \in Places(whole, a, k + 1)
    BY <2>1, PlacesOfPart
  <2>3. k + s \in Places(whole, a, 1)
    BY <1>2, <2>2, PlacesFrom
  <2> QED
    BY <1>5, <2>1, <2>3
<1>8. part = whole => s # npos
  <2>1. part = whole => Places(part, a, 1) # {}
    BY <1>5
  <2> QED
    BY <2>1, Found DEF s
<1>9. CASE s = npos
  BY <1>1, <1>8, <1>9
<1>10. CASE s # npos
  <2>1. f \in Nat \ {0} /\ k + f = from
    BY <1>2, <1>4, <1>7, <1>10 DEF from
  <2> HIDE DEF f
  <2>2. ASSUME NEW b \in Text, NEW i \in Nat
        PROVE  i \in Places(part, b, f) <=>
                 k + i \in Places(whole, b, from) /\ i + Len(b) - 1 <= Len(part)
    BY <2>1, PlacesOfPart
  <2>3. ASSUME NEW b \in Text PROVE Places(part, b, f) \subseteq Nat
    BY <2>1 DEF Places
  <2>4. /\ e1 = npos => Places(part, b1, f) = {}
        /\ e1 # npos => /\ e1 \in Places(part, b1, f) /\ e1 \in Nat
                        /\ \A i \in Places(part, b1, f) : e1 <= i
    BY <2>1, Found
  <2>5. /\ e2 = npos => Places(part, b2, f) = {}
        /\ e2 # npos => /\ e2 \in Places(part, b2, f) /\ e2 \in Nat
                        /\ \A i \in Places(part, b2, f) : e2 <= i
    BY <2>1, Found
  <2> HIDE DEF e1, e2
  <2>6. end - k \in Nat
    BY <1>2, <1>4, <1>6, <2>1
  <2> DEFINE last == end - k
  <2>7. last \in Nat /\ k + last = end /\ last = f + Len(value)
    BY <1>2, <1>4, <1>6, <2>1, <2>6
  <2> HIDE DEF last
  <2>8. ASSUME NEW b \in Text, \A i \in Places(whole, b, from) : i >= end
        PROVE  \A i \in Places(part, b, f) : i >= last
    <3> SUFFICES ASSUME NEW i \in Places(part, b, f) PROVE i >= last
      OBVIOUS
    <3>1. i \in Nat /\ k + i >= end
      BY <2>2, <2>3, <2>8
    <3> QED
      BY <1>2, <2>7, <3>1
  <2>9. e # npos => e = last /\ last <= Len(part)
    <3>1. CASE end \in Places(whole, b1, from) /\ last + Len(b1) - 1 <= Len(part)
      <4>1. last \in Places(part, b1, f)
        BY <3>1, <2>2, <2>7
      <4>2. e1 # npos /\ e1 = last
        BY <4>1, <2>4, <2>7, <2>8, <1>5
      <4> QED
        BY <3>1, <4>2, <1>2, <2>7
    <3>2. CASE end \in Places(whole, b1, from) /\ ~(last + Len(b1) - 1 <= Len(part))
      <4>1. \A i \in Places(part, b1, f) : FALSE
        <5> SUFFICES ASSUME NEW i \in Places(part, b1, f) PROVE FALSE
          OBVIOUS
        <5>1. i \in Nat /\ i + Len(b1) - 1 <= Len(part)
          BY <2>2, <2>3
        <5>2. i >= last
          BY <1>5, <2>8
        <5> QED
          BY <5>1, <5>2, <1>2, <2>7, <3>2
      <4>2. \A i \in Places(part, b2, f) : FALSE
        <5> SUFFICES ASSUME NEW i \in Places(part, b2, f) PROVE FALSE
          OBVIOUS
        <5>1. i \in Nat /\ i + Len(b2) - 1 <= Len(part)
          BY <2>2, <2>3
        <5>2. i >= last
          BY <1>5, <2>8
        <5> QED
          BY <5>1, <5>2, <1>2, <2>7, <3>2
      <4> QED
        BY <4>1, <4>2, <2>4, <2>5
    <3>3. CASE Places(whole, b1, from) = {} /\ end \in Places(whole, b2, from)
      <4>1. e1 = npos
        BY <2>2, <2>4, <3>3
      <4>2. e2 # npos => e2 = last /\ last <= Len(part)
        <5> SUFFICES ASSUME e2 # npos PROVE e2 = last /\ last <= Len(part)
          OBVIOUS
        <5>1. e2 >= last /\ e2 + Len(b2) - 1 <= Len(part) /\ e2 \in Nat
          BY <1>5, <2>2, <2>5, <2>8
        <5>2. last \in Places(part, b2, f)
          BY <5>1, <1>2, <2>2, <2>7, <3>3
        <5> QED
          BY <5>1, <5>2, <1>2, <2>5, <2>7
      <4> QED
        BY <4>1, <4>2
    <3> QED
      BY <1>5, <3>1, <3>2, <3>3
  <2>10. part = whole => e # npos
    <3> SUFFICES ASSUME part = whole PROVE e # npos
      OBVIOUS
    <3>1. k = 0 /\ last = end
      BY <1>2, <2>7
    <3>2. f = from
      BY <1>4, <2>1, <3>1
    <3> QED
      BY <1>5, <2>4, <2>5, <3>2
  <2>11. last <= Len(part) => SubSeq(part, f, last - 1) = value
    <3> SUFFICES ASSUME last <= Len(part) PROVE SubSeq(part, f, last - 1) = value
      OBVIOUS
    <3> DEFINE n == last - 1
               m == end - 1
               u == SubSeq(part, f, n)
               v == SubSeq(whole, from, m)
    <3>1. /\ n \in Nat /\ f <= n + 1 /\ n <= Len(part) /\ n - f + 1 = Len(value)
          /\ m \in Nat /\ from <= m + 1 /\ m <= Len(whole) /\ m - from + 1 = Len(value)
      BY <1>2, <1>4, <1>6, <2>1, <2>7
    <3>2. v = value
      BY <1>5
    <3> HIDE DEF n, m
    <3>3. /\ u \in Text /\ Len(u) = Len(value)
          /\ \A i \in 1 .. Len(value) : u[i] = part[f + i - 1]
      BY <2>1, <3>1, TextBetween
    <3>4. /\ v \in Text
          /\ \A i \in 1 .. Len(value) : v[i] = whole[from + i - 1]
      BY <1>4, <3>1, TextBetween
    <3> HIDE DEF u, v
    <3>5. ASSUME NEW i \in 1 .. Len(value) PROVE u[i] = v[i]
      <4>1. f + i - 1 \in 1 .. Len(part) /\ k + (f + i - 1) = from + i - 1
        BY <1>2, <1>4, <2>1, <3>1
      <4>2. part[f + i - 1] = whole[from + i - 1]
        BY <4>1 DEF IsPart
      <4> QED
        BY <3>3, <3>4, <4>2
    <3>6. u = value
      BY <3>2, <3>3, <3>4, <3>5, TextSame
    <3> QED
      BY <3>6 DEF u, n
  <2> QED
    BY <1>1, <1>10, <2>9, <2>10, <2>11
<1> QED
  BY <1>9, <1>10

-----------------------------------------------------------------------------
LEMMA MarksAreText ==
  /\ CRLF \in Text /\ Len(CRLF) = 2 /\ CRLF[1] = "\r" /\ CRLF[2] = "\n"
  /\ <<" ">> \in Text /\ Len(<<" ">>) = 1 /\ <<" ">>[1] = " "
  /\ <<":">> \in Text /\ Len(<<":">>) = 1 /\ <<":">>[1] = ":"
  /\ <<",">> \in Text /\ Len(<<",">>) = 1
  /\ <<"}">> \in Text /\ Len(<<"}">>) = 1
  /\ <<Quote>> \in Text /\ Len(<<Quote>>) = 1
  /\ <<Quote, "}">> \in Text /\ Len(<<Quote, "}">>) = 2
  /\ expires_mark \in Text /\ token_mark \in Text
<1>1. /\ "\r" \in Char /\ "\n" \in Char /\ " " \in Char /\ ":" \in Char
      /\ "," \in Char /\ "}" \in Char /\ Quote \in Char
      /\ "expires_in" \in Char /\ "access_token" \in Char
  BY CharAssumption
<1>2. \A c, d \in Char : <<c>> \in Seq(Char) /\ <<c, d>> \in Seq(Char)
  OBVIOUS
<1>3. \A c, d, e, f, g \in Char :
        <<c, d, e, f>> \in Seq(Char) /\ <<c, d, e, f, g>> \in Seq(Char)
  OBVIOUS
<1> QED
  BY <1>1, <1>2, <1>3 DEF CRLF, expires_mark, token_mark, Text

(* What is not in the whole is not found in a part. *)
LEMMA NothingInPart ==
  ASSUME NEW whole \in Text, NEW part \in Text, NEW k, IsPart(part, whole, k),
         NEW a \in Text, NEW b1, NEW b2, Places(whole, a, 1) = {}
  PROVE  parse_string_between(part, a, b1, b2) = Nothing
<1> DEFINE s == find(part, a, 1)
<1>1. s = npos
  <2> SUFFICES ASSUME s # npos PROVE FALSE
    OBVIOUS
  <2>1. s \in Places(part, a, 1) /\ s \in Nat \ {0}
    BY Found
  <2> HIDE DEF s
  <2>2. k + s \in Places(whole, a, k + 1)
    BY <2>1, PlacesOfPart
  <2>3. k \in Nat
    BY DEF IsPart
  <2>4. k + s \in Places(whole, a, 1)
    BY <2>2, <2>3, PlacesFrom
  <2> QED
    BY <2>4
<1> QED
  BY <1>1 DEF parse_string_between

(* What parse_response makes of a body. *)
Parsed(str) ==
  LET cleaned == clean_whitespace(str)
      expires == parse_string_between(cleaned, expires_mark, <<",">>, <<"}">>)
      access_token == parse_string_between(cleaned, token_mark,
                                           <<Quote>>, <<Quote, "}">>)
  IN  IF Nothing \in {expires, access_token} THEN Nothing
      ELSE [access_token |-> access_token, expires_in |-> atoi(expires)]

(* Of a part of a body the token is made that the body grants, or none. *)
LEMMA ParsedPart ==
  ASSUME NEW a \in Answers, NEW str \in Text, NEW k, IsPart(str, a.body, k)
  PROVE  /\ Parsed(str) \in {Nothing, a.grant}
         /\ str = a.body => Parsed(str) = a.grant
<1> DEFINE whole == clean_whitespace(a.body)
           part == clean_whitespace(str)
           comma == <<",">>
           brace == <<"}">>
           quote == <<Quote>>
           quote_brace == <<Quote, "}">>
           expires == parse_string_between(part, expires_mark, comma, brace)
           access_token == parse_string_between(part, token_mark, quote, quote_brace)
<1>0. /\ comma \in Text /\ Len(comma) = 1 /\ brace \in Text /\ Len(brace) = 1
      /\ quote \in Text /\ Len(quote) = 1
      /\ quote_brace \in Text /\ Len(quote_brace) = 2
      /\ expires_mark \in Text /\ token_mark \in Text
  BY MarksAreText
<1>1. /\ a.body \in Text /\ a.grant \in Grant \cup {Nothing}
      /\ Grants(whole, a.grant) /\ Nothing \notin Text
  BY AnswersAssumption
<1>2. whole \in Text /\ part \in Text
  BY <1>1, CleanIsText
<1>3. PICK j : IsPart(part, whole, j)
  BY <1>1, CleanOfPart
<1>4. str = a.body => part = whole
  OBVIOUS
<1>5. Parsed(str) = IF Nothing \in {expires, access_token} THEN Nothing
                    ELSE [access_token |-> access_token, expires_in |-> atoi(expires)]
  BY DEF Parsed
<1> HIDE DEF whole, part, comma, brace, quote, quote_brace
<1>6. CASE a.grant = Nothing
  <2>1. Places(whole, expires_mark, 1) = {} \/ Places(whole, token_mark, 1) = {}
    BY <1>1, <1>6 DEF Grants
  <2>2. expires = Nothing \/ access_token = Nothing
    BY <1>0, <1>2, <1>3, <2>1, NothingInPart
  <2> QED
    BY <1>5, <1>6, <2>2
<1>7. CASE a.grant # Nothing
  <2>1. a.grant \in Grant
    BY <1>1, <1>7
  <2>2. PICK i \in DOMAIN whole, l \in DOMAIN whole :
          /\ Says(whole, expires_mark, comma, brace, SubSeq(whole, i, l))
          /\ a.grant.expires_in = atoi(SubSeq(whole, i, l))
    BY <1>1, <1>7 DEF Grants, comma, brace
  <2>3. Says(whole, token_mark, quote, quote_brace, a.grant.access_token)
    BY <1>1, <1>7 DEF Grants, quote, quote_brace
  <2> DEFINE number == SubSeq(whole, i, l)
  <2>4. number \in Text
    <3>1. i \in 1 .. Len(whole) /\ l \in 1 .. Len(whole) /\ Len(whole) \in Nat
      BY <1>2, LenProperties DEF Text
    <3> DEFINE m == i - 1
    <3>2. m \in Nat /\ m + 1 = i /\ l \in Nat /\ l <= Len(whole)
      BY <3>1
    <3> HIDE DEF m
    <3>3. SubSeq(whole, m + 1, l) \in Text
      BY <1>2, <3>2, TextPart
    <3> QED
      BY <3>2, <3>3
  <2> HIDE DEF number
  <2>5. a.grant.access_token \in Text
    BY <2>1 DEF Grant
  <2>a. /\ Len(comma) >= 1 /\ Len(comma) <= Len(brace)
        /\ Len(quote) >= 1 /\ Len(quote) <= Len(quote_brace)
    BY <1>0
  <2> DEFINE granted == a.grant.access_token
  <2>b. granted \in Text /\ Says(whole, token_mark, quote, quote_brace, granted)
    BY <2>3, <2>5
  <2>c. Says(whole, expires_mark, comma, brace, number)
    BY <2>2 DEF number
  <2> HIDE DEF granted
  <2>6. /\ expires \in {Nothing, number}
        /\ part = whole => expires = number
    BY <1>0, <1>2, <1>3, <2>4, <2>a, <2>c, BetweenInPart
  <2>7. /\ access_token \in {Nothing, granted}
        /\ part = whole => access_token = granted
    BY <1>0, <1>2, <1>3, <2>a, <2>b, BetweenInPart
  <2>8. a.grant = [access_token |-> granted, expires_in |-> atoi(number)]
    BY <2>1, <2>2 DEF Grant, number, granted
  <2> HIDE DEF expires, access_token
  <2> QED
    BY <1>1, <1>4, <1>5, <2>4, <2>b, <2>6, <2>7, <2>8
<1> QED
  BY <1>6, <1>7

LEMMA PlaceEnds ==
  ASSUME NEW str \in Text, NEW pattern \in Text
  PROVE  \A i \in Places(str, pattern, 1) : i + Len(pattern) - 1 <= Len(str)
<1> SUFFICES ASSUME NEW i \in Places(str, pattern, 1)
             PROVE  i + Len(pattern) - 1 <= Len(str)
  OBVIOUS
<1>1. 1 \in Nat \ {0}
  OBVIOUS
<1> QED
  BY <1>1, PlaceIs, Zenon

LEMMA PlaceChars ==
  ASSUME NEW str \in Text, NEW pattern \in Text
  PROVE  \A i \in Places(str, pattern, 1) :
           \A j \in 1 .. Len(pattern) : str[i + j - 1] = pattern[j]
<1> SUFFICES ASSUME NEW i \in Places(str, pattern, 1)
             PROVE  \A j \in 1 .. Len(pattern) : str[i + j - 1] = pattern[j]
  OBVIOUS
<1>1. 1 \in Nat \ {0} /\ i \in Nat
  BY PlacesAreNumbers
<1> QED
  BY <1>1, PlaceIs

-----------------------------------------------------------------------------
(* Every input is an answer or a request, not both. *)
LEMMA InputsAreTyped ==
  /\ \A a \in Answers : /\ a.head \in Text /\ a.body \in Text
                         /\ a.grant \in Grant \cup {Nothing}
                         /\ IsHead(a.head)
  /\ \A r \in Requests : /\ r.line \in Text /\ r.body \in Text
                          /\ r.fields \in Seq(Text \X Text)
BY AnswersAssumption, RequestsAssumption

LEMMA AnswersAreNotRequests == Answers \cap Requests = {}
<1> SUFFICES ASSUME NEW x \in Answers, x \in Requests PROVE FALSE
  OBVIOUS
<1>1. x \in [head : Text, body : Text, grant : Grant \cup {Nothing}]
  BY AnswersAssumption
<1>2. x \in [line : Text, fields : Seq(Text \X Text), body : Text]
  BY RequestsAssumption
<1>3. DOMAIN x = {"head", "body", "grant"}
  BY <1>1
<1>4. DOMAIN x = {"line", "fields", "body"}
  BY <1>2
<1>5. "head" \in {"head", "body", "grant"} /\ "head" \notin {"line", "fields", "body"}
  OBVIOUS
<1> QED
  BY <1>3, <1>4, <1>5

(* What is sent starts with the head, after which the body is. *)
LEMMA SentIs ==
  ASSUME NEW a \in Answers
  PROVE  /\ a.head \in Text /\ a.body \in Text /\ sent(a) \in Text
         /\ Len(sent(a)) = Len(a.head) + Len(a.body)
         /\ Len(a.head) \in Nat /\ Len(a.body) \in Nat
         /\ IsPart(a.head, sent(a), 0)
         /\ IsPart(a.body, sent(a), Len(a.head))
<1> DEFINE h == a.head
           b == a.body
<1>1. h \in Text /\ b \in Text
  BY InputsAreTyped
<1> HIDE DEF h, b
<1>2. /\ h \o b \in Text
      /\ Len(h \o b) = Len(h) + Len(b)
      /\ Len(h) \in Nat /\ Len(b) \in Nat
      /\ \A i \in 1 .. Len(h) : (h \o b)[i] = h[i]
      /\ \A i \in 1 .. Len(b) : (h \o b)[Len(h) + i] = b[i]
  BY <1>1, TextJoined, TextLength
<1>3. IsPart(h, h \o b, 0) /\ IsPart(b, h \o b, Len(h))
  BY <1>2 DEF IsPart
<1> QED
  BY <1>1, <1>2, <1>3 DEF h, b, sent

(* The breaks of the head are breaks of what is sent, and the other way    *)
(* round up to where the head ends.                                        *)
LEMMA BreaksOfHead ==
  ASSUME NEW a \in Answers
  PROVE  /\ Len(a.head) - 3 \in Nat \ {0}
         /\ Len(a.head) - 3 \in Places(a.head, CRLF, 1)
         /\ (Len(a.head) - 3) + 2 \in Places(a.head, CRLF, 1)
         /\ \A i \in Nat : i \in Places(a.head, CRLF, 1) <=>
              i \in Places(sent(a), CRLF, 1) /\ i + 1 <= Len(a.head)
         /\ \A i \in Places(sent(a), CRLF, 1) :
              i + 2 \in Places(sent(a), CRLF, 1) => i >= Len(a.head) - 3
<1> DEFINE h == a.head
           breaks == Places(h, CRLF, 1)
           last == Len(h) - 3
<1>1. IsHead(h)
  BY AnswersAssumption
<1>2. {b \in breaks : b + 2 \in breaks} = {last}
  BY <1>1 DEF IsHead
<1>3. /\ h \in Text /\ sent(a) \in Text /\ Len(h) \in Nat /\ IsPart(h, sent(a), 0)
  BY SentIs
<1>4. last \in breaks /\ last + 2 \in breaks
  BY <1>2
<1>l. last = Len(h) - 3
  OBVIOUS
<1> HIDE DEF last
<1>5. last \in Nat \ {0}
  BY <1>4, PlacesAreNumbers
<1>6. ASSUME NEW i \in Nat
      PROVE  i \in breaks <=> i \in Places(sent(a), CRLF, 1) /\ i + 1 <= Len(h)
  <2>1. 0 + i = i /\ 0 + 1 = 1 /\ i + 2 - 1 = i + 1
    OBVIOUS
  <2> HIDE DEF h
  <2>2. i \in breaks <=>
          /\ 0 + i \in Places(sent(a), CRLF, 0 + 1)
          /\ i + Len(CRLF) - 1 <= Len(h)
    BY <1>3, MarksAreText, PlacesOfPart
  <2> QED
    BY <2>1, <2>2, MarksAreText
<1>7. ASSUME NEW i \in Places(sent(a), CRLF, 1), i + 2 \in Places(sent(a), CRLF, 1)
      PROVE  i >= last
  <2>0. i \in Nat
    BY PlacesAreNumbers
  <2>1. CASE i + 3 <= Len(h)
    <3> DEFINE i2 == i + 2
    <3>a. i2 \in Nat /\ i2 + 1 <= Len(h) /\ i + 1 <= Len(h)
      BY <2>0, <2>1, <1>3
    <3>b. i2 \in Places(sent(a), CRLF, 1)
      BY <1>7
    <3> HIDE DEF i2
    <3>c. i \in breaks /\ i2 \in breaks
      BY <1>6, <2>0, <3>a, <3>b
    <3>1. i \in breaks /\ i + 2 \in breaks
      BY <3>c DEF i2
    <3>2. i \in {b \in breaks : b + 2 \in breaks}
      BY <3>1
    <3>3. i = last
      BY <1>2, <3>2
    <3> QED
      BY <1>5, <3>3
  <2>2. CASE ~(i + 3 <= Len(h))
    BY <2>0, <2>2, <1>3, <1>l
  <2> QED
    BY <2>1, <2>2
<1> QED
  BY <1>4, <1>5, <1>6, <1>7 DEF last

(* The body that is taken where two breaks follow each other is a part of  *)
(* the body of the answer.                                                 *)
LEMMA BodyOfPart ==
  ASSUME NEW a \in Answers, NEW str \in Text, NEW k, IsPart(str, sent(a), k),
         NEW i \in Places(str, CRLF, 1), i + 2 \in Places(str, CRLF, 1)
  PROVE  /\ SubSeq(str, i + 2 + 2, Len(str)) \in Text
         /\ \E j : IsPart(SubSeq(str, i + 2 + 2, Len(str)), a.body, j)
         /\ str = sent(a) /\ i = Len(a.head) - 3 =>
              SubSeq(str, i + 2 + 2, Len(str)) = a.body
<1> DEFINE T == sent(a)
           n == Len(a.head)
<1>1. /\ a.body \in Text /\ T \in Text /\ Len(T) = n + Len(a.body)
      /\ n \in Nat /\ Len(a.body) \in Nat /\ IsPart(a.body, T, n)
  BY SentIs
<1>2. /\ k \in Nat /\ k + Len(str) <= Len(T) /\ Len(str) \in Nat
      /\ \A m \in 1 .. Len(str) : str[m] = T[k + m]
  BY TextLength DEF IsPart
<1>c. CRLF \in Text /\ Len(CRLF) = 2
  BY MarksAreText
<1>3. i \in Nat \ {0} /\ i + 3 <= Len(str)
  <2> DEFINE i2 == i + 2
  <2>1. i \in Nat \ {0} /\ i2 \in Places(str, CRLF, 1)
    BY PlacesAreNumbers
  <2> HIDE DEF i2
  <2>2. i2 + Len(CRLF) - 1 <= Len(str)
    BY <1>c, <2>1, PlaceEnds
  <2> QED
    BY <1>c, <1>2, <2>1, <2>2 DEF i2
<1>4. k + i >= n - 3
  <2>1. ASSUME NEW p \in Places(str, CRLF, 1)
        PROVE  k + p \in Places(T, CRLF, 1)
    <3>1. p \in Nat
      BY PlacesAreNumbers
    <3>2. k + p \in Places(T, CRLF, k + 1)
      BY <1>1, <1>c, <3>1, PlacesOfPart
    <3> QED
      BY <1>2, <3>2, PlacesFrom
  <2>2. k + i \in Places(T, CRLF, 1) /\ k + (i + 2) \in Places(T, CRLF, 1)
    BY <2>1
  <2>3. k + (i + 2) = (k + i) + 2
    BY <1>2, <1>3
  <2> QED
    BY <2>2, <2>3, BreaksOfHead
<1> DEFINE m == i + 3
           u == SubSeq(str, m + 1, Len(str))
<1>5. /\ u \in Text /\ Len(u) = Len(str) - m
      /\ \A c \in 1 .. Len(str) - m : u[c] = str[m + c]
      /\ m \in Nat /\ m <= Len(str)
  <2>1. m \in Nat /\ m <= Len(str)
    BY <1>3
  <2> HIDE DEF m
  <2> QED
    BY <1>2, <2>1, TextPart
<1>6. m + 1 = i + 2 + 2
  BY <1>3
<1>a. m = i + 3
  OBVIOUS
<1> HIDE DEF u, T, n, m
<1> DEFINE j == k + m - n
<1>7. IsPart(u, a.body, j)
  <2>1. j \in Nat /\ j + Len(u) <= Len(a.body)
    BY <1>1, <1>2, <1>3, <1>4, <1>5, <1>a
  <2>2. ASSUME NEW c \in 1 .. Len(u) PROVE u[c] = a.body[j + c]
    <3>1. /\ m + c \in 1 .. Len(str) /\ j + c \in 1 .. Len(a.body)
          /\ k + (m + c) = n + (j + c)
      BY <1>1, <1>2, <1>3, <1>4, <1>5, <1>a
    <3>2. u[c] = T[k + (m + c)]
      BY <1>2, <1>5, <3>1
    <3>3. a.body[j + c] = T[n + (j + c)]
      BY <1>1, <3>1 DEF IsPart
    <3> QED
      BY <3>1, <3>2, <3>3
  <2> HIDE DEF j
  <2> QED
    BY <2>1, <2>2 DEF IsPart
<1>8. ASSUME str = T, i = n - 3 PROVE u = a.body
  <2>1. k = 0 /\ j = 0 /\ Len(u) = Len(a.body)
    BY <1>1, <1>2, <1>5, <1>8, <1>a
  <2> HIDE DEF j
  <2>2. \A c \in 1 .. Len(u) : u[c] = a.body[c]
    <3>1. \A c \in 1 .. Len(u) : u[c] = a.body[j + c]
      BY <1>7 DEF IsPart
    <3>2. \A c \in 1 .. Len(u) : j + c = c
      BY <1>1, <2>1
    <3> QED
      BY <3>1, <3>2
  <2> QED
    BY <1>1, <1>5, <2>1, <2>2, TextSame
<1>9. u = SubSeq(str, i + 2 + 2, Len(str))
  BY <1>6 DEF u
<1>10. /\ u \in Text /\ \E l : IsPart(u, a.body, l)
       /\ str = T /\ i = n - 3 => u = a.body
  BY <1>5, <1>7, <1>8
<1> QED
  BY <1>9, <1>10 DEF T, n

-----------------------------------------------------------------------------
(* Of any part of an answer, the body is a part of its body. *)
PartRead ==
  /\ \E k : IsPart(data, sent(origin), k)
  /\ \E j : IsPart(body, origin.body, j)
  /\ pc = "fields" => newline \in Places(data, CRLF, 1)
  /\ pc = "parsed" => result \in {Nothing, origin.grant}

(* A whole answer is read line by line up to the end of its head. *)
WholeRead ==
  /\ pc # "thrown"
  /\ pc = "fields" => /\ newline \in Places(origin.head, CRLF, 1)
                      /\ newline <= Len(origin.head) - 3
  /\ pc \in {"body", "parsed"} => body = origin.body
  /\ pc = "parsed" => result = origin.grant

AnswerInv ==
  origin \in Answers =>
    /\ data \in Text /\ body \in Text
    /\ PartRead
    /\ data = sent(origin) => WholeRead

(* The places of one character. *)
LEMMA PlaceOfOne ==
  ASSUME NEW str \in Text, NEW p \in Text, NEW from \in Nat \ {0}
  PROVE  Len(p) = 1 =>
           \A i : i \in Places(str, p, from) <=> i \in from .. Len(str) /\ str[i] = p[1]
<1>2. ASSUME NEW i \in Nat
      PROVE  i \in Places(str, p, from) <=>
               /\ i \in Nat /\ i >= from /\ i + Len(p) - 1 <= Len(str)
               /\ \A j \in 1 .. Len(p) : str[i + j - 1] = p[j]
  BY PlaceIs
<1> SUFFICES ASSUME Len(p) = 1, NEW i
             PROVE  i \in Places(str, p, from) <=> i \in from .. Len(str) /\ str[i] = p[1]
  OBVIOUS
<1>1. Len(str) \in Nat
  BY TextLength
<1>3. CASE i \in Nat
  <2>1. i + Len(p) - 1 = i /\ i + 1 - 1 = i
    BY <1>3
  <2>2. (\A j \in 1 .. Len(p) : str[i + j - 1] = p[j]) <=> str[i] = p[1]
    <3>1. 1 .. Len(p) = {1}
      OBVIOUS
    <3> QED
      BY <3>1, <2>1
  <2> QED
    BY <1>1, <1>2, <1>3, <2>1, <2>2
<1>4. CASE i \notin Nat
  BY <1>1, <1>4, PlacesAreNumbers
<1> QED
  BY <1>3, <1>4

(* A line that has a character is found to have it, not after where it is. *)
LEMMA FoundInLine ==
  ASSUME NEW str \in Text, NEW c \in Char, NEW from \in Nat \ {0},
         NEW i \in from .. Len(str), str[i] = c
  PROVE  /\ find(str, <<c>>, from) \in from .. i
         /\ find(str, <<c>>, from) # npos
         /\ str[find(str, <<c>>, from)] = c
<1>1. <<c>> \in Text /\ Len(<<c>>) = 1 /\ <<c>>[1] = c
  BY DEF Text
<1>2. Len(str) \in Nat /\ i \in Nat
  BY TextLength
<1> DEFINE p == <<c>>
<1> HIDE DEF p
<1>3. p \in Text /\ Len(p) = 1 /\ p[1] = c
  BY <1>1 DEF p
<1>4. i \in Places(str, p, from)
  BY <1>2, <1>3, PlaceOfOne
<1>5. /\ find(str, p, from) \in Places(str, p, from)
      /\ find(str, p, from) \in Nat \ {0} /\ find(str, p, from) <= i
      /\ find(str, p, from) # npos
  BY <1>4, Found DEF npos
<1>6. find(str, p, from) >= from
  BY <1>5, PlacesAreNumbers
<1>7. str[find(str, p, from)] = c
  <2> DEFINE f == find(str, p, from)
  <2> HIDE DEF f
  <2>1. f \in Places(str, p, from)
    BY <1>5 DEF f
  <2>2. str[f] = p[1]
    BY <1>3, <2>1, PlaceOfOne
  <2> QED
    BY <1>3, <2>2 DEF f
<1> QED
  BY <1>2, <1>5, <1>6, <1>7 DEF p

(* The breaks of a whole answer up to where its head ends. *)
LEMMA NextBreak ==
  ASSUME NEW a \in Answers, NEW from \in Nat \ {0}, from <= Len(a.head) - 1
  PROVE  LET next == find(sent(a), CRLF, from) IN
         /\ next # npos /\ next \in from .. Len(a.head) - 1
         /\ next \in Places(a.head, CRLF, 1)
         /\ from <= Len(a.head) - 3 => next <= Len(a.head) - 3
<1> DEFINE T == sent(a)
           next == find(T, CRLF, from)
           end == Len(a.head) - 1
           last == Len(a.head) - 3
<1>1. /\ last \in Nat \ {0} /\ end \in Nat \ {0} /\ Len(a.head) \in Nat
      /\ last \in Places(a.head, CRLF, 1)
      /\ end \in Places(a.head, CRLF, 1)
  <2>1. /\ last \in Nat \ {0} /\ last \in Places(a.head, CRLF, 1)
        /\ last + 2 \in Places(a.head, CRLF, 1) /\ Len(a.head) \in Nat
    BY BreaksOfHead, SentIs
  <2>2. last + 2 = end /\ end \in Nat \ {0}
    <3> DEFINE n == Len(a.head)
    <3> HIDE DEF n
    <3>1. n \in Nat /\ n - 3 \in Nat \ {0}
      BY <2>1 DEF n
    <3>2. (n - 3) + 2 = n - 1 /\ n - 1 \in Nat \ {0}
      BY <3>1
    <3> QED
      BY <3>2 DEF n
  <2> QED
    BY <2>1, <2>2
<1>2. \A i \in Nat : i \in Places(a.head, CRLF, 1) <=>
         i \in Places(T, CRLF, 1) /\ i + 1 <= Len(a.head)
  BY BreaksOfHead
<1>3. \A i : i \in Places(T, CRLF, from) <=> i \in Places(T, CRLF, 1) /\ i >= from
  BY PlacesFrom
<1>e. end + 1 = Len(a.head) /\ last + 2 = end /\ from <= end
  BY <1>1
<1> HIDE DEF T, end, last
<1>4. end \in Places(T, CRLF, from) /\ (from <= last => last \in Places(T, CRLF, from))
  BY <1>1, <1>2, <1>3, <1>e
<1>5. /\ next # npos /\ next \in Places(T, CRLF, from) /\ next \in Nat \ {0}
      /\ \A i \in Places(T, CRLF, from) : next <= i
  BY <1>4, Found
<1> HIDE DEF next
<1>6. /\ next <= end /\ from <= next /\ (from <= last => next <= last)
      /\ next \in Places(a.head, CRLF, 1)
  BY <1>1, <1>2, <1>3, <1>4, <1>5, <1>e
<1> QED
  BY <1>1, <1>5, <1>6 DEF T, end, last, next

(* The first line of a whole answer has its two blanks. *)
LEMMA FirstLineIsRead ==
  ASSUME NEW a \in Answers
  PROVE  LET end == find(sent(a), CRLF, 1)
             line == SubSeq(sent(a), 1, end - 1)
             s0 == find(line, <<" ">>, 1)
             s1 == find(line, <<" ">>, s0 + 1)
         IN  /\ end # npos /\ s0 # npos /\ s1 # npos
             /\ end \in Places(a.head, CRLF, 1) /\ end <= Len(a.head) - 3
<1> DEFINE T == sent(a)
           h == a.head
           blank == " "
           end == find(T, CRLF, 1)
           n == end - 1
           line == SubSeq(T, 1, n)
           s0 == find(line, <<blank>>, 1)
           s1 == find(line, <<blank>>, s0 + 1)
<1>1. /\ Len(h) \in Nat /\ Len(h) - 3 \in Nat \ {0} /\ h \in Text
      /\ T \in Text /\ IsPart(h, T, 0)
  BY BreaksOfHead, SentIs
<1>3. 1 <= Len(h) - 1 =>
      /\ end # npos /\ end \in 1 .. Len(h) - 1
      /\ end \in Places(h, CRLF, 1) /\ (1 <= Len(h) - 3 => end <= Len(h) - 3)
  <2>1. 1 \in Nat \ {0}
    OBVIOUS
  <2> QED
    BY <2>1, NextBreak
<1>4. PICK b0 \in DOMAIN h, b1 \in DOMAIN h :
        /\ b0 < b1 /\ h[b0] = blank /\ h[b1] = blank
        /\ \A b \in Places(h, CRLF, 1) : b1 < b
  <2>1. IsHead(h)
    BY InputsAreTyped
  <2> QED
    BY <2>1 DEF IsHead
<1>b. blank \in Char
  BY CharAssumption
<1> HIDE DEF T, end, h, blank
<1>c. /\ Len(h) <= Len(T) /\ Len(T) \in Nat
      /\ \A i \in 1 .. Len(h) : h[i] = T[i]
  <2>1. \A i \in 1 .. Len(h) : 0 + i = i
    BY <1>1
  <2>2. 0 + Len(h) <= Len(T) /\ \A i \in 1 .. Len(h) : h[i] = T[0 + i]
    BY <1>1 DEF IsPart
  <2> QED
    BY <1>1, <2>1, <2>2, TextLength
<1>2. 1 <= Len(h) - 1 /\ 1 <= Len(h) - 3 /\ 1 \in Nat \ {0}
  <2> DEFINE m == Len(h)
  <2>1. m \in Nat /\ m - 3 \in Nat \ {0}
    BY <1>1
  <2> HIDE DEF m
  <2>2. 1 <= m - 1 /\ 1 <= m - 3
    BY <2>1
  <2> QED
    BY <2>2 DEF m
<1>5. b0 \in 1 .. Len(h) /\ b1 \in 1 .. Len(h) /\ b0 < b1 /\ b1 < end
  BY <1>1, <1>2, <1>3, <1>4, LenProperties DEF Text
<1>6. n \in Nat /\ 1 <= n + 1 /\ n <= Len(T) /\ n - 1 + 1 = n
  BY <1>1, <1>2, <1>3, <1>c
<1>7. b0 \in 1 .. n /\ b1 \in b0 + 1 .. n /\ b1 \in 1 .. n
  BY <1>1, <1>2, <1>3, <1>5
<1> HIDE DEF n
<1>8. /\ line \in Text /\ Len(line) = n
      /\ \A i \in 1 .. n : line[i] = T[i]
  <2>1. \A i \in 1 .. n : 1 + i - 1 = i
    BY <1>6
  <2> QED
    BY <1>1, <1>2, <1>6, <2>1, TextBetween
<1> HIDE DEF line
<1>9. line[b0] = blank /\ line[b1] = blank
  BY <1>4, <1>5, <1>7, <1>8, <1>c
<1>10. s0 \in 1 .. b0 /\ s0 # npos
  <2>1. b0 \in 1 .. Len(line)
    BY <1>7, <1>8
  <2> QED
    BY <1>2, <1>8, <1>9, <1>b, <2>1, FoundInLine
<1> HIDE DEF s0
<1> DEFINE from == s0 + 1
<1>11. from \in Nat \ {0} /\ b1 \in from .. Len(line)
  BY <1>6, <1>7, <1>8, <1>10
<1> HIDE DEF from
<1>12. find(line, <<blank>>, from) # npos
  BY <1>8, <1>9, <1>b, <1>11, FoundInLine
<1> QED
  BY <1>2, <1>3, <1>10, <1>12 DEF T, h, blank, end, n, line, s0, from

LEMMA FirstLineStep ==
  ASSUME AnswerInv, read_first_line
  PROVE  AnswerInv'
<1>1. data' = data /\ origin' = origin /\ body' = body /\ pc' \in {"fields", "body"}
  BY DEF read_first_line
<1>2. pc' = "fields" => newline' = find(data, CRLF, 1) /\ newline' # npos
  BY DEF read_first_line
<1>3. ASSUME origin \in Answers PROVE PartRead'
  <2>1. PartRead
    BY <1>3 DEF AnswerInv
  <2>2. pc' = "fields" => newline' \in Places(data, CRLF, 1)
    BY <1>2, Found
  <2> QED
    BY <1>1, <2>1, <2>2 DEF PartRead
<1>4. ASSUME origin \in Answers, data = sent(origin) PROVE WholeRead'
  <2>1. pc' = "fields" /\ newline' = find(sent(origin), CRLF, 1)
    BY <1>4, FirstLineIsRead DEF read_first_line
  <2> QED
    BY <1>1, <1>4, <2>1, FirstLineIsRead DEF WholeRead
<1> QED
  BY <1>1, <1>3, <1>4 DEF AnswerInv, sent

(* Two breaks do not overlap. *)
LEMMA BreaksApart ==
  ASSUME NEW str \in Text, NEW i \in Places(str, CRLF, 1), NEW l \in Places(str, CRLF, 1)
  PROVE  i + 1 # l
<1> DEFINE p == CRLF
<1>1. p \in Text /\ Len(p) = 2 /\ p[1] = "\r" /\ p[2] = "\n" /\ 1 \in Nat \ {0}
  BY MarksAreText
<1>2. i \in Places(str, p, 1) /\ l \in Places(str, p, 1)
  OBVIOUS
<1> HIDE DEF p
<1>3. i \in Nat /\ l \in Nat
  BY <1>1, <1>2, PlacesAreNumbers
<1>4. ASSUME NEW b \in Places(str, p, 1) PROVE str[b + 1 - 1] = p[1] /\ str[b + 2 - 1] = p[2]
  <2>1. \A j \in 1 .. Len(p) : str[b + j - 1] = p[j]
    BY <1>1, PlaceChars
  <2> QED
    BY <1>1, <2>1
<1>5. str[i + 2 - 1] = "\n" /\ str[l + 1 - 1] = "\r"
  BY <1>1, <1>2, <1>4
<1>6. i + 2 - 1 = i + 1 /\ l + 1 - 1 = l
  BY <1>3
<1> QED
  BY <1>5, <1>6

(* Each further line of the head of a whole answer has a colon before its  *)
(* last character, and the first empty line is the end of the head.        *)
LEMMA FieldIsRead ==
  ASSUME NEW a \in Answers, NEW nl \in Places(a.head, CRLF, 1), nl <= Len(a.head) - 3
  PROVE  LET next == find(sent(a), CRLF, nl + 2)
             field == SubSeq(sent(a), nl + 2, next - 1)
             separator == find(field, <<":">>, 1)
         IN  /\ next # npos /\ next \in Nat /\ next >= nl + 2
             /\ next = nl + 2 => nl = Len(a.head) - 3
             /\ next > nl + 2 =>
                  /\ separator # npos /\ ~(separator + 2 > Len(field) + 1)
                  /\ next \in Places(a.head, CRLF, 1) /\ next <= Len(a.head) - 3
<1> DEFINE T == sent(a)
           h == a.head
           L == Len(h)
           last == L - 3
           colon == ":"
           from == nl + 2
           next == find(T, CRLF, from)
           n == next - 1
           field == SubSeq(T, from, n)
           separator == find(field, <<colon>>, 1)
<1>1. /\ L \in Nat /\ L - 3 \in Nat \ {0} /\ h \in Text
      /\ T \in Text /\ IsPart(h, T, 0) /\ last \in Places(h, CRLF, 1)
  BY BreaksOfHead, SentIs
<1>2. nl \in Nat \ {0} /\ nl <= last
  BY PlacesAreNumbers
<1>3. IsHead(h)
  BY InputsAreTyped
<1>4. /\ {b \in Places(h, CRLF, 1) : b + 2 \in Places(h, CRLF, 1)} = {last}
      /\ nl < last => \E c \in DOMAIN h :
           /\ nl + 2 <= c /\ h[c] = colon
           /\ \A b \in Places(h, CRLF, 1) : nl < b => c + 1 < b
  BY <1>3 DEF IsHead
<1>5. from \in Nat \ {0} /\ from <= L - 1 =>
        /\ next # npos /\ next \in from .. L - 1 /\ next \in Places(h, CRLF, 1)
        /\ from <= L - 3 => next <= L - 3
  BY NextBreak
<1>6. colon \in Char /\ Len(h) = L /\ nl \in Places(h, CRLF, 1)
  BY CharAssumption
<1>7. last \in Nat \ {0} /\ last = L - 3 /\ from = nl + 2 /\ nl + 1 # last
  BY <1>1, BreaksApart
<1> HIDE DEF T, h, L, last, colon, next
<1>8. from \in Nat \ {0} /\ from <= L - 1
  BY <1>1, <1>2, <1>7
<1>9. /\ next # npos /\ next \in from .. L - 1 /\ next \in Places(h, CRLF, 1)
      /\ next \in Nat /\ (from <= last => next <= last)
  BY <1>1, <1>5, <1>7, <1>8
<1>10. ASSUME next = from PROVE nl = last
  <2>1. nl \in {b \in Places(h, CRLF, 1) : b + 2 \in Places(h, CRLF, 1)}
    BY <1>6, <1>9, <1>10
  <2> QED
    BY <1>4, <2>1
<1>11. ASSUME next > from
       PROVE  /\ separator # npos /\ ~(separator + 2 > Len(field) + 1)
              /\ next <= last
  <2>1. nl < last /\ from <= last
    BY <1>1, <1>2, <1>7, <1>8, <1>9, <1>11
  <2>2. PICK c \in DOMAIN h :
          /\ from <= c /\ h[c] = colon
          /\ \A b \in Places(h, CRLF, 1) : nl < b => c + 1 < b
    BY <1>4, <2>1
  <2>3. /\ Len(h) <= Len(T) /\ Len(T) \in Nat
        /\ \A i \in 1 .. Len(h) : h[i] = T[i]
    <3>1. \A i \in 1 .. Len(h) : 0 + i = i
      BY <1>1
    <3>2. 0 + Len(h) <= Len(T) /\ \A i \in 1 .. Len(h) : h[i] = T[0 + i]
      BY <1>1 DEF IsPart
    <3> QED
      BY <1>1, <1>6, <3>1, <3>2, TextLength
  <2>4. c \in 1 .. Len(h) /\ c \in Nat /\ c + 1 < next
    BY <1>1, <1>2, <1>6, <1>7, <1>8, <1>9, <1>11, <2>2, LenProperties DEF Text
  <2>5. n \in Nat /\ from <= n + 1 /\ n <= Len(T)
    BY <1>1, <1>6, <1>8, <1>9, <1>11, <2>3
  <2>n. n = next - 1
    OBVIOUS
  <2> HIDE DEF n, from
  <2>6. /\ field \in Text /\ Len(field) = n - from + 1
        /\ \A i \in 1 .. n - from + 1 : field[i] = T[from + i - 1]
    BY <1>1, <1>8, <2>5, TextBetween
  <2> HIDE DEF field
  <2> DEFINE p == c - from + 1
  <2>7. p \in 1 .. Len(field) /\ from + p - 1 = c /\ p + 2 <= Len(field) + 1 /\ p \in Nat
    BY <1>8, <1>9, <2>2, <2>4, <2>5, <2>6, <2>n
  <2> HIDE DEF p
  <2>8. field[p] = colon
    BY <2>2, <2>3, <2>4, <2>6, <2>7
  <2>9. separator \in 1 .. p /\ separator # npos
    <3>1. 1 \in Nat \ {0}
      OBVIOUS
    <3> QED
      BY <1>6, <2>6, <2>7, <2>8, <3>1, FoundInLine
  <2> HIDE DEF separator
  <2>10. ~(separator + 2 > Len(field) + 1)
    BY <2>5, <2>6, <2>7, <2>9, <1>8
  <2> QED
    BY <1>9, <2>1, <2>9, <2>10
<1> HIDE DEF separator, field
<1>12. /\ next # npos /\ next \in Nat /\ next >= from
       /\ next = from => nl = last
       /\ next > from =>
            /\ separator # npos /\ ~(separator + 2 > Len(field) + 1)
            /\ next \in Places(h, CRLF, 1) /\ next <= last
  BY <1>1, <1>8, <1>9, <1>10, <1>11
<1> QED
  BY <1>12 DEF T, h, L, last, colon, next, field, separator

LEMMA FieldStep ==
  ASSUME AnswerInv, read_field
  PROVE  AnswerInv'
<1> DEFINE nl == newline
           next == find(data, CRLF, nl + 2)
           field == SubSeq(data, nl + 2, next - 1)
           separator == find(field, <<":">>, 1)
<1>1. data' = data /\ origin' = origin /\ result' = result /\ pc = "fields"
  BY DEF read_field
<1>2. \/ pc' = "body" /\ body' = body /\ (next = npos \/ (next > nl + 2 /\ separator = npos))
      \/ next = nl + 2 /\ body' = SubSeq(data, nl + 2 + 2, Len(data)) /\ pc' = "body"
      \/ /\ pc' = "thrown" /\ body' = body
         /\ next > nl + 2 /\ separator + 2 > Len(field) + 1
      \/ pc' = "fields" /\ newline' = next /\ body' = body /\ next > nl + 2
  BY <1>1 DEF read_field, value_start
<1>3. ASSUME origin \in Answers PROVE nl \in Places(data, CRLF, 1) /\ nl \in Nat \ {0}
  <2>1. nl \in Places(data, CRLF, 1)
    BY <1>1, <1>3 DEF AnswerInv, PartRead
  <2> QED
    BY <2>1, PlacesAreNumbers
<1>f. ASSUME origin \in Answers
      PROVE  next # npos => next \in Places(data, CRLF, 1) /\ next \in Nat
  <2> DEFINE from == nl + 2
  <2>1. from \in Nat \ {0} /\ 1 <= from
    BY <1>3, <1>f
  <2> HIDE DEF from
  <2>2. find(data, CRLF, from) # npos => find(data, CRLF, from) \in Places(data, CRLF, 1)
                                          /\ find(data, CRLF, from) \in Nat
    BY <2>1, Found, PlacesFrom
  <2> QED
    BY <2>2 DEF from
<1>4. ASSUME origin \in Answers PROVE PartRead' /\ body' \in Text
  <2>1. PartRead /\ data \in Text /\ body \in Text
    BY <1>4 DEF AnswerInv
  <2>2. PICK k : IsPart(data, sent(origin), k)
    BY <2>1 DEF PartRead
  <2>3. /\ \E j : IsPart(body', origin.body, j)
        /\ body' \in Text
    <3>1. CASE next = nl + 2 /\ body' = SubSeq(data, nl + 2 + 2, Len(data))
      <4>1. nl \in Places(data, CRLF, 1) /\ nl + 2 \in Places(data, CRLF, 1)
        BY <1>3, <1>4, <1>f, <3>1 DEF npos
      <4> QED
        BY <1>4, <2>1, <2>2, <3>1, <4>1, BodyOfPart
    <3>2. CASE body' = body
      BY <2>1, <3>2 DEF PartRead
    <3> QED
      BY <1>2, <3>1, <3>2
  <2>4. pc' = "fields" => newline' \in Places(data, CRLF, 1)
    BY <1>2, <1>3, <1>4, <1>f DEF npos
  <2>5. pc' # "parsed"
    BY <1>2
  <2> QED
    BY <1>1, <2>1, <2>3, <2>4, <2>5 DEF PartRead, sent
<1>5. ASSUME origin \in Answers, data = sent(origin) PROVE WholeRead'
  <2>1. /\ nl \in Places(origin.head, CRLF, 1) /\ nl <= Len(origin.head) - 3
        /\ data \in Text
    BY <1>1, <1>5 DEF AnswerInv, WholeRead
  <2>2. /\ next # npos /\ next \in Nat /\ next >= nl + 2
        /\ next = nl + 2 => nl = Len(origin.head) - 3
        /\ next > nl + 2 =>
             /\ separator # npos /\ ~(separator + 2 > Len(field) + 1)
             /\ next \in Places(origin.head, CRLF, 1) /\ next <= Len(origin.head) - 3
    BY <1>5, <2>1, FieldIsRead
  <2>3. CASE next = nl + 2 /\ body' = SubSeq(data, nl + 2 + 2, Len(data)) /\ pc' = "body"
    <3>1. nl \in Places(data, CRLF, 1) /\ nl + 2 \in Places(data, CRLF, 1)
      BY <1>3, <1>5, <1>f, <2>3 DEF npos
    <3>2. IsPart(data, sent(origin), 0)
      BY <1>5, <2>1, TextLength DEF IsPart
    <3>3. body' = origin.body
      BY <1>5, <2>1, <2>2, <2>3, <3>1, <3>2, BodyOfPart
    <3> QED
      BY <1>1, <2>3, <3>3 DEF WholeRead
  <2>4. CASE pc' = "fields" /\ newline' = next /\ next > nl + 2
    BY <1>1, <2>2, <2>4 DEF WholeRead
  <2> HIDE DEF separator, field
  <2> QED
    BY <1>2, <2>2, <2>3, <2>4
<1> QED
  BY <1>1, <1>4, <1>5 DEF AnswerInv, sent

LEMMA ParseStep ==
  ASSUME AnswerInv, parse_response
  PROVE  AnswerInv'
<1>1. /\ data' = data /\ origin' = origin /\ body' = body /\ newline' = newline
      /\ pc = "body" /\ pc' = "parsed" /\ result' = Parsed(body)
  BY DEF parse_response, Parsed
<1>2. ASSUME origin \in Answers PROVE PartRead'
  <2>1. PartRead /\ body \in Text
    BY <1>2 DEF AnswerInv
  <2>2. PICK j : IsPart(body, origin.body, j)
    BY <2>1 DEF PartRead
  <2>3. result' \in {Nothing, origin.grant}
    BY <1>1, <1>2, <2>1, <2>2, ParsedPart
  <2> QED
    BY <1>1, <2>1, <2>3 DEF PartRead, sent
<1>3. ASSUME origin \in Answers, data = sent(origin) PROVE WholeRead'
  <2>1. body = origin.body /\ body \in Text
    BY <1>1, <1>3 DEF AnswerInv, WholeRead
  <2>2. IsPart(body, origin.body, 0)
    BY <2>1, TextLength DEF IsPart
  <2>3. result' = origin.grant
    BY <1>1, <1>3, <2>1, <2>2, ParsedPart
  <2> QED
    BY <1>1, <2>1, <2>3 DEF WholeRead
<1> QED
  BY <1>1, <1>2, <1>3 DEF AnswerInv, sent

LEMMA AnswerInvInitial == ReaderInit => AnswerInv
<1> SUFFICES ASSUME ReaderInit, origin \in Answers PROVE AnswerInv
  BY DEF AnswerInv
<1> DEFINE T == sent(origin)
<1>1. T \in Text /\ Len(T) \in Nat /\ origin.body \in Text /\ Len(origin.body) \in Nat
  BY SentIs, TextLength
<1>2. PICK i \in DOMAIN T : \E j \in i .. Len(T) : data = SubSeq(T, i, j)
  BY AnswersAreNotRequests DEF ReaderInit
<1>3. PICK j \in i .. Len(T) : data = SubSeq(T, i, j)
  BY <1>2
<1>4. i \in 1 .. Len(T) /\ j \in i .. Len(T) /\ i \in Nat \ {0}
  BY <1>1, LenProperties DEF Text
<1>5. body = <<>> /\ body \in Text /\ pc = "first_line"
  BY TextEmpty DEF ReaderInit
<1> HIDE DEF T
<1>6. /\ data \in Text /\ Len(data) = j - i + 1
      /\ \A m \in 1 .. j - i + 1 : data[m] = T[i + m - 1]
  <2>1. i \in Nat \ {0} /\ j \in Nat /\ i <= j + 1 /\ j <= Len(T)
    BY <1>1, <1>4
  <2> QED
    BY <1>1, <1>3, <2>1, TextBetween
<1> DEFINE k == i - 1
<1>7. k \in Nat /\ k + Len(data) <= Len(T) /\ \A m \in 1 .. Len(data) : k + m = i + m - 1
  BY <1>1, <1>4, <1>6
<1> HIDE DEF k
<1>8. IsPart(data, T, k)
  BY <1>4, <1>6, <1>7 DEF IsPart
<1>9. IsPart(body, origin.body, 0)
  BY <1>1, <1>5, TextEmpty DEF IsPart
<1>10. PartRead /\ WholeRead
  BY <1>5, <1>8, <1>9 DEF PartRead, WholeRead, T
<1> QED
  BY <1>5, <1>6, <1>10 DEF AnswerInv

LEMMA AnswerInvStep ==
  ASSUME AnswerInv, [ReaderNext]_readerVars
  PROVE  AnswerInv'
<1>1. CASE UNCHANGED readerVars
  BY <1>1 DEF readerVars, AnswerInv, PartRead, WholeRead, sent
<1> QED
  BY <1>1, FirstLineStep, FieldStep, ParseStep DEF ReaderNext

LEMMA AnswerInvGives == AnswerInv => PartNeverMisread /\ WholeIsRead
BY DEF AnswerInv, PartRead, WholeRead, PartNeverMisread, WholeIsRead

(***************************************************************************)
(* Whatever an answer is and whichever part of it the client has kept,     *)
(* reading makes of it no token but the one it grants, with its lifetime   *)
(* (oauth2.cpp:14-27, 95-109; http.cpp:54-75).                             *)
(***************************************************************************)
THEOREM NoPartIsMisread == ReaderSpec => []PartNeverMisread
BY AnswerInvInitial, AnswerInvStep, AnswerInvGives, PTL DEF ReaderSpec

(***************************************************************************)
(* Whatever an answer is, of the whole of it the token is made that it     *)
(* grants (oauth2.cpp:95-109; http.cpp:54-75).                             *)
(***************************************************************************)
THEOREM WholeAnswerIsRead == ReaderSpec => []WholeIsRead
BY AnswerInvInitial, AnswerInvStep, AnswerInvGives, PTL DEF ReaderSpec

-----------------------------------------------------------------------------
(* A text of which each joined text is a part. *)
LEMMA JoinedParts ==
  ASSUME NEW s \in Text, NEW u \in Text
  PROVE  /\ s \o u \in Text /\ Len(s \o u) = Len(s) + Len(u)
         /\ Len(s) \in Nat /\ Len(u) \in Nat
         /\ IsPart(s, s \o u, 0) /\ IsPart(u, s \o u, Len(s))
<1>1. /\ s \o u \in Text
      /\ Len(s \o u) = Len(s) + Len(u)
      /\ \A i \in 1 .. Len(s) : (s \o u)[i] = s[i]
      /\ \A i \in 1 .. Len(u) : (s \o u)[Len(s) + i] = u[i]
      /\ Len(s) \in Nat /\ Len(u) \in Nat
  BY TextJoined, TextLength
<1> DEFINE w == s \o u
<1> HIDE DEF w
<1>2. /\ w \in Text /\ Len(w) = Len(s) + Len(u) /\ Len(s) \in Nat /\ Len(u) \in Nat
      /\ \A i \in 1 .. Len(s) : w[i] = s[i]
      /\ \A i \in 1 .. Len(u) : w[Len(s) + i] = u[i]
  BY <1>1 DEF w
<1>3. \A i \in 1 .. Len(s) : 0 + i = i
  BY <1>2
<1>4. IsPart(s, w, 0) /\ IsPart(u, w, Len(s))
  BY <1>2, <1>3 DEF IsPart
<1> QED
  BY <1>2, <1>4 DEF w

(* A part of a part. *)
LEMMA PartOfPart ==
  ASSUME NEW s \in Text, NEW u \in Text, NEW w \in Text, NEW k, NEW l,
         IsPart(s, u, k), IsPart(u, w, l)
  PROVE  IsPart(s, w, l + k)
<1>1. /\ k \in Nat /\ l \in Nat /\ k + Len(s) <= Len(u) /\ l + Len(u) <= Len(w)
      /\ Len(s) \in Nat /\ Len(u) \in Nat /\ Len(w) \in Nat
      /\ \A i \in 1 .. Len(s) : s[i] = u[k + i]
      /\ \A i \in 1 .. Len(u) : u[i] = w[l + i]
  BY TextLength DEF IsPart
<1>2. ASSUME NEW i \in 1 .. Len(s) PROVE s[i] = w[l + k + i]
  <2>1. k + i \in 1 .. Len(u) /\ l + (k + i) = l + k + i
    BY <1>1
  <2>2. u[k + i] = w[l + (k + i)]
    BY <1>1, <2>1
  <2> QED
    BY <1>1, <2>1, <2>2
<1>3. l + k \in Nat /\ l + k + Len(s) <= Len(w)
  BY <1>1
<1> QED
  BY <1>2, <1>3 DEF IsPart

(* The first n texts of a sequence, joined. *)
Joins(seqs, joined, n) ==
  /\ joined \in [0 .. n -> Text]
  /\ joined[0] = <<>>
  /\ \A i \in 1 .. n : joined[i] = joined[i - 1] \o seqs[i]

LEMMA JoinExists ==
  ASSUME NEW seqs \in Seq(Text)
  PROVE  \E joined : Joins(seqs, joined, Len(seqs))
<1> DEFINE S == {n \in 0 .. Len(seqs) : \E f : Joins(seqs, f, n)}
<1>1. 0 \in S
  <2>1. Joins(seqs, [m \in 0 .. 0 |-> <<>>], 0)
    BY TextEmpty DEF Joins
  <2> QED
    BY <2>1
<1>2. ASSUME NEW i \in 0 .. Len(seqs) - 1, i \in S PROVE i + 1 \in S
  <2>1. PICK f : Joins(seqs, f, i)
    BY <1>2
  <2> DEFINE next == f[i] \o seqs[i + 1]
             g == [m \in 0 .. i + 1 |-> IF m = i + 1 THEN next ELSE f[m]]
  <2>2. seqs[i + 1] \in Text /\ f[i] \in Text
    BY <2>1 DEF Joins
  <2>3. next \in Text
    BY <2>2, TextJoined
  <2> HIDE DEF next
  <2>4. g \in [0 .. i + 1 -> Text] /\ g[0] = <<>>
    BY <2>1, <2>3 DEF Joins
  <2>5. ASSUME NEW m \in 1 .. i + 1
        PROVE  g[m] = g[m - 1] \o seqs[m]
    <3>1. CASE m = i + 1
      <4>1. g[m] = next /\ g[m - 1] = f[i]
        BY <3>1
      <4> QED  BY <4>1, <3>1 DEF next
    <3>2. CASE m # i + 1
      <4>1. m \in 1 .. i /\ g[m] = f[m] /\ g[m - 1] = f[m - 1]
        BY <3>2
      <4>2. f[m] = f[m - 1] \o seqs[m]
        BY <4>1, <2>1 DEF Joins
      <4> QED
        BY <4>1, <4>2
    <3> QED  BY <3>1, <3>2
  <2> HIDE DEF g
  <2>6. Joins(seqs, g, i + 1)
    BY <2>4, <2>5 DEF Joins
  <2> QED
    BY <2>6
<1>3. Len(seqs) \in Nat
  OBVIOUS
<1>4. Len(seqs) \in S
  <2> HIDE DEF S
  <2>1. 0 .. Len(seqs) \subseteq S
    BY <1>1, <1>2, <1>3, UpTo
  <2> QED
    BY <2>1, <1>3
<1> QED
  BY <1>4

(* FlattenSeq joins a sequence of texts. *)
LEMMA FlattenJoins ==
  ASSUME NEW seqs \in Seq(Text)
  PROVE  \E joined : /\ Joins(seqs, joined, Len(seqs))
                     /\ FlattenSeq(seqs) = joined[Len(seqs)]
<1> DEFINE n == Len(seqs)
           IsIt(f) == f = [i \in 1 .. n |->
             IF i = 1 THEN seqs[i] ELSE f[i - 1] \o seqs[i]]
           k == CHOOSE f : IsIt(f)
<1>0. n \in Nat /\ \A i \in 1 .. n : seqs[i] \in Text
  OBVIOUS
<1>1. PICK joined : Joins(seqs, joined, n)
  BY JoinExists
<1>e. \A s \in Text : <<>> \o s = s
  BY ConcatEmptySeq DEF Text
<1>2. CASE n = 0
  <2>1. FlattenSeq(seqs) = seqs
    BY <1>2 DEF FlattenSeq
  <2>2. seqs = <<>>
    BY <1>2
  <2> QED
    BY <1>1, <1>2, <2>1, <2>2 DEF Joins
<1>3. CASE n # 0
  <2>1. FlattenSeq(seqs) = k[n]
    BY <1>3 DEF FlattenSeq
  <2> DEFINE first == [i \in 1 .. n |-> joined[i]]
  <2>2. IsIt(first)
    <3>1. ASSUME NEW i \in 1 .. n
          PROVE  first[i] = IF i = 1 THEN seqs[i] ELSE first[i - 1] \o seqs[i]
      <4>1. joined[i] = joined[i - 1] \o seqs[i]
        BY <1>1 DEF Joins
      <4>2. CASE i = 1
        <5>1. joined[i - 1] = <<>> /\ seqs[i] \in Text /\ first[i] = joined[i]
          BY <1>0, <1>1, <4>2 DEF Joins
        <5>2. <<>> \o seqs[i] = seqs[i]
          BY <1>e, <5>1
        <5> QED
          BY <4>1, <4>2, <5>1, <5>2
      <4>3. CASE i # 1
        <5>1. i - 1 \in 1 .. n
          BY <1>0, <4>3
        <5> QED
          BY <4>1, <4>3, <5>1
      <4> QED
        BY <4>2, <4>3
    <3>2. first = [i \in 1 .. n |-> first[i]]
      OBVIOUS
    <3> HIDE DEF first
    <3> QED
      BY <3>1, <3>2
  <2>3. IsIt(k)
    <3> HIDE DEF IsIt
    <3> QED  BY <2>2
  <2> HIDE DEF k
  <2>4. \A i \in 1 .. n : k[i] = IF i = 1 THEN seqs[i] ELSE k[i - 1] \o seqs[i]
    BY <2>3
  <2> DEFINE all == [i \in 0 .. n |-> IF i = 0 THEN <<>> ELSE k[i]]
  <2>5. all[0] = <<>>
    BY <1>0
  <2>6. ASSUME NEW i \in 1 .. n PROVE all[i] = all[i - 1] \o seqs[i]
    <3>1. all[i] = k[i]
      BY <1>0
    <3>2. CASE i = 1
      <4>1. all[i - 1] = <<>> /\ all[i] = seqs[i]
        BY <1>0, <2>4, <3>1, <3>2
      <4> QED
        BY <1>0, <1>e, <4>1
    <3>3. CASE i # 1
      <4>1. all[i - 1] = k[i - 1]
        BY <1>0, <3>3
      <4> QED
        BY <2>4, <3>1, <3>3, <4>1
    <3> QED
      BY <3>2, <3>3
  <2>7. all[n] = k[n] /\ all = [i \in 0 .. n |-> all[i]]
    BY <1>0, <1>3
  <2> HIDE DEF all
  <2>8. \A i \in 0 .. n : all[i] \in Text
    <3> DEFINE S == {i \in 0 .. n : all[i] \in Text}
    <3>1. 0 \in S
      BY <1>0, <2>5, TextEmpty
    <3>2. ASSUME NEW i \in 0 .. n - 1, i \in S PROVE i + 1 \in S
      <4>1. i + 1 \in 1 .. n /\ (i + 1) - 1 = i /\ i + 1 \in 0 .. n /\ all[i] \in Text
        BY <1>0, <3>2
      <4>2. all[i + 1] = all[i] \o seqs[i + 1]
        BY <2>6, <4>1
      <4>3. seqs[i + 1] \in Text
        BY <1>0, <4>1
      <4>4. all[i + 1] \in Text
        BY <4>1, <4>2, <4>3, TextJoined
      <4> QED
        BY <4>1, <4>4
    <3> HIDE DEF S, n
    <3>3. 0 .. n \subseteq S
      BY <1>0, <3>1, <3>2, UpTo
    <3> QED
      BY <3>3 DEF S
  <2>9. Joins(seqs, all, n)
    BY <2>5, <2>6, <2>7, <2>8 DEF Joins
  <2> QED
    BY <2>1, <2>7, <2>9
<1> QED
  BY <1>2, <1>3

(* Where each text of a sequence is when they are joined. *)
LEMMA PartsOfFlatten ==
  ASSUME NEW seqs \in Seq(Text)
  PROVE  /\ FlattenSeq(seqs) \in Text
         /\ \E p \in [0 .. Len(seqs) -> Nat] :
              /\ p[0] = 0 /\ p[Len(seqs)] = Len(FlattenSeq(seqs))
              /\ \A k \in 1 .. Len(seqs) :
                   /\ p[k] = p[k - 1] + Len(seqs[k])
                   /\ IsPart(seqs[k], FlattenSeq(seqs), p[k - 1])
<1> DEFINE n == Len(seqs)
<1>1. PICK joined : Joins(seqs, joined, n) /\ FlattenSeq(seqs) = joined[n]
  BY FlattenJoins
<1> DEFINE p == [k \in 0 .. n |-> Len(joined[k])]
           S == {m \in 0 .. n : \A k \in 1 .. m : IsPart(seqs[k], joined[m], p[k - 1])}
<1>2. n \in Nat /\ \A i \in 1 .. n : seqs[i] \in Text
  OBVIOUS
<1> HIDE DEF n
<1>3. /\ joined[0] = <<>>
      /\ \A i \in 0 .. n : joined[i] \in Text
      /\ \A i \in 1 .. n : joined[i] = joined[i - 1] \o seqs[i]
  BY <1>1 DEF Joins
<1>4. \A k \in 0 .. n : p[k] = Len(joined[k]) /\ p[k] \in Nat
  BY <1>3, TextLength
<1>5. p \in [0 .. n -> Nat]
  BY <1>4
<1>6. p[0] = 0
  BY <1>2, <1>3, <1>4, TextEmpty
<1> HIDE DEF p
<1>7. ASSUME NEW k \in 1 .. n
      PROVE  /\ p[k] = p[k - 1] + Len(seqs[k])
             /\ IsPart(seqs[k], joined[k], p[k - 1])
             /\ IsPart(joined[k - 1], joined[k], 0)
  <2>1. k - 1 \in 0 .. n /\ k \in 0 .. n
    BY <1>2
  <2>2. joined[k - 1] \in Text /\ seqs[k] \in Text /\ joined[k] = joined[k - 1] \o seqs[k]
    BY <1>2, <1>3, <2>1
  <2> DEFINE before == joined[k - 1]
             this == seqs[k]
  <2>3. before \in Text /\ this \in Text
    BY <2>2
  <2> HIDE DEF before, this
  <2>4. /\ Len(before \o this) = Len(before) + Len(this)
        /\ IsPart(before, before \o this, 0)
        /\ IsPart(this, before \o this, Len(before))
    BY <2>3, JoinedParts
  <2>5. p[k] = Len(joined[k]) /\ p[k - 1] = Len(before)
    BY <1>4, <2>1 DEF before
  <2> QED
    BY <2>2, <2>4, <2>5 DEF before, this
<1>8. 0 \in S
  BY <1>2
<1>9. ASSUME NEW m \in 0 .. n - 1, m \in S PROVE m + 1 \in S
  <2> DEFINE next == m + 1
  <2>1. next \in 1 .. n /\ next - 1 = m /\ m \in 0 .. n /\ next \in 0 .. n
    BY <1>2
  <2>2. \A k \in 1 .. m : IsPart(seqs[k], joined[m], p[k - 1])
    BY <1>9
  <2>n. next = m + 1
    OBVIOUS
  <2> HIDE DEF next
  <2>3. ASSUME NEW k \in 1 .. next PROVE IsPart(seqs[k], joined[next], p[k - 1])
    <3>1. CASE k = next
      BY <1>7, <2>1, <3>1
    <3>2. CASE k # next
      <4>1. k \in 1 .. m /\ k \in 1 .. n
        BY <1>2, <2>1, <2>n, <3>2
      <4>2. IsPart(seqs[k], joined[m], p[k - 1]) /\ IsPart(joined[m], joined[next], 0)
        BY <1>7, <2>1, <2>2, <4>1
      <4>3. seqs[k] \in Text /\ joined[m] \in Text /\ joined[next] \in Text
        BY <1>2, <1>3, <2>1, <4>1
      <4>4. IsPart(seqs[k], joined[next], 0 + p[k - 1])
        BY <4>2, <4>3, PartOfPart
      <4>5. 0 + p[k - 1] = p[k - 1]
        BY <4>2 DEF IsPart
      <4> QED
        BY <4>4, <4>5
    <3> QED
      BY <3>1, <3>2
  <2>4. next \in S
    BY <2>1, <2>3
  <2> QED
    BY <2>4, <2>n
<1>10. \A k \in 1 .. n : IsPart(seqs[k], joined[n], p[k - 1])
  <2>1. n \in S
    <3> HIDE DEF S
    <3>1. 0 .. n \subseteq S
      BY <1>2, <1>8, <1>9, UpTo
    <3> QED
      BY <1>2, <3>1
  <2> QED
    BY <2>1
<1>11. /\ FlattenSeq(seqs) = joined[n] /\ joined[n] \in Text
       /\ p[0] = 0 /\ p[n] = Len(joined[n]) /\ p \in [0 .. n -> Nat]
       /\ \A k \in 1 .. n : p[k] = p[k - 1] + Len(seqs[k])
  BY <1>1, <1>2, <1>3, <1>4, <1>5, <1>6, <1>7
<1> QED
  BY <1>10, <1>11, Zenon DEF n

(* The lines of a written request after the first. *)
NameOf(r, k) ==
  IF k <= Len(r.fields) THEN r.fields[k][1] ELSE <<"Content-Length">>

ValueOf(r, k) ==
  IF k <= Len(r.fields) THEN r.fields[k][2] ELSE <<ToString(Len(r.body))>>

ColonBlank == <<":", " ">>

LineOf(r, k) == NameOf(r, k) \o ColonBlank \o ValueOf(r, k)

(* Where the lines of a written request end, and where its body begins. *)
Layout(r, text, ends) ==
  LET n == Len(r.fields) IN
  /\ text \in Text /\ ends \in [0 .. n + 1 -> Nat]
  /\ ends[0] = Len(r.line) + 1 /\ IsPart(r.line, text, 0)
  /\ \A k \in 1 .. n + 1 :
       /\ ends[k] = ends[k - 1] + 2 + Len(LineOf(r, k))
       /\ IsPart(LineOf(r, k), text, ends[k - 1] + 1)
  /\ \A k \in 0 .. n + 1 : ends[k] \in Places(text, CRLF, 1)
  /\ ends[n + 1] + 2 \in Places(text, CRLF, 1)
  /\ IsPart(r.body, text, ends[n + 1] + 3)
  /\ Len(text) = ends[n + 1] + 3 + Len(r.body)

LEMMA BreakIsPlace ==
  ASSUME NEW text \in Text, NEW k, IsPart(CRLF, text, k)
  PROVE  k + 1 \in Places(text, CRLF, 1)
<1> DEFINE p == CRLF
           i == k + 1
<1>1. p \in Text /\ Len(p) = 2 /\ IsPart(p, text, k) /\ 1 \in Nat \ {0}
  BY MarksAreText
<1> HIDE DEF p
<1>2. /\ k \in Nat /\ k + Len(p) <= Len(text)
      /\ \A j \in 1 .. Len(p) : p[j] = text[k + j]
  BY <1>1 DEF IsPart
<1>3. /\ i \in Nat /\ i >= 1 /\ i + Len(p) - 1 <= Len(text)
      /\ \A j \in 1 .. Len(p) : text[i + j - 1] = p[j]
  <2>1. \A j \in 1 .. Len(p) : i + j - 1 = k + j
    BY <1>1, <1>2
  <2>2. i \in Nat /\ i >= 1 /\ i + Len(p) - 1 = k + Len(p)
    BY <1>1, <1>2
  <2> HIDE DEF i
  <2> QED
    BY <1>2, <2>1, <2>2
<1> HIDE DEF i
<1>4. i \in Places(text, p, 1)
  BY <1>1, <1>3, PlaceIs
<1> QED
  BY <1>4 DEF p, i

LEMMA LineIsText ==
  ASSUME NEW r \in Requests, NEW k \in 1 .. Len(r.fields) + 1
  PROVE  LET name == NameOf(r, k)
             value == ValueOf(r, k)
         IN  /\ name \in Text /\ value \in Text
             /\ Len(r.fields) \in Nat
             /\ \A i \in 1 .. Len(name) : name[i] # ":" /\ name[i] # "\r"
             /\ \A i \in 1 .. Len(value) : value[i] # "\r"
<1>1. /\ r \in [line : Text, fields : Seq(Text \X Text), body : Text]
      /\ \A i \in DOMAIN r.fields :
           /\ {":", "\r"} \cap ToSet(r.fields[i][1]) = {}
           /\ "\r" \notin ToSet(r.fields[i][2])
      /\ ToString(Len(r.body)) \in Char \ {"\r"}
  BY RequestsAssumption
<1>2. Len(r.fields) \in Nat
  BY <1>1
<1>3. CASE k <= Len(r.fields)
  <2> DEFINE name == r.fields[k][1]
             value == r.fields[k][2]
  <2>1. k \in DOMAIN r.fields /\ r.fields[k] \in Text \X Text
    BY <1>1, <1>2, <1>3
  <2>2. /\ name \in Text /\ value \in Text
        /\ {":", "\r"} \cap ToSet(name) = {} /\ "\r" \notin ToSet(value)
    BY <1>1, <2>1
  <2>3. NameOf(r, k) = name /\ ValueOf(r, k) = value
    BY <1>3 DEF NameOf, ValueOf
  <2> HIDE DEF name, value
  <2>4. \A i \in 1 .. Len(name) : name[i] \in ToSet(name)
    BY <2>2, LenProperties DEF ToSet, Text
  <2>5. \A i \in 1 .. Len(value) : value[i] \in ToSet(value)
    BY <2>2, LenProperties DEF ToSet, Text
  <2> QED
    BY <1>2, <2>2, <2>3, <2>4, <2>5
<1>4. CASE ~(k <= Len(r.fields))
  <2> DEFINE c == "Content-Length"
             d == ToString(Len(r.body))
  <2>1. c \in Char /\ d \in Char /\ c # ":" /\ c # "\r" /\ d # "\r"
    BY <1>1, CharAssumption
  <2>2. NameOf(r, k) = <<c>> /\ ValueOf(r, k) = <<d>>
    BY <1>4 DEF NameOf, ValueOf
  <2> HIDE DEF c, d
  <2>3. \A x \in Char : <<x>> \in Text /\ Len(<<x>>) = 1 /\ <<x>>[1] = x
    BY DEF Text
  <2>4. \A i \in 1 .. 1 : i = 1
    OBVIOUS
  <2> QED
    BY <1>2, <2>1, <2>2, <2>3, <2>4
<1> QED
  BY <1>3, <1>4

(* What is a part stays one, where it is, when something is joined on. *)
LEMMA PartStays ==
  ASSUME NEW s \in Text, NEW u \in Text, NEW part \in Text, NEW k, IsPart(part, s, k)
  PROVE  IsPart(part, s \o u, k)
<1>1. s \o u \in Text /\ IsPart(s, s \o u, 0)
  BY JoinedParts
<1>2. k \in Nat /\ 0 + k = k
  BY DEF IsPart
<1>3. IsPart(part, s \o u, 0 + k)
  BY <1>1, PartOfPart
<1> QED
  BY <1>2, <1>3

(* Where the pieces of a written request are. *)
Pieces(a, b, c, d) == a \o CRLF \o b \o c \o CRLF \o CRLF \o d

LEMMA PiecesJoined ==
  ASSUME NEW a \in Text, NEW b \in Text, NEW c \in Text, NEW d \in Text
  PROVE  /\ Pieces(a, b, c, d) \in Text
         /\ Len(Pieces(a, b, c, d)) = Len(a) + 2 + Len(b) + Len(c) + 2 + 2 + Len(d)
         /\ IsPart(a, Pieces(a, b, c, d), 0)
         /\ IsPart(CRLF, Pieces(a, b, c, d), Len(a))
         /\ IsPart(b, Pieces(a, b, c, d), Len(a) + 2)
         /\ IsPart(c, Pieces(a, b, c, d), Len(a) + 2 + Len(b))
         /\ IsPart(CRLF, Pieces(a, b, c, d), Len(a) + 2 + Len(b) + Len(c))
         /\ IsPart(CRLF, Pieces(a, b, c, d), Len(a) + 2 + Len(b) + Len(c) + 2)
         /\ IsPart(d, Pieces(a, b, c, d), Len(a) + 2 + Len(b) + Len(c) + 2 + 2)
<1> DEFINE e == CRLF
           x1 == a \o e
           x2 == x1 \o b
           x3 == x2 \o c
           x4 == x3 \o e
           x5 == x4 \o e
           x6 == x5 \o d
<1>0. Pieces(a, b, c, d) = x6
  BY DEF Pieces
<1>e. e \in Text
  BY MarksAreText
<1>l. Len(e) = 2
  BY MarksAreText
<1> HIDE DEF e
<1>1. /\ x1 \in Text /\ Len(x1) = Len(a) + Len(e)
      /\ IsPart(a, x1, 0) /\ IsPart(e, x1, Len(a))
  BY <1>e, JoinedParts
<1> HIDE DEF x1
<1>2. /\ x2 \in Text /\ Len(x2) = Len(x1) + Len(b)
      /\ IsPart(a, x2, 0) /\ IsPart(e, x2, Len(a)) /\ IsPart(b, x2, Len(x1))
  BY <1>e, <1>1, JoinedParts, PartStays
<1> HIDE DEF x2
<1>3. /\ x3 \in Text /\ Len(x3) = Len(x2) + Len(c)
      /\ IsPart(a, x3, 0) /\ IsPart(e, x3, Len(a)) /\ IsPart(b, x3, Len(x1))
      /\ IsPart(c, x3, Len(x2))
  BY <1>e, <1>1, <1>2, JoinedParts, PartStays
<1> HIDE DEF x3
<1>4. /\ x4 \in Text /\ Len(x4) = Len(x3) + Len(e)
      /\ IsPart(a, x4, 0) /\ IsPart(e, x4, Len(a)) /\ IsPart(b, x4, Len(x1))
      /\ IsPart(c, x4, Len(x2)) /\ IsPart(e, x4, Len(x3))
  BY <1>e, <1>1, <1>2, <1>3, JoinedParts, PartStays
<1> HIDE DEF x4
<1>5. /\ x5 \in Text /\ Len(x5) = Len(x4) + Len(e)
      /\ IsPart(a, x5, 0) /\ IsPart(e, x5, Len(a)) /\ IsPart(b, x5, Len(x1))
      /\ IsPart(c, x5, Len(x2)) /\ IsPart(e, x5, Len(x3)) /\ IsPart(e, x5, Len(x4))
  BY <1>e, <1>1, <1>2, <1>3, <1>4, JoinedParts, PartStays
<1> HIDE DEF x5
<1>6. /\ x6 \in Text /\ Len(x6) = Len(x5) + Len(d)
      /\ IsPart(a, x6, 0) /\ IsPart(e, x6, Len(a)) /\ IsPart(b, x6, Len(x1))
      /\ IsPart(c, x6, Len(x2)) /\ IsPart(e, x6, Len(x3)) /\ IsPart(e, x6, Len(x4))
      /\ IsPart(d, x6, Len(x5))
  BY <1>e, <1>1, <1>2, <1>3, <1>4, <1>5, JoinedParts, PartStays
<1> HIDE DEF x6
<1>7. /\ Len(x1) = Len(a) + 2
      /\ Len(x2) = Len(a) + 2 + Len(b)
      /\ Len(x3) = Len(a) + 2 + Len(b) + Len(c)
      /\ Len(x4) = Len(a) + 2 + Len(b) + Len(c) + 2
      /\ Len(x5) = Len(a) + 2 + Len(b) + Len(c) + 2 + 2
      /\ Len(x6) = Len(a) + 2 + Len(b) + Len(c) + 2 + 2 + Len(d)
  BY <1>l, <1>1, <1>2, <1>3, <1>4, <1>5, <1>6
<1> QED
  BY <1>0, <1>6, <1>7 DEF e

LEMMA ColonBlankIs ==
  /\ ColonBlank \in Text /\ Len(ColonBlank) = 2
  /\ ColonBlank[1] = ":" /\ ColonBlank[2] = " "
<1>1. \A c, d \in Char : <<c, d>> \in Seq(Char)
  OBVIOUS
<1>2. <<":", " ">> \in Text
  BY <1>1, CharAssumption DEF Text
<1> QED
  BY <1>2 DEF ColonBlank

(* What write writes for a field is its line and a break. *)
LEMMA FieldIsWritten ==
  ASSUME NEW r \in Requests
  PROVE  /\ \A k \in 1 .. Len(r.fields) + 1 :
              /\ LineOf(r, k) \in Text
              /\ Len(LineOf(r, k)) = Len(NameOf(r, k)) + 2 + Len(ValueOf(r, k))
              /\ IsPart(NameOf(r, k), LineOf(r, k), 0)
              /\ IsPart(ColonBlank, LineOf(r, k), Len(NameOf(r, k)))
              /\ IsPart(ValueOf(r, k), LineOf(r, k), Len(NameOf(r, k)) + 2)
         /\ LineOf(r, Len(r.fields) + 1)
              = <<"Content-Length", ":", " ", ToString(Len(r.body))>>
<1>2. ASSUME NEW k \in 1 .. Len(r.fields) + 1
      PROVE  /\ LineOf(r, k) \in Text
             /\ Len(LineOf(r, k)) = Len(NameOf(r, k)) + 2 + Len(ValueOf(r, k))
             /\ IsPart(NameOf(r, k), LineOf(r, k), 0)
             /\ IsPart(ColonBlank, LineOf(r, k), Len(NameOf(r, k)))
             /\ IsPart(ValueOf(r, k), LineOf(r, k), Len(NameOf(r, k)) + 2)
  <2> DEFINE name == NameOf(r, k)
             value == ValueOf(r, k)
             x1 == name \o ColonBlank
  <2>1. name \in Text /\ value \in Text
    BY LineIsText
  <2>2. LineOf(r, k) = x1 \o value
    BY DEF LineOf
  <2> HIDE DEF name, value
  <2>3. /\ x1 \in Text /\ Len(x1) = Len(name) + Len(ColonBlank)
        /\ IsPart(name, x1, 0) /\ IsPart(ColonBlank, x1, Len(name))
    BY ColonBlankIs, <2>1, JoinedParts
  <2> HIDE DEF x1
  <2>4. /\ x1 \o value \in Text /\ Len(x1 \o value) = Len(x1) + Len(value)
        /\ IsPart(name, x1 \o value, 0) /\ IsPart(ColonBlank, x1 \o value, Len(name))
        /\ IsPart(value, x1 \o value, Len(x1))
    BY ColonBlankIs, <2>1, <2>3, JoinedParts, PartStays
  <2>5. /\ LineOf(r, k) \in Text /\ Len(LineOf(r, k)) = Len(x1) + Len(value)
        /\ IsPart(name, LineOf(r, k), 0) /\ IsPart(ColonBlank, LineOf(r, k), Len(name))
        /\ IsPart(value, LineOf(r, k), Len(x1))
    BY <2>2, <2>4
  <2>6. Len(x1) = Len(name) + 2
    BY ColonBlankIs, <2>3
  <2> QED
    BY <2>5, <2>6 DEF name, value
<1>3. LineOf(r, Len(r.fields) + 1)
        = <<"Content-Length", ":", " ", ToString(Len(r.body))>>
  <2>1. Len(r.fields) \in Nat
    <3>1. r.fields \in Seq(Text \X Text)
      BY InputsAreTyped
    <3> QED
      BY <3>1
  <2>2. /\ NameOf(r, Len(r.fields) + 1) = <<"Content-Length">>
        /\ ValueOf(r, Len(r.fields) + 1) = <<ToString(Len(r.body))>>
    BY <2>1 DEF NameOf, ValueOf
  <2> DEFINE c == "Content-Length"
             d == ToString(Len(r.body))
             line == LineOf(r, Len(r.fields) + 1)
             four == <<c, ":", " ", d>>
             cc == <<c>>
             dd == <<d>>
  <2>3. c \in Char /\ d \in Char /\ ":" \in Char /\ " " \in Char
    BY CharAssumption, RequestsAssumption
  <2>4. /\ cc \in Text /\ Len(cc) = 1 /\ cc[1] = c
        /\ dd \in Text /\ Len(dd) = 1 /\ dd[1] = d
    <3>1. \A x \in Char : <<x>> \in Text /\ Len(<<x>>) = 1 /\ <<x>>[1] = x
      BY DEF Text
    <3> HIDE DEF c, d
    <3> QED
      BY <2>3, <3>1
  <2>5. /\ four \in Text /\ Len(four) = 4
        /\ four[1] = c /\ four[2] = ":" /\ four[3] = " " /\ four[4] = d
    <3>1. \A x, y, z, v \in Char : <<x, y, z, v>> \in Seq(Char)
      OBVIOUS
    <3> QED
      BY <2>3, <3>1 DEF Text
  <2>6. Len(r.fields) + 1 \in 1 .. Len(r.fields) + 1
    BY <2>1
  <2>7. /\ line \in Text
        /\ Len(line) = Len(cc) + 2 + Len(dd)
        /\ IsPart(cc, line, 0) /\ IsPart(ColonBlank, line, Len(cc))
        /\ IsPart(dd, line, Len(cc) + 2)
    BY <1>2, <2>2, <2>6
  <2> HIDE DEF line, four, c, d, cc, dd
  <2>8. Len(line) = 4
    BY <2>4, <2>7
  <2>9. line[1] = c /\ line[4] = d
    <3>1. /\ \A i \in 1 .. Len(cc) : cc[i] = line[0 + i]
          /\ \A i \in 1 .. Len(dd) : dd[i] = line[Len(cc) + 2 + i]
      BY <2>7 DEF IsPart
    <3> QED
      BY <2>4, <3>1
  <2>10. line[2] = ":" /\ line[3] = " "
    <3>1. \A i \in 1 .. Len(ColonBlank) : ColonBlank[i] = line[Len(cc) + i]
      BY <2>7 DEF IsPart
    <3>5. Len(ColonBlank) = 2
      BY ColonBlankIs
    <3>2. 1 \in 1 .. Len(ColonBlank) /\ 2 \in 1 .. Len(ColonBlank)
      BY <3>5
    <3>3. ColonBlank[1] = line[Len(cc) + 1] /\ ColonBlank[2] = line[Len(cc) + 2]
      BY <3>1, <3>2
    <3>4. Len(cc) + 1 = 2 /\ Len(cc) + 2 = 3
      BY <2>4
    <3> QED
      BY ColonBlankIs, <3>3, <3>4
  <2>11. \A i \in 1 .. Len(line) : line[i] = four[i]
    <3>1. \A i \in 1 .. Len(line) : i \in {1, 2, 3, 4}
      BY <2>8
    <3> QED
      BY <2>5, <2>9, <2>10, <3>1
  <2>12. line = four
    BY <2>5, <2>7, <2>8, <2>11, TextSame
  <2> QED
    BY <2>12 DEF line, four, c, d
<1> QED
  BY <1>2, <1>3

(* The fields that write writes, each with its break. *)
LEMMA LinesWritten ==
  ASSUME NEW r \in Requests
  PROVE  LET lines == [i \in DOMAIN r.fields |->
                         r.fields[i][1] \o <<":", " ">> \o r.fields[i][2] \o CRLF]
         IN  /\ lines \in Seq(Text) /\ Len(lines) = Len(r.fields) /\ Len(r.fields) \in Nat
             /\ \A k \in 1 .. Len(r.fields) :
                  /\ lines[k] \in Text /\ Len(lines[k]) = Len(LineOf(r, k)) + 2
                  /\ IsPart(LineOf(r, k), lines[k], 0)
                  /\ IsPart(CRLF, lines[k], Len(LineOf(r, k)))
<1> DEFINE n == Len(r.fields)
           lines == [i \in DOMAIN r.fields |->
                       r.fields[i][1] \o <<":", " ">> \o r.fields[i][2] \o CRLF]
<1>1. n \in Nat /\ DOMAIN r.fields = 1 .. n
  <2>1. r.fields \in Seq(Text \X Text)
    BY InputsAreTyped
  <2> QED
    BY <2>1
<1>2. ASSUME NEW k \in 1 .. n PROVE lines[k] = LineOf(r, k) \o CRLF
  <2>1. k <= Len(r.fields)
    BY <1>1
  <2> QED
    BY <1>1, <2>1 DEF LineOf, NameOf, ValueOf, ColonBlank
<1>3. ASSUME NEW k \in 1 .. n
      PROVE  /\ lines[k] \in Text /\ Len(lines[k]) = Len(LineOf(r, k)) + 2
             /\ IsPart(LineOf(r, k), lines[k], 0)
             /\ IsPart(CRLF, lines[k], Len(LineOf(r, k)))
  <2>1. k \in 1 .. Len(r.fields) + 1
    BY <1>1
  <2> DEFINE line == LineOf(r, k)
  <2>2. line \in Text /\ CRLF \in Text
    BY <2>1, FieldIsWritten, MarksAreText
  <2> HIDE DEF line
  <2>3. /\ line \o CRLF \in Text /\ Len(line \o CRLF) = Len(line) + Len(CRLF)
        /\ IsPart(line, line \o CRLF, 0) /\ IsPart(CRLF, line \o CRLF, Len(line))
    BY <2>2, JoinedParts
  <2>4. Len(CRLF) = 2
    BY MarksAreText
  <2>5. lines[k] = line \o CRLF
    BY <1>2 DEF line
  <2> HIDE DEF lines
  <2> QED
    BY <2>3, <2>4, <2>5 DEF line
<1>4. lines \in Seq(Text) /\ Len(lines) = n
  <2>1. DOMAIN lines = 1 .. n /\ lines = [i \in 1 .. n |-> lines[i]]
    BY <1>1
  <2> HIDE DEF lines, n
  <2>2. lines \in [1 .. n -> Text]
    BY <1>3, <2>1
  <2> QED
    BY <1>1, <2>1, <2>2
<1> QED
  BY <1>1, <1>3, <1>4

(* What write writes is laid out line by line. *)
LEMMA WrittenLayout ==
  ASSUME NEW r \in Requests
  PROVE  \E ends : Layout(r, write(r), ends)
<1> DEFINE n == Len(r.fields)
           lines == [i \in DOMAIN r.fields |->
                       r.fields[i][1] \o <<":", " ">> \o r.fields[i][2] \o CRLF]
           first == r.line
           last == <<"Content-Length", ":", " ", ToString(Len(r.body))>>
           b == r.body
           F == FlattenSeq(lines)
           w == write(r)
<1>1. w = first \o CRLF \o F \o last \o CRLF \o CRLF \o b
  BY DEF write
<1>2. /\ lines \in Seq(Text) /\ Len(lines) = n /\ n \in Nat
      /\ \A k \in 1 .. n :
           /\ lines[k] \in Text /\ Len(lines[k]) = Len(LineOf(r, k)) + 2
           /\ IsPart(LineOf(r, k), lines[k], 0)
           /\ IsPart(CRLF, lines[k], Len(LineOf(r, k)))
  BY LinesWritten
<1>3. /\ \A k \in 1 .. n + 1 : LineOf(r, k) \in Text /\ Len(LineOf(r, k)) \in Nat
      /\ LineOf(r, n + 1) = last
  BY FieldIsWritten, TextLength
<1>4. /\ first \in Text /\ b \in Text /\ CRLF \in Text /\ Len(CRLF) = 2
      /\ Len(first) \in Nat /\ Len(b) \in Nat
  BY InputsAreTyped, MarksAreText, TextLength
<1> HIDE DEF lines, last, first, b, w, n
<1>5. F \in Text /\ Len(F) \in Nat
  BY <1>2, PartsOfFlatten, TextLength
<1>6. PICK p \in [0 .. n -> Nat] :
        /\ p[0] = 0 /\ p[n] = Len(F)
        /\ \A k \in 1 .. n : p[k] = p[k - 1] + Len(lines[k]) /\ IsPart(lines[k], F, p[k - 1])
  <2>1. \E q \in [0 .. Len(lines) -> Nat] :
          /\ q[0] = 0 /\ q[Len(lines)] = Len(F)
          /\ \A k \in 1 .. Len(lines) :
               q[k] = q[k - 1] + Len(lines[k]) /\ IsPart(lines[k], F, q[k - 1])
    BY <1>2, PartsOfFlatten
  <2> QED
    BY <1>2, <2>1
<1> HIDE DEF F
<1>7. last \in Text /\ Len(last) \in Nat
  <2>1. n + 1 \in 1 .. n + 1
    BY <1>2
  <2> QED
    BY <1>3, <2>1
<1> DEFINE la == Len(first)
           lf == Len(F)
           ll == Len(last)
<1>8. /\ w \in Text /\ Len(w) = la + 2 + lf + ll + 2 + 2 + Len(b)
      /\ IsPart(first, w, 0) /\ IsPart(F, w, la + 2)
      /\ IsPart(last, w, la + 2 + lf) /\ IsPart(CRLF, w, la + 2 + lf + ll)
      /\ IsPart(CRLF, w, la + 2 + lf + ll + 2)
      /\ IsPart(b, w, la + 2 + lf + ll + 2 + 2)
      /\ IsPart(CRLF, w, la)
  <2>1. first \in Text /\ b \in Text /\ F \in Text /\ last \in Text
    BY <1>4, <1>5, <1>7
  <2>2. w = Pieces(first, F, last, b)
    BY <1>1 DEF Pieces
  <2> QED
    BY <2>1, <2>2, PiecesJoined
<1>9. la \in Nat /\ lf \in Nat /\ ll \in Nat /\ Len(b) \in Nat
  BY <1>4, <1>5, <1>7
<1> DEFINE ends == [k \in 0 .. n + 1 |->
                      IF k <= n THEN la + 1 + p[k] ELSE la + 1 + lf + 2 + ll]
<1>10. /\ \A k \in 0 .. n : ends[k] = la + 1 + p[k] /\ p[k] \in Nat
       /\ ends[n + 1] = la + 1 + lf + 2 + ll
       /\ ends[n] = la + 1 + lf /\ ends[0] = la + 1
  <2> HIDE DEF la, lf, ll
  <2>1. \A k \in 0 .. n : k <= n /\ k \in 0 .. n + 1 /\ p[k] \in Nat
    BY <1>2
  <2>2. ~(n + 1 <= n) /\ n + 1 \in 0 .. n + 1 /\ n \in 0 .. n /\ 0 \in 0 .. n
    BY <1>2
  <2>3. p[0] = 0 /\ p[n] = lf
    BY <1>6 DEF lf
  <2> QED
    BY <1>9, <2>1, <2>2, <2>3
<1>11. ends \in [0 .. n + 1 -> Nat]
  <2> HIDE DEF la, lf, ll
  <2> QED
    BY <1>2, <1>9
<1> HIDE DEF ends
<1>12. ASSUME NEW k \in 1 .. n
       PROVE  /\ ends[k] = ends[k - 1] + 2 + Len(LineOf(r, k))
              /\ IsPart(LineOf(r, k), w, ends[k - 1] + 1)
              /\ ends[k] \in Places(w, CRLF, 1)
  <2> DEFINE line == LineOf(r, k)
             before == p[k - 1]
  <2>1. k - 1 \in 0 .. n /\ k \in 0 .. n /\ k \in 1 .. n + 1
    BY <1>2
  <2>2. /\ line \in Text /\ Len(line) \in Nat /\ lines[k] \in Text
        /\ Len(lines[k]) = Len(line) + 2
        /\ IsPart(line, lines[k], 0) /\ IsPart(CRLF, lines[k], Len(line))
        /\ IsPart(lines[k], F, before) /\ p[k] = before + Len(lines[k])
        /\ ends[k - 1] = la + 1 + before /\ ends[k] = la + 1 + p[k] /\ before \in Nat
    BY <1>2, <1>3, <1>6, <1>10, <2>1
  <2> HIDE DEF line, before, la
  <2>3. ends[k] = ends[k - 1] + 2 + Len(line)
    BY <1>9, <2>2
  <2>4. IsPart(line, F, before + 0) /\ IsPart(CRLF, F, before + Len(line))
    BY <1>4, <1>5, <2>2, PartOfPart
  <2>5. IsPart(line, w, la + 2 + (before + 0)) /\ IsPart(CRLF, w, la + 2 + (before + Len(line)))
    BY <1>4, <1>5, <1>8, <2>2, <2>4, PartOfPart
  <2>6. la + 2 + (before + 0) = ends[k - 1] + 1
    BY <1>9, <2>2
  <2>7. (la + 2 + (before + Len(line))) + 1 = ends[k]
    BY <1>9, <2>2
  <2>8. (la + 2 + (before + Len(line))) + 1 \in Places(w, CRLF, 1)
    BY <1>8, <2>5, BreakIsPlace
  <2> QED
    BY <2>3, <2>5, <2>6, <2>7, <2>8 DEF line
<1>13. /\ ends[n + 1] = ends[n] + 2 + Len(LineOf(r, n + 1))
       /\ IsPart(LineOf(r, n + 1), w, ends[n] + 1)
       /\ ends[n + 1] \in Places(w, CRLF, 1)
       /\ ends[n + 1] + 2 \in Places(w, CRLF, 1)
       /\ ends[0] \in Places(w, CRLF, 1)
       /\ IsPart(b, w, ends[n + 1] + 3) /\ Len(w) = ends[n + 1] + 3 + Len(b)
  <2> HIDE DEF la, lf
  <2>1. ends[n + 1] = ends[n] + 2 + ll /\ ends[n] + 1 = la + 2 + lf
    BY <1>9, <1>10
  <2>2. /\ ends[n + 1] = (la + 2 + lf + ll) + 1
        /\ ends[n + 1] + 2 = (la + 2 + lf + ll + 2) + 1
        /\ ends[n + 1] + 3 = la + 2 + lf + ll + 2 + 2
        /\ Len(w) = ends[n + 1] + 3 + Len(b)
    BY <1>8, <1>9, <1>10
  <2>3. /\ (la + 2 + lf + ll) + 1 \in Places(w, CRLF, 1)
        /\ (la + 2 + lf + ll + 2) + 1 \in Places(w, CRLF, 1)
        /\ la + 1 \in Places(w, CRLF, 1)
    BY <1>8, BreakIsPlace
  <2> QED
    BY <1>3, <1>8, <1>10, <2>1, <2>2, <2>3
<1>14. ASSUME NEW k \in 1 .. n + 1
       PROVE  /\ ends[k] = ends[k - 1] + 2 + Len(LineOf(r, k))
              /\ IsPart(LineOf(r, k), w, ends[k - 1] + 1)
              /\ ends[k] \in Places(w, CRLF, 1)
  <2>1. CASE k = n + 1
    <3>1. k - 1 = n
      BY <1>2, <2>1
    <3> QED
      BY <1>13, <2>1, <3>1
  <2>2. CASE k # n + 1
    <3>1. k \in 1 .. n
      BY <1>2, <2>2
    <3> QED
      BY <1>12, <3>1
  <2> QED
    BY <2>1, <2>2
<1>15. \A k \in 0 .. n + 1 : ends[k] \in Places(w, CRLF, 1)
  <2>1. \A k \in 0 .. n + 1 : k = 0 \/ k \in 1 .. n + 1
    BY <1>2
  <2> QED
    BY <1>13, <1>14, <2>1
<1>16. ends[0] = Len(first) + 1 /\ IsPart(first, w, 0) /\ w \in Text
  BY <1>8, <1>10
<1> QED
  BY <1>11, <1>13, <1>14, <1>15, <1>16 DEF Layout, first, b, w, n

(* A line without the sign of a break is found whole before its break. *)
LEMMA LineIsFound ==
  ASSUME NEW text \in Text, NEW line \in Text, NEW k,
         IsPart(line, text, k), \A i \in 1 .. Len(line) : line[i] # "\r",
         NEW end, end = k + Len(line) + 1, end \in Places(text, CRLF, 1)
  PROVE  /\ find(text, CRLF, k + 1) = end
         /\ SubSeq(text, k + 1, end - 1) = line
<1>1. /\ k \in Nat /\ k + Len(line) <= Len(text) /\ Len(line) \in Nat /\ Len(text) \in Nat
      /\ \A i \in 1 .. Len(line) : line[i] = text[k + i]
  BY TextLength DEF IsPart
<1> DEFINE p == CRLF
           from == k + 1
           found == find(text, p, from)
           n == end - 1
<1>2. from \in Nat \ {0} /\ 1 <= from /\ from <= end /\ n \in Nat /\ end \in Nat
  BY <1>1
<1>3. p \in Text /\ p[1] = "\r" /\ 1 \in 1 .. Len(p)
  <2>1. p \in Text /\ p[1] = "\r"
    BY MarksAreText
  <2>2. Len(p) = 2
    BY MarksAreText
  <2> HIDE DEF p
  <2>3. 1 \in 1 .. Len(p)
    BY <2>2
  <2> QED
    BY <2>1, <2>3
<1> HIDE DEF p, from
<1>4. \A i : i \in Places(text, p, from) <=> i \in Places(text, p, 1) /\ i >= from
  BY <1>2, PlacesFrom
<1>5. end \in Places(text, p, from)
  BY <1>2, <1>4 DEF p
<1>6. /\ found \in Places(text, p, from) /\ found \in Nat \ {0} /\ found <= end
      /\ found >= from
  BY <1>2, <1>4, <1>5, Found DEF npos
<1>7. found \in Places(text, p, 1)
  BY <1>4, <1>6
<1> HIDE DEF found
<1>8. text[found] = "\r"
  <2>1. \A j \in 1 .. Len(p) : text[found + j - 1] = p[j]
    BY <1>3, <1>7, PlaceChars
  <2>2. found + 1 - 1 = found
    BY <1>6
  <2> QED
    BY <1>3, <2>1, <2>2
<1>9. found = end
  <2> SUFFICES ASSUME found < end PROVE FALSE
    BY <1>2, <1>6
  <2> DEFINE i == found - k
  <2>1. i \in 1 .. Len(line) /\ k + i = found
    BY <1>1, <1>6 DEF from
  <2> HIDE DEF i
  <2>2. line[i] = "\r"
    BY <1>1, <1>8, <2>1
  <2> QED
    BY <2>1, <2>2
<1>10. SubSeq(text, from, n) = line
  <2>1. from <= n + 1 /\ n <= Len(text) /\ n - from + 1 = Len(line)
    BY <1>1, <1>2 DEF from
  <2> HIDE DEF n
  <2>2. /\ SubSeq(text, from, n) \in Text /\ Len(SubSeq(text, from, n)) = n - from + 1
        /\ \A i \in 1 .. n - from + 1 : SubSeq(text, from, n)[i] = text[from + i - 1]
    BY <1>2, <2>1, TextBetween
  <2> DEFINE part == SubSeq(text, from, n)
  <2>3. \A i \in 1 .. Len(line) : part[i] = line[i]
    <3>1. \A i \in 1 .. Len(line) : from + i - 1 = k + i
      BY <1>1 DEF from
    <3> QED
      BY <1>1, <2>1, <2>2, <3>1
  <2>4. part \in Text /\ Len(part) = Len(line)
    BY <2>1, <2>2
  <2> HIDE DEF part
  <2>5. part = line
    BY <2>3, <2>4, TextSame
  <2> QED
    BY <2>5 DEF part
<1> QED
  BY <1>9, <1>10 DEF found, p, from

(* A character that a line has twice is found twice. *)
LEMMA FoundTwice ==
  ASSUME NEW line \in Text, NEW c \in Char, NEW b0 \in DOMAIN line, NEW b1 \in DOMAIN line,
         b0 < b1, line[b0] = c, line[b1] = c
  PROVE  /\ find(line, <<c>>, 1) # npos
         /\ find(line, <<c>>, find(line, <<c>>, 1) + 1) # npos
<1> DEFINE s0 == find(line, <<c>>, 1)
           from == s0 + 1
<1>1. Len(line) \in Nat /\ b0 \in 1 .. Len(line) /\ b1 \in 1 .. Len(line)
  BY LenProperties DEF Text
<1>2. 1 \in Nat \ {0}
  OBVIOUS
<1>3. s0 \in 1 .. b0 /\ s0 # npos
  BY <1>1, <1>2, FoundInLine
<1> HIDE DEF s0
<1>4. from \in Nat \ {0} /\ b1 \in from .. Len(line)
  BY <1>1, <1>3
<1> HIDE DEF from
<1>5. find(line, <<c>>, from) # npos
  BY <1>4, FoundInLine
<1> QED
  BY <1>3, <1>5 DEF from, s0

(* The name and the value of a written field are told apart. *)
LEMMA FieldIsSplit ==
  ASSUME NEW r \in Requests, NEW k \in 1 .. Len(r.fields) + 1
  PROVE  LET field == LineOf(r, k)
             separator == find(field, <<":">>, 1)
         IN  /\ separator # npos /\ ~(separator + 2 > Len(field) + 1)
             /\ Len(field) \in Nat /\ Len(field) >= 2
             /\ SubSeq(field, 1, separator - 1) = NameOf(r, k)
             /\ SubSeq(field, separator + 2, Len(field)) = ValueOf(r, k)
             /\ \A i \in 1 .. Len(field) : field[i] # "\r"
<1> DEFINE field == LineOf(r, k)
           name == NameOf(r, k)
           value == ValueOf(r, k)
           colon == ":"
           separator == find(field, <<colon>>, 1)
           nn == Len(name)
           m == Len(field)
<1>1. /\ name \in Text /\ value \in Text
      /\ \A i \in 1 .. Len(name) : name[i] # colon /\ name[i] # "\r"
      /\ \A i \in 1 .. Len(value) : value[i] # "\r"
  BY LineIsText
<1>2. /\ field \in Text /\ Len(field) = Len(name) + 2 + Len(value)
      /\ IsPart(name, field, 0) /\ IsPart(ColonBlank, field, Len(name))
      /\ IsPart(value, field, Len(name) + 2)
  BY FieldIsWritten
<1>c. colon \in Char /\ <<colon>> \in Text /\ colon # "\r" /\ " " # "\r"
  BY CharAssumption, MarksAreText
<1>b. ColonBlank[1] = colon /\ ColonBlank[2] = " "
  BY ColonBlankIs
<1>n. nn \in Nat /\ Len(value) \in Nat /\ m = nn + 2 + Len(value) /\ m \in Nat
  BY <1>1, <1>2, TextLength
<1> HIDE DEF field, name, value, colon
<1>3. /\ \A i \in 1 .. nn : name[i] = field[i]
      /\ \A i \in 1 .. Len(value) : value[i] = field[nn + 2 + i]
      /\ field[nn + 1] = colon /\ field[nn + 2] = " "
  <2>1. \A i \in 1 .. nn : name[i] = field[0 + i]
    BY <1>2 DEF IsPart
  <2>2. \A i \in 1 .. Len(value) : value[i] = field[nn + 2 + i]
    BY <1>2 DEF IsPart
  <2>3. \A i \in 1 .. Len(ColonBlank) : ColonBlank[i] = field[nn + i]
    BY <1>2 DEF IsPart
  <2>4. Len(ColonBlank) = 2
    BY ColonBlankIs
  <2>5. 1 \in 1 .. Len(ColonBlank) /\ 2 \in 1 .. Len(ColonBlank)
    BY <2>4
  <2>6. \A i \in 1 .. nn : 0 + i = i
    BY <1>n
  <2> HIDE DEF nn
  <2>7. field[nn + 1] = colon /\ field[nn + 2] = " "
    BY <1>b, <2>3, <2>5
  <2> QED
    BY <2>1, <2>2, <2>6, <2>7
<1> HIDE DEF nn, m
<1>4. \A i \in 1 .. m : \/ i \in 1 .. nn \/ i = nn + 1 \/ i = nn + 2
                        \/ i - (nn + 2) \in 1 .. Len(value) /\ nn + 2 + (i - (nn + 2)) = i
  BY <1>n
<1>5. \A i \in 1 .. m : field[i] # "\r"
  <2> SUFFICES ASSUME NEW i \in 1 .. m PROVE field[i] # "\r"
    OBVIOUS
  <2>1. CASE i \in 1 .. nn
    BY <1>1, <1>3, <2>1 DEF nn
  <2>2. CASE i = nn + 1
    BY <1>3, <1>c, <2>2
  <2>3. CASE i = nn + 2
    BY <1>3, <1>c, <2>3
  <2>4. CASE i - (nn + 2) \in 1 .. Len(value) /\ nn + 2 + (i - (nn + 2)) = i
    <3> DEFINE j == i - (nn + 2)
    <3>1. j \in 1 .. Len(value) /\ nn + 2 + j = i
      BY <2>4
    <3> HIDE DEF j
    <3>2. value[j] = field[i]
      BY <1>3, <3>1
    <3> QED
      BY <1>1, <3>1, <3>2
  <2> QED
    BY <1>4, <2>1, <2>2, <2>3, <2>4
<1>6. separator = nn + 1 /\ separator # npos
  <2> DEFINE at == nn + 1
  <2>a. at = nn + 1 /\ at \in 1 .. m /\ 1 \in Nat \ {0}
    BY <1>n
  <2>b. field[at] = colon
    BY <1>3
  <2>1. at \in 1 .. Len(field) /\ field[at] = colon /\ 1 \in Nat \ {0}
    BY <2>a, <2>b DEF m
  <2> HIDE DEF at
  <2>2. /\ separator \in 1 .. at /\ separator # npos /\ field[separator] = colon
    BY <1>2, <1>c, <2>1, FoundInLine
  <2> HIDE DEF separator
  <2>3. separator \notin 1 .. nn
    BY <1>1, <1>3, <2>2 DEF nn
  <2> QED
    BY <1>n, <2>2, <2>3, <2>a
<1> HIDE DEF separator
<1>7. ~(separator + 2 > m + 1) /\ m >= 2
  BY <1>n, <1>6
<1>8. SubSeq(field, 1, separator - 1) = name
  <2> DEFINE to == separator - 1
             part == SubSeq(field, 1, to)
  <2>1. to = nn /\ 1 <= nn + 1 /\ nn <= m /\ nn - 1 + 1 = nn /\ 1 \in Nat \ {0}
    BY <1>n, <1>6
  <2> HIDE DEF to
  <2>2. /\ part \in Text /\ Len(part) = nn - 1 + 1
        /\ \A i \in 1 .. nn - 1 + 1 : part[i] = field[1 + i - 1]
    BY <1>2, <1>n, <2>1, TextBetween DEF m
  <2> HIDE DEF part
  <2>3. \A i \in 1 .. nn : 1 + i - 1 = i
    BY <1>n
  <2>4. Len(part) = Len(name) /\ \A i \in 1 .. Len(part) : part[i] = name[i]
    BY <1>3, <2>1, <2>2, <2>3 DEF nn
  <2>5. part = name
    BY <1>1, <2>2, <2>4, TextSame
  <2> QED
    BY <2>5 DEF part, to
<1>9. SubSeq(field, separator + 2, m) = value
  <2> DEFINE from == separator + 2
             part == SubSeq(field, from, m)
  <2>1. /\ from = nn + 3 /\ from \in Nat \ {0} /\ from <= m + 1
        /\ m - from + 1 = Len(value)
    BY <1>n, <1>6
  <2> HIDE DEF from
  <2>m. m <= Len(field)
    BY <1>n DEF m
  <2>2. /\ part \in Text /\ Len(part) = m - from + 1
        /\ \A i \in 1 .. m - from + 1 : part[i] = field[from + i - 1]
    BY <1>2, <1>n, <2>1, <2>m, TextBetween
  <2> HIDE DEF part
  <2>3. \A i \in 1 .. Len(value) : from + i - 1 = nn + 2 + i
    BY <1>n, <2>1
  <2>l. Len(part) = Len(value)
    BY <2>1, <2>2, Zenon
  <2>p. \A i \in 1 .. Len(value) : part[i] = field[from + i - 1]
    BY <2>1, <2>2, Zenon
  <2>q. \A i \in 1 .. Len(value) : part[i] = value[i]
    BY <1>3, <2>3, <2>p, Zenon
  <2>4. Len(part) = Len(value) /\ \A i \in 1 .. Len(part) : part[i] = value[i]
    BY <2>l, <2>q, Zenon
  <2>5. part = value
    BY <1>1, <2>2, <2>4, TextSame
  <2> QED
    BY <2>5 DEF part, from
<1> QED
  BY <1>5, <1>6, <1>7, <1>8, <1>9, <1>n DEF field, name, value, colon, separator, m

-----------------------------------------------------------------------------
(* The fields of a response after the first k fields of a request. *)
HasFields(f, r, k) ==
  /\ DOMAIN f = {r.fields[i][1] : i \in 1 .. k}
  /\ \A i \in 1 .. k : f[r.fields[i][1]] = r.fields[i][2]

(* The fields of a response after all of a request. *)
Written(r) ==
  put([name \in {f[1] : f \in ToSet(r.fields)} |->
         (CHOOSE f \in ToSet(r.fields) : f[1] = name)[2]],
      <<"Content-Length">>, <<ToString(Len(r.body))>>)

LEMMA FieldAdded ==
  ASSUME NEW r \in Requests, NEW k \in 0 .. Len(r.fields) - 1, NEW f, HasFields(f, r, k)
  PROVE  HasFields(put(f, NameOf(r, k + 1), ValueOf(r, k + 1)), r, k + 1)
<1> DEFINE n == Len(r.fields)
           next == k + 1
           name == NameOf(r, next)
           value == ValueOf(r, next)
           g == put(f, name, value)
<1>1. /\ n \in Nat /\ DOMAIN r.fields = 1 .. n
      /\ \A i, j \in 1 .. n : r.fields[i][1] = r.fields[j][1] => i = j
  <2>1. r.fields \in Seq(Text \X Text)
    BY InputsAreTyped
  <2>2. n \in Nat /\ DOMAIN r.fields = 1 .. n
    BY <2>1
  <2>3. \A i, j \in DOMAIN r.fields : r.fields[i][1] = r.fields[j][1] => i = j
    BY RequestsAssumption
  <2> QED
    BY <2>2, <2>3
<1>2. next \in 1 .. n /\ next = k + 1 /\ next \notin 1 .. k /\ next <= n
  BY <1>1
<1> HIDE DEF next, n
<1>3. name = r.fields[next][1] /\ value = r.fields[next][2]
  BY <1>2 DEF NameOf, ValueOf, n
<1> HIDE DEF name, value
<1>4. g = [x \in DOMAIN f \cup {name} |-> IF x = name THEN value ELSE f[x]]
  BY DEF put
<1> HIDE DEF g
<1>5. \A i : i \in 1 .. next <=> i \in 1 .. k \/ i = next
  BY <1>1, <1>2
<1>6. DOMAIN g = {r.fields[i][1] : i \in 1 .. next}
  BY <1>3, <1>4, <1>5 DEF HasFields
<1>7. ASSUME NEW i \in 1 .. next PROVE g[r.fields[i][1]] = r.fields[i][2]
  <2>1. CASE i = next
    BY <1>3, <1>4, <2>1
  <2>2. CASE i # next
    <3>1. i \in 1 .. k /\ i \in 1 .. n
      BY <1>1, <1>2, <1>5, <2>2
    <3>2. r.fields[i][1] # name
      BY <1>1, <1>2, <1>3, <2>2, <3>1
    <3>3. r.fields[i][1] \in DOMAIN f /\ f[r.fields[i][1]] = r.fields[i][2]
      BY <3>1 DEF HasFields
    <3> QED
      BY <1>4, <3>2, <3>3
  <2> QED
    BY <2>1, <2>2
<1>8. HasFields(g, r, next)
  BY <1>6, <1>7 DEF HasFields
<1> QED
  BY <1>8 DEF g, name, value, next

LEMMA AllFieldsAdded ==
  ASSUME NEW r \in Requests, NEW f, HasFields(f, r, Len(r.fields))
  PROVE  LET k == Len(r.fields) + 1 IN put(f, NameOf(r, k), ValueOf(r, k)) = Written(r)
<1> DEFINE n == Len(r.fields)
           c == <<"Content-Length">>
           v == <<ToString(Len(r.body))>>
           S == ToSet(r.fields)
           names == {x[1] : x \in S}
           g == [name \in names |-> (CHOOSE x \in S : x[1] = name)[2]]
<1>1. /\ n \in Nat /\ DOMAIN r.fields = 1 .. n
      /\ \A i, j \in 1 .. n : r.fields[i][1] = r.fields[j][1] => i = j
  <2>1. r.fields \in Seq(Text \X Text)
    BY InputsAreTyped
  <2>2. n \in Nat /\ DOMAIN r.fields = 1 .. n
    BY <2>1
  <2>3. \A i, j \in DOMAIN r.fields : r.fields[i][1] = r.fields[j][1] => i = j
    BY RequestsAssumption
  <2> QED
    BY <2>2, <2>3
<1>2. NameOf(r, n + 1) = c /\ ValueOf(r, n + 1) = v
  BY <1>1 DEF NameOf, ValueOf
<1>3. S = {r.fields[i] : i \in 1 .. n}
  BY <1>1 DEF ToSet
<1> HIDE DEF S, n
<1>4. DOMAIN f = names /\ \A i \in 1 .. n : f[r.fields[i][1]] = r.fields[i][2]
  <2>1. names = {r.fields[i][1] : i \in 1 .. n}
    BY <1>3
  <2> QED
    BY <2>1 DEF HasFields, n
<1>5. ASSUME NEW name \in names PROVE f[name] = g[name]
  <2>1. PICK i \in 1 .. n : name = r.fields[i][1]
    BY <1>3
  <2>2. r.fields[i] \in S
    BY <1>3
  <2>3. \A x \in S : x[1] = name => x = r.fields[i]
    BY <1>1, <1>3, <2>1
  <2>4. (CHOOSE x \in S : x[1] = name) = r.fields[i]
    BY <2>1, <2>2, <2>3
  <2> QED
    BY <1>4, <2>1, <2>4
<1>6. DOMAIN g = names
  OBVIOUS
<1> HIDE DEF g, names, c, v
<1>7. put(f, c, v) = put(g, c, v)
  BY <1>4, <1>5, <1>6 DEF put
<1>8. Written(r) = put(g, c, v)
  BY DEF Written, c, v, g, names, S
<1> QED
  BY <1>2, <1>7, <1>8 DEF n

(* A request is read line by line, each line whole. *)
EndsOf(r) == CHOOSE ends : Layout(r, write(r), ends)

LineRead ==
  LET n == Len(origin.fields) IN
  \/ \E k \in 0 .. n : newline = EndsOf(origin)[k] /\ HasFields(fields, origin, k)
  \/ newline = EndsOf(origin)[n + 1] /\ fields = Written(origin)

RequestInv ==
  origin \in Requests =>
    /\ data = write(origin)
    /\ pc \in {"first_line", "fields", "body", "parsed"}
    /\ pc = "first_line" => HasFields(fields, origin, 0)
    /\ pc = "fields" => LineRead
    /\ pc \in {"body", "parsed"} => body = origin.body /\ fields = Written(origin)

LEMMA FieldsCounted ==
  ASSUME NEW r \in Requests
  PROVE  Len(r.fields) \in Nat
<1>1. r.fields \in Seq(Text \X Text)
  BY InputsAreTyped
<1> QED
  BY <1>1

LEMMA LaidOut ==
  ASSUME NEW r \in Requests
  PROVE  Layout(r, write(r), EndsOf(r))
BY WrittenLayout DEF EndsOf

LEMMA RequestFirstLine ==
  ASSUME NEW r \in Requests
  PROVE  LET end == find(write(r), CRLF, 1)
             line == SubSeq(write(r), 1, end - 1)
             s0 == find(line, <<" ">>, 1)
             s1 == find(line, <<" ">>, s0 + 1)
         IN  end = EndsOf(r)[0] /\ end # npos /\ s0 # npos /\ s1 # npos
<1> DEFINE w == write(r)
           line == r.line
           blank == " "
           end == EndsOf(r)[0]
<1>1. /\ w \in Text /\ end = Len(line) + 1 /\ IsPart(line, w, 0)
      /\ end \in Places(w, CRLF, 1)
  <2>1. 0 \in 0 .. Len(r.fields) + 1
    BY FieldsCounted
  <2> QED
    BY <2>1, LaidOut DEF Layout
<1>2. line \in Text /\ Len(line) \in Nat
  BY InputsAreTyped, TextLength
<1>3. \A i \in 1 .. Len(line) : line[i] # "\r"
  <2>1. "\r" \notin ToSet(line)
    BY RequestsAssumption
  <2>2. \A i \in 1 .. Len(line) : line[i] \in ToSet(line)
    BY <1>2, LenProperties DEF ToSet, Text
  <2> QED
    BY <2>1, <2>2
<1>4. \E b0, b1 \in DOMAIN line : b0 < b1 /\ line[b0] = blank /\ line[b1] = blank
  BY RequestsAssumption
<1>b. blank \in Char
  BY CharAssumption
<1> HIDE DEF w, line, end, blank
<1>5. find(w, CRLF, 1) = end /\ SubSeq(w, 1, end - 1) = line
  <2> DEFINE k == 0
  <2>1. end = k + Len(line) + 1 /\ IsPart(line, w, k) /\ k + 1 = 1
    BY <1>1, <1>2
  <2> HIDE DEF k
  <2>2. find(w, CRLF, k + 1) = end /\ SubSeq(w, k + 1, end - 1) = line
    BY <1>1, <1>2, <1>3, <2>1, LineIsFound
  <2> QED
    BY <2>1, <2>2
<1>6. /\ find(line, <<blank>>, 1) # npos
      /\ find(line, <<blank>>, find(line, <<blank>>, 1) + 1) # npos
  BY <1>2, <1>4, <1>b, FoundTwice
<1>7. end # npos
  BY <1>1, <1>2 DEF npos
<1> QED
  BY <1>5, <1>6, <1>7 DEF w, end, blank

LEMMA RequestLine ==
  ASSUME NEW r \in Requests, NEW k \in 0 .. Len(r.fields)
  PROVE  LET nl == EndsOf(r)[k]
             next == find(write(r), CRLF, nl + 2)
         IN  /\ next = EndsOf(r)[k + 1] /\ next # npos
             /\ next > nl + 2 /\ next # nl + 2
             /\ SubSeq(write(r), nl + 2, next - 1) = LineOf(r, k + 1)
<1> DEFINE w == write(r)
           nl == EndsOf(r)[k]
           k1 == k + 1
           end == EndsOf(r)[k1]
           line == LineOf(r, k1)
<1>1. k1 \in 1 .. Len(r.fields) + 1 /\ k1 - 1 = k /\ k1 \in 0 .. Len(r.fields) + 1
      /\ k \in 0 .. Len(r.fields) + 1
  BY FieldsCounted
<1> HIDE DEF k1
<1>2. /\ w \in Text /\ end = nl + 2 + Len(line) /\ IsPart(line, w, nl + 1)
      /\ end \in Places(w, CRLF, 1) /\ nl \in Nat
  BY <1>1, LaidOut DEF Layout
<1>3. /\ line \in Text /\ Len(line) \in Nat /\ Len(line) >= 2
      /\ \A i \in 1 .. Len(line) : line[i] # "\r"
  BY <1>1, FieldIsWritten, FieldIsSplit
<1> HIDE DEF w, nl, end, line
<1> DEFINE off == nl + 1
<1>4. off + 1 = nl + 2 /\ end = off + Len(line) + 1 /\ IsPart(line, w, off)
  BY <1>2, <1>3
<1> HIDE DEF off
<1>5. find(w, CRLF, off + 1) = end /\ SubSeq(w, off + 1, end - 1) = line
  BY <1>2, <1>3, <1>4, LineIsFound
<1>6. end # npos /\ end > nl + 2 /\ end # nl + 2
  BY <1>2, <1>3 DEF npos
<1> QED
  BY <1>4, <1>5, <1>6 DEF w, nl, end, line, k1

LEMMA RequestEnd ==
  ASSUME NEW r \in Requests
  PROVE  LET nl == EndsOf(r)[Len(r.fields) + 1]
             next == find(write(r), CRLF, nl + 2)
         IN  /\ next = nl + 2 /\ next # npos /\ ~(next > nl + 2)
             /\ SubSeq(write(r), next + 2, Len(write(r))) = r.body
<1> DEFINE w == write(r)
           m == Len(r.fields) + 1
           nl == EndsOf(r)[m]
           b == r.body
           from == nl + 2
           next == find(w, CRLF, from)
<1>1. m \in 0 .. m
  BY FieldsCounted
<1>2. /\ w \in Text /\ from \in Places(w, CRLF, 1) /\ nl \in Nat
      /\ IsPart(b, w, nl + 3) /\ Len(w) = nl + 3 + Len(b)
  BY <1>1, LaidOut DEF Layout
<1>3. b \in Text /\ Len(b) \in Nat
  BY InputsAreTyped, TextLength
<1>f. from = nl + 2 /\ from \in Nat \ {0} /\ 1 <= from
  BY <1>2
<1> HIDE DEF w, m, nl, b, from
<1>4. from \in Places(w, CRLF, from)
  BY <1>2, <1>f, PlacesFrom
<1>5. next \in Places(w, CRLF, from) /\ next <= from /\ next # npos /\ next \in Nat
  BY <1>4, <1>f, Found
<1>6. next = from
  BY <1>f, <1>5, PlacesAreNumbers
<1>7. SubSeq(w, nl + 2 + 2, Len(w)) = b
  <2> DEFINE s == nl + 3
             part == SubSeq(w, s + 1, Len(w))
  <2>1. s \in Nat /\ nl + 2 + 2 = s + 1 /\ Len(w) = s + Len(b) /\ IsPart(b, w, s)
    BY <1>2, <1>3
  <2> HIDE DEF s
  <2>2. s <= Len(w) /\ Len(w) \in Nat /\ Len(w) - s = Len(b) /\ Len(w) <= Len(w)
    BY <1>3, <2>1
  <2>3. /\ part \in Text /\ Len(part) = Len(w) - s
        /\ \A i \in 1 .. Len(w) - s : part[i] = w[s + i]
    BY <1>2, <2>1, <2>2, TextPart
  <2>4. \A i \in 1 .. Len(b) : b[i] = w[s + i]
    BY <2>1 DEF IsPart
  <2> HIDE DEF part
  <2>5. Len(part) = Len(b)
    BY <2>2, <2>3, Zenon
  <2>6. \A i \in 1 .. Len(part) : part[i] = b[i]
    BY <2>2, <2>3, <2>4, Zenon
  <2>7. part = b
    BY <1>3, <2>3, <2>5, <2>6, TextSame
  <2> QED
    BY <2>1, <2>7 DEF part
<1> HIDE DEF next
<1>8. next = nl + 2 /\ next # npos /\ ~(next > nl + 2)
  BY <1>2, <1>f, <1>5, <1>6
<1> QED
  BY <1>7, <1>8, <1>f DEF w, m, nl, b, next

LEMMA RequestInvInitial == ReaderInit => RequestInv
<1> SUFFICES ASSUME ReaderInit, origin \in Requests PROVE RequestInv
  BY DEF RequestInv
<1>1. data = write(origin) /\ pc = "first_line" /\ fields = <<>>
  BY AnswersAreNotRequests DEF ReaderInit
<1>2. HasFields(<<>>, origin, 0)
  <2>1. DOMAIN <<>> = {} /\ 1 .. 0 = {}
    OBVIOUS
  <2> QED
    BY <2>1 DEF HasFields
<1> QED
  BY <1>1, <1>2 DEF RequestInv

LEMMA RequestFirstStep ==
  ASSUME RequestInv, read_first_line
  PROVE  RequestInv'
<1> SUFFICES ASSUME origin \in Requests PROVE RequestInv'
  BY DEF read_first_line, RequestInv
<1>1. data = write(origin) /\ HasFields(fields, origin, 0) /\ pc = "first_line"
  BY DEF RequestInv, read_first_line
<1>2. /\ pc' = "fields" /\ newline' = EndsOf(origin)[0]
      /\ origin' = origin /\ data' = data /\ fields' = fields
  BY <1>1, RequestFirstLine DEF read_first_line
<1>3. 0 \in 0 .. Len(origin.fields)
  BY FieldsCounted
<1>4. LineRead'
  BY <1>1, <1>2, <1>3 DEF LineRead, HasFields
<1> QED
  BY <1>1, <1>2, <1>4 DEF RequestInv

LEMMA RequestFieldStep ==
  ASSUME RequestInv, read_field
  PROVE  RequestInv'
<1> SUFFICES ASSUME origin \in Requests PROVE RequestInv'
  BY DEF read_field, RequestInv
<1> DEFINE n == Len(origin.fields)
           nl == newline
           next == find(data, CRLF, nl + 2)
           field == SubSeq(data, nl + 2, next - 1)
           separator == find(field, <<":">>, 1)
<1>1. data = write(origin) /\ LineRead /\ pc = "fields" /\ n \in Nat
  BY FieldsCounted DEF RequestInv, read_field
<1>2. data' = data /\ origin' = origin /\ result' = result
  BY DEF read_field
<1>3. \/ pc' = "body" /\ body' = body /\ fields' = fields
         /\ (next = npos \/ (next > nl + 2 /\ separator = npos))
      \/ /\ next = nl + 2 /\ body' = SubSeq(data, next + 2, Len(data))
         /\ pc' = "body" /\ fields' = fields
      \/ /\ pc' = "thrown" /\ next > nl + 2
         /\ separator # npos /\ separator + 2 > Len(field) + 1
      \/ /\ pc' = "fields" /\ newline' = next /\ body' = body
         /\ next > nl + 2 /\ separator # npos
         /\ fields' = put(fields, SubSeq(field, 1, separator - 1),
                          SubSeq(field, separator + 2, Len(field)))
  BY <1>1 DEF read_field, value_start
<1>4. ASSUME NEW k \in 0 .. n, nl = EndsOf(origin)[k], HasFields(fields, origin, k)
      PROVE  pc' = "fields" /\ LineRead'
  <2> DEFINE k1 == k + 1
  <2>1. k1 \in 1 .. n + 1
    BY <1>1
  <2>2. /\ next = EndsOf(origin)[k1] /\ next # npos /\ next # nl + 2
        /\ field = LineOf(origin, k1)
    BY <1>1, <1>4, RequestLine
  <2>3. /\ separator # npos /\ ~(separator + 2 > Len(field) + 1)
        /\ SubSeq(field, 1, separator - 1) = NameOf(origin, k1)
        /\ SubSeq(field, separator + 2, Len(field)) = ValueOf(origin, k1)
    BY <2>1, <2>2, FieldIsSplit
  <2> HIDE DEF field, separator, next
  <2>4. /\ pc' = "fields" /\ newline' = next
        /\ fields' = put(fields, NameOf(origin, k1), ValueOf(origin, k1))
    BY <1>3, <2>2, <2>3
  <2> HIDE DEF k1
  <2>e. newline' = EndsOf(origin)[k1]
    BY <2>2, <2>4
  <2>5. CASE k = n
    <3>1. k1 = n + 1
      BY <2>5 DEF k1
    <3>2. fields' = Written(origin)
      <4>1. fields' = put(fields, NameOf(origin, n + 1), ValueOf(origin, n + 1))
        BY <2>4, <3>1
      <4>2. HasFields(fields, origin, n)
        BY <1>4, <2>5
      <4> QED
        BY <4>1, <4>2, AllFieldsAdded
    <3>3. newline' = EndsOf(origin)[n + 1]
      BY <2>e, <3>1
    <3> QED
      BY <1>2, <2>4, <3>2, <3>3 DEF LineRead
  <2>6. CASE k # n
    <3>1. k \in 0 .. n - 1 /\ k1 \in 0 .. n
      BY <1>1, <2>6 DEF k1
    <3>2. HasFields(fields', origin, k1)
      <4>1. HasFields(put(fields, NameOf(origin, k + 1), ValueOf(origin, k + 1)),
                      origin, k + 1)
        BY <1>4, <3>1, FieldAdded
      <4> QED
        BY <2>4, <4>1 DEF k1
    <3> QED
      BY <1>2, <2>4, <2>e, <3>1, <3>2 DEF LineRead
  <2> QED
    BY <2>4, <2>5, <2>6
<1>5. ASSUME nl = EndsOf(origin)[n + 1], fields = Written(origin)
      PROVE  pc' = "body" /\ body' = origin.body /\ fields' = Written(origin)
  <2>1. /\ next = nl + 2 /\ next # npos /\ ~(next > nl + 2)
        /\ SubSeq(data, next + 2, Len(data)) = origin.body
    BY <1>1, <1>5, RequestEnd
  <2> HIDE DEF field, separator, next
  <2> QED
    BY <1>3, <1>5, <2>1
<1>6. CASE \E k \in 0 .. n : nl = EndsOf(origin)[k] /\ HasFields(fields, origin, k)
  <2>1. pc' = "fields" /\ LineRead'
    BY <1>4, <1>6
  <2> QED
    BY <1>1, <1>2, <2>1 DEF RequestInv
<1>7. CASE nl = EndsOf(origin)[n + 1] /\ fields = Written(origin)
  <2>1. pc' = "body" /\ body' = origin.body /\ fields' = Written(origin)
    BY <1>5, <1>7
  <2> QED
    BY <1>1, <1>2, <2>1 DEF RequestInv, Written
<1> QED
  BY <1>1, <1>6, <1>7 DEF LineRead

LEMMA RequestInvStep ==
  ASSUME RequestInv, [ReaderNext]_readerVars
  PROVE  RequestInv'
<1>1. CASE parse_response
  BY <1>1 DEF parse_response, RequestInv
<1>2. CASE UNCHANGED readerVars
  BY <1>2 DEF readerVars, RequestInv, LineRead
<1>3. CASE read_first_line
  BY <1>3, RequestFirstStep
<1>4. CASE read_field
  BY <1>4, RequestFieldStep
<1> QED
  BY <1>1, <1>2, <1>3, <1>4 DEF ReaderNext

LEMMA RequestInvGives == RequestInv => WrittenIsRead
BY DEF RequestInv, WrittenIsRead, Written

(***************************************************************************)
(* Whatever main sends, read makes of what write has written the very      *)
(* fields and the very body (http.cpp:14-28, 54-75).                       *)
(***************************************************************************)
THEOREM WhatIsWrittenIsRead == ReaderSpec => []WrittenIsRead
BY RequestInvInitial, RequestInvStep, RequestInvGives, PTL DEF ReaderSpec

-----------------------------------------------------------------------------
(* What the assumption says of the years. *)
LEMMA YearsFrom2000 ==
  \A y \in Years : y \in Nat /\ y >= 2000
  BY CalendarAssumption

(* The code's test of a leap year is the calendar's rule. *)
LEMMA LeapYears ==
  ASSUME NEW y \in Nat
  PROVE  timeutils_is_leap_year(y) <=> Leap(y)
<1>1. y % 4 = 0 <=> Divides(4, y)
  BY DEF Divides
<1>2. y % 100 = 0 <=> Divides(100, y)
  BY DEF Divides
<1>3. y % 400 = 0 <=> Divides(400, y)
  BY DEF Divides
<1>4. Divides(400, y) => Divides(100, y) /\ Divides(4, y)
  BY DEF Divides
<1> QED
  BY <1>1, <1>2, <1>3, <1>4 DEF timeutils_is_leap_year, Leap

(* From one year to the next a leap day is counted when the first is one. *)
LEMMA LeapDaysGrow ==
  ASSUME NEW y \in Nat, y >= 2000
  PROVE  LeapDays(y + 1) = LeapDays(y) + (IF timeutils_is_leap_year(y) THEN 1 ELSE 0)
<1> DEFINE a == y - 2000
<1>1. a \in Nat /\ y = a + 2000
  OBVIOUS
<1> HIDE DEF a
<1>2. (a + 1 + 3) \div 4 = (a + 3) \div 4 + (IF a % 4 = 0 THEN 1 ELSE 0)
  BY <1>1
<1>3. (a + 1 + 99) \div 100 = (a + 99) \div 100 + (IF a % 100 = 0 THEN 1 ELSE 0)
  BY <1>1
<1>4. (a + 1 + 399) \div 400 = (a + 399) \div 400 + (IF a % 400 = 0 THEN 1 ELSE 0)
  BY <1>1
<1>5. /\ y % 4 = 0 <=> a % 4 = 0
      /\ y % 100 = 0 <=> a % 100 = 0
      /\ y % 400 = 0 <=> a % 400 = 0
  BY <1>1
<1>6. a % 400 = 0 => a % 100 = 0
  BY <1>1
<1>7. a % 100 = 0 => a % 4 = 0
  BY <1>1
<1>8. y - 2000 = a /\ y + 1 - 2000 = a + 1
  BY <1>1
<1> QED
  BY <1>1, <1>2, <1>3, <1>4, <1>5, <1>6, <1>7, <1>8 DEF LeapDays, timeutils_is_leap_year

(* The first of a month is the day after the last of the month before. *)
LEMMA MonthsAreCounted ==
  ASSUME NEW y \in Nat, NEW m \in 1 .. 12, m < 12
  PROVE  timeutils_year_day(y, m + 1, 1) = timeutils_year_day(y, m, DaysIn(y, m)) + 1
<1>1. CASE m = 1
  BY <1>1 DEF timeutils_year_day, days_since_jan1, DaysIn
<1>2. CASE m = 2
  BY <1>2, LeapYears DEF timeutils_year_day, days_since_jan1, DaysIn
<1>3. CASE m \in 3 .. 6
  BY <1>3 DEF timeutils_year_day, days_since_jan1, DaysIn
<1>4. CASE m \in 7 .. 9
  BY <1>4 DEF timeutils_year_day, days_since_jan1, DaysIn
<1>5. CASE m \in 10 .. 11
  BY <1>5 DEF timeutils_year_day, days_since_jan1, DaysIn
<1> QED
  BY <1>1, <1>2, <1>3, <1>4, <1>5

(* to_epoch as whole days and the seconds of the last one. *)
DaysBefore(d) ==
  timeutils_year_day(d.year, d.month, d.day) - 1 + LeapDays(d.year)
    + (d.year - 2000) * 365

SecondsOfDay(d) ==
  d.sec + d.min * SecondsPerMinute + d.hour * (SecondsPerMinute * MinutesPerHour)

(* Products of lengths are lengths. *)
LEMMA Lengths ==
  /\ SecondsPerMinute \in Nat \ {0}
  /\ MinutesPerHour \in Nat \ {0}
  /\ HoursPerDay \in Nat \ {0}
  /\ SecondsPerMinute * MinutesPerHour \in Nat
  /\ SecondsPerDay \in Nat
<1>1. /\ SecondsPerMinute \in Nat \ {0}
      /\ MinutesPerHour \in Nat \ {0}
      /\ HoursPerDay \in Nat \ {0}
  BY CalendarAssumption
<1>2. \A a, b \in Nat : a * b \in Nat
  OBVIOUS
<1>3. SecondsPerMinute * MinutesPerHour \in Nat
  BY <1>1, <1>2
<1>4. SecondsPerDay \in Nat
  BY <1>1, <1>2, <1>3 DEF SecondsPerDay
<1> QED
  BY <1>1, <1>3, <1>4

(* The provers need to know that days and seconds are numbers. *)
LEMMA DaysAreNumbers ==
  ASSUME NEW d \in Date, d.year >= 2000
  PROVE  /\ timeutils_year_day(d.year, d.month, d.day) \in Nat
         /\ LeapDays(d.year) \in Int
         /\ DaysBefore(d) \in Int
         /\ SecondsOfDay(d) \in Nat
<1>1. d.year \in Nat /\ d.month \in 1 .. 12 /\ d.day \in 1 .. 31
  BY DEF Date
<1>2. days_since_jan1[d.month] \in Nat
  BY <1>1 DEF days_since_jan1
<1>3. timeutils_year_day(d.year, d.month, d.day) \in Nat
  BY <1>1, <1>2 DEF timeutils_year_day
<1>4. LeapDays(d.year) \in Int
  BY <1>1 DEF LeapDays
<1>5. DaysBefore(d) \in Int
  BY <1>1, <1>3, <1>4 DEF DaysBefore
<1>6. d.sec \in Nat /\ d.min \in Nat /\ d.hour \in Nat
  BY Lengths DEF Date
<1>7. \A a, b \in Nat : a * b \in Nat
  OBVIOUS
<1>8. /\ d.min * SecondsPerMinute \in Nat
      /\ d.hour * (SecondsPerMinute * MinutesPerHour) \in Nat
  BY <1>6, <1>7, Lengths
<1>9. SecondsOfDay(d) \in Nat
  BY <1>6, <1>8 DEF SecondsOfDay
<1> QED
  BY <1>3, <1>4, <1>5, <1>9

(* The code's sum is the days before and the seconds of this day. *)
LEMMA EpochInDays ==
  ASSUME NEW d \in Date, d.year >= 2000
  PROVE  to_epoch(d) = SecondsOfDay(d) + DaysBefore(d) * SecondsPerDay
<1> DEFINE a == timeutils_year_day(d.year, d.month, d.day) - 1 + LeapDays(d.year)
           b == d.year - 2000
<1>1. a \in Int /\ b \in Int /\ SecondsPerDay \in Int /\ SecondsOfDay(d) \in Int
  BY DaysAreNumbers, Lengths DEF Date
<1>2. \A i, j, k \in Int : i * k + j * (365 * k) = (i + j * 365) * k
  OBVIOUS
<1>3. a * SecondsPerDay + b * (365 * SecondsPerDay) = (a + b * 365) * SecondsPerDay
  BY <1>1, <1>2
<1>4. DaysBefore(d) = a + b * 365
  BY DEF DaysBefore
<1>5. to_epoch(d) = SecondsOfDay(d) + a * SecondsPerDay + b * (365 * SecondsPerDay)
  BY DEF to_epoch, timeutils_seconds_since_2000, SecondsOfDay
<1> HIDE DEF a, b
<1>6. \A i, j \in Int : i * j \in Int
  OBVIOUS
<1>7. a * SecondsPerDay \in Int /\ b * (365 * SecondsPerDay) \in Int
  BY <1>1, <1>6
<1> QED
  BY <1>1, <1>3, <1>4, <1>5, <1>7

(* The last second of a day is the whole day but one. *)
LEMMA LastSecondOfDay ==
  ASSUME NEW d \in Date,
         d.sec = SecondsPerMinute - 1, d.min = MinutesPerHour - 1,
         d.hour = HoursPerDay - 1
  PROVE  SecondsOfDay(d) = SecondsPerDay - 1
<1>1. \A m, h, p \in Int :
        (m - 1) + (h - 1) * m + (p - 1) * (m * h) = m * h * p - 1
  OBVIOUS
<1> QED
  BY <1>1, Lengths DEF SecondsOfDay, SecondsPerDay

-----------------------------------------------------------------------------
(* What a date is made of. *)
LEMMA Fields ==
  ASSUME TypeOK
  PROVE  /\ t \in Date
         /\ t.year \in Years /\ t.year \in Nat /\ t.year >= 2000
         /\ t.month \in 1 .. 12
         /\ t.day \in 1 .. 31 /\ t.day <= DaysIn(t.year, t.month)
         /\ t.hour \in 0 .. HoursPerDay - 1
         /\ t.min \in 0 .. MinutesPerHour - 1
         /\ t.sec \in 0 .. SecondsPerMinute - 1
  BY YearsFrom2000 DEF TypeOK, Date

(* Midnight is a time of the day. *)
LEMMA Zeros ==
  /\ 0 \in 0 .. HoursPerDay - 1
  /\ 0 \in 0 .. MinutesPerHour - 1
  /\ 0 \in 0 .. SecondsPerMinute - 1
  BY CalendarAssumption

(* Every step of the date leads to a date. *)
LEMMA DateStep ==
  ASSUME TypeOK, [Next]_t
  PROVE  TypeOK'
<1>1. CASE UNCHANGED t
  BY <1>1 DEF TypeOK
<1>2. CASE NextSecond
  <2>1. /\ t.sec < SecondsPerMinute - 1 => t.sec + 1 \in 0 .. SecondsPerMinute - 1
        /\ t.min < MinutesPerHour - 1 => t.min + 1 \in 0 .. MinutesPerHour - 1
        /\ t.hour < HoursPerDay - 1 => t.hour + 1 \in 0 .. HoursPerDay - 1
    BY Fields, CalendarAssumption
  <2> QED
    BY <1>2, <2>1, Fields, Zeros DEF NextSecond, Clock, TypeOK, Date
<1>3. CASE NextDay
  <2>1. t.day + 1 \in 1 .. 31 /\ t.day + 1 <= DaysIn(t.year, t.month)
    BY <1>3, Fields DEF NextDay, DaysIn
  <2> QED
    BY <1>3, <2>1, Fields, Zeros DEF NextDay, Midnight, TypeOK, Date
<1>4. CASE NextMonth
  <2>1. 1 <= DaysIn(t.year, t.month + 1)
    BY DEF DaysIn
  <2> QED
    BY <1>4, <2>1, Fields, Zeros DEF NextMonth, Midnight, TypeOK, Date
<1>5. CASE NextYear
  <2>1. 1 <= DaysIn(t.year + 1, 1)
    BY DEF DaysIn
  <2> QED
    BY <1>5, <2>1, Fields, Zeros DEF NextYear, Midnight, TypeOK, Date
<1> QED
  BY <1>1, <1>2, <1>3, <1>4, <1>5 DEF Next

(***************************************************************************)
(* The date is one of the calendar, in a year from 2000 on.                *)
(***************************************************************************)
THEOREM TypeCorrect == Spec => []TypeOK
<1>1. Init => TypeOK
  BY CalendarAssumption DEF Init, TypeOK
<1> QED
  BY <1>1, DateStep, PTL DEF Spec

(* Within a day the seconds grow by one. *)
LEMMA SecondsGrow ==
  ASSUME TypeOK, TypeOK', NextSecond
  PROVE  to_epoch(t') = to_epoch(t) + 1
<1>1. /\ t \in Date /\ t.year >= 2000
      /\ t' \in Date /\ t'.year >= 2000
      /\ t'.year = t.year /\ t'.month = t.month /\ t'.day = t.day
  BY Fields, YearsFrom2000 DEF TypeOK, NextSecond, Clock
<1>2. DaysBefore(t') = DaysBefore(t)
  BY <1>1 DEF DaysBefore
<1>3. /\ t.hour \in Nat /\ t.min \in Nat /\ t.sec \in Nat
      /\ SecondsPerMinute \in Int /\ MinutesPerHour \in Int
  BY Fields, CalendarAssumption
<1>4. SecondsOfDay(t') = SecondsOfDay(t) + 1
  <2>1. CASE t.sec < SecondsPerMinute - 1 /\ t' = Clock(t.hour, t.min, t.sec + 1)
    <3>1. t'.hour = t.hour /\ t'.min = t.min /\ t'.sec = t.sec + 1
      BY <2>1 DEF Clock
    <3>2. \A a, b, c \in Int : (a + 1) + b + c = (a + b + c) + 1
      OBVIOUS
    <3>3. \A i, j \in Int : i * j \in Int
      OBVIOUS
    <3>4. /\ t.min * SecondsPerMinute \in Int
          /\ t.hour * (SecondsPerMinute * MinutesPerHour) \in Int
      BY <1>3, <3>3
    <3> QED
      BY <1>3, <3>1, <3>2, <3>4 DEF SecondsOfDay
  <2>2. CASE /\ t.sec = SecondsPerMinute - 1
             /\ t' = Clock(t.hour, t.min + 1, 0)
    <3>1. t'.hour = t.hour /\ t'.min = t.min + 1 /\ t'.sec = 0
      BY <2>2 DEF Clock
    <3>2. \A m, i, c \in Int : 0 + (i + 1) * m + c = (m - 1) + i * m + c + 1
      OBVIOUS
    <3>3. \A i, j \in Int : i * j \in Int
      OBVIOUS
    <3>4. t.hour * (SecondsPerMinute * MinutesPerHour) \in Int
      BY <1>3, <3>3
    <3>5. 0 + (t.min + 1) * SecondsPerMinute
              + t.hour * (SecondsPerMinute * MinutesPerHour)
            = t.sec + t.min * SecondsPerMinute
                + t.hour * (SecondsPerMinute * MinutesPerHour) + 1
      BY <1>3, <2>2, <3>2, <3>4
    <3> QED
      BY <3>1, <3>5 DEF SecondsOfDay
  <2>3. CASE /\ t.sec = SecondsPerMinute - 1 /\ t.min = MinutesPerHour - 1
             /\ t' = Clock(t.hour + 1, 0, 0)
    <3>1. t'.hour = t.hour + 1 /\ t'.min = 0 /\ t'.sec = 0
      BY <2>3 DEF Clock
    <3>2. \A m, h, i \in Int :
            0 + 0 * m + (i + 1) * (m * h) = (m - 1) + (h - 1) * m + i * (m * h) + 1
      OBVIOUS
    <3>3. \A m, h, i \in Int : t.sec = m - 1 /\ t.min = h - 1 =>
            0 + 0 * m + (i + 1) * (m * h) = t.sec + t.min * m + i * (m * h) + 1
      BY <3>2
    <3> QED
      BY <1>3, <2>3, <3>1, <3>3 DEF SecondsOfDay
  <2> QED
    BY <2>1, <2>2, <2>3 DEF NextSecond
<1>5. \A i, j \in Int : i * j \in Int
  OBVIOUS
<1>6. DaysBefore(t) * SecondsPerDay \in Int
  BY <1>1, <1>5, DaysAreNumbers, Lengths
<1> QED
  BY <1>1, <1>2, <1>4, <1>6, EpochInDays, DaysAreNumbers

(* A new day, month or year starts one day later, at its first second. *)
LEMMA MidnightGrows ==
  ASSUME TypeOK, t' \in Date, t'.year >= 2000, LastSecond,
         t'.hour = 0, t'.min = 0, t'.sec = 0,
         DaysBefore(t') = DaysBefore(t) + 1
  PROVE  to_epoch(t') = to_epoch(t) + 1
<1>1. t \in Date /\ t.year >= 2000
  BY YearsFrom2000 DEF TypeOK
<1>2. SecondsOfDay(t') = 0
  <2>1. \A i, j \in Int : 0 + 0 * i + 0 * (i * j) = 0
    OBVIOUS
  <2> QED
    BY <2>1, Lengths DEF SecondsOfDay
<1>3. SecondsOfDay(t) = SecondsPerDay - 1
  BY <1>1, LastSecondOfDay DEF LastSecond
<1>4. DaysBefore(t) \in Int /\ SecondsPerDay \in Int
  BY <1>1, DaysAreNumbers, Lengths
<1>5. \A i, j \in Int : (i + 1) * j = i * j + j
  OBVIOUS
<1>6. \A i, j \in Int : i * j \in Int
  OBVIOUS
<1>7. /\ to_epoch(t') = SecondsOfDay(t') + DaysBefore(t') * SecondsPerDay
      /\ to_epoch(t) = SecondsOfDay(t) + DaysBefore(t) * SecondsPerDay
  BY <1>1, EpochInDays
<1>8. (DaysBefore(t) + 1) * SecondsPerDay
        = DaysBefore(t) * SecondsPerDay + SecondsPerDay
  BY <1>4, <1>5
<1>9. DaysBefore(t) * SecondsPerDay \in Int
  BY <1>4, <1>6
<1> QED
  BY <1>2, <1>3, <1>4, <1>7, <1>8, <1>9

(* The step of to_epoch for each of the ends: second, day, month, year. *)
LEMMA EpochStep ==
  ASSUME TypeOK, TypeOK', Next
  PROVE  to_epoch(t') = to_epoch(t) + 1
<1>1. /\ t \in Date /\ t.year \in Nat /\ t.year >= 2000
      /\ t' \in Date /\ t'.year \in Nat /\ t'.year >= 2000
  BY Fields, YearsFrom2000 DEF TypeOK
<1>2. CASE NextSecond
  BY <1>2, SecondsGrow
<1>3. CASE NextDay
  <2>1. /\ LastSecond /\ t'.hour = 0 /\ t'.min = 0 /\ t'.sec = 0
        /\ t'.year = t.year /\ t'.month = t.month /\ t'.day = t.day + 1
    BY <1>1, <1>3 DEF NextDay, Midnight
  <2>2. DaysBefore(t') = DaysBefore(t) + 1
    <3>1. timeutils_year_day(t.year, t.month, t.day + 1)
            = timeutils_year_day(t.year, t.month, t.day) + 1
      <4>1. t.month \in 1 .. 12 /\ t.day \in Nat
        BY <1>1 DEF Date
      <4>2. days_since_jan1[t.month] \in Nat
        BY <4>1 DEF days_since_jan1
      <4> QED
        BY <4>1, <4>2 DEF timeutils_year_day
    <3> QED
      BY <1>1, <2>1, <3>1, DaysAreNumbers DEF DaysBefore
  <2> QED
    BY <1>1, <2>1, <2>2, MidnightGrows
<1>4. CASE NextMonth
  <2>1. /\ LastSecond /\ t'.hour = 0 /\ t'.min = 0 /\ t'.sec = 0
        /\ t'.year = t.year /\ t'.month = t.month + 1 /\ t'.day = 1
        /\ t.day = DaysIn(t.year, t.month) /\ t.month < 12
    BY <1>1, <1>4 DEF NextMonth, Midnight
  <2>2. DaysBefore(t') = DaysBefore(t) + 1
    <3>1. timeutils_year_day(t.year, t.month + 1, 1)
            = timeutils_year_day(t.year, t.month, t.day) + 1
      <4>1. t.month \in 1 .. 12
        BY <1>1 DEF Date
      <4> QED
        BY <1>1, <2>1, <4>1, MonthsAreCounted
    <3> QED
      BY <1>1, <2>1, <3>1, DaysAreNumbers DEF DaysBefore
  <2> QED
    BY <1>1, <2>1, <2>2, MidnightGrows
<1>5. CASE NextYear
  <2>1. /\ LastSecond /\ t'.hour = 0 /\ t'.min = 0 /\ t'.sec = 0
        /\ t'.year = t.year + 1 /\ t'.month = 1 /\ t'.day = 1
        /\ t.day = 31 /\ t.month = 12
    BY <1>1, <1>5 DEF NextYear, Midnight, Date, DaysIn
  <2>2. DaysBefore(t') = DaysBefore(t) + 1
    <3>1. timeutils_year_day(t.year, 12, 31)
            = 365 + (IF timeutils_is_leap_year(t.year) THEN 1 ELSE 0)
      BY DEF timeutils_year_day, days_since_jan1
    <3>2. timeutils_year_day(t.year + 1, 1, 1) = 1
      BY DEF timeutils_year_day, days_since_jan1
    <3>3. LeapDays(t.year + 1)
            = LeapDays(t.year) + (IF timeutils_is_leap_year(t.year) THEN 1 ELSE 0)
      BY <1>1, LeapDaysGrow
    <3>4. LeapDays(t.year) \in Int
      BY <1>1, DaysAreNumbers
    <3> QED
      BY <1>1, <2>1, <3>1, <3>2, <3>3, <3>4 DEF DaysBefore
  <2> QED
    BY <1>1, <2>1, <2>2, MidnightGrows
<1> QED
  BY <1>2, <1>3, <1>4, <1>5 DEF Next

(***************************************************************************)
(* Between any two seconds of any years from 2000 on, over leap days and   *)
(* the ends of months and years, the time of to_epoch grows by exactly one *)
(* (dateutils.cpp:20-46).                                                  *)
(***************************************************************************)
THEOREM EpochCountsSeconds == Spec => CountsSeconds
<1>1. TypeOK /\ TypeOK' /\ [Next]_t => [to_epoch(t') = to_epoch(t) + 1]_t
  BY EpochStep
<1> QED
  BY <1>1, TypeCorrect, PTL DEF Spec, CountsSeconds

(* No date from 2000 on is before it. *)
LEMMA EpochIsNatural ==
  ASSUME TypeOK
  PROVE  to_epoch(t) \in Nat
<1>1. t \in Date /\ t.year \in Nat /\ t.year >= 2000
  BY Fields
<1>2. LeapDays(t.year) >= 0
  <2>1. \A a \in Nat : (a + 3) \div 4 >= (a + 99) \div 100 /\ (a + 399) \div 400 >= 0
    OBVIOUS
  <2>2. t.year - 2000 \in Nat
    BY <1>1
  <2> QED
    BY <2>1, <2>2 DEF LeapDays
<1>3. timeutils_year_day(t.year, t.month, t.day) >= 1
  <2>1. days_since_jan1[t.month] \in Nat /\ t.day \in 1 .. 31
    BY Fields DEF days_since_jan1
  <2> QED
    BY <2>1 DEF timeutils_year_day
<1>4. DaysBefore(t) \in Nat /\ SecondsOfDay(t) \in Nat
  BY <1>1, <1>2, <1>3, DaysAreNumbers DEF DaysBefore
<1>5. \A i, j, k \in Nat : i + j * k \in Nat
  OBVIOUS
<1> QED
  BY <1>1, <1>4, <1>5, EpochInDays, Lengths

(* A difference of unsigned numbers gives back what the width has cut.      *)
LEMMA AnswerOfEpoch == TypeOK => AnswerGivesTime
<1>1. \A e, r, o \in Nat :
        e < r /\ o < r => (((e + o) % r) - o) % r = e
  <2> SUFFICES ASSUME NEW e \in Nat, NEW r \in Nat, NEW o \in Nat, e < r, o < r
               PROVE  (((e + o) % r) - o) % r = e
    OBVIOUS
  <2>1. CASE e + o < r
    <3>1. (e + o) % r = e + o
      BY <2>1
    <3>2. e % r = e
      OBVIOUS
    <3> QED
      BY <3>1, <3>2
  <2>2. CASE e + o >= r
    <3>1. (e + o) % r = e + o - r
      BY <2>2
    <3>2. (e - r) % r = e
      OBVIOUS
    <3> QED
      BY <3>1, <3>2
  <2> QED
    BY <2>1, <2>2
<1> SUFFICES ASSUME TypeOK, to_epoch(t) < NtpRange
             PROVE  (((to_epoch(t) + NtpOffset) % NtpRange) - NtpOffset) % NtpRange
                      = to_epoch(t)
  BY DEF AnswerGivesTime, seconds_since_1970
<1>2. /\ to_epoch(t) \in Nat /\ NtpRange \in Nat /\ NtpOffset \in Nat
      /\ NtpOffset < NtpRange
  BY EpochIsNatural, CalendarAssumption
<1> QED
  BY <1>1, <1>2

(***************************************************************************)
(* What the conversion of an answer of NTP gives is the time, wherever its *)
(* counter starts and however wide it is (ntp.cpp:69-74).                  *)
(***************************************************************************)
THEOREM NtpAnswerGivesTime == Spec => []AnswerGivesTime
BY AnswerOfEpoch, TypeCorrect, PTL

-----------------------------------------------------------------------------
(* The age of the token in use is kept by each of the three steps. *)
LEMMA LifeStep ==
  ASSUME LifeInv, [LifeNext]_lifeVars
  PROVE  LifeInv'
<1>1. CASE Read
  <2>1. auth_token = NoToken
    BY <1>1 DEF LifeInv, AgeIsDifference, Read, ReaderNext, read_first_line, read_field,
                parse_response
  <2> QED
    BY <1>1, <2>1 DEF LifeInv, TypeOK, AgeIsDifference, Read, token
<1>2. CASE Renew
  <2>1. to_epoch(t) \in Int /\ to_epoch(t) - to_epoch(t) = 0
    BY EpochIsNatural DEF LifeInv
  <2>2. to_epoch(t)' = to_epoch(t) /\ TypeOK'
    BY <1>2 DEF Renew, LifeInv, TypeOK
  <2> QED
    BY <1>2, <2>1, <2>2 DEF LifeInv, AgeIsDifference, Renew, readerVars
<1>3. CASE Second
  <2>1. TypeOK'
    BY <1>3, DateStep DEF LifeInv, Second
  <2>2. to_epoch(t') = to_epoch(t) + 1 /\ to_epoch(t) \in Int
    BY <1>3, <2>1, EpochStep, EpochIsNatural DEF LifeInv, Second
  <2>3. to_epoch(t)' = to_epoch(t')
    OBVIOUS
  <2> QED
    BY <1>3, <2>1, <2>2, <2>3 DEF LifeInv, AgeIsDifference, Second, readerVars, token
<1>4. CASE UNCHANGED lifeVars
  BY <1>4 DEF lifeVars, readerVars, token, LifeInv, TypeOK, AgeIsDifference
<1> QED
  BY <1>1, <1>2, <1>3, <1>4 DEF LifeNext

LEMMA LifeInvariant == LifeSpec => []LifeInv
<1>1. LifeInit => LifeInv
  <2> SUFFICES ASSUME LifeInit PROVE LifeInv
    OBVIOUS
  <2>1. t \in FirstDates
    BY LifeAssumption DEF LifeInit, Init
  <2> QED
    BY <2>1, CalendarAssumption DEF LifeInit, LifeInv, TypeOK, AgeIsDifference
<1> QED
  BY <1>1, LifeStep, PTL DEF LifeSpec

(* The steps of the clock and of the handler leave the reader alone. *)
LEMMA LifeReads ==
  LifeInit /\ [][LifeNext]_lifeVars => ReaderInit /\ [][ReaderNext]_readerVars
<1>1. LifeInit => ReaderInit
  BY DEF LifeInit
<1>2. [LifeNext]_lifeVars => [ReaderNext]_readerVars
  BY DEF LifeNext, Read, Renew, Second, lifeVars
<1> QED
  BY <1>1, <1>2, PTL

(***************************************************************************)
(* A token is renewed on the second its lifetime is over, whatever the     *)
(* dates, the lifetime and the answer that grants it (main.cpp:150,        *)
(* 163-169; oauth2.cpp:14-27, 95-109; dateutils.cpp:20-51).                *)
(***************************************************************************)
THEOREM TokenIsRenewedOnTime == LifeSpec => []RenewalOnTime
<1>1. LifeInv /\ PartNeverMisread => RenewalOnTime
  BY DEF LifeInv, AgeIsDifference, PartNeverMisread, RenewalOnTime, RenewalDue
<1> QED
  BY <1>1, LifeInvariant, LifeReads, AnswerInvInitial, AnswerInvStep, AnswerInvGives,
     PTL DEF LifeSpec

(***************************************************************************)
(* Under the clock, too, an answer is read in full or not at all           *)
(* (oauth2.cpp:14-27, 95-109; http.cpp:54-75).                             *)
(***************************************************************************)
THEOREM LifeReadsAnswers == LifeSpec => []PartNeverMisread /\ []WholeIsRead
BY LifeReads, AnswerInvInitial, AnswerInvStep, AnswerInvGives, PTL DEF LifeSpec

(***************************************************************************)
(* Under the clock, too, a request is read as it was written               *)
(* (http.cpp:14-28, 54-75).                                                *)
(***************************************************************************)
THEOREM LifeReadsRequests == LifeSpec => []WrittenIsRead
BY LifeReads, RequestInvInitial, RequestInvStep, RequestInvGives, PTL DEF LifeSpec

(***************************************************************************)
(* The clock of a program with a token goes the same way: second by second *)
(* in the calendar, and an NTP answer would give its time at any of them   *)
(* (dateutils.cpp:20-46, ntp.cpp:69-74).                                   *)
(***************************************************************************)
THEOREM LifeCountsSeconds == LifeSpec => CountsSeconds /\ []AnswerGivesTime
<1>1. LifeInv /\ LifeInv' /\ [LifeNext]_lifeVars => [to_epoch(t') = to_epoch(t) + 1]_t
  <2> SUFFICES ASSUME LifeInv, LifeInv', [LifeNext]_lifeVars, t' # t
               PROVE  to_epoch(t') = to_epoch(t) + 1
    OBVIOUS
  <2>1. Next
    BY DEF lifeVars, LifeNext, Read, Renew, Second
  <2> QED
    BY <2>1, EpochStep DEF LifeInv
<1>2. LifeInv => AnswerGivesTime
  BY AnswerOfEpoch DEF LifeInv
<1> QED
  BY <1>1, <1>2, LifeInvariant, PTL DEF LifeSpec, CountsSeconds
=============================================================================
