------------------------ MODULE LicenceDataFileProofs ------------------------
(***************************************************************************)
(* Theorems about LicenceDataFile for any set of requests and any number   *)
(* of them in a file.                                                      *)
(***************************************************************************)
EXTENDS LicenceDataFile, FiniteSetTheorems, SequenceTheorems, TLAPS

(* A function on 1..n is a sequence of length n. *)
LEMMA LenOfFunction ==
  ASSUME NEW n \in Nat, NEW f, f = [i \in 1..n |-> f[i]]
  PROVE  Len(f) = n /\ DOMAIN f = 1..n /\ f \in Seq({f[i] : i \in 1..n})
  <1> DEFINE T == {f[i] : i \in 1..n}
  <1>1. f \in [1..n -> T]
    OBVIOUS
  <1>2. f \in Seq(T)
    BY <1>1, SeqDef
  <1>3. Len(f) \in Nat /\ DOMAIN f = 1..Len(f)
    BY <1>2, LenProperties
  <1>4. DOMAIN f = 1..n
    BY <1>1
  <1>5. Len(f) = n
    <2>1. n \in 1..n \/ n = 0
      OBVIOUS
    <2>2. Len(f) \in 1..Len(f) \/ Len(f) = 0
      BY <1>3
    <2> QED
      BY <1>3, <1>4, <2>1, <2>2
  <1> QED
    BY <1>2, <1>4, <1>5

(* Everything that LinesFor can write for a request. *)
Contents(ref, d) ==
    {LicenceLine(ref, d), EndLine}
        \cup (IF Imports(d)
              THEN {TraderLine(d)}
                   \cup (IF {d.group, d.code} # {"none"} THEN {CountryLine(d)} ELSE {})
                   \cup (IF d.restrictions \notin {"none", "empty"} THEN {RestrictionsLine(d)}
                         ELSE {})
                   \cup {GoodsLine(d, i) : i \in DOMAIN d.goods}
              ELSE {})

(* get_goods: whatever branch, one line for each good, in order. *)
LEMMA GoodsInOrder ==
  ASSUME NEW d \in Request
  PROVE  /\ GetGoods(d) \in Seq({GoodsLine(d, i) : i \in DOMAIN d.goods})
         /\ Len(GetGoods(d)) = Len(d.goods)
         /\ \A i \in 1..Len(d.goods) : GetGoods(d)[i] = GoodsLine(d, i)
  <1> DEFINE n == Len(d.goods)
             G == GoodsLines(d)
             S == {GoodsLine(d, i) : i \in DOMAIN d.goods}
  <1>1. d.goods \in Seq(Good)
    BY DEF Request
  <1>2. n \in Nat /\ DOMAIN d.goods = 1..n
    BY <1>1, LenProperties
  <1>3. /\ G = [i \in 1..n |-> G[i]]
        /\ \A i \in 1..n : G[i] = GoodsLine(d, i)
    BY <1>2 DEF GoodsLines
  <1>4. Len(G) = n /\ G \in Seq({G[i] : i \in 1..n})
    BY <1>2, <1>3, LenOfFunction
  <1>5. {G[i] : i \in 1..n} = S
    BY <1>2, <1>3
  <1>6. GetGoods(d) = G
    <2>1. CASE d.type = "SAN"
      <3>1. Sanctions(d) = G
        BY <2>1 DEF Sanctions
      <3>2. SubSeq(G, n + 1, n) = << >>
        BY <1>2, SubSeqEmpty
      <3>3. G \o << >> = G
        BY <1>4, ConcatEmptySeq
      <3> QED
        BY <1>4, <3>1, <3>2, <3>3 DEF GetGoods
    <2>2. CASE d.type # "SAN"
      <3>1. Sanctions(d) = << >> /\ Len(<< >>) = 0
        BY <2>2, EmptySeq DEF Sanctions
      <3>2. SubSeq(G, 1, n) = G
        BY <1>4, SubSeqFull
      <3>3. << >> \o G = G
        BY <1>4, ConcatEmptySeq
      <3>4. 0 + 1 = 1
        OBVIOUS
      <3> QED
        BY <3>1, <3>2, <3>3, <3>4 DEF GetGoods
    <2> QED
      BY <2>1, <2>2
  <1> QED
    BY <1>3, <1>4, <1>5, <1>6

LEMMA Singleton ==
  ASSUME NEW S, NEW x \in S
  PROVE  <<x>> \in Seq(S) /\ Len(<<x>>) = 1 /\ <<x>>[1] = x
  OBVIOUS

LEMMA ConcatParts ==
  ASSUME NEW S, NEW s \in Seq(S), NEW t \in Seq(S)
  PROVE  /\ s \o t \in Seq(S) /\ Len(s \o t) = Len(s) + Len(t)
         /\ \A i \in 1..Len(s) : (s \o t)[i] = s[i]
         /\ \A i \in 1..Len(t) : (s \o t)[Len(s) + i] = t[i]
  <1>1. /\ s \o t \in Seq(S) /\ Len(s \o t) = Len(s) + Len(t)
        /\ \A i \in 1..Len(s) + Len(t) :
              (s \o t)[i] = IF i <= Len(s) THEN s[i] ELSE t[i - Len(s)]
    BY ConcatProperties
  <1>2. Len(s) \in Nat /\ Len(t) \in Nat
    BY LenProperties
  <1>3. ASSUME NEW i \in 1..Len(t) PROVE (s \o t)[Len(s) + i] = t[i]
    <2>1. Len(s) + i \in 1..Len(s) + Len(t) /\ ~ (Len(s) + i <= Len(s)) /\ Len(s) + i - Len(s) = i
      BY <1>2
    <2> QED
      BY <1>1, <2>1
  <1>4. ASSUME NEW i \in 1..Len(s) PROVE (s \o t)[i] = s[i]
    <2>1. i \in 1..Len(s) + Len(t) /\ i <= Len(s)
      BY <1>2
    <2> QED
      BY <1>1, <2>1
  <1> QED
    BY <1>1, <1>3, <1>4

LEMMA HeadShape ==
  ASSUME NEW S, NEW first \in S, NEW C \in Seq(S), NEW R \in Seq(S),
         Len(C) \in {0, 1}, Len(R) \in {0, 1},
         NEW H, H = <<first>> \o C \o R
  PROVE  /\ H \in Seq(S)
         /\ H[1] = first
         /\ Len(H) = 1 + Len(C) + Len(R)
         /\ Len(C) = 1 => H[2] = C[1]
         /\ Len(R) = 1 => H[2 + Len(C)] = R[1]
         /\ \A j \in 1..Len(H) : \/ H[j] = first
                                 \/ Len(C) = 1 /\ H[j] = C[1]
                                 \/ Len(R) = 1 /\ H[j] = R[1]
  <1> DEFINE T == <<first>>
             TC == T \o C
  <1>1. T \in Seq(S) /\ Len(T) = 1 /\ T[1] = first
    OBVIOUS
  <1> HIDE DEF T
  <1>2. /\ TC \in Seq(S) /\ Len(TC) = 1 + Len(C)
        /\ TC[1] = first
        /\ \A i \in 1..Len(C) : TC[1 + i] = C[i]
    BY <1>1, ConcatParts
  <1>3. H = TC \o R
    BY DEF T
  <1> HIDE DEF TC
  <1>4. /\ H \in Seq(S) /\ Len(H) = Len(TC) + Len(R)
        /\ \A i \in 1..Len(TC) : H[i] = TC[i]
        /\ \A i \in 1..Len(R) : H[Len(TC) + i] = R[i]
    BY <1>2, <1>3, ConcatParts
  <1>5. Len(C) = 1 => TC[1 + 1] = C[1]
    BY <1>2
  <1>6. H[1] = first /\ (Len(C) = 1 => H[2] = C[1])
    BY <1>2, <1>4, <1>5
  <1>7. ASSUME Len(R) = 1 PROVE H[2 + Len(C)] = R[1]
    <2>1. H[Len(TC) + 1] = R[1]
      BY <1>4, <1>7
    <2>2. Len(TC) + 1 = 2 + Len(C)
      BY <1>2
    <2> QED
      BY <2>1, <2>2
  <1>8. Len(H) = 1 + Len(C) + Len(R)
    BY <1>2, <1>4
  <1>9. ASSUME NEW j \in 1..Len(H)
        PROVE  \/ H[j] = first
               \/ Len(C) = 1 /\ H[j] = C[1]
               \/ Len(R) = 1 /\ H[j] = R[1]
    <2>1. CASE Len(C) = 0 /\ Len(R) = 0
      <3>1. j = 1
        BY <1>8, <2>1
      <3> QED
        BY <1>6, <3>1
    <2>2. CASE Len(C) = 1 /\ Len(R) = 0
      <3>1. j = 1 \/ j = 2
        BY <1>8, <2>2
      <3> QED
        BY <1>6, <2>2, <3>1
    <2>3. CASE Len(C) = 0 /\ Len(R) = 1
      <3>1. j = 1 \/ j = 2 + Len(C)
        BY <1>8, <2>3
      <3> QED
        BY <1>6, <1>7, <2>3, <3>1
    <2>4. CASE Len(C) = 1 /\ Len(R) = 1
      <3>1. j = 1 \/ j = 2 \/ j = 2 + Len(C)
        BY <1>8, <2>4
      <3> QED
        BY <1>6, <1>7, <2>4, <3>1
    <2> QED
      BY <2>1, <2>2, <2>3, <2>4
  <1> QED
    BY <1>4, <1>6, <1>7, <1>8, <1>9

(* The records between the licence record and the end record. *)
Middle(d) ==
    IF Imports(d)
    THEN <<TraderLine(d)>>
         \o If({d.group, d.code} # {"none"}, CountryLine(d))
         \o If(d.restrictions \notin {"none", "empty"}, RestrictionsLine(d))
         \o GetGoods(d)
    ELSE <<>>

GoodsOf(d) == IF Imports(d) THEN Len(d.goods) ELSE 0

(* How many records there are before the goods. *)
Before(d) == Len(Middle(d)) - GoodsOf(d)

LEMMA MiddleShape ==
  ASSUME NEW ref, NEW d \in Request
  PROVE  /\ Middle(d) \in Seq(Contents(ref, d))
         /\ Len(Middle(d)) \in Nat /\ GoodsOf(d) \in Nat /\ Before(d) \in Nat
         /\ ~ Imports(d) => Len(Middle(d)) = 0 /\ GoodsOf(d) = 0
         /\ \A j \in 1..Before(d) : Middle(d)[j].type_ \in {"trader", "country", "restrictions"}
         /\ \A i \in 1..GoodsOf(d) : Middle(d)[Before(d) + i] = GoodsLine(d, i)
         /\ \A r \in Contents(ref, d) \ {LicenceLine(ref, d), EndLine} :
               \E j \in 1..Len(Middle(d)) : Middle(d)[j] = r
  <1> DEFINE S == Contents(ref, d)
  <1>1. CASE ~ Imports(d)
    <2>1. Middle(d) = << >> /\ GoodsOf(d) = 0 /\ Len(<< >>) = 0
      BY <1>1, EmptySeq DEF Middle, GoodsOf
    <2>2. S = {LicenceLine(ref, d), EndLine}
      BY <1>1 DEF Contents
    <2>3. Before(d) = 0
      BY <2>1 DEF Before
    <2>4. Middle(d) \in Seq(S)
      BY <2>1, EmptySeq
    <2> QED
      BY <2>1, <2>2, <2>3, <2>4
  <1>2. CASE Imports(d)
    <2> DEFINE hasC == {d.group, d.code} # {"none"}
               hasR == d.restrictions \notin {"none", "empty"}
               C == If(hasC, CountryLine(d))
               R == If(hasR, RestrictionsLine(d))
               H == <<TraderLine(d)>> \o C \o R
               G == GetGoods(d)
    <2>1. C \in Seq(S) /\ Len(C) \in {0, 1} /\ (hasC <=> Len(C) = 1)
          /\ (hasC => C[1] = CountryLine(d))
      <3>1. CASE hasC
        <4>1. CountryLine(d) \in S
          BY <1>2, <3>1 DEF Contents
        <4>2. C = <<CountryLine(d)>>
          BY <3>1 DEF If
        <4> HIDE DEF C, hasC, S
        <4>3. C \in Seq(S) /\ Len(C) = 1 /\ C[1] = CountryLine(d)
          BY <4>1, <4>2, Singleton
        <4> QED
          BY <3>1, <4>3
      <3>2. CASE ~ hasC
        <4>1. C = << >>
          BY <3>2 DEF If
        <4> HIDE DEF C, hasC, S
        <4> QED
          BY <3>2, <4>1, EmptySeq
      <3> QED
        BY <3>1, <3>2
    <2>2. R \in Seq(S) /\ Len(R) \in {0, 1} /\ (hasR <=> Len(R) = 1)
          /\ (hasR => R[1] = RestrictionsLine(d))
      <3>1. CASE hasR
        <4>1. RestrictionsLine(d) \in S
          BY <1>2, <3>1 DEF Contents
        <4>2. R = <<RestrictionsLine(d)>>
          BY <3>1 DEF If
        <4> HIDE DEF R, hasR, S
        <4>3. R \in Seq(S) /\ Len(R) = 1 /\ R[1] = RestrictionsLine(d)
          BY <4>1, <4>2, Singleton
        <4> QED
          BY <3>1, <4>3
      <3>2. CASE ~ hasR
        <4>1. R = << >>
          BY <3>2 DEF If
        <4> HIDE DEF R, hasR, S
        <4> QED
          BY <3>2, <4>1, EmptySeq
      <3> QED
        BY <3>1, <3>2
    <2>3. G \in Seq(S) /\ Len(G) = Len(d.goods) /\ \A i \in 1..Len(d.goods) : G[i] = GoodsLine(d, i)
      <3>1. {GoodsLine(d, i) : i \in DOMAIN d.goods} \subseteq S
        BY <1>2 DEF Contents
      <3>2. GetGoods(d) \in Seq(S)
        BY <3>1, GoodsInOrder, SeqMonotonic
      <3> QED
        BY <3>2, GoodsInOrder
    <2>4. TraderLine(d) \in S
      BY <1>2 DEF Contents
    <2>5. /\ H \in Seq(S)
          /\ H[1] = TraderLine(d)
          /\ Len(H) = 1 + Len(C) + Len(R)
          /\ Len(C) = 1 => H[2] = C[1]
          /\ Len(R) = 1 => H[2 + Len(C)] = R[1]
          /\ \A j \in 1..Len(H) : \/ H[j] = TraderLine(d)
                                  \/ Len(C) = 1 /\ H[j] = C[1]
                                  \/ Len(R) = 1 /\ H[j] = R[1]
      <3> HIDE DEF C, R
      <3> QED
        BY <2>1, <2>2, <2>4, HeadShape
    <2>6. Middle(d) = H \o G
      BY <1>2 DEF Middle
    <2> HIDE DEF C, R, G, H, S, hasC, hasR
    <2>7. /\ Middle(d) \in Seq(S) /\ Len(Middle(d)) = Len(H) + Len(G)
          /\ \A i \in 1..Len(H) : Middle(d)[i] = H[i]
          /\ \A i \in 1..Len(G) : Middle(d)[Len(H) + i] = G[i]
      <3>1. H \in Seq(S) /\ G \in Seq(S)
        BY <2>3, <2>5
      <3> QED
        BY <2>6, <3>1, ConcatParts
    <2>8. Len(H) \in Nat /\ Len(G) \in Nat
      BY <2>3, <2>5, LenProperties
    <2>9. GoodsOf(d) = Len(G) /\ Before(d) = Len(H) /\ Len(Middle(d)) \in Nat
      BY <1>2, <2>3, <2>7, <2>8 DEF GoodsOf, Before
    <2>10. \A j \in 1..Before(d) : Middle(d)[j].type_ \in {"trader", "country", "restrictions"}
      <3>1. \A r \in {TraderLine(d), CountryLine(d), RestrictionsLine(d)} :
               r.type_ \in {"trader", "country", "restrictions"}
        BY DEF TraderLine, CountryLine, RestrictionsLine
      <3>2. \A j \in 1..Len(H) : H[j] \in {TraderLine(d), CountryLine(d), RestrictionsLine(d)}
        BY <2>1, <2>2, <2>5
      <3>3. \A j \in 1..Len(H) : H[j].type_ \in {"trader", "country", "restrictions"}
        BY <3>1, <3>2
      <3> QED
        BY <2>7, <2>9, <3>3
    <2>11. \A i \in 1..GoodsOf(d) : Middle(d)[Before(d) + i] = GoodsLine(d, i)
      <3> QED
        BY <2>3, <2>7, <2>9
    <2>12. ASSUME NEW r \in S \ {LicenceLine(ref, d), EndLine}
           PROVE  \E j \in 1..Len(Middle(d)) : Middle(d)[j] = r
      <3>1. \/ r = TraderLine(d)
            \/ hasC /\ r = CountryLine(d)
            \/ hasR /\ r = RestrictionsLine(d)
            \/ \E i \in 1..Len(d.goods) : r = GoodsLine(d, i)
        <4>1. DOMAIN d.goods = 1..Len(d.goods)
          BY LenProperties DEF Request
        <4> QED
          BY <1>2, <2>12, <4>1 DEF Contents, S, hasC, hasR
      <3>2. \A j \in 1..Len(H) : j \in 1..Len(Middle(d)) /\ Middle(d)[j] = H[j]
        BY <2>7, <2>8
      <3>3. \A j \in 1..Len(G) : Len(H) + j \in 1..Len(Middle(d)) /\ Middle(d)[Len(H) + j] = G[j]
        BY <2>7, <2>8
      <3>4. CASE r = TraderLine(d)
        <4>1. 1 \in 1..Len(H)
          BY <2>1, <2>2, <2>5
        <4> QED
          BY <2>5, <3>2, <3>4, <4>1
      <3>5. CASE hasC /\ r = CountryLine(d)
        <4>1. 2 \in 1..Len(H) /\ H[2] = CountryLine(d)
          BY <2>1, <2>2, <2>5, <3>5
        <4> QED
          BY <3>2, <3>5, <4>1
      <3>6. CASE hasR /\ r = RestrictionsLine(d)
        <4>1. 2 + Len(C) \in 1..Len(H) /\ H[2 + Len(C)] = RestrictionsLine(d)
          BY <2>1, <2>2, <2>5, <3>6
        <4> QED
          BY <3>2, <3>6, <4>1
      <3>7. CASE \E i \in 1..Len(d.goods) : r = GoodsLine(d, i)
        <4>1. PICK i \in 1..Len(G) : r = G[i]
          BY <2>3, <3>7
        <4> QED
          BY <3>3, <4>1
      <3> QED
        BY <3>1, <3>4, <3>5, <3>6, <3>7
    <2> QED
      BY <1>2, <2>7, <2>8, <2>9, <2>10, <2>11, <2>12 DEF S
  <1> QED
    BY <1>1, <1>2

Size(d) == Len(Middle(d)) + 2

(* generate_lines_for_icms_licence: the licence record, the head, the goods *)
(* in order, the end record.                                               *)
LEMMA LinesShape ==
  ASSUME NEW ref, NEW d \in Request
  PROVE  /\ LinesFor(ref, d) \in Seq(Contents(ref, d))
         /\ Len(LinesFor(ref, d)) = Size(d)
         /\ LinesFor(ref, d)[1] = LicenceLine(ref, d)
         /\ LinesFor(ref, d)[Size(d)] = EndLine
         /\ \A j \in 1..Before(d) :
               LinesFor(ref, d)[1 + j].type_ \in {"trader", "country", "restrictions"}
         /\ \A i \in 1..GoodsOf(d) : LinesFor(ref, d)[1 + Before(d) + i] = GoodsLine(d, i)
         /\ Before(d) \in Nat /\ GoodsOf(d) \in Nat /\ Size(d) = Before(d) + GoodsOf(d) + 2
         /\ ~ Imports(d) => Size(d) = 2
         /\ \A r \in Contents(ref, d) : \E j \in 1..Size(d) : LinesFor(ref, d)[j] = r
  <1> DEFINE S == Contents(ref, d)
             first == <<LicenceLine(ref, d)>>
             M == Middle(d)
             P == first \o M
             last == <<EndLine>>
             L == LinesFor(ref, d)
  <1>1. L = P \o last
    BY DEF LinesFor, Middle
  <1>2. LicenceLine(ref, d) \in S /\ EndLine \in S
    BY DEF Contents
  <1>3. M \in Seq(S) /\ Len(M) \in Nat
    BY MiddleShape
  <1> HIDE DEF S, M, L
  <1>4. first \in Seq(S) /\ Len(first) = 1 /\ first[1] = LicenceLine(ref, d)
    BY <1>2, Singleton
  <1>5. last \in Seq(S) /\ Len(last) = 1 /\ last[1] = EndLine
    BY <1>2, Singleton
  <1> HIDE DEF first, last
  <1>6. /\ P \in Seq(S) /\ Len(P) = 1 + Len(M)
        /\ P[1] = LicenceLine(ref, d)
        /\ \A i \in 1..Len(M) : P[1 + i] = M[i]
    BY <1>3, <1>4, ConcatParts
  <1> HIDE DEF P
  <1>7. /\ L \in Seq(S) /\ Len(L) = Len(P) + 1
        /\ \A i \in 1..Len(P) : L[i] = P[i]
        /\ L[Len(P) + 1] = EndLine
    <2>1. /\ L \in Seq(S) /\ Len(L) = Len(P) + Len(last)
          /\ \A i \in 1..Len(P) : L[i] = P[i]
          /\ \A i \in 1..Len(last) : L[Len(P) + i] = last[i]
      <3>1. P \in Seq(S) /\ last \in Seq(S)
        BY <1>5, <1>6
      <3> QED
        BY <1>1, <3>1, ConcatParts
    <2> QED
      BY <1>5, <2>1
  <1>8. Size(d) = Len(M) + 2 /\ Before(d) = Len(M) - GoodsOf(d)
    BY DEF Size, Before, M
  <1>9. Before(d) \in Nat /\ GoodsOf(d) \in Nat /\ (~ Imports(d) => Len(M) = 0)
    BY MiddleShape DEF M
  <1>10. /\ L \in Seq(S) /\ Len(L) = Size(d) /\ L[1] = LicenceLine(ref, d) /\ L[Size(d)] = EndLine
         /\ \A i \in 1..Len(M) : L[1 + i] = M[i]
    <2>1. Len(P) + 1 = Size(d) /\ 1 \in 1..Len(P)
      BY <1>3, <1>6, <1>8
    <2>2. \A i \in 1..Len(M) : 1 + i \in 1..Len(P)
      BY <1>3, <1>6
    <2> QED
      BY <1>6, <1>7, <2>1, <2>2
  <1>11. \A j \in 1..Before(d) : j \in 1..Len(M)
    BY <1>3, <1>8, <1>9
  <1>12. \A j \in 1..Before(d) : L[1 + j].type_ \in {"trader", "country", "restrictions"}
    <2>1. \A j \in 1..Before(d) : M[j].type_ \in {"trader", "country", "restrictions"}
      BY MiddleShape DEF M
    <2> QED
      BY <1>10, <1>11, <2>1
  <1>13. ASSUME NEW i \in 1..GoodsOf(d) PROVE L[1 + Before(d) + i] = GoodsLine(d, i)
    <2>1. Before(d) + i \in 1..Len(M) /\ 1 + Before(d) + i = 1 + (Before(d) + i)
      BY <1>3, <1>8, <1>9
    <2>2. M[Before(d) + i] = GoodsLine(d, i)
      BY MiddleShape DEF M
    <2> QED
      BY <1>10, <2>1, <2>2
  <1>14. ASSUME NEW r \in S PROVE \E j \in 1..Size(d) : L[j] = r
    <2>1. 1 \in 1..Size(d) /\ Size(d) \in 1..Size(d)
      BY <1>3, <1>8
    <2>2. CASE r \in {LicenceLine(ref, d), EndLine}
      BY <1>10, <2>1, <2>2
    <2>3. CASE r \notin {LicenceLine(ref, d), EndLine}
      <3>1. PICK j \in 1..Len(M) : M[j] = r
        BY <1>14, <2>3, MiddleShape DEF M, S
      <3>2. 1 + j \in 1..Size(d)
        BY <1>3, <1>8
      <3> QED
        BY <1>10, <3>1, <3>2
    <2> QED
      BY <2>2, <2>3
  <1>15. Size(d) = Before(d) + GoodsOf(d) + 2 /\ (~ Imports(d) => Size(d) = 2)
    BY <1>3, <1>8, <1>9
  <1> QED
    BY <1>9, <1>10, <1>12, <1>13, <1>14, <1>15 DEF S, L

-----------------------------------------------------------------------------
(* One record: what the numbers and the transliteration do to it. *)

Numbered(r, i, c) ==
    IF r.type_ = "end" THEN [r EXCEPT !.lineno = i, !.recordCount = c]
    ELSE [r EXCEPT !.lineno = i]

Ascii(r) == [f \in DOMAIN r |-> IF f \in TextField THEN AsciiOf(r[f]) ELSE r[f]]

LEMMA NumberedFields ==
  ASSUME NEW ref, NEW d \in Request, NEW r \in Contents(ref, d), NEW i, NEW c
  PROVE  /\ Numbered(r, i, c).type_ = r.type_
         /\ Numbered(r, i, c).lineno = i
         /\ r.type_ = "end" => Numbered(r, i, c).recordCount = c
         /\ r.type_ = "licence" => /\ Numbered(r, i, c).transactionRef = r.transactionRef
                                   /\ Numbered(r, i, c).action = r.action
         /\ r.type_ = "line" => Numbered(r, i, c).lineNum = r.lineNum
         /\ r.type_ \in RecordType \ {"fileHeader", "fileTrailer"} /\ r.lineno = 0
         /\ r.type_ = "end" => r.startRecordType = "licence"
  <1> USE DEF Numbered, RecordType
  <1>1. CASE r = LicenceLine(ref, d)
    BY <1>1 DEF LicenceLine
  <1>2. CASE r = EndLine
    BY <1>2 DEF EndLine
  <1>3. CASE r = TraderLine(d)
    BY <1>3 DEF TraderLine
  <1>4. CASE r = CountryLine(d)
    BY <1>4 DEF CountryLine
  <1>5. CASE r = RestrictionsLine(d)
    BY <1>5 DEF RestrictionsLine
  <1>6. CASE \E g \in DOMAIN d.goods : r = GoodsLine(d, g)
    BY <1>6 DEF GoodsLine
  <1> QED
    BY <1>1, <1>2, <1>3, <1>4, <1>5, <1>6 DEF Contents

(* The check of a record looks at no number. *)
LEMMA CheckIgnoresNumbers ==
  ASSUME NEW ref, NEW d \in Request, NEW r \in Contents(ref, d), NEW i, NEW c
  PROVE  /\ RecordInvalid(Numbered(r, i, c)) <=> RecordInvalid(r)
         /\ RecordInvalid(Ascii(Numbered(r, i, c))) <=> RecordInvalid(Ascii(r))
  <1> USE DEF Numbered, RecordInvalid, Ascii, TextField
  <1>1. CASE r = LicenceLine(ref, d)
    BY <1>1 DEF LicenceLine, LicenceInvalid
  <1>2. CASE r = EndLine
    BY <1>2 DEF EndLine
  <1>3. CASE r = TraderLine(d)
    BY <1>3 DEF TraderLine, TraderInvalid
  <1>4. CASE r = CountryLine(d)
    BY <1>4 DEF CountryLine, CountryInvalid
  <1>5. CASE r = RestrictionsLine(d)
    BY <1>5 DEF RestrictionsLine
  <1>6. CASE \E g \in DOMAIN d.goods : r = GoodsLine(d, g)
    <2>1. PICK g \in DOMAIN d.goods : r = GoodsLine(d, g)
      BY <1>6
    <2>2. r.type_ = "line" /\ Numbered(r, i, c) = [r EXCEPT !.lineno = i]
      BY <2>1 DEF GoodsLine
    <2>3. RecordInvalid(Numbered(r, i, c)) <=> RecordInvalid(r)
      BY <2>1, <2>2 DEF GoodsLine, ProductLineInvalid
    <2>4. RecordInvalid(Ascii(Numbered(r, i, c))) <=> RecordInvalid(Ascii(r))
      <3>1. PICK x, y : x = Ascii(Numbered(r, i, c)) /\ y = Ascii(r)
        OBVIOUS
      <3>2. x.type_ = "line" /\ y.type_ = "line"
        BY <2>1, <2>2, <3>1 DEF GoodsLine
      <3>3. /\ x.commodity = y.commodity /\ x.description = y.description
            /\ x.controlledBy = y.controlledBy /\ x.quantity = y.quantity
        BY <2>1, <2>2, <3>1 DEF GoodsLine
      <3>4. RecordInvalid(x) <=> RecordInvalid(y)
        BY <3>2, <3>3 DEF ProductLineInvalid
      <3> QED
        BY <3>1, <3>4
    <2> QED
      BY <2>3, <2>4
  <1> QED
    BY <1>1, <1>2, <1>3, <1>4, <1>5, <1>6 DEF Contents

(* What the serializers let in is written to records that pass the check,  *)
(* but for exactly the requests that are Unsendable.                       *)
LEMMA UnsendableFails ==
  ASSUME NEW ref, NEW d \in Request, Accepted(d), ~ Raises(d)
  PROVE  (\E r \in Contents(ref, d) : RecordInvalid(r)) <=> Unsendable(d)
  <1> USE DEF RecordInvalid
  <1>1. ~ RecordInvalid(EndLine)
    BY DEF EndLine
  <1>2. RecordInvalid(LicenceLine(ref, d)) <=> Splits(d.licenceRef) \/ d.licenceDates = "outer"
    BY DEF LicenceLine, LicenceInvalid, Accepted, Request, Splits
  <1>3. CASE ~ Imports(d)
    <2>1. Contents(ref, d) = {LicenceLine(ref, d), EndLine}
      BY <1>3 DEF Contents
    <2> QED
      BY <1>1, <1>2, <1>3, <2>1 DEF Unsendable
  <1>4. CASE Imports(d)
    <2>1. RecordInvalid(TraderLine(d)) <=>
             \/ \E t \in {d.name, d.eori, d.postcode} : Splits(t)
             \/ d.name = "padded" \/ d.postcode = "other" \/ d.dates \in {"reversed", "outer"}
      <3>1. /\ d.name # "long" /\ d.postcode # "long" /\ d.eori \notin {"none", "empty"}
            /\ d.dates \in {"absent", "inOrder", "reversed", "outer"}
        BY <1>4 DEF Accepted, AcceptedEori, AcceptedText, Request
      <3>2. RecordInvalid(TraderLine(d)) <=>
               \/ Splits(d.name) \/ Splits(d.eori) \/ Splits(d.dates) \/ Splits(d.postcode)
               \/ d.eori \in {"none", "empty"}
               \/ d.dates = "reversed"
               \/ d.name \in {"long", "padded"}
               \/ d.postcode \in {"long", "other"}
        BY DEF TraderLine, TraderInvalid
      <3>3. Splits(d.dates) <=> d.dates = "outer"
        BY <3>1 DEF Splits
      <3> HIDE DEF RecordInvalid
      <3> QED
        BY <3>1, <3>2, <3>3
    <2>2. /\ {d.group, d.code} # {"none"}
          /\ RecordInvalid(CountryLine(d)) <=> Splits(CountryText(d))
      <3>1. {d.group, d.code} # {"none"}
        BY <1>4 DEF Accepted, AcceptedCountry
      <3>2. RecordInvalid(CountryLine(d)) <=> CountryInvalid(CountryLine(d))
        BY DEF CountryLine
      <3>3. /\ CountryLine(d).group = d.group /\ CountryLine(d).use = "O"
            /\ CountryLine(d).code = IF d.group = "none" THEN d.code ELSE "none"
        BY DEF CountryLine
      <3>4. CountryInvalid(CountryLine(d)) <=> Splits(CountryText(d))
        BY <3>3 DEF CountryInvalid, CountryText, Splits
      <3> QED
        BY <3>1, <3>2, <3>4
    <2>3. /\ d.restrictions \notin {"none", "empty"} =>
                (RecordInvalid(RestrictionsLine(d)) <=> d.restrictions = "sep")
          /\ d.restrictions \in {"none", "empty"} => d.restrictions # "sep"
          /\ d.restrictions # "number"
      BY <1>4 DEF RestrictionsLine, Splits, Raises
    <2>4. ASSUME NEW i \in DOMAIN d.goods
          PROVE  RecordInvalid(GoodsLine(d, i)) <=> UnsendableGood(d.type, d.goods[i])
      <3> DEFINE g == d.goods[i]
      <3>1. g \in Good /\ d.type \in {"DFL", "OIL", "SIL", "SAN", "NUCLEAR"}
        BY <2>4, LenProperties, ElementOfSeq DEF Request
      <3>2. AcceptedGood(d.type, g)
        BY <1>4, <2>4 DEF Accepted
      <3>3. /\ d.type # "SAN" => g.description # "none"
            /\ d.type \in {"SAN", "NUCLEAR"} => g.commodity # "none"
        BY <1>4, <2>4 DEF Raises, GoodRaises
      <3>4. RecordInvalid(GoodsLine(d, i)) <=> ProductLineInvalid(GoodsLine(d, i))
        BY DEF GoodsLine
      <3> HIDE DEF g
      <3>5. GoodsLine(d, i) =
              [type_ |-> "line", lineno |-> 0, lineNum |-> i,
               commodity |-> IF d.type \in {"SAN", "NUCLEAR"} THEN g.commodity ELSE "none",
               description |-> IF d.type = "SAN" THEN "none" ELSE g.description,
               controlledBy |-> IF d.type \in {"SIL", "SAN", "NUCLEAR"} THEN g.controlledBy
                                ELSE "O",
               quantity |-> IF d.type \in {"SIL", "SAN", "NUCLEAR"} /\ g.controlledBy = "Q"
                            THEN g.quantity ELSE "none"]
        BY DEF GoodsLine, g
      <3>6. ProductLineInvalid(GoodsLine(d, i)) <=> UnsendableGood(d.type, g)
        <4> DEFINE commodity == IF d.type \in {"SAN", "NUCLEAR"} THEN g.commodity ELSE "none"
                   description == IF d.type = "SAN" THEN "none" ELSE g.description
                   control == IF d.type \in {"SIL", "SAN", "NUCLEAR"} THEN g.controlledBy
                              ELSE "O"
        <4>1. ProductLineInvalid(GoodsLine(d, i)) <=>
                 \/ Splits(commodity) \/ Splits(description)
                 \/ Splits(QuantityText(d.type, g))
                 \/ {commodity, description} \subseteq {"none", "empty"}
                 \/ control \notin {"B", "O", "Q", "V"}
          <5> HIDE DEF Splits
          <5> QED
            BY <3>5 DEF ProductLineInvalid, QuantityText
        <4>2. control \in {"B", "O", "Q", "V"}
          BY <3>1, <3>2 DEF AcceptedGood, AcceptedControl, Good
        <4>3. ~ ({commodity, description} \subseteq {"none", "empty"})
          BY <3>1, <3>2 DEF AcceptedGood, AcceptedDescription, AcceptedText
        <4>4. ~ (d.type = "NUCLEAR" /\ g.description = "none")
          BY <3>3
        <4>5. (\E t \in GoodTexts(d.type, g) \cup {QuantityText(d.type, g)} : Splits(t)) <=>
                 \/ Splits(commodity) \/ Splits(description)
                 \/ Splits(QuantityText(d.type, g))
          BY DEF GoodTexts, Splits
        <4> HIDE DEF commodity, description, control
        <4> QED
          BY <4>1, <4>2, <4>3, <4>4, <4>5 DEF UnsendableGood
      <3> QED
        BY <3>4, <3>6 DEF g
    <2>5. (\E r \in Contents(ref, d) : RecordInvalid(r)) <=>
             \/ RecordInvalid(LicenceLine(ref, d))
             \/ RecordInvalid(EndLine)
             \/ RecordInvalid(TraderLine(d))
             \/ {d.group, d.code} # {"none"} /\ RecordInvalid(CountryLine(d))
             \/ d.restrictions \notin {"none", "empty"} /\ RecordInvalid(RestrictionsLine(d))
             \/ \E i \in DOMAIN d.goods : RecordInvalid(GoodsLine(d, i))
      <3> HIDE DEF RecordInvalid
      <3> QED
        BY <1>4 DEF Contents
    <2> QED
      <3> HIDE DEF RecordInvalid
      <3>1. (\E t \in {d.name, d.eori, d.postcode, CountryText(d)} : Splits(t)) <=>
               (\E t \in {d.name, d.eori, d.postcode} : Splits(t)) \/ Splits(CountryText(d))
        OBVIOUS
      <3> QED
        BY <1>1, <1>2, <1>4, <2>1, <2>2, <2>3, <2>4, <2>5, <3>1 DEF Unsendable
  <1> QED
    BY <1>3, <1>4

(* And of the records that pass, the transliteration breaks exactly those  *)
(* of the requests with text that folds or outgrows its field.             *)
LEMMA FoldingBreaks ==
  ASSUME NEW ref, NEW d \in Request, Accepted(d), ~ Raises(d), ~ Unsendable(d)
  PROVE  (\E r \in Contents(ref, d) : RecordInvalid(Ascii(r))) <=> Folds(d)
  <1> USE DEF RecordInvalid, Ascii, TextField, AsciiOf
  <1>1. ~ RecordInvalid(Ascii(EndLine))
    BY DEF EndLine
  <1>2. RecordInvalid(Ascii(LicenceLine(ref, d))) <=> d.licenceRef = "folds"
    <2> DEFINE r == Ascii(LicenceLine(ref, d))
    <2>1. /\ r.type_ = "licence" /\ r.licenceRef = AsciiOf(d.licenceRef)
          /\ r.dates = d.licenceDates /\ r.action = d.action
          /\ r.licenceType = IF d.type \in {"SIL", "DFL", "NUCLEAR"} THEN "SIL" ELSE d.type
      <3> HIDE DEF RecordInvalid, AsciiOf
      <3> QED
        BY DEF LicenceLine
    <2>2. /\ d.action \in {"insert", "cancel", "replace"}
          /\ d.type \in {"DFL", "OIL", "SIL", "SAN", "NUCLEAR"}
      BY DEF Accepted, Request
    <2>3. ~ Splits(d.licenceRef) /\ ~ Splits(d.licenceDates)
      BY DEF Unsendable, Request, Splits
    <2>4. Splits(AsciiOf(d.licenceRef)) <=> d.licenceRef = "folds"
      BY <2>3 DEF Splits
    <2>5. RecordInvalid(r) <=> LicenceInvalid(r)
      <3> HIDE DEF r
      <3> QED
        BY <2>1
    <2> HIDE DEF r, AsciiOf
    <2> QED
      BY <2>1, <2>2, <2>3, <2>4, <2>5 DEF LicenceInvalid, r
  <1>3. CASE ~ Imports(d)
    <2>1. Contents(ref, d) = {LicenceLine(ref, d), EndLine}
      BY <1>3 DEF Contents
    <2> HIDE DEF RecordInvalid, Ascii
    <2> QED
      BY <1>1, <1>2, <1>3, <2>1 DEF Folds
  <1>4. CASE Imports(d)
    <2>1. RecordInvalid(Ascii(TraderLine(d))) <=>
             "folds" \in {d.name, d.eori, d.postcode} \/ d.name = "grows"
      <3>1. /\ d.name \notin {"long", "padded"} /\ d.postcode \notin {"long", "other"}
            /\ d.eori \notin {"none", "empty", "vanishes"} /\ d.dates \notin {"reversed", "outer"}
            /\ ~ Splits(d.name) /\ ~ Splits(d.eori) /\ ~ Splits(d.postcode)
        BY <1>4 DEF Accepted, AcceptedEori, AcceptedText, Unsendable
      <3>2. d.postcode \in {"none", "empty", "plain", "long", "outer", "folds", "other"}
        BY DEF Request
      <3>3. RecordInvalid(Ascii(TraderLine(d))) <=>
               \/ Splits(AsciiOf(d.name)) \/ Splits(AsciiOf(d.eori))
               \/ Splits(d.dates) \/ Splits(AsciiOf(d.postcode))
               \/ AsciiOf(d.eori) \in {"none", "empty"}
               \/ d.dates = "reversed"
               \/ AsciiOf(d.name) \in {"long", "padded"}
               \/ AsciiOf(d.postcode) \in {"long", "other"}
        <4> HIDE DEF AsciiOf
        <4> QED
          BY DEF TraderLine, TraderInvalid
      <3>4. ~ Splits(d.dates)
        BY <3>1 DEF Splits, Request
      <3>5. /\ Splits(AsciiOf(d.name)) <=> d.name = "folds"
            /\ Splits(AsciiOf(d.eori)) <=> d.eori = "folds"
            /\ Splits(AsciiOf(d.postcode)) <=> d.postcode = "folds"
        BY <3>1 DEF Splits
      <3>6. /\ AsciiOf(d.eori) \notin {"none", "empty"}
            /\ AsciiOf(d.name) \in {"long", "padded"} <=> d.name = "grows"
            /\ AsciiOf(d.postcode) \notin {"long", "other"}
        BY <3>1, <3>2
      <3> HIDE DEF RecordInvalid, Ascii, AsciiOf
      <3> QED
        BY <3>1, <3>3, <3>4, <3>5, <3>6
    <2>2. /\ {d.group, d.code} # {"none"}
          /\ RecordInvalid(Ascii(CountryLine(d))) <=> CountryText(d) = "folds"
      <3> DEFINE code == IF d.group = "none" THEN d.code ELSE "none"
      <3>1. {d.group, d.code} # {"none"}
        BY <1>4 DEF Accepted, AcceptedCountry
      <3>2. ~ Splits(CountryText(d))
        BY <1>4 DEF Unsendable
      <3>3. RecordInvalid(Ascii(CountryLine(d))) <=>
               \/ Splits(AsciiOf(code)) \/ Splits(AsciiOf(d.group))
               \/ {AsciiOf(code), AsciiOf(d.group)} \cap {"none", "empty"} = {}
        <4> HIDE DEF AsciiOf
        <4> QED
          BY DEF CountryLine, CountryInvalid
      <3>4. /\ Splits(AsciiOf(code)) \/ Splits(AsciiOf(d.group)) <=> CountryText(d) = "folds"
            /\ AsciiOf(code) = "none" \/ AsciiOf(d.group) = "none"
        BY <3>2 DEF CountryText, Splits
      <3> HIDE DEF RecordInvalid, Ascii, AsciiOf, code
      <3> QED
        BY <3>1, <3>3, <3>4
    <2>3. /\ d.restrictions \notin {"none", "empty"} =>
                (RecordInvalid(Ascii(RestrictionsLine(d))) <=> d.restrictions = "folds")
          /\ d.restrictions \in {"none", "empty"} => d.restrictions # "folds"
      BY <1>4 DEF RestrictionsLine, Splits, Unsendable
    <2>4. ASSUME NEW i \in DOMAIN d.goods
          PROVE  RecordInvalid(Ascii(GoodsLine(d, i))) <=> FoldsGood(d.type, d.goods[i])
      <3> DEFINE g == d.goods[i]
                 commodity == IF d.type \in {"SAN", "NUCLEAR"} THEN g.commodity ELSE "none"
                 description == IF d.type = "SAN" THEN "none" ELSE g.description
                 control == IF d.type \in {"SIL", "SAN", "NUCLEAR"} THEN g.controlledBy ELSE "O"
                 quantity == QuantityText(d.type, g)
      <3>1. g \in Good /\ d.type \in {"DFL", "OIL", "SIL", "SAN", "NUCLEAR"}
        BY <2>4, LenProperties, ElementOfSeq DEF Request
      <3>2. AcceptedGood(d.type, g) /\ ~ UnsendableGood(d.type, g)
        BY <1>4, <2>4 DEF Accepted, Unsendable
      <3>3. RecordInvalid(Ascii(GoodsLine(d, i))) <=>
               \/ Splits(AsciiOf(commodity)) \/ Splits(AsciiOf(description))
               \/ Splits(AsciiOf(quantity))
               \/ {AsciiOf(commodity), AsciiOf(description)} \subseteq {"none", "empty"}
               \/ control \notin {"B", "O", "Q", "V"}
        <4> DEFINE r == Ascii(GoodsLine(d, i))
        <4> HIDE DEF AsciiOf, RecordInvalid
        <4>1. r.type_ = "line" /\ r.controlledBy = control
          BY DEF GoodsLine
        <4>2. r.commodity = AsciiOf(commodity) /\ r.description = AsciiOf(description)
          BY DEF GoodsLine
        <4>3. r.quantity = AsciiOf(quantity)
          BY DEF GoodsLine, QuantityText
        <4> HIDE DEF r, g, commodity, description, control, quantity
        <4>4. RecordInvalid(r) <=> ProductLineInvalid(r)
          BY <4>1 DEF RecordInvalid
        <4> QED
          BY <4>1, <4>2, <4>3, <4>4 DEF ProductLineInvalid, r
      <3> HIDE DEF g, RecordInvalid, Ascii, quantity
      <3>4. control \in {"B", "O", "Q", "V"}
        BY <3>1, <3>2 DEF AcceptedGood, AcceptedControl, Good
      <3>5. ~ Splits(commodity) /\ ~ Splits(description) /\ ~ Splits(quantity)
        BY <3>1, <3>2 DEF UnsendableGood, GoodTexts, Splits, quantity
      <3>6. /\ Splits(AsciiOf(commodity)) <=> commodity = "folds"
            /\ Splits(AsciiOf(description)) <=> description = "folds"
            /\ Splits(AsciiOf(quantity)) <=> quantity = "folds"
        BY <3>5 DEF Splits
      <3>7. {AsciiOf(commodity), AsciiOf(description)} \subseteq {"none", "empty"} <=>
               {commodity, description} \subseteq {"none", "empty", "vanishes"}
        OBVIOUS
      <3>8. /\ {commodity, description} \subseteq {"none", "empty", "vanishes"} <=>
                   GoodTexts(d.type, g) \subseteq {"none", "empty", "vanishes"}
            /\ commodity = "folds" \/ description = "folds" <=> "folds" \in GoodTexts(d.type, g)
        BY DEF GoodTexts
      <3> HIDE DEF commodity, description, control, AsciiOf
      <3> QED
        BY <3>3, <3>4, <3>6, <3>7, <3>8 DEF FoldsGood, g, quantity
    <2>5. (\E r \in Contents(ref, d) : RecordInvalid(Ascii(r))) <=>
             \/ RecordInvalid(Ascii(LicenceLine(ref, d)))
             \/ RecordInvalid(Ascii(EndLine))
             \/ RecordInvalid(Ascii(TraderLine(d)))
             \/ {d.group, d.code} # {"none"} /\ RecordInvalid(Ascii(CountryLine(d)))
             \/ /\ d.restrictions \notin {"none", "empty"}
                /\ RecordInvalid(Ascii(RestrictionsLine(d)))
             \/ \E i \in DOMAIN d.goods : RecordInvalid(Ascii(GoodsLine(d, i)))
      <3> HIDE DEF RecordInvalid, Ascii
      <3> QED
        BY <1>4 DEF Contents
    <2> HIDE DEF RecordInvalid, Ascii
    <2> QED
      BY <1>1, <1>2, <1>4, <2>1, <2>2, <2>3, <2>4, <2>5 DEF Folds
  <1> QED
    BY <1>3, <1>4

-----------------------------------------------------------------------------
(* The records of one licence, by their place. *)
LEMMA Kinds ==
  ASSUME NEW ref, NEW d \in Request, NEW j \in 1..Size(d),
         NEW r, r = LinesFor(ref, d)[j]
  PROVE  /\ r \in Contents(ref, d)
         /\ r.type_ = "licence" <=> j = 1
         /\ r.type_ = "end" <=> j = Size(d)
         /\ r.type_ = "line" <=> 1 + Before(d) < j /\ j < Size(d)
         /\ r.type_ = "line" => r.lineNum = j - 1 - Before(d)
         /\ j = 1 => r.transactionRef = ref /\ r.action = d.action
  <1> DEFINE L == LinesFor(ref, d)
  <1>1. /\ Before(d) \in Nat /\ GoodsOf(d) \in Nat
        /\ Size(d) = Before(d) + GoodsOf(d) + 2
        /\ L \in Seq(Contents(ref, d)) /\ Len(L) = Size(d)
        /\ L[1] = LicenceLine(ref, d) /\ L[Size(d)] = EndLine
    BY LinesShape
  <1>2. r \in Contents(ref, d)
    BY <1>1, ElementOfSeq
  <1>3. CASE j = 1
    <2>1. r = LicenceLine(ref, d) /\ Size(d) # 1
      BY <1>1, <1>3
    <2> QED
      BY <1>1, <1>2, <1>3, <2>1 DEF LicenceLine
  <1>4. CASE j = Size(d)
    <2>1. r = EndLine /\ j # 1
      BY <1>1, <1>4
    <2> QED
      BY <1>1, <1>2, <1>4, <2>1 DEF EndLine
  <1>5. CASE 1 < j /\ j <= 1 + Before(d)
    <2>1. j - 1 \in 1..Before(d) /\ 1 + (j - 1) = j /\ j # Size(d)
      BY <1>1, <1>5
    <2>2. \A b \in 1..Before(d) : L[1 + b].type_ \in {"trader", "country", "restrictions"}
      BY LinesShape
    <2>3. r.type_ \in {"trader", "country", "restrictions"}
      BY <2>1, <2>2
    <2>4. j # 1 /\ ~ (1 + Before(d) < j)
      BY <1>1, <1>5
    <2> QED
      BY <1>2, <2>1, <2>3, <2>4
  <1>6. CASE 1 + Before(d) < j /\ j < Size(d)
    <2> DEFINE i == j - 1 - Before(d)
    <2>1. i \in 1..GoodsOf(d) /\ 1 + Before(d) + i = j /\ j # 1 /\ j # Size(d)
      BY <1>1, <1>6
    <2>2. \A g \in 1..GoodsOf(d) : L[1 + Before(d) + g] = GoodsLine(d, g)
      BY LinesShape
    <2>3. r = GoodsLine(d, i)
      BY <2>1, <2>2
    <2>4. r.type_ = "line" /\ r.lineNum = i
      BY <2>3 DEF GoodsLine
    <2> QED
      BY <1>2, <1>6, <2>1, <2>4
  <1> QED
    BY <1>1, <1>3, <1>4, <1>5, <1>6

-----------------------------------------------------------------------------
(* The inductive invariant. *)

(* The k-th licence has the lines start[k] .. start[k + 1] - 1. *)
Layout(start, past) ==
    /\ start \in [1..Len(batch) + 1 -> Nat]
    /\ start[1] = 2 /\ start[Len(batch) + 1] = past
    /\ \A k \in 1..Len(batch) : start[k + 1] = start[k] + Size(batch[k])
    /\ \A k, l \in 1..Len(batch) + 1 : k < l => start[k] < start[l]
    /\ \A i \in 2..past - 1 : \E k \in 1..Len(batch) : start[k] <= i /\ i < start[k + 1]

Written == {FileHeader} \cup UNION {Contents(ref, d) : ref \in Nat, d \in Data}

WrittenAt(start) ==
    /\ Layout(start, Len(lines) + 1)
    /\ \A k \in 1..Len(batch) : \A j \in 1..Size(batch[k]) :
          lines[start[k] + j - 1] = LinesFor(k, batch[k])[j]

Building ==
    /\ lines[1] = FileHeader
    /\ \E start \in [1..Len(batch) + 1 -> Nat] : WrittenAt(start)

(* Once formatted, and once mailed. *)
Final(r) == IF outcome = "mailed" THEN Ascii(r) ELSE r

Trailer == [type_ |-> "fileTrailer", lineno |-> 0, transactionCount |-> Len(batch)]

FinishedAt(start) ==
    /\ Layout(start, Len(lines))
    /\ \A k \in 1..Len(batch) : \A j \in 1..Size(batch[k]) :
          lines[start[k] + j - 1] =
             Final(Numbered(LinesFor(k, batch[k])[j], start[k] + j - 1, Size(batch[k])))

Finished ==
    /\ Len(lines) \in Nat /\ lines = [i \in 1..Len(lines) |-> lines[i]]
    /\ lines[1] = Final(Numbered(FileHeader, 1, 0))
    /\ lines[Len(lines)] = Final(Numbered(Trailer, Len(lines), 0))
    /\ \E start \in [1..Len(batch) + 1 -> Nat] : FinishedAt(start)

RequestsFit ==
    /\ batch \in Seq(Data) /\ Len(batch) <= MaxLicences
    /\ \A k \in 1..Len(batch) : Accepted(batch[k])
    /\ IF outcome = "raised" THEN \E k \in 1..Len(batch) : Raises(batch[k])
       ELSE \A k \in 1..Len(batch) : ~ Raises(batch[k])

Verdict ==
    /\ outcome = "valid" => ~ FileInvalid(lines)
    /\ outcome = "invalid" => FileInvalid(lines)
    /\ outcome = "mailed" => \A k \in 1..Len(batch) : ~ Unsendable(batch[k])

FileInv ==
    /\ outcome \in {"building", "formatted", "valid", "invalid", "mailed", "raised"}
    /\ RequestsFit /\ Verdict
    /\ outcome \in {"building", "raised"} => lines \in Seq(Written)
    /\ outcome = "building" => Building
    /\ Complete => Finished

LEMMA InitInv == Init => FileInv
  <1> SUFFICES ASSUME Init PROVE FileInv
    OBVIOUS
  <1> DEFINE start == [k \in 1..1 |-> 2]
  <1>1. batch = << >> /\ Len(batch) = 0 /\ batch \in Seq(Data) /\ outcome = "building"
    BY EmptySeq DEF Init
  <1>2. lines \in Seq(Written) /\ Len(lines) = 1 /\ lines[1] = FileHeader
    BY Singleton DEF Init, Written
  <1>3. WrittenAt(start)
    BY <1>1, <1>2 DEF WrittenAt, Layout
  <1>4. start \in [1..Len(batch) + 1 -> Nat]
    BY <1>1
  <1>5. Building
    BY <1>2, <1>3, <1>4 DEF Building
  <1>6. RequestsFit /\ Verdict /\ ~ Complete
    BY <1>1, MaxLicencesAssumption DEF RequestsFit, Verdict, Complete
  <1> QED
    BY <1>1, <1>2, <1>5, <1>6 DEF FileInv

(* A request that fits: what the lemmas on records ask of it. *)
LEMMA Fitting ==
  ASSUME RequestsFit
  PROVE  /\ Len(batch) \in Nat /\ DOMAIN batch = 1..Len(batch)
         /\ \A k \in 1..Len(batch) : batch[k] \in Request /\ Accepted(batch[k])
         /\ \A k \in 1..Len(batch) :
               /\ Size(batch[k]) \in Nat /\ Size(batch[k]) >= 2
               /\ Before(batch[k]) \in Nat /\ GoodsOf(batch[k]) \in Nat
               /\ Size(batch[k]) = Before(batch[k]) + GoodsOf(batch[k]) + 2
  <1>1. batch \in Seq(Data) /\ \A k \in 1..Len(batch) : Accepted(batch[k])
    BY DEF RequestsFit
  <1>2. Len(batch) \in Nat /\ DOMAIN batch = 1..Len(batch)
    BY <1>1, LenProperties
  <1>3. \A k \in 1..Len(batch) : batch[k] \in Request
    BY <1>1, ElementOfSeq, DataAssumption
  <1>4. ASSUME NEW k \in 1..Len(batch)
        PROVE  /\ Size(batch[k]) \in Nat /\ Size(batch[k]) >= 2
               /\ Before(batch[k]) \in Nat /\ GoodsOf(batch[k]) \in Nat
               /\ Size(batch[k]) = Before(batch[k]) + GoodsOf(batch[k]) + 2
    <2>1. /\ Before(batch[k]) \in Nat /\ GoodsOf(batch[k]) \in Nat
          /\ Size(batch[k]) = Before(batch[k]) + GoodsOf(batch[k]) + 2
      BY <1>3, <1>4, LinesShape
    <2> QED
      BY <2>1
  <1> QED
    BY <1>1, <1>2, <1>3, <1>4

LEMMA WriteKeeps ==
  ASSUME FileInv, NEW d \in Data, WriteLicence(d)
  PROVE  FileInv'
  <1> DEFINE n == Len(batch)
             L == LinesFor(n + 1, d)
  <1>1. /\ outcome = "building" /\ outcome' = "building" /\ n < MaxLicences
        /\ Accepted(d) /\ ~ Raises(d) /\ batch' = Append(batch, d) /\ lines' = lines \o L
    BY DEF WriteLicence
  <1>2. /\ RequestsFit /\ lines \in Seq(Written) /\ Building
        /\ batch \in Seq(Data) /\ n \in Nat
        /\ \A k \in 1..n : Accepted(batch[k]) /\ ~ Raises(batch[k])
    BY <1>1, Fitting DEF FileInv, RequestsFit
  <1>3. d \in Request
    BY DataAssumption
  <1>4. /\ L \in Seq(Contents(n + 1, d)) /\ Len(L) = Size(d)
        /\ Size(d) \in Nat /\ Size(d) >= 2
    <2>1. /\ L \in Seq(Contents(n + 1, d)) /\ Len(L) = Size(d)
          /\ Before(d) \in Nat /\ GoodsOf(d) \in Nat /\ Size(d) = Before(d) + GoodsOf(d) + 2
      BY <1>3, LinesShape
    <2> QED
      BY <2>1
  <1>5. L \in Seq(Written)
    <2>1. Contents(n + 1, d) \subseteq Written
      <3>1. n + 1 \in Nat
        BY <1>2
      <3> QED
        BY <3>1 DEF Written
    <2> QED
      BY <1>4, <2>1, SeqMonotonic
  <1>6. /\ batch' \in Seq(Data) /\ Len(batch') = n + 1 /\ batch'[n + 1] = d
        /\ \A k \in 1..n : batch'[k] = batch[k]
    BY <1>1, <1>2, AppendProperties
  <1> HIDE DEF L, n
  <1>7. /\ lines' \in Seq(Written) /\ Len(lines') = Len(lines) + Size(d)
        /\ \A i \in 1..Len(lines) : lines'[i] = lines[i]
        /\ \A i \in 1..Size(d) : lines'[Len(lines) + i] = L[i]
    <2>1. lines \in Seq(Written) /\ L \in Seq(Written)
      BY <1>2, <1>5
    <2>2. /\ lines \o L \in Seq(Written) /\ Len(lines \o L) = Len(lines) + Len(L)
          /\ \A i \in 1..Len(lines) : (lines \o L)[i] = lines[i]
          /\ \A i \in 1..Len(L) : (lines \o L)[Len(lines) + i] = L[i]
      BY <2>1, ConcatParts
    <2> QED
      BY <1>1, <1>4, <2>2
  <1>8. Len(lines) \in Nat
    BY <1>2, LenProperties
  <1>9. RequestsFit'
    <2>1. \A k \in 1..n + 1 : k \in 1..n \/ k = n + 1
      BY <1>2
    <2>2. \A k \in 1..n + 1 : Accepted(batch'[k]) /\ ~ Raises(batch'[k])
      BY <1>1, <1>2, <1>6, <2>1
    <2>3. n + 1 <= MaxLicences
      BY <1>1, <1>2, MaxLicencesAssumption
    <2> QED
      BY <1>1, <1>6, <2>2, <2>3 DEF RequestsFit
  <1>10. Building'
    <2>1. PICK start \in [1..n + 1 -> Nat] : WrittenAt(start)
      BY <1>2 DEF Building, n
    <2>2. /\ start[1] = 2 /\ start[n + 1] = Len(lines) + 1
          /\ \A k \in 1..n : start[k + 1] = start[k] + Size(batch[k])
          /\ \A k, l \in 1..n + 1 : k < l => start[k] < start[l]
          /\ \A i \in 2..(Len(lines) + 1) - 1 :
                \E k \in 1..n : start[k] <= i /\ i < start[k + 1]
          /\ \A k \in 1..n : \A j \in 1..Size(batch[k]) :
                lines[start[k] + j - 1] = LinesFor(k, batch[k])[j]
      BY <2>1 DEF WrittenAt, Layout, n
    <2> DEFINE past == Len(lines) + 1
               further == [k \in 1..n + 2 |->
                             IF k <= n + 1 THEN start[k] ELSE past + Size(d)]
    <2>0. PICK next : next = further
      OBVIOUS
    <2>3. /\ \A k \in 1..n + 1 : next[k] = start[k]
          /\ next[n + 2] = past + Size(d)
          /\ next \in [1..n + 2 -> Nat]
      BY <1>2, <1>4, <1>8, <2>0
    <2>4. /\ \A k \in 1..n : k \in 1..n + 1 /\ k + 1 \in 1..n + 1
          /\ \A k \in 1..n + 1 : start[k] \in Nat
          /\ \A k \in 1..n + 1 : k \in 1..n \/ k = n + 1
          /\ \A k \in 1..n + 2 : k \in 1..n + 1 \/ k = n + 2
          /\ n + 1 \in 1..n + 1 /\ 1 \in 1..n + 1 /\ (n + 1) + 1 = n + 2
          /\ \A k \in 1..n : k # n + 1
      BY <1>2, <2>1
    <2> HIDE DEF further
    <2>5. next[1] = 2 /\ next[n + 2] = Len(lines') + 1
      BY <1>4, <1>7, <1>8, <2>2, <2>3, <2>4
    <2>6. ASSUME NEW k \in 1..n + 1 PROVE next[k + 1] = next[k] + Size(batch'[k])
      <3>1. CASE k \in 1..n
        BY <1>6, <2>2, <2>3, <2>4, <3>1
      <3>2. CASE k = n + 1
        BY <1>6, <2>2, <2>3, <2>4, <3>2
      <3> QED
        BY <2>4, <3>1, <3>2
    <2>7. ASSUME NEW k \in 1..n + 2, NEW l \in 1..n + 2, k < l PROVE next[k] < next[l]
      <3>1. CASE l \in 1..n + 1
        <4>1. k \in 1..n + 1
          BY <1>2, <2>7, <3>1
        <4> QED
          BY <2>2, <2>3, <2>7, <3>1, <4>1
      <3>2. CASE l = n + 2
        <4>1. k \in 1..n + 1
          BY <1>2, <2>7, <3>2
        <4>2. start[k] <= past
          <5>1. k < n + 1 \/ k = n + 1
            BY <1>2, <4>1
          <5> QED
            BY <1>8, <2>2, <2>4, <4>1, <5>1
        <4>3. past < past + Size(d) /\ start[k] \in Nat
          BY <1>4, <1>8, <2>4, <4>1
        <4> QED
          BY <1>4, <1>8, <2>3, <3>2, <4>1, <4>2, <4>3
      <3> QED
        BY <2>4, <3>1, <3>2
    <2>8. ASSUME NEW i \in 2..(Len(lines') + 1) - 1
          PROVE  \E k \in 1..n + 1 : next[k] <= i /\ i < next[k + 1]
      <3>1. CASE i \in 2..past - 1
        <4>1. PICK k \in 1..n : start[k] <= i /\ i < start[k + 1]
          BY <2>2, <3>1
        <4> QED
          BY <2>3, <2>4, <4>1
      <3>2. CASE i \notin 2..past - 1
        <4>1. past <= i /\ i < past + Size(d)
          BY <1>4, <1>7, <1>8, <3>2
        <4> QED
          BY <2>2, <2>3, <2>4, <4>1
      <3> QED
        BY <3>1, <3>2
    <2>9. ASSUME NEW k \in 1..n + 1, NEW j \in 1..Size(batch'[k])
          PROVE  lines'[next[k] + j - 1] = LinesFor(k, batch'[k])[j]
      <3>1. CASE k \in 1..n
        <4>1. /\ j \in 1..Size(batch[k]) /\ next[k] = start[k] /\ batch'[k] = batch[k]
              /\ start[k + 1] = start[k] + Size(batch[k])
              /\ start[k] \in Nat
          BY <1>6, <2>2, <2>3, <2>4, <2>9, <3>1
        <4>2. start[k + 1] <= past
          <5>1. k + 1 < n + 1 \/ k + 1 = n + 1
            BY <1>2, <3>1
          <5> QED
            BY <1>8, <2>2, <2>4, <3>1, <5>1
        <4>3. Size(batch[k]) \in Nat
          BY <1>2, <3>1, Fitting DEF n
        <4>4. 2 <= start[k]
          <5>1. 1 < k \/ k = 1
            BY <3>1
          <5> QED
            BY <2>2, <2>4, <3>1, <5>1
        <4>5. start[k] + j - 1 \in 1..Len(lines)
          BY <1>8, <4>1, <4>2, <4>3, <4>4
        <4> QED
          BY <1>7, <2>2, <3>1, <4>1, <4>5
      <3>2. CASE k = n + 1
        <4>1. batch'[k] = d /\ next[k] = past /\ j \in 1..Size(d)
          BY <1>6, <2>2, <2>3, <2>4, <2>9, <3>2
        <4>2. past + j - 1 = Len(lines) + j
          BY <1>4, <1>8, <4>1
        <4> QED
          BY <1>7, <3>2, <4>1, <4>2 DEF L
      <3> QED
        BY <2>4, <3>1, <3>2
    <2>10. WrittenAt(next)'
      <3>1. Len(batch') + 1 = n + 2 /\ Len(batch') = n + 1
        BY <1>2, <1>6
      <3>2. Layout(next, Len(lines) + 1)'
        BY <2>3, <2>5, <2>6, <2>7, <2>8, <3>1 DEF Layout
      <3> QED
        BY <2>9, <3>1, <3>2 DEF WrittenAt
    <2>11. lines'[1] = FileHeader
      <3>1. lines[1] = FileHeader
        BY <1>2 DEF Building
      <3>2. 1 \in 1..Len(lines)
        <4>1. 2 <= start[n + 1]
          <5>1. 1 < n + 1 \/ 1 = n + 1
            BY <1>2
          <5> QED
            BY <2>2, <2>4, <5>1
        <4> QED
          BY <1>8, <2>2, <4>1
      <3> QED
        BY <1>7, <3>1, <3>2
    <2>12. next \in [1..Len(batch') + 1 -> Nat]
      BY <1>2, <1>6, <2>3
    <2> QED
      BY <2>10, <2>11, <2>12 DEF Building
  <1>11. Verdict' /\ ~ Complete'
    BY <1>1 DEF Verdict, Complete
  <1> QED
    BY <1>1, <1>7, <1>9, <1>10, <1>11 DEF FileInv

LEMMA RaiseKeeps ==
  ASSUME FileInv, NEW d \in Data, RaiseError(d)
  PROVE  FileInv'
  <1>1. /\ outcome = "building" /\ outcome' = "raised" /\ Len(batch) < MaxLicences
        /\ Accepted(d) /\ Raises(d) /\ batch' = Append(batch, d) /\ lines' = lines
    BY DEF RaiseError
  <1>2. /\ lines \in Seq(Written) /\ batch \in Seq(Data) /\ Len(batch) \in Nat
        /\ \A k \in 1..Len(batch) : Accepted(batch[k])
    BY <1>1, Fitting DEF FileInv, RequestsFit
  <1>3. /\ batch' \in Seq(Data) /\ Len(batch') = Len(batch) + 1 /\ batch'[Len(batch) + 1] = d
        /\ \A k \in 1..Len(batch) : batch'[k] = batch[k]
    BY <1>1, <1>2, AppendProperties
  <1>4. RequestsFit'
    <2>1. Len(batch) + 1 <= MaxLicences /\ Len(batch) + 1 \in 1..Len(batch) + 1
      BY <1>1, <1>2, MaxLicencesAssumption
    <2>2. \A k \in 1..Len(batch) + 1 : k \in 1..Len(batch) \/ k = Len(batch) + 1
      BY <1>2
    <2> QED
      BY <1>1, <1>2, <1>3, <2>1, <2>2 DEF RequestsFit
  <1> QED
    BY <1>1, <1>2, <1>4 DEF FileInv, Verdict, Complete

-----------------------------------------------------------------------------
(* Where the records of each licence are. *)

(* A set has n elements when a function from 1..n runs through it once. *)
LEMMA Counted ==
  ASSUME NEW n \in Nat, NEW T, NEW f \in [1..n -> T],
         \A k, l \in 1..n : k # l => f[k] # f[l],
         \A t \in T : \E k \in 1..n : f[k] = t
  PROVE  Cardinality(T) = n /\ IsFiniteSet(T)
  <1>1. f \in Bijection(1..n, T)
    BY DEF Bijection, Injection, Surjection, IsInjective
  <1>2. ExistsBijection(1..n, T)
    BY <1>1 DEF ExistsBijection
  <1>3. IsFiniteSet(1..n)
    BY FS_Interval
  <1> QED
    BY <1>2, <1>3, FS_CountingElements, FS_Bijection

LEMMA LayoutFacts ==
  ASSUME RequestsFit, NEW past, NEW start, Layout(start, past)
  PROVE  /\ \A k \in 1..Len(batch) + 1 : start[k] \in Nat /\ 2 <= start[k] /\ start[k] <= past
         /\ past \in Nat /\ 2 <= past
         /\ \A k \in 1..Len(batch) :
               /\ k \in 1..Len(batch) + 1 /\ k + 1 \in 1..Len(batch) + 1
               /\ start[k] + 1 <= start[k + 1] - 1
               /\ start[k + 1] - 1 = start[k] + Size(batch[k]) - 1
               /\ 1 \in 1..Size(batch[k]) /\ Size(batch[k]) \in 1..Size(batch[k])
         /\ \A k \in 1..Len(batch) : \A j \in 1..Size(batch[k]) :
               /\ start[k] + j - 1 \in 2..past - 1
               /\ start[k] <= start[k] + j - 1 /\ start[k] + j - 1 < start[k + 1]
         /\ \A i \in 2..past - 1 : \E k \in 1..Len(batch) : \E j \in 1..Size(batch[k]) :
               i = start[k] + j - 1
  <1> DEFINE n == Len(batch)
  <1>1. /\ start \in [1..n + 1 -> Nat]
        /\ start[1] = 2 /\ start[n + 1] = past
        /\ \A k \in 1..n : start[k + 1] = start[k] + Size(batch[k])
        /\ \A k, l \in 1..n + 1 : k < l => start[k] < start[l]
        /\ \A i \in 2..past - 1 : \E k \in 1..n : start[k] <= i /\ i < start[k + 1]
    BY DEF Layout
  <1>2. n \in Nat /\ \A k \in 1..n : Size(batch[k]) \in Nat /\ Size(batch[k]) >= 2
    BY Fitting
  <1> HIDE DEF n
  <1>3. /\ 1 \in 1..n + 1 /\ n + 1 \in 1..n + 1
        /\ \A k \in 1..n : k \in 1..n + 1 /\ k + 1 \in 1..n + 1
    BY <1>2
  <1>4. ASSUME NEW k \in 1..n + 1
        PROVE  start[k] \in Nat /\ 2 <= start[k] /\ start[k] <= past
    <2>1. (k = 1 \/ 1 < k) /\ (k = n + 1 \/ k < n + 1) /\ start[k] \in Nat /\ past \in Nat
      BY <1>1, <1>2, <1>3
    <2>2. 2 <= start[k]
      BY <1>1, <1>3, <2>1
    <2>3. start[k] <= past
      BY <1>1, <1>3, <2>1
    <2> QED
      BY <2>1, <2>2, <2>3
  <1>5. past \in Nat /\ 2 <= past
    BY <1>1, <1>3, <1>4
  <1>6. ASSUME NEW k \in 1..n
        PROVE  /\ start[k] \in Nat /\ start[k + 1] \in Nat
               /\ start[k] + 1 <= start[k + 1] - 1
               /\ start[k + 1] - 1 = start[k] + Size(batch[k]) - 1
               /\ 1 \in 1..Size(batch[k]) /\ Size(batch[k]) \in 1..Size(batch[k])
    <2>1. start[k] \in Nat /\ start[k + 1] \in Nat
      BY <1>3, <1>4
    <2>2. start[k + 1] = start[k] + Size(batch[k]) /\ Size(batch[k]) \in Nat /\ Size(batch[k]) >= 2
      BY <1>1, <1>2
    <2> QED
      BY <2>1, <2>2
  <1>7. ASSUME NEW k \in 1..n, NEW j \in 1..Size(batch[k])
        PROVE  /\ start[k] + j - 1 \in 2..past - 1
               /\ start[k] <= start[k] + j - 1 /\ start[k] + j - 1 < start[k + 1]
    <2>1. /\ start[k + 1] = start[k] + Size(batch[k]) /\ Size(batch[k]) \in Nat
          /\ start[k] \in Nat /\ 2 <= start[k] /\ start[k + 1] <= past
      BY <1>1, <1>2, <1>3, <1>4
    <2> QED
      BY <1>5, <2>1
  <1>8. ASSUME NEW i \in 2..past - 1
        PROVE  \E k \in 1..n : \E j \in 1..Size(batch[k]) : i = start[k] + j - 1
    <2>1. PICK k \in 1..n : start[k] <= i /\ i < start[k + 1]
      BY <1>1
    <2> DEFINE j == i - start[k] + 1
    <2>2. start[k + 1] = start[k] + Size(batch[k]) /\ Size(batch[k]) \in Nat /\ start[k] \in Nat
      BY <1>1, <1>2, <1>6
    <2>3. j \in 1..Size(batch[k]) /\ i = start[k] + j - 1
      BY <1>5, <2>1, <2>2
    <2> QED
      BY <2>3
  <1> QED
    BY <1>3, <1>4, <1>5, <1>6, <1>7, <1>8 DEF n

LEMMA LayoutCovers ==
  ASSUME RequestsFit, NEW past, NEW start, Layout(start, past), NEW i \in 2..past - 1
  PROVE  \E k \in 1..Len(batch) : \E j \in 1..Size(batch[k]) : i = start[k] + j - 1
  BY LayoutFacts

(* The header, the licences from start[1] on, perhaps the trailer at past. *)
Filled(s, start, past) ==
    /\ Layout(start, past)
    /\ s[1].type_ = "fileHeader"
    /\ \/ DOMAIN s = 1..past - 1
       \/ DOMAIN s = 1..past /\ s[past].type_ = "fileTrailer"
    /\ \A k \in 1..Len(batch) : \A j \in 1..Size(batch[k]) :
          s[start[k] + j - 1].type_ = LinesFor(k, batch[k])[j].type_

LEMMA Places ==
  ASSUME RequestsFit, NEW past, NEW start, NEW s, Filled(s, start, past)
  PROVE  /\ PlacesOf("licence", s) = {start[k] : k \in 1..Len(batch)}
         /\ PlacesOf("end", s) = {start[k + 1] - 1 : k \in 1..Len(batch)}
         /\ Cardinality(PlacesOf("licence", s)) = Len(batch)
         /\ Cardinality(PlacesOf("end", s)) = Len(batch)
  <1> DEFINE n == Len(batch)
  <1>0. /\ Layout(start, past) /\ s[1].type_ = "fileHeader"
        /\ \/ DOMAIN s = 1..past - 1
           \/ DOMAIN s = 1..past /\ s[past].type_ = "fileTrailer"
        /\ \A k \in 1..Len(batch) : \A j \in 1..Size(batch[k]) :
              s[start[k] + j - 1].type_ = LinesFor(k, batch[k])[j].type_
    BY DEF Filled
  <1>1. n \in Nat /\ \A k \in 1..n : batch[k] \in Request
    BY Fitting
  <1>2. past \in Nat /\ 2 <= past
    BY <1>0, LayoutFacts
  <1>11. PICK last \in {past - 1, past} :
            DOMAIN s = 1..last /\ (last = past => s[past].type_ = "fileTrailer")
    BY <1>0, <1>2
  <1>3. ASSUME NEW k \in 1..n, NEW j \in 1..Size(batch[k])
        PROVE  /\ start[k] + j - 1 \in 2..past - 1 /\ start[k] + j - 1 \in 1..last
               /\ s[start[k] + j - 1].type_ = "licence" <=> j = 1
               /\ s[start[k] + j - 1].type_ = "end" <=> j = Size(batch[k])
    <2>1. start[k] + j - 1 \in 2..past - 1
      BY <1>0, LayoutFacts
    <2>2. start[k] + j - 1 \in 1..last
      BY <1>2, <1>11, <2>1
    <2>3. s[start[k] + j - 1].type_ = LinesFor(k, batch[k])[j].type_
      BY <1>0
    <2>4. /\ LinesFor(k, batch[k])[j].type_ = "licence" <=> j = 1
          /\ LinesFor(k, batch[k])[j].type_ = "end" <=> j = Size(batch[k])
      BY <1>1, Kinds
    <2> QED
      BY <2>1, <2>2, <2>3, <2>4
  <1>4. ASSUME NEW i \in 1..last
        PROVE  \/ s[i].type_ \in {"fileHeader", "fileTrailer"}
               \/ \E k \in 1..n : \E j \in 1..Size(batch[k]) : i = start[k] + j - 1
    <2>1. i = 1 \/ i \in 2..past - 1 \/ (i = past /\ last = past)
      BY <1>2, <1>11
    <2> QED
      BY <1>0, <1>11, <2>1, LayoutFacts
  <1>5. PlacesOf("licence", s) = {start[k] : k \in 1..n}
    <2>1. ASSUME NEW k \in 1..n PROVE start[k] \in PlacesOf("licence", s)
      <3>1. 1 \in 1..Size(batch[k]) /\ start[k] \in Nat
        BY <1>0, LayoutFacts
      <3>2. start[k] + 1 - 1 \in 1..last /\ s[start[k] + 1 - 1].type_ = "licence"
        BY <1>3, <3>1
      <3>3. start[k] + 1 - 1 = start[k]
        BY <3>1
      <3> QED
        BY <1>11, <3>2, <3>3 DEF PlacesOf
    <2>2. ASSUME NEW i \in PlacesOf("licence", s) PROVE \E k \in 1..n : i = start[k]
      <3>1. i \in 1..last /\ s[i].type_ = "licence"
        BY <1>11 DEF PlacesOf
      <3>2. PICK k \in 1..n : \E j \in 1..Size(batch[k]) : i = start[k] + j - 1
        BY <1>4, <3>1
      <3>3. PICK j \in 1..Size(batch[k]) : i = start[k] + j - 1
        BY <3>2
      <3>4. j = 1
        BY <1>3, <3>1, <3>3
      <3>5. start[k] \in Nat
        BY <1>0, LayoutFacts
      <3> QED
        BY <3>3, <3>4, <3>5
    <2> QED
      BY <2>1, <2>2
  <1>6. PlacesOf("end", s) = {start[k + 1] - 1 : k \in 1..n}
    <2>1. ASSUME NEW k \in 1..n PROVE start[k + 1] - 1 \in PlacesOf("end", s)
      <3>1. /\ Size(batch[k]) \in 1..Size(batch[k])
            /\ start[k + 1] - 1 = start[k] + Size(batch[k]) - 1
        BY <1>0, LayoutFacts
      <3>2. start[k] + Size(batch[k]) - 1 \in 1..last
            /\ s[start[k] + Size(batch[k]) - 1].type_ = "end"
        BY <1>3, <3>1
      <3> QED
        BY <1>11, <3>1, <3>2 DEF PlacesOf
    <2>2. ASSUME NEW i \in PlacesOf("end", s) PROVE \E k \in 1..n : i = start[k + 1] - 1
      <3>1. i \in 1..last /\ s[i].type_ = "end"
        BY <1>11 DEF PlacesOf
      <3>2. PICK k \in 1..n : \E j \in 1..Size(batch[k]) : i = start[k] + j - 1
        BY <1>4, <3>1
      <3>3. PICK j \in 1..Size(batch[k]) : i = start[k] + j - 1
        BY <3>2
      <3>4. j = Size(batch[k])
        BY <1>3, <3>1, <3>3
      <3>5. start[k + 1] - 1 = start[k] + Size(batch[k]) - 1
        BY <1>0, LayoutFacts
      <3> QED
        BY <3>3, <3>4, <3>5
    <2> QED
      BY <2>1, <2>2
  <1>7. \A k, l \in 1..n + 1 : k < l => start[k] < start[l]
    BY <1>0 DEF Layout
  <1>8. \A k \in 1..n + 1 : start[k] \in Nat
    BY <1>0, LayoutFacts
  <1> HIDE DEF n
  <1>9. Cardinality(PlacesOf("licence", s)) = n
    <2> DEFINE T == PlacesOf("licence", s)
               f == [k \in 1..n |-> start[k]]
    <2>1. f \in [1..n -> T] /\ \A t \in T : \E k \in 1..n : f[k] = t
      BY <1>5
    <2>2. ASSUME NEW k \in 1..n, NEW l \in 1..n, k # l PROVE f[k] # f[l]
      <3>1. (k < l \/ l < k) /\ k \in 1..n + 1 /\ l \in 1..n + 1
        BY <1>1, <2>2 DEF n
      <3> QED
        BY <1>7, <1>8, <3>1
    <2> HIDE DEF T, f
    <2>3. Cardinality(T) = n
      BY <1>1, <2>1, <2>2, Counted DEF n
    <2> QED
      BY <2>3 DEF T
  <1>10. Cardinality(PlacesOf("end", s)) = n
    <2> DEFINE T == PlacesOf("end", s)
               f == [k \in 1..n |-> start[k + 1] - 1]
    <2>1. f \in [1..n -> T] /\ \A t \in T : \E k \in 1..n : f[k] = t
      BY <1>6
    <2>2. ASSUME NEW k \in 1..n, NEW l \in 1..n, k # l PROVE f[k] # f[l]
      <3>1. (k + 1 < l + 1 \/ l + 1 < k + 1) /\ k + 1 \in 1..n + 1 /\ l + 1 \in 1..n + 1
        BY <1>1, <2>2 DEF n
      <3>2. start[k + 1] # start[l + 1] /\ start[k + 1] \in Nat /\ start[l + 1] \in Nat
        BY <1>7, <1>8, <3>1
      <3> QED
        BY <3>2
    <2> HIDE DEF T, f
    <2>3. Cardinality(T) = n
      BY <1>1, <2>1, <2>2, Counted DEF n
    <2> QED
      BY <2>3 DEF T
  <1> QED
    BY <1>5, <1>6, <1>9, <1>10 DEF n

(* format_lines numbers every record by its place and gives each end       *)
(* record the length of its own transaction.                               *)
LEMMA FormatKeeps ==
  ASSUME FileInv, FormatLines
  PROVE  FileInv'
  <1> DEFINE n == Len(batch)
             s == Append(lines, FileTrailer(lines))
  <1>1. /\ outcome = "building" /\ outcome' = "formatted" /\ batch' = batch
        /\ lines' = ResolveLineNumbers(s)
    BY DEF FormatLines
  <1>2. RequestsFit /\ lines \in Seq(Written) /\ Building
    BY <1>1 DEF FileInv
  <1>3. /\ n \in Nat /\ Len(lines) \in Nat /\ DOMAIN lines = 1..Len(lines)
        /\ \A k \in 1..n : batch[k] \in Request
    BY <1>2, Fitting, LenProperties
  <1>0. PICK past : past = Len(lines) + 1
    OBVIOUS
  <1>4. PICK start \in [1..n + 1 -> Nat] : WrittenAt(start)
    BY <1>2 DEF Building
  <1>5. /\ Layout(start, past)
        /\ \A k \in 1..n : \A j \in 1..Size(batch[k]) :
              lines[start[k] + j - 1] = LinesFor(k, batch[k])[j]
    BY <1>0, <1>4 DEF WrittenAt
  <1>6. lines[1] = FileHeader /\ FileHeader.type_ = "fileHeader"
    BY <1>2 DEF Building, FileHeader
  <1>7. CountTransactions(lines) = n /\ FileTrailer(lines) = Trailer
    <2>1. Len(lines) = past - 1
      BY <1>0, <1>3
    <2>2. Filled(lines, start, past)
      BY <1>3, <1>5, <1>6, <2>1 DEF Filled
    <2>3. Cardinality(PlacesOf("licence", lines)) = n
      BY <1>2, <2>2, Places
    <2> QED
      BY <2>3 DEF CountTransactions, FileTrailer, Trailer
  <1>8. /\ Len(s) = past /\ DOMAIN s = 1..past /\ past \in Nat /\ 2 <= past
        /\ \A i \in 1..Len(lines) : s[i] = lines[i]
        /\ s[past] = Trailer
    <2>1. /\ s \in Seq(Written \cup {FileTrailer(lines)}) /\ Len(s) = past
          /\ \A i \in 1..Len(lines) : s[i] = lines[i]
          /\ s[past] = FileTrailer(lines)
      <3>1. lines \in Seq(Written \cup {FileTrailer(lines)})
        BY <1>2, SeqMonotonic
      <3> QED
        BY <1>0, <3>1, AppendProperties
    <2>2. DOMAIN s = 1..past
      BY <2>1, LenProperties
    <2>3. past \in Nat /\ 2 <= past
      BY <1>2, <1>5, LayoutFacts
    <2> QED
      BY <1>7, <2>1, <2>2, <2>3
  <1> HIDE DEF s
  <1>9. /\ s[1] = FileHeader
        /\ \A k \in 1..n : \A j \in 1..Size(batch[k]) :
              s[start[k] + j - 1] = LinesFor(k, batch[k])[j]
    <2>1. /\ 1 \in 1..Len(lines)
          /\ \A i \in 2..past - 1 : i \in 1..Len(lines)
      BY <1>0, <1>3, <1>8
    <2>2. \A k \in 1..n : \A j \in 1..Size(batch[k]) : start[k] + j - 1 \in 2..past - 1
      BY <1>2, <1>5, LayoutFacts
    <2> QED
      BY <1>5, <1>6, <1>8, <2>1, <2>2
  <1>10. PlacesOf("licence", s) = {start[k] : k \in 1..n}
    <2>1. s[past].type_ = "fileTrailer"
      BY <1>8 DEF Trailer
    <2>2. Filled(s, start, past)
      BY <1>5, <1>6, <1>8, <1>9, <2>1 DEF Filled
    <2> QED
      BY <1>2, <2>2, Places
  <1>11. ASSUME NEW k \in 1..n
         PROVE  StartOf(s, start[k + 1] - 1) = start[k]
    <2> DEFINE i == start[k + 1] - 1
    <2>1. /\ start[k] \in Nat /\ start[k + 1] \in Nat /\ start[k] < i
          /\ i = start[k] + Size(batch[k]) - 1 /\ Size(batch[k]) \in 1..Size(batch[k])
          /\ k \in 1..n + 1 /\ k + 1 \in 1..n + 1
      <3>1. /\ i = start[k] + Size(batch[k]) - 1 /\ Size(batch[k]) \in 1..Size(batch[k])
            /\ k \in 1..n + 1 /\ k + 1 \in 1..n + 1 /\ start[k] + 1 <= i
        BY <1>2, <1>5, LayoutFacts
      <3>2. start[k] \in Nat /\ start[k + 1] \in Nat
        BY <1>2, <1>5, <3>1, LayoutFacts
      <3> QED
        BY <3>1, <3>2
    <2>2. LinesFor(k, batch[k])[Size(batch[k])] = EndLine
      BY <1>3, LinesShape
    <2>3. s[i].startRecordType = "licence"
      BY <1>9, <2>1, <2>2 DEF EndLine
    <2>4. ASSUME NEW l \in 1..n, start[l] < i PROVE start[l] <= start[k]
      <3>1. l \in 1..n + 1 /\ (l <= k \/ k + 1 = l \/ k + 1 < l) /\ (l < k \/ l = k \/ l > k)
        BY <1>3
      <3>2. start[l] \in Nat
        BY <1>2, <1>5, <3>1, LayoutFacts
      <3>3. \A a, b \in 1..n + 1 : a < b => start[a] < start[b]
        BY <1>5 DEF Layout
      <3>4. ~ (k + 1 = l \/ k + 1 < l)
        BY <2>1, <2>4, <3>1, <3>2, <3>3
      <3> QED
        BY <2>1, <3>1, <3>2, <3>3, <3>4
    <2> HIDE DEF i
    <2>5. \A l \in 1..n : start[l] \in Nat
      BY <1>2, <1>5, LayoutFacts
    <2>6. ASSUME NEW m \in {start[l] : l \in 1..n}
          PROVE  (m < i /\ (\A j \in {start[l] : l \in 1..n} : j < i => j <= m))
                    <=> m = start[k]
      <3>1. CASE m = start[k]
        BY <2>1, <2>4, <3>1
      <3>2. CASE m # start[k]
        <4>1. PICK l \in 1..n : m = start[l]
          OBVIOUS
        <4>2. m < i => m < start[k]
          BY <2>1, <2>4, <2>5, <3>2, <4>1
        <4>3. start[k] \in {start[h] : h \in 1..n}
          OBVIOUS
        <4>4. start[k] < i /\ start[k] \in Nat /\ m \in Nat
          BY <2>1, <2>5, <4>1
        <4> QED
          BY <3>2, <4>2, <4>3, <4>4
      <3> QED
        BY <3>1, <3>2
    <2>7. StartOf(s, i) = start[k]
      BY <1>10, <2>3, <2>6 DEF StartOf
    <2> QED
      BY <2>7 DEF i
  <1>12. /\ lines' = [i \in 1..past |-> lines'[i]] /\ Len(lines') = past
         /\ \A i \in 1..past : s[i].type_ # "end" => lines'[i] = [s[i] EXCEPT !.lineno = i]
         /\ \A i \in 1..past : s[i].type_ = "end" =>
               lines'[i] = [s[i] EXCEPT !.lineno = i, !.recordCount = i - StartOf(s, i) + 1]
    <2>1. /\ lines' = [i \in 1..past |-> lines'[i]]
          /\ \A i \in 1..past : s[i].type_ # "end" => lines'[i] = [s[i] EXCEPT !.lineno = i]
          /\ \A i \in 1..past : s[i].type_ = "end" =>
               lines'[i] = [s[i] EXCEPT !.lineno = i, !.recordCount = i - StartOf(s, i) + 1]
      BY <1>1, <1>8 DEF ResolveLineNumbers
    <2> QED
      BY <1>8, <2>1, LenOfFunction
  <1>13. Finished'
    <2>1. lines'[1] = Numbered(FileHeader, 1, 0)
      <3>1. 1 \in 1..past /\ s[1].type_ # "end"
        BY <1>6, <1>8, <1>9
      <3> QED
        BY <1>6, <1>9, <1>12, <3>1 DEF Numbered
    <2>2. lines'[past] = Numbered(Trailer, past, 0)
      <3>1. past \in 1..past /\ Trailer.type_ # "end"
        BY <1>8 DEF Trailer
      <3> QED
        BY <1>8, <1>12, <3>1 DEF Numbered
    <2>3. ASSUME NEW k \in 1..n, NEW j \in 1..Size(batch[k])
          PROVE  lines'[start[k] + j - 1] =
                   Numbered(LinesFor(k, batch[k])[j], start[k] + j - 1, Size(batch[k]))
      <3> DEFINE i == start[k] + j - 1
                 r == LinesFor(k, batch[k])[j]
      <3>1. i \in 1..past /\ s[i] = r
        <4>1. i \in 2..past - 1
          BY <1>2, <1>5, LayoutFacts
        <4> QED
          BY <1>8, <1>9, <4>1
      <3>2. r.type_ = "end" <=> j = Size(batch[k])
        BY <1>3, Kinds
      <3>3. r.type_ = "end" => i - StartOf(s, i) + 1 = Size(batch[k])
        <4>1. /\ start[k + 1] - 1 = start[k] + Size(batch[k]) - 1 /\ start[k] \in Nat
              /\ Size(batch[k]) \in Nat
          BY <1>2, <1>5, Fitting, LayoutFacts
        <4> QED
          BY <1>11, <3>2, <4>1
      <3> HIDE DEF i, r
      <3>4. lines'[i] = Numbered(r, i, Size(batch[k]))
        BY <1>12, <3>1, <3>3 DEF Numbered
      <3> QED
        BY <3>4 DEF i, r
    <2>4. Layout(start, past)'
      BY <1>1, <1>5 DEF Layout
    <2>5. /\ Len(lines') = past /\ batch' = batch /\ Trailer' = Trailer
          /\ \A r : Final(r)' = r
      BY <1>1, <1>12 DEF Trailer, Final
    <2>6. FinishedAt(start)'
      BY <2>3, <2>4, <2>5 DEF FinishedAt
    <2> QED
      BY <1>8, <1>12, <2>1, <2>2, <2>5, <2>6 DEF Finished
  <1>14. RequestsFit' /\ Verdict' /\ outcome' \notin {"building", "raised"}
    BY <1>1, <1>2 DEF RequestsFit, Verdict
  <1> QED
    BY <1>1, <1>13, <1>14 DEF FileInv

(* A formatted file fails the check exactly for its unsendable payloads:   *)
(* the header, the trailer and the numbers never fail it.                  *)
LEMMA CheckOfFile ==
  ASSUME RequestsFit, Finished, outcome # "mailed", outcome # "raised"
  PROVE  FileInvalid(lines) <=> \E k \in 1..Len(batch) : Unsendable(batch[k])
  <1> DEFINE n == Len(batch)
  <1>1. PICK start \in [1..n + 1 -> Nat] : FinishedAt(start)
    BY DEF Finished
  <1>2. /\ Layout(start, Len(lines))
        /\ \A k \in 1..n : \A j \in 1..Size(batch[k]) :
              lines[start[k] + j - 1] =
                Numbered(LinesFor(k, batch[k])[j], start[k] + j - 1, Size(batch[k]))
    BY <1>1 DEF FinishedAt, Final
  <1>3. /\ Len(lines) \in Nat /\ DOMAIN lines = 1..Len(lines) /\ 2 <= Len(lines)
        /\ lines[1] = Numbered(FileHeader, 1, 0)
        /\ lines[Len(lines)] = Numbered(Trailer, Len(lines), 0)
    BY <1>2, LayoutFacts DEF Finished, Final
  <1>4. \A k \in 1..n : batch[k] \in Request /\ Accepted(batch[k]) /\ ~ Raises(batch[k])
    BY Fitting DEF RequestsFit
  <1>5. ~ RecordInvalid(lines[1]) /\ ~ RecordInvalid(lines[Len(lines)])
    BY <1>3 DEF Numbered, FileHeader, Trailer, RecordInvalid, FileHeaderInvalid
  <1>6. ASSUME NEW k \in 1..n, NEW j \in 1..Size(batch[k])
        PROVE  /\ start[k] + j - 1 \in 1..Len(lines)
               /\ LinesFor(k, batch[k])[j] \in Contents(k, batch[k])
               /\ RecordInvalid(lines[start[k] + j - 1])
                     <=> RecordInvalid(LinesFor(k, batch[k])[j])
    <2>1. LinesFor(k, batch[k])[j] \in Contents(k, batch[k])
      BY <1>4, Kinds
    <2>2. start[k] + j - 1 \in 2..Len(lines) - 1
      BY <1>2, LayoutFacts
    <2> QED
      BY <1>2, <1>3, <1>4, <2>1, <2>2, CheckIgnoresNumbers
  <1>7. ASSUME NEW k \in 1..n
        PROVE  (\E j \in 1..Size(batch[k]) : RecordInvalid(LinesFor(k, batch[k])[j]))
                  <=> Unsendable(batch[k])
    <2>1. PICK d \in Request : d = batch[k] /\ Accepted(d) /\ ~ Raises(d)
      BY <1>4
    <2>2. \A r \in Contents(k, d) : \E j \in 1..Size(d) : LinesFor(k, d)[j] = r
      BY LinesShape
    <2>3. \A j \in 1..Size(d) : LinesFor(k, d)[j] \in Contents(k, d)
      BY Kinds
    <2>4. (\E r \in Contents(k, d) : RecordInvalid(r)) <=> Unsendable(d)
      BY <2>1, UnsendableFails
    <2>5. (\E j \in 1..Size(d) : RecordInvalid(LinesFor(k, d)[j])) <=> Unsendable(d)
      BY <2>2, <2>3, <2>4
    <2> QED
      BY <2>1, <2>5
  <1>8. ASSUME FileInvalid(lines)
        PROVE  \E k \in 1..n : Unsendable(batch[k])
    <2>1. PICK i \in 1..Len(lines) : RecordInvalid(lines[i])
      BY <1>3, <1>8 DEF FileInvalid
    <2>2. i \in 2..Len(lines) - 1
      <3>1. i # 1 /\ i # Len(lines)
        BY <1>5, <2>1
      <3>2. Len(lines) \in Nat
        BY <1>3
      <3> QED
        BY <3>1, <3>2
    <2>3. PICK k \in 1..n : \E j \in 1..Size(batch[k]) : i = start[k] + j - 1
      <3>1. PICK past : past = Len(lines)
        OBVIOUS
      <3>2. Layout(start, past) /\ i \in 2..past - 1
        BY <1>2, <2>2, <3>1
      <3>3. \E k \in 1..Len(batch) : \E j \in 1..Size(batch[k]) : i = start[k] + j - 1
        BY <3>2, LayoutCovers
      <3> QED
        BY <3>3
    <2> QED
      BY <1>6, <1>7, <2>1, <2>3
  <1>9. ASSUME NEW k \in 1..n, Unsendable(batch[k])
        PROVE  FileInvalid(lines)
    <2>1. PICK j \in 1..Size(batch[k]) : RecordInvalid(LinesFor(k, batch[k])[j])
      BY <1>7, <1>9
    <2>2. start[k] + j - 1 \in DOMAIN lines /\ RecordInvalid(lines[start[k] + j - 1])
      BY <1>3, <1>6, <2>1
    <2> QED
      BY <2>2 DEF FileInvalid
  <1> QED
    BY <1>8, <1>9

LEMMA ValidateKeeps ==
  ASSUME FileInv, Validate
  PROVE  FileInv'
  <1>1. /\ outcome = "formatted" /\ batch' = batch /\ lines' = lines
        /\ outcome' = IF FileInvalid(lines) THEN "invalid" ELSE "valid"
    BY DEF Validate
  <1>2. RequestsFit /\ Finished
    BY <1>1 DEF FileInv, Complete
  <1>3. outcome' \in {"valid", "invalid"}
    BY <1>1
  <1>4. /\ \A r : Final(r)' = Final(r)
        /\ Trailer' = Trailer
    BY <1>1, <1>3 DEF Final, Trailer
  <1>5. Finished'
    <2>1. PICK start \in [1..Len(batch) + 1 -> Nat] : FinishedAt(start)
      BY <1>2 DEF Finished
    <2>2. FinishedAt(start)'
      BY <1>1, <1>4, <2>1 DEF FinishedAt, Layout
    <2> QED
      BY <1>1, <1>2, <1>4, <2>2 DEF Finished
  <1>6. RequestsFit'
    BY <1>1, <1>2, <1>3 DEF RequestsFit
  <1>7. Verdict'
    BY <1>1 DEF Verdict
  <1> QED
    BY <1>3, <1>5, <1>6, <1>7 DEF FileInv

LEMMA MailKeeps ==
  ASSUME FileInv, SendChiefEmail
  PROVE  FileInv'
  <1> DEFINE n == Len(batch)
  <1>1. /\ outcome = "valid" /\ outcome' = "mailed" /\ batch' = batch
        /\ lines' = Transliterated(lines)
    BY DEF SendChiefEmail
  <1>2. RequestsFit /\ Finished /\ ~ FileInvalid(lines)
    BY <1>1 DEF FileInv, Complete, Verdict
  <1>3. PICK start \in [1..n + 1 -> Nat] : FinishedAt(start)
    BY <1>2 DEF Finished
  <1>4. /\ Layout(start, Len(lines))
        /\ \A k \in 1..n : \A j \in 1..Size(batch[k]) :
              lines[start[k] + j - 1] =
                Numbered(LinesFor(k, batch[k])[j], start[k] + j - 1, Size(batch[k]))
    BY <1>1, <1>3 DEF FinishedAt, Final
  <1>5. /\ Len(lines) \in Nat /\ DOMAIN lines = 1..Len(lines) /\ 2 <= Len(lines)
        /\ lines[1] = Numbered(FileHeader, 1, 0)
        /\ lines[Len(lines)] = Numbered(Trailer, Len(lines), 0)
    BY <1>1, <1>2, <1>4, LayoutFacts DEF Finished, Final
  <1>6. /\ lines' = [i \in 1..Len(lines) |-> Ascii(lines[i])]
    BY <1>1, <1>5 DEF Transliterated, Ascii
  <1>7. /\ Len(lines') = Len(lines) /\ lines' = [i \in 1..Len(lines) |-> lines'[i]]
        /\ \A i \in 1..Len(lines) : lines'[i] = Ascii(lines[i])
    <2>1. lines' = [i \in 1..Len(lines) |-> lines'[i]]
          /\ \A i \in 1..Len(lines) : lines'[i] = Ascii(lines[i])
      BY <1>6
    <2> QED
      BY <1>5, <2>1, LenOfFunction
  <1>8. Finished'
    <2>1. Trailer' = Trailer /\ \A r : Final(r)' = Ascii(r)
      BY <1>1 DEF Trailer, Final
    <2>2. ASSUME NEW k \in 1..n, NEW j \in 1..Size(batch[k])
          PROVE  lines'[start[k] + j - 1] =
                   Ascii(Numbered(LinesFor(k, batch[k])[j], start[k] + j - 1, Size(batch[k])))
      <3>1. start[k] + j - 1 \in 2..Len(lines) - 1
        BY <1>2, <1>4, LayoutFacts
      <3>2. start[k] + j - 1 \in 1..Len(lines)
        BY <1>5, <3>1
      <3> QED
        BY <1>4, <1>7, <3>2
    <2>3. Layout(start, Len(lines))'
      BY <1>1, <1>4, <1>7 DEF Layout
    <2>4. FinishedAt(start)'
      BY <1>1, <2>1, <2>2, <2>3 DEF FinishedAt
    <2>5. 1 \in 1..Len(lines) /\ Len(lines) \in 1..Len(lines)
      BY <1>5
    <2> QED
      BY <1>1, <1>5, <1>7, <2>1, <2>4, <2>5 DEF Finished
  <1>9. \A k \in 1..n : ~ Unsendable(batch[k])
    BY <1>1, <1>2, CheckOfFile
  <1>10. RequestsFit' /\ Verdict'
    BY <1>1, <1>2, <1>9 DEF RequestsFit, Verdict
  <1> QED
    BY <1>1, <1>8, <1>10 DEF FileInv

(* Every step keeps the invariant. *)
LEMMA NextKeeps == FileInv /\ [Next]_vars => FileInv'
  <1>1. ASSUME FileInv, Next PROVE FileInv'
    BY <1>1, WriteKeeps, RaiseKeeps, FormatKeeps, ValidateKeeps, MailKeeps DEF Next
  <1>2. ASSUME FileInv, UNCHANGED vars PROVE FileInv'
    <2>1. batch' = batch /\ lines' = lines /\ outcome' = outcome
      BY <1>2 DEF vars
    <2>2. /\ RequestsFit' = RequestsFit /\ Verdict' = Verdict /\ Complete' = Complete
          /\ Building' = Building /\ Finished' = Finished
      BY <2>1 DEF RequestsFit, Verdict, Complete, Building, WrittenAt, Layout, Finished,
                  FinishedAt, Final, Trailer
    <2> QED
      BY <1>2, <2>1, <2>2 DEF FileInv
  <1> QED
    BY <1>1, <1>2

(* What is in batch and lines in every reachable state: the payloads the   *)
(* API let in, and until the file is formatted their records one licence   *)
(* after the other, afterwards numbered, closed by the trailer and, once   *)
(* mailed, transliterated; with the verdict of the check on them.          *)
THEOREM FileInvariant == Spec => []FileInv
  BY InitInv, NextKeeps, PTL DEF Spec

-----------------------------------------------------------------------------
(* The verdicts. *)

LEMMA RaisingIsUnsendable ==
  ASSUME NEW d \in Request, Accepted(d), Raises(d)
  PROVE  Unsendable(d)
  <1>1. Imports(d)
    BY DEF Raises
  <1>2. CASE d.restrictions = "number"
    BY <1>1, <1>2 DEF Unsendable
  <1>3. ASSUME NEW i \in DOMAIN d.goods, GoodRaises(d.type, d.goods[i])
        PROVE  Unsendable(d)
    <2>1. AcceptedGood(d.type, d.goods[i]) /\ d.type \in {"DFL", "OIL", "SIL", "SAN", "NUCLEAR"}
      BY <1>1 DEF Accepted, Request
    <2>2. d.type = "NUCLEAR" /\ d.goods[i].description = "none"
      BY <1>3, <2>1
         DEF GoodRaises, AcceptedGood, AcceptedControl, AcceptedDescription, AcceptedText
    <2>3. UnsendableGood(d.type, d.goods[i])
      BY <2>2 DEF UnsendableGood
    <2> QED
      BY <1>1, <2>3 DEF Unsendable
  <1> QED
    BY <1>2, <1>3 DEF Raises

(* The file is refused, or the task fails, exactly when some payload is    *)
(* one that no file can carry (validate_edifact_file, the errors raised in *)
(* get_goods and get_restrictions): no other payload costs the file        *)
(* anything.                                                               *)
THEOREM OnePayloadRefuses == Spec => []RefusedForOnePayload
  <1>1. ASSUME FileInv PROVE RefusedForOnePayload
    <2>1. CASE outcome \in {"valid", "invalid"}
      <3>1. /\ RequestsFit /\ Finished /\ outcome # "mailed" /\ outcome # "raised"
            /\ outcome = "valid" => ~ FileInvalid(lines)
            /\ outcome = "invalid" => FileInvalid(lines)
        BY <1>1, <2>1 DEF FileInv, Complete, Verdict
      <3>2. FileInvalid(lines) <=> \E k \in 1..Len(batch) : Unsendable(batch[k])
        BY <3>1, CheckOfFile
      <3> QED
        BY <2>1, <3>1, <3>2 DEF RefusedForOnePayload
    <2>2. CASE outcome = "mailed"
      BY <1>1, <2>2 DEF FileInv, Verdict, RefusedForOnePayload
    <2>3. CASE outcome = "raised"
      <3>1. RequestsFit /\ \E k \in 1..Len(batch) : Raises(batch[k])
        BY <1>1, <2>3 DEF FileInv, RequestsFit
      <3>2. PICK k \in 1..Len(batch) : Raises(batch[k])
        BY <3>1
      <3>3. Unsendable(batch[k])
        BY <3>1, <3>2, Fitting, RaisingIsUnsendable
      <3> QED
        BY <2>3, <3>3 DEF RefusedForOnePayload
    <2> QED
      BY <1>1, <2>1, <2>2, <2>3 DEF RefusedForOnePayload
  <1> QED
    BY <1>1, FileInvariant, PTL

(* A mailed file fails the check exactly for the payloads with text that   *)
(* the transliteration folds into separators or makes too long.            *)
LEMMA CheckOfMail ==
  ASSUME RequestsFit, Finished, Verdict, outcome = "mailed"
  PROVE  FileInvalid(lines) <=> \E k \in 1..Len(batch) : Folds(batch[k])
  <1> DEFINE n == Len(batch)
  <1>1. PICK start \in [1..n + 1 -> Nat] : FinishedAt(start)
    BY DEF Finished
  <1>2. /\ Layout(start, Len(lines))
        /\ \A k \in 1..n : \A j \in 1..Size(batch[k]) :
              lines[start[k] + j - 1] =
                Ascii(Numbered(LinesFor(k, batch[k])[j], start[k] + j - 1, Size(batch[k])))
    BY <1>1 DEF FinishedAt, Final
  <1>3. /\ Len(lines) \in Nat /\ DOMAIN lines = 1..Len(lines) /\ 2 <= Len(lines)
        /\ lines[1] = Ascii(Numbered(FileHeader, 1, 0))
        /\ lines[Len(lines)] = Ascii(Numbered(Trailer, Len(lines), 0))
    BY <1>2, LayoutFacts DEF Finished, Final
  <1>4. \A k \in 1..n : /\ batch[k] \in Request /\ Accepted(batch[k])
                        /\ ~ Raises(batch[k]) /\ ~ Unsendable(batch[k])
    BY Fitting DEF RequestsFit, Verdict
  <1>5. ~ RecordInvalid(lines[1]) /\ ~ RecordInvalid(lines[Len(lines)])
    BY <1>3 DEF Numbered, FileHeader, Trailer, RecordInvalid, FileHeaderInvalid, Ascii, TextField
  <1>6. ASSUME NEW k \in 1..n, NEW j \in 1..Size(batch[k])
        PROVE  /\ start[k] + j - 1 \in 1..Len(lines)
               /\ LinesFor(k, batch[k])[j] \in Contents(k, batch[k])
               /\ RecordInvalid(lines[start[k] + j - 1])
                     <=> RecordInvalid(Ascii(LinesFor(k, batch[k])[j]))
    <2>1. LinesFor(k, batch[k])[j] \in Contents(k, batch[k])
      BY <1>4, Kinds
    <2>2. start[k] + j - 1 \in 2..Len(lines) - 1
      BY <1>2, LayoutFacts
    <2> QED
      BY <1>2, <1>3, <1>4, <2>1, <2>2, CheckIgnoresNumbers
  <1>7. ASSUME NEW k \in 1..n
        PROVE  (\E j \in 1..Size(batch[k]) : RecordInvalid(Ascii(LinesFor(k, batch[k])[j])))
                  <=> Folds(batch[k])
    <2>1. PICK d \in Request : /\ d = batch[k] /\ Accepted(d)
                               /\ ~ Raises(d) /\ ~ Unsendable(d)
      BY <1>4
    <2>2. \A r \in Contents(k, d) : \E j \in 1..Size(d) : LinesFor(k, d)[j] = r
      BY LinesShape
    <2>3. \A j \in 1..Size(d) : LinesFor(k, d)[j] \in Contents(k, d)
      BY Kinds
    <2>4. (\E r \in Contents(k, d) : RecordInvalid(Ascii(r))) <=> Folds(d)
      BY <2>1, FoldingBreaks
    <2>5. (\E j \in 1..Size(d) : RecordInvalid(Ascii(LinesFor(k, d)[j]))) <=> Folds(d)
      BY <2>2, <2>3, <2>4
    <2> QED
      BY <2>1, <2>5
  <1>8. ASSUME FileInvalid(lines)
        PROVE  \E k \in 1..n : Folds(batch[k])
    <2>1. PICK i \in 1..Len(lines) : RecordInvalid(lines[i])
      BY <1>3, <1>8 DEF FileInvalid
    <2>2. i \in 2..Len(lines) - 1
      <3>1. i # 1 /\ i # Len(lines)
        BY <1>5, <2>1
      <3>2. Len(lines) \in Nat
        BY <1>3
      <3> QED
        BY <3>1, <3>2
    <2>3. PICK k \in 1..n : \E j \in 1..Size(batch[k]) : i = start[k] + j - 1
      <3>1. PICK past : past = Len(lines)
        OBVIOUS
      <3>2. Layout(start, past) /\ i \in 2..past - 1
        BY <1>2, <2>2, <3>1
      <3>3. \E k \in 1..Len(batch) : \E j \in 1..Size(batch[k]) : i = start[k] + j - 1
        BY <3>2, LayoutCovers
      <3> QED
        BY <3>3
    <2> QED
      BY <1>6, <1>7, <2>1, <2>3
  <1>9. ASSUME NEW k \in 1..n, Folds(batch[k])
        PROVE  FileInvalid(lines)
    <2>1. PICK j \in 1..Size(batch[k]) : RecordInvalid(Ascii(LinesFor(k, batch[k])[j]))
      BY <1>7, <1>9
    <2>2. start[k] + j - 1 \in DOMAIN lines /\ RecordInvalid(lines[start[k] + j - 1])
      BY <1>3, <1>6, <2>1
    <2> QED
      BY <2>2 DEF FileInvalid
  <1> QED
    BY <1>8, <1>9

(* What HMRC gets passes the check that was made before the file was       *)
(* transliterated (send_chief_email), but for exactly the payloads whose   *)
(* text the transliteration breaks.                                        *)
THEOREM MailPassesButForFolds == Spec => []MailedAsChecked
  <1>1. ASSUME FileInv PROVE MailedAsChecked
    <2>1. CASE outcome = "mailed"
      <3>1. RequestsFit /\ Finished /\ Verdict
        BY <1>1, <2>1 DEF FileInv, Complete
      <3> QED
        BY <2>1, <3>1, CheckOfMail DEF MailedAsChecked
    <2> QED
      BY <2>1 DEF MailedAsChecked
  <1> QED
    BY <1>1, FileInvariant, PTL

-----------------------------------------------------------------------------
(* Reading the file back. *)

(* The fields that the transliteration leaves alone. *)
LEMMA FinalFields ==
  ASSUME NEW ref, NEW d \in Request, NEW r \in Contents(ref, d), NEW i, NEW c,
         NEW m, m = Final(Numbered(r, i, c))
  PROVE  /\ m.type_ = r.type_ /\ m.lineno = i
         /\ r.type_ = "end" => m.recordCount = c
         /\ r.type_ = "licence" => m.transactionRef = r.transactionRef /\ m.action = r.action
         /\ r.type_ = "line" => m.lineNum = r.lineNum
  <1> USE DEF Numbered, Final, Ascii, TextField
  <1>1. CASE r = LicenceLine(ref, d)
    BY <1>1 DEF LicenceLine
  <1>2. CASE r = EndLine
    BY <1>2 DEF EndLine
  <1>3. ASSUME r.type_ \in {"trader", "country", "restrictions"},
               {"type_", "lineno"} \subseteq DOMAIN r, r = [f \in DOMAIN r |-> r[f]]
        PROVE  m.type_ = r.type_ /\ m.lineno = i
    <2>1. Numbered(r, i, c) = [r EXCEPT !.lineno = i]
      BY <1>3
    <2> HIDE DEF Numbered
    <2> QED
      BY <1>3, <2>1
  <1>4. CASE r = TraderLine(d)
    <2>1. r.type_ = "trader" /\ {"type_", "lineno"} \subseteq DOMAIN r
          /\ r = [f \in DOMAIN r |-> r[f]]
      BY <1>4 DEF TraderLine
    <2>2. r.type_ \notin {"end", "licence", "line"}
      BY <2>1
    <2> QED
      BY <1>3, <2>1, <2>2
  <1>5. CASE r \in {CountryLine(d), RestrictionsLine(d)}
    <2>1. r.type_ \in {"country", "restrictions"} /\ {"type_", "lineno"} \subseteq DOMAIN r
          /\ r = [f \in DOMAIN r |-> r[f]]
      BY <1>5 DEF CountryLine, RestrictionsLine
    <2>2. r.type_ \notin {"end", "licence", "line"}
      BY <2>1
    <2> QED
      BY <1>3, <2>1, <2>2
  <1>6. CASE \E g \in DOMAIN d.goods : r = GoodsLine(d, g)
    <2>1. PICK g \in DOMAIN d.goods : r = GoodsLine(d, g)
      BY <1>6
    <2>2. /\ r.type_ = "line" /\ {"type_", "lineno", "lineNum"} \subseteq DOMAIN r
          /\ r = [f \in DOMAIN r |-> r[f]]
      BY <2>1 DEF GoodsLine
    <2>3. Numbered(r, i, c) = [r EXCEPT !.lineno = i]
      BY <2>2
    <2>4. m.type_ = "line" /\ m.lineno = i /\ m.lineNum = r.lineNum
      <3> HIDE DEF Numbered
      <3> QED
        BY <2>2, <2>3
    <2> QED
      BY <2>2, <2>4
  <1> QED
    BY <1>1, <1>2, <1>3, <1>4, <1>5, <1>6 DEF Contents

(* What a reader finds in the file when the licences start at start. *)
ReadAt(start) ==
    /\ Filled(lines, start, Len(lines))
    /\ DOMAIN lines = 1..Len(lines)
    /\ lines[Len(lines)].type_ = "fileTrailer"
    /\ lines[Len(lines)].transactionCount = Len(batch)
    /\ \A i \in 1..Len(lines) : lines[i].type_ \in RecordType /\ lines[i].lineno = i
    /\ \A k \in 1..Len(batch) :
          /\ lines[start[k]].type_ = "licence"
          /\ lines[start[k]].transactionRef = k
          /\ lines[start[k]].action = batch[k].action
          /\ lines[start[k + 1] - 1].recordCount = Size(batch[k])
    /\ \A k \in 1..Len(batch) : \A j \in 1..Size(batch[k]) :
          lines[start[k] + j - 1].type_ = "line" =>
             lines[start[k] + j - 1].lineNum = j - 1 - Before(batch[k])

LEMMA Readable ==
  ASSUME RequestsFit, Finished
  PROVE  \E start : ReadAt(start)
  <1> DEFINE n == Len(batch)
  <1>1. PICK start \in [1..n + 1 -> Nat] : FinishedAt(start)
    BY DEF Finished
  <1>2. /\ Layout(start, Len(lines))
        /\ \A k \in 1..n : \A j \in 1..Size(batch[k]) :
              lines[start[k] + j - 1] =
                Final(Numbered(LinesFor(k, batch[k])[j], start[k] + j - 1, Size(batch[k])))
    BY <1>1 DEF FinishedAt
  <1>3. /\ Len(lines) \in Nat /\ DOMAIN lines = 1..Len(lines) /\ 2 <= Len(lines)
        /\ lines[1] = Final(Numbered(FileHeader, 1, 0))
        /\ lines[Len(lines)] = Final(Numbered(Trailer, Len(lines), 0))
    BY <1>2, LayoutFacts DEF Finished
  <1>4. \A k \in 1..n : batch[k] \in Request
    BY Fitting
  <1>5. lines[1].type_ = "fileHeader" /\ lines[1].lineno = 1
    BY <1>3 DEF Numbered, FileHeader, Final, Ascii, TextField
  <1>6. /\ lines[Len(lines)].type_ = "fileTrailer"
        /\ lines[Len(lines)].lineno = Len(lines)
        /\ lines[Len(lines)].transactionCount = n
    BY <1>3 DEF Numbered, Trailer, Final, Ascii, TextField
  <1>7. ASSUME NEW k \in 1..n, NEW j \in 1..Size(batch[k])
        PROVE  /\ lines[start[k] + j - 1].type_ = LinesFor(k, batch[k])[j].type_
               /\ lines[start[k] + j - 1].type_ \in RecordType
               /\ lines[start[k] + j - 1].lineno = start[k] + j - 1
               /\ j = 1 => /\ lines[start[k] + j - 1].type_ = "licence"
                           /\ lines[start[k] + j - 1].transactionRef = k
                           /\ lines[start[k] + j - 1].action = batch[k].action
               /\ j = Size(batch[k]) =>
                     lines[start[k] + j - 1].recordCount = Size(batch[k])
               /\ lines[start[k] + j - 1].type_ = "line" =>
                     lines[start[k] + j - 1].lineNum = j - 1 - Before(batch[k])
    <2>1. PICK d \in Request : d = batch[k]
      BY <1>4
    <2>2. PICK r : r = LinesFor(k, d)[j]
      OBVIOUS
    <2>3. PICK i : i = start[k] + j - 1
      OBVIOUS
    <2>4. /\ r \in Contents(k, d)
          /\ r.type_ = "licence" <=> j = 1
          /\ r.type_ = "end" <=> j = Size(d)
          /\ r.type_ = "line" => r.lineNum = j - 1 - Before(d)
          /\ j = 1 => r.transactionRef = k /\ r.action = d.action
      BY <2>1, <2>2, Kinds
    <2>5. lines[i] = Final(Numbered(r, i, Size(d)))
      BY <1>2, <2>1, <2>2, <2>3
    <2>6. /\ lines[i].type_ = r.type_ /\ lines[i].lineno = i
          /\ r.type_ = "end" => lines[i].recordCount = Size(d)
          /\ r.type_ = "licence" =>
                lines[i].transactionRef = r.transactionRef /\ lines[i].action = r.action
          /\ r.type_ = "line" => lines[i].lineNum = r.lineNum
      BY <2>4, <2>5, FinalFields
    <2>7. r.type_ \in RecordType
      BY <2>4, NumberedFields
    <2> QED
      BY <2>1, <2>2, <2>3, <2>4, <2>6, <2>7
  <1>8. ASSUME NEW i \in 1..Len(lines)
        PROVE  lines[i].type_ \in RecordType /\ lines[i].lineno = i
    <2>1. CASE i = 1
      BY <1>5, <2>1 DEF RecordType
    <2>2. CASE i = Len(lines)
      BY <1>6, <2>2 DEF RecordType
    <2>3. CASE i # 1 /\ i # Len(lines)
      <3>1. i \in 2..Len(lines) - 1
        <4>1. Len(lines) \in Nat
          BY <1>3
        <4> QED
          BY <2>3, <4>1
      <3>2. PICK k \in 1..n : \E j \in 1..Size(batch[k]) : i = start[k] + j - 1
        BY <1>2, <3>1, LayoutCovers
      <3> QED
        BY <1>7, <3>2
    <2> QED
      BY <2>1, <2>2, <2>3
  <1>9. ASSUME NEW k \in 1..n
        PROVE  /\ lines[start[k]].type_ = "licence"
               /\ lines[start[k]].transactionRef = k
               /\ lines[start[k]].action = batch[k].action
               /\ lines[start[k + 1] - 1].recordCount = Size(batch[k])
    <2>1. /\ 1 \in 1..Size(batch[k]) /\ Size(batch[k]) \in 1..Size(batch[k])
          /\ start[k + 1] - 1 = start[k] + Size(batch[k]) - 1 /\ k \in 1..n + 1
      BY <1>2, LayoutFacts
    <2>2. start[k] + 1 - 1 = start[k]
      BY <2>1
    <2> QED
      BY <1>7, <2>1, <2>2
  <1>10. Filled(lines, start, Len(lines))
    BY <1>2, <1>3, <1>5, <1>6, <1>7 DEF Filled
  <1>11. ReadAt(start)
    BY <1>3, <1>6, <1>7, <1>8, <1>9, <1>10 DEF ReadAt
  <1> QED
    BY <1>11

(* The records of the licences that a task has written so far and, once    *)
(* formatted, the whole file: each of a type of chieftypes, numbered by    *)
(* its place in a formatted file; with the bound and the type of the rest. *)
THEOREM FileTypes == Spec => []TypeOK
  <1>1. ASSUME FileInv PROVE TypeOK
    <2>1. /\ outcome \in {"building", "formatted", "valid", "invalid", "mailed", "raised"}
          /\ RequestsFit
          /\ batch \in Seq(Data) /\ Len(batch) <= MaxLicences
      BY <1>1 DEF FileInv, RequestsFit
    <2>2. CASE outcome \in {"building", "raised"}
      <3>1. lines \in Seq(Written)
        BY <1>1, <2>2 DEF FileInv
      <3>2. ASSUME NEW r \in Written PROVE r.type_ \in RecordType /\ r.lineno = 0
        <4>1. CASE r = FileHeader
          BY <4>1 DEF FileHeader, RecordType
        <4>2. CASE r # FileHeader
          <5>1. PICK ref \in Nat, d \in Data : r \in Contents(ref, d)
            BY <4>2 DEF Written
          <5> QED
            BY <5>1, DataAssumption, NumberedFields
        <4> QED
          BY <4>1, <4>2
      <3>3. \A i \in 1..Len(lines) : lines[i] \in Written
        BY <3>1, ElementOfSeq
      <3> QED
        BY <2>1, <2>2, <3>2, <3>3 DEF TypeOK
    <2>3. CASE outcome \notin {"building", "raised"}
      <3>1. Finished
        BY <1>1, <2>1, <2>3 DEF FileInv, Complete
      <3>2. PICK start : ReadAt(start)
        BY <2>1, <3>1, Readable
      <3> QED
        BY <2>1, <2>3, <3>2 DEF TypeOK, ReadAt
    <2> QED
      BY <2>2, <2>3
  <1> QED
    BY <1>1, FileInvariant, PTL

(* The k-th end record, and the transaction it closes. *)
LEMMA Transactions ==
  ASSUME RequestsFit, Len(lines) \in Nat, NEW start, ReadAt(start)
  PROVE  /\ PlacesOf("end", lines) = {start[k + 1] - 1 : k \in 1..Len(batch)}
         /\ Cardinality(PlacesOf("end", lines)) = Len(batch)
         /\ \A k \in 1..Len(batch) :
               /\ start[k] \in Nat /\ start[k + 1] \in Nat
               /\ start[k + 1] = start[k] + Size(batch[k])
               /\ First(start[k + 1] - 1) = start[k]
               /\ Inside(start[k + 1] - 1) = {start[k] + j - 1 : j \in 2..Size(batch[k]) - 1}
  <1> DEFINE n == Len(batch)
  <1>1. Filled(lines, start, Len(lines)) /\ Layout(start, Len(lines))
    BY DEF ReadAt, Filled
  <1>2. ASSUME NEW k \in 1..n
        PROVE  /\ start[k] \in Nat /\ start[k + 1] \in Nat
               /\ start[k + 1] = start[k] + Size(batch[k])
               /\ Size(batch[k]) \in Nat /\ Size(batch[k]) >= 2
               /\ start[k + 1] <= Len(lines) /\ 2 <= start[k]
    <2>1. k \in 1..n + 1 /\ k + 1 \in 1..n + 1
      BY <1>1, LayoutFacts
    <2>2. /\ start[k] \in Nat /\ start[k + 1] \in Nat
          /\ start[k + 1] <= Len(lines) /\ 2 <= start[k]
      BY <1>1, <2>1, LayoutFacts
    <2>3. start[k + 1] = start[k] + Size(batch[k])
      BY <1>1 DEF Layout
    <2>4. Size(batch[k]) \in Nat /\ Size(batch[k]) >= 2
      BY Fitting
    <2> QED
      BY <2>2, <2>3, <2>4
  <1>3. ASSUME NEW k \in 1..n
        PROVE  /\ First(start[k + 1] - 1) = start[k]
               /\ Inside(start[k + 1] - 1) = {start[k] + j - 1 : j \in 2..Size(batch[k]) - 1}
    <2>1. lines[start[k + 1] - 1].recordCount = Size(batch[k])
      BY DEF ReadAt
    <2>2. First(start[k + 1] - 1) = start[k]
      <3>1. PICK z \in Nat, w \in Nat, y \in Nat :
                   z = start[k] /\ w = Size(batch[k]) /\ y = start[k + 1]
        BY <1>2
      <3>2. y = z + w
        BY <1>2, <3>1
      <3>3. lines[y - 1].recordCount = w
        BY <2>1, <3>1, Zenon
      <3>4. (y - 1) - w + 1 = z
        BY <3>2
      <3>5. First(y - 1) = z
        BY <3>3, <3>4 DEF First
      <3> QED
        BY <3>1, <3>5, Zenon
    <2>3. Inside(start[k + 1] - 1) =
             {m \in 1..Len(lines) : start[k] < m /\ m < start[k + 1] - 1}
      BY <2>2 DEF Inside
    <2>4. ASSUME NEW j \in 2..Size(batch[k]) - 1
          PROVE  /\ start[k] + j - 1 \in 1..Len(lines)
                 /\ start[k] < start[k] + j - 1 /\ start[k] + j - 1 < start[k + 1] - 1
      <3>1. /\ start[k] \in Nat /\ Size(batch[k]) \in Nat /\ start[k + 1] \in Nat
            /\ start[k + 1] = start[k] + Size(batch[k]) /\ start[k + 1] <= Len(lines)
            /\ j \in Int /\ 2 <= j /\ j <= Size(batch[k]) - 1
        BY <1>2
      <3>2. start[k] < start[k] + j - 1 /\ start[k] + j - 1 < start[k + 1] - 1
        BY <3>1
      <3>3. start[k] + j - 1 \in 1..Len(lines)
        BY <3>1
      <3> QED
        BY <3>2, <3>3
    <2>5. ASSUME NEW m \in 1..Len(lines), start[k] < m, m < start[k + 1] - 1
          PROVE  m - start[k] + 1 \in 2..Size(batch[k]) - 1 /\ m = start[k] + (m - start[k] + 1) - 1
      <3>1. PICK z \in Nat, w \in Nat, y \in Nat :
                   z = start[k] /\ w = Size(batch[k]) /\ y = start[k + 1]
        BY <1>2
      <3>2. y = z + w /\ z < m /\ m < z + w - 1
        <4>1. y = z + w
          BY <1>2, <3>1
        <4>2. z < m /\ m < y - 1
          BY <2>5, <3>1
        <4> QED
          BY <4>1, <4>2
      <3>3. m - z + 1 \in 2..w - 1 /\ m = z + (m - z + 1) - 1
        BY <3>2
      <3> QED
        BY <3>1, <3>3
    <2>6. ASSUME NEW m \in 1..Len(lines), start[k] < m, m < start[k + 1] - 1
          PROVE  \E j \in 2..Size(batch[k]) - 1 : m = start[k] + j - 1
      BY <2>5, <2>6
    <2> QED
      BY <2>2, <2>3, <2>4, <2>6
  <1>4. /\ PlacesOf("end", lines) = {start[k + 1] - 1 : k \in 1..n}
        /\ Cardinality(PlacesOf("end", lines)) = n
    BY <1>1, Places
  <1> QED
    BY <1>2, <1>3, <1>4

(* A formatted file can be read back although validate_edifact_file checks *)
(* none of it: format_lines has closed each payload's transaction with the *)
(* right count, in queue order, with nothing between them.                 *)
THEOREM FileReadsBack == Spec => []ReadsBack
  <1>1. ASSUME FileInv, Complete PROVE ReadsBack
    <2> DEFINE n == Len(batch)
               ends == PlacesOf("end", lines)
               last == Len(lines)
    <2>1. RequestsFit /\ Finished /\ Len(lines) \in Nat /\ n \in Nat
      BY <1>1, Fitting DEF FileInv, Finished
    <2>2. PICK start : ReadAt(start)
      BY <2>1, Readable
    <2>3. lines[last].type_ = "fileTrailer" /\ lines[last].transactionCount = n
      BY <2>2 DEF ReadAt
    <2>4. /\ ends = {start[k + 1] - 1 : k \in 1..n} /\ Cardinality(ends) = n
          /\ \A k \in 1..n :
                /\ start[k] \in Nat /\ start[k + 1] \in Nat
                /\ start[k + 1] = start[k] + Size(batch[k])
                /\ First(start[k + 1] - 1) = start[k]
                /\ Inside(start[k + 1] - 1) = {start[k] + j - 1 : j \in 2..Size(batch[k]) - 1}
      BY <2>1, <2>2, Transactions
    <2>5. /\ Layout(start, last) /\ start[n + 1] = last
          /\ \A k, l \in 1..n + 1 : k < l => start[k] < start[l]
      BY <2>2 DEF ReadAt, Filled, Layout
    <2> HIDE DEF ends, n
    <2>6. ASSUME NEW k \in 1..n
          PROVE  Cardinality({f \in ends : f <= start[k + 1] - 1}) = k
      <3> DEFINE T == {f \in ends : f <= start[k + 1] - 1}
                 ending == [l \in 1..k |-> start[l + 1] - 1]
      <3>1. ASSUME NEW l \in 1..n
            PROVE  start[l + 1] - 1 <= start[k + 1] - 1 <=> l <= k
        <4>1. /\ l + 1 \in 1..n + 1 /\ k + 1 \in 1..n + 1
              /\ start[l + 1] \in Nat /\ start[k + 1] \in Nat
          <5>1. l + 1 \in 1..n + 1 /\ k + 1 \in 1..n + 1
            BY <2>1
          <5> QED
            BY <2>4, <5>1
        <4>2. /\ l < k => start[l + 1] < start[k + 1]
              /\ k < l => start[k + 1] < start[l + 1]
          BY <2>5, <4>1
        <4> QED
          BY <4>1, <4>2
      <3>2. \A l \in 1..k : l \in 1..n /\ start[l + 1] - 1 \in T
        BY <2>1, <2>4, <3>1
      <3>3. ending \in [1..k -> T]
        BY <3>2
      <3>4. ASSUME NEW i \in 1..k, NEW l \in 1..k, i # l PROVE ending[i] # ending[l]
        <4>1. i + 1 \in 1..n + 1 /\ l + 1 \in 1..n + 1 /\ (i + 1 < l + 1 \/ l + 1 < i + 1)
          BY <2>1, <3>4
        <4>2. start[i + 1] # start[l + 1] /\ start[i + 1] \in Nat /\ start[l + 1] \in Nat
          <5>1. \A h \in 1..n : start[h + 1] \in Nat
            BY <2>4
          <5>2. start[i + 1] \in Nat /\ start[l + 1] \in Nat
            BY <3>2, <5>1
          <5>3. start[i + 1] < start[l + 1] \/ start[l + 1] < start[i + 1]
            BY <2>5, <4>1
          <5> QED
            BY <5>2, <5>3
        <4> QED
          BY <4>2
      <3>5. ASSUME NEW t \in T PROVE \E l \in 1..k : ending[l] = t
        <4>1. PICK l \in 1..n : t = start[l + 1] - 1
          BY <2>4
        <4>2. l \in 1..k
          BY <3>1, <4>1
        <4> QED
          BY <4>1, <4>2
      <3> HIDE DEF T, ending
      <3>6. Cardinality(T) = k
        BY <3>3, <3>4, <3>5, Counted
      <3> QED
        BY <3>6 DEF T
    <2>7. ASSUME NEW k \in 1..n
          PROVE  \A j \in Inside(start[k + 1] - 1) : lines[j].type_ \notin {"licence", "end"}
      <3>1. ASSUME NEW j \in 2..Size(batch[k]) - 1
            PROVE  lines[start[k] + j - 1].type_ \notin {"licence", "end"}
        <4>1. Size(batch[k]) \in Nat /\ batch[k] \in Request
          BY <2>1, Fitting DEF n
        <4>2. j \in 1..Size(batch[k]) /\ j # 1 /\ j # Size(batch[k])
          BY <4>1
        <4>3. lines[start[k] + j - 1].type_ = LinesFor(k, batch[k])[j].type_
          BY <2>2, <4>2 DEF ReadAt, Filled, n
        <4> QED
          BY <4>1, <4>2, <4>3, Kinds
      <3> QED
        BY <2>4, <3>1
    <2>8. ASSUME NEW k \in 1..n
          PROVE  lines[start[k + 1] - 1 + 1].type_ = IF k = n THEN "fileTrailer" ELSE "licence"
      <3>1. start[k + 1] - 1 + 1 = start[k + 1]
        BY <2>4
      <3>2. CASE k = n
        BY <2>3, <2>5, <3>1, <3>2
      <3>3. CASE k # n
        <4>1. k + 1 \in 1..n
          BY <2>1, <3>3
        <4> QED
          BY <2>2, <3>1, <3>3, <4>1 DEF ReadAt, n
      <3> QED
        BY <3>2, <3>3
    <2>9. ASSUME NEW k \in 1..n
          PROVE  \E e \in ends :
                    /\ Cardinality({f \in ends : f <= e}) = k
                    /\ lines[First(e)].type_ = "licence"
                    /\ lines[First(e)].transactionRef = k
                    /\ lines[First(e)].action = batch[k].action
                    /\ \A j \in Inside(e) : lines[j].type_ \notin {"licence", "end"}
                    /\ lines[e + 1].type_ = IF k = n THEN "fileTrailer" ELSE "licence"
      <3>1. PICK e : e = start[k + 1] - 1
        OBVIOUS
      <3>2. e \in ends /\ First(e) = start[k]
        BY <2>4, <3>1
      <3>3. /\ lines[start[k]].type_ = "licence"
            /\ lines[start[k]].transactionRef = k
            /\ lines[start[k]].action = batch[k].action
        BY <2>2 DEF ReadAt, n
      <3> QED
        BY <2>6, <2>7, <2>8, <3>1, <3>2, <3>3
    <2> QED
      BY <2>3, <2>4, <2>9 DEF ReadsBack, ends, n
  <1>2. FileInv => ReadsBack
    BY <1>1 DEF ReadsBack
  <1> QED
    BY <1>2, FileInvariant, PTL

(* Whatever branch of get_goods a licence type takes, each of its goods is *)
(* on one line of its own transaction, numbered in order.                  *)
THEOREM GoodsWrittenOnce == Spec => []EachGoodOnce
  <1>1. ASSUME FileInv, Complete PROVE EachGoodOnce
    <2>1. RequestsFit /\ Finished /\ Len(lines) \in Nat
      BY <1>1 DEF FileInv, Finished
    <2>2. PICK start : ReadAt(start)
      BY <2>1, Readable
    <2>3. ASSUME NEW e \in PlacesOf("end", lines),
                 NEW d, d = batch[lines[First(e)].transactionRef],
                 NEW goods, goods = {j \in Inside(e) : lines[j].type_ = "line"}
          PROVE  IF Imports(d)
                 THEN /\ Cardinality(goods) = Len(d.goods)
                      /\ {lines[j].lineNum : j \in goods} = 1..Len(d.goods)
                 ELSE Inside(e) = {}
      <3>1. PICK k \in 1..Len(batch) : e = start[k + 1] - 1
        BY <2>1, <2>2, Transactions
      <3>2. /\ start[k] \in Nat /\ First(e) = start[k]
            /\ Inside(e) = {start[k] + j - 1 : j \in 2..Size(batch[k]) - 1}
        BY <2>1, <2>2, <3>1, Transactions
      <3>3. d = batch[k] /\ d \in Request
        <4>1. lines[start[k]].transactionRef = k
          BY <2>2 DEF ReadAt
        <4> QED
          BY <2>1, <2>3, <3>2, <4>1, Fitting
      <3>4. /\ Before(d) \in Nat /\ GoodsOf(d) \in Nat
            /\ Size(d) = Before(d) + GoodsOf(d) + 2
            /\ ~ Imports(d) => Size(d) = 2
        BY <3>3, LinesShape
      <3>5. CASE ~ Imports(d)
        <4>1. 2..Size(batch[k]) - 1 = {}
          BY <3>3, <3>4, <3>5
        <4> QED
          BY <3>2, <3>5, <4>1
      <3>6. CASE Imports(d)
        <4> DEFINE m == GoodsOf(d)
                   b == start[k] + Before(d)
                   place == [i \in 1..m |-> b + i]
        <4>1. m = Len(d.goods) /\ m \in Nat
          BY <3>4, <3>6 DEF GoodsOf
        <4>2. ASSUME NEW j \in 1..Size(d)
              PROVE  /\ lines[start[k] + j - 1].type_ = "line" <=> 1 + Before(d) < j /\ j < Size(d)
                     /\ lines[start[k] + j - 1].type_ = "line" =>
                           lines[start[k] + j - 1].lineNum = j - 1 - Before(d)
          <5>1. /\ lines[start[k] + j - 1].type_ = LinesFor(k, batch[k])[j].type_
                /\ lines[start[k] + j - 1].type_ = "line" =>
                      lines[start[k] + j - 1].lineNum = j - 1 - Before(batch[k])
            BY <2>2, <3>3 DEF ReadAt, Filled
          <5>2. LinesFor(k, d)[j].type_ = "line" <=> 1 + Before(d) < j /\ j < Size(d)
            BY <3>3, Kinds
          <5> QED
            BY <3>3, <5>1, <5>2
        <4>3. ASSUME NEW i \in 1..m
              PROVE  b + i \in goods /\ lines[b + i].lineNum = i
          <5>1. PICK j : j = 1 + Before(d) + i
            OBVIOUS
          <5>2. /\ j \in 1..Size(d) /\ j \in 2..Size(d) - 1 /\ 1 + Before(d) < j /\ j < Size(d)
                /\ start[k] + j - 1 = b + i /\ j - 1 - Before(d) = i
            <6>1. PICK x \in Nat, y \in Nat, z \in Nat, w \in Nat :
                         x = Before(d) /\ y = GoodsOf(d) /\ z = start[k] /\ w = Size(d)
              BY <3>2, <3>4
            <6>2. i \in 1..y /\ w = x + y + 2 /\ j = 1 + x + i
              BY <3>4, <5>1, <6>1
            <6>3. /\ j \in 1..w /\ j \in 2..w - 1 /\ 1 + x < j /\ j < w
                  /\ z + j - 1 = z + x + i /\ j - 1 - x = i
              BY <6>2
            <6> QED
              BY <6>1, <6>3
          <5>3. b + i \in Inside(e)
            BY <3>2, <3>3, <5>2
          <5>4. lines[b + i].type_ = "line" /\ lines[b + i].lineNum = i
            BY <4>2, <5>2
          <5> QED
            BY <2>3, <5>3, <5>4
        <4>4. ASSUME NEW g \in goods
              PROVE  \E i \in 1..m : g = b + i
          <5>1. PICK j \in 2..Size(d) - 1 : g = start[k] + j - 1
            BY <2>3, <3>2, <3>3
          <5>2. lines[g].type_ = "line" /\ j \in 1..Size(d)
            BY <2>3, <3>4
          <5>3. 1 + Before(d) < j /\ j < Size(d)
            BY <4>2, <5>1, <5>2
          <5>4. j - 1 - Before(d) \in 1..m /\ g = b + (j - 1 - Before(d))
            <6>1. PICK x \in Nat, y \in Nat, z \in Nat, w \in Nat :
                         x = Before(d) /\ y = GoodsOf(d) /\ z = start[k] /\ w = Size(d)
              BY <3>2, <3>4
            <6>2. w = x + y + 2 /\ 1 + x < j /\ j < w /\ g = z + j - 1
              BY <3>4, <5>1, <5>3, <6>1
            <6>3. j - 1 - x \in 1..y /\ g = z + x + (j - 1 - x)
              BY <6>2
            <6> QED
              BY <6>1, <6>3
          <5> QED
            BY <5>4
        <4>5. {lines[g].lineNum : g \in goods} = 1..m
          BY <4>3, <4>4
        <4>6. Cardinality(goods) = m
          <5>1. place \in [1..m -> goods]
            BY <4>3
          <5>2. \A i, l \in 1..m : i # l => place[i] # place[l]
            BY <3>2, <3>4
          <5>3. \A g \in goods : \E i \in 1..m : place[i] = g
            BY <4>4
          <5> HIDE DEF place, m, b
          <5> QED
            BY <4>1, <5>1, <5>2, <5>3, Counted
        <4> QED
          BY <3>6, <4>1, <4>5, <4>6
      <3> QED
        BY <3>5, <3>6
    <2> QED
      BY <2>3 DEF EachGoodOnce
  <1>2. FileInv => EachGoodOnce
    BY <1>1 DEF EachGoodOnce
  <1> QED
    BY <1>2, FileInvariant, PTL

=============================================================================
