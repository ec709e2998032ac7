-------------------------- MODULE ConversionProofs --------------------------
(***************************************************************************)
(* Proofs about ProtocolConversion: that every text a client says is sent,  *)
(* that both sides agree on streaming, that complete answers are kept, and *)
(* what is recorded for a stream, for every request, answer, stream and way*)
(* to cut it.                                                              *)
(***************************************************************************)
EXTENDS ProtocolConversion, FiniteSetTheorems, SequenceTheorems, WellFoundedInduction, TLAPS

-----------------------------------------------------------------------------
(***************************************************************************)
(* Min of a set of naturals is one of them and below all of them.          *)
(***************************************************************************)
LEMMA MinOfNaturals ==
  ASSUME NEW S \in SUBSET Nat, S # {}
  PROVE  Min(S) \in S /\ \A y \in S : Min(S) <= y
<1> DEFINE F == {0..y : y \in S}
<1>1. F \subseteq FiniteSubsetsOf(Nat) /\ F # {}
  <2>1. \A y \in S : 0..y \in SUBSET Nat /\ IsFiniteSet(0..y)
    BY FS_Interval
  <2> QED
    BY <2>1 DEF FiniteSubsetsOf
<1>2. PICK X \in F : \A Y \in F : ~(<<Y, X>> \in StrictSubsetOrdering(Nat))
  BY <1>1, FS_StrictSubsetOrderingWellFounded, WFMin
<1>3. PICK x \in S : X = 0..x
  OBVIOUS
<1>4. \A y \in S : x <= y
  <2> SUFFICES ASSUME NEW y \in S, y < x
               PROVE  FALSE
    OBVIOUS
  <2>1. 0..y \in F
    OBVIOUS
  <2>2. /\ 0..y \in SUBSET Nat
        /\ 0..x \in SUBSET Nat
        /\ 0..y \subseteq 0..x
        /\ x \in 0..x
        /\ x \notin 0..y
    OBVIOUS
  <2>3. <<0..y, 0..x>> \in StrictSubsetOrdering(Nat)
    BY <2>2 DEF StrictSubsetOrdering
  <2> QED
    BY <1>2, <1>3, <2>1, <2>3
<1>5. \E m \in S : \A y \in S : m <= y
  BY <1>4
<1> QED
  BY <1>5 DEF Min

(***************************************************************************)
(* Induction, for a set: there would be a least number outside of it.      *)
(***************************************************************************)
LEMMA CountingInduction ==
    ASSUME NEW S, 0 \in S, \A n \in Nat : n \in S => n + 1 \in S
    PROVE  \A n \in Nat : n \in S
<1> SUFFICES ASSUME Nat \ S # {} PROVE FALSE
  OBVIOUS
<1> DEFINE n == Min(Nat \ S)
<1>1. n \in Nat /\ n \notin S /\ \A y \in Nat \ S : n <= y
  BY MinOfNaturals
<1> HIDE DEF n
<1>2. n # 0 /\ n - 1 \in Nat
  BY <1>1
<1>3. n - 1 \in S
  BY <1>1, <1>2
<1>4. (n - 1) + 1 = n
  BY <1>1
<1>5. QED
  BY <1>1, <1>2, <1>3, <1>4

-----------------------------------------------------------------------------
(***************************************************************************)
(* The function by which FlattenSeq is defined: it joins one sequence after*)
(* another.                                                                *)
(***************************************************************************)
Joining(g, ss, i) == IF i = 1 THEN ss[i] ELSE g[i - 1] \o ss[i]

IsFlat(g, ss, n) == g = [i \in 1..n |-> Joining(g, ss, i)]

Flat(ss, n) == CHOOSE g : IsFlat(g, ss, n)

LEMMA FlattenIsFlat ==
    ASSUME NEW ss, Len(ss) # 0
    PROVE  FlattenSeq(ss) = Flat(ss, Len(ss))[Len(ss)]
  BY DEF FlattenSeq, IsFlat, Joining, Flat

LEMMA FlatExists ==
    ASSUME NEW ss, NEW n \in Nat
    PROVE  IsFlat(Flat(ss, n), ss, n)
<1> DEFINE N == {m \in Nat : \E g : IsFlat(g, ss, m)}
<1>1. 0 \in N
  <2>1. IsFlat([i \in 1..0 |-> 0], ss, 0)
    BY DEF IsFlat
  <2>2. QED
    BY <2>1
<1>2. ASSUME NEW m \in Nat, NEW g, IsFlat(g, ss, m)
      PROVE  \E h : IsFlat(h, ss, m + 1)
  <2> DEFINE h == [i \in 1..(m + 1) |-> Joining(g, ss, i)]
  <2>1. \A i \in 1..m : g[i] = h[i]
    BY <1>2 DEF IsFlat
  <2>2. \A i \in 1..(m + 1) : i # 1 => i - 1 \in 1..m
    OBVIOUS
  <2>3. \A i \in 1..(m + 1) : Joining(g, ss, i) = Joining(h, ss, i)
    BY <2>1, <2>2 DEF Joining
  <2>4. h = [i \in 1..(m + 1) |-> Joining(h, ss, i)]
    BY <2>3
  <2>5. QED
    BY <2>4 DEF IsFlat
<1>3. \A m \in Nat : m \in N => m + 1 \in N
  BY <1>2
<1> HIDE DEF N
<1>4. \A m \in Nat : m \in N
  BY <1>1, <1>3, CountingInduction
<1>5. QED
  BY <1>4 DEF N, Flat

(***************************************************************************)
(* Two such functions agree as far as their sequences do, and their values *)
(* are sequences.                                                          *)
(***************************************************************************)
LEMMA FlatAgrees ==
    ASSUME NEW ss, NEW m \in Nat, NEW tt, NEW n \in Nat, m <= n,
           \A i \in 1..m : ss[i] = tt[i]
    PROVE  \A i \in 1..m : Flat(ss, m)[i] = Flat(tt, n)[i]
<1> DEFINE g == Flat(ss, m)
           h == Flat(tt, n)
           N == {k \in Nat : k \in 1..m => g[k] = h[k]}
<1>0. IsFlat(g, ss, m) /\ IsFlat(h, tt, n)
  BY FlatExists
<1> HIDE DEF g, h
<1>1. \A i \in 1..m : g[i] = Joining(g, ss, i) /\ h[i] = Joining(h, tt, i)
  <2>1. \A i \in 1..m : i \in 1..n
    OBVIOUS
  <2>2. QED
    BY <1>0, <2>1 DEF IsFlat
<1>2. 0 \in N
  OBVIOUS
<1>3. ASSUME NEW k \in Nat, k \in N PROVE k + 1 \in N
  <2> SUFFICES ASSUME k + 1 \in 1..m PROVE g[k + 1] = h[k + 1]
    OBVIOUS
  <2>1. CASE k = 0
    BY <1>1, <2>1 DEF Joining
  <2>2. CASE k # 0
    <3>1. k \in 1..m /\ (k + 1) - 1 = k /\ k + 1 # 1
      BY <2>2
    <3>2. g[k] = h[k]
      BY <1>3, <3>1
    <3>3. QED
      BY <1>1, <3>1, <3>2 DEF Joining
  <2>3. QED
    BY <2>1, <2>2
<1> HIDE DEF N
<1>4. \A k \in Nat : k \in N
  BY <1>2, <1>3, CountingInduction
<1>5. QED
  BY <1>4 DEF N, g, h

LEMMA FlatType ==
    ASSUME NEW A, NEW n \in Nat, NEW ss, \A i \in 1..n : ss[i] \in Seq(A)
    PROVE  \A i \in 1..n : Flat(ss, n)[i] \in Seq(A)
<1> DEFINE g == Flat(ss, n)
           N == {k \in Nat : k \in 1..n => g[k] \in Seq(A)}
<1>1. \A i \in 1..n : g[i] = Joining(g, ss, i)
  BY FlatExists DEF IsFlat
<1> HIDE DEF g
<1>2. 0 \in N
  OBVIOUS
<1>3. ASSUME NEW k \in Nat, k \in N PROVE k + 1 \in N
  <2> SUFFICES ASSUME k + 1 \in 1..n PROVE g[k + 1] \in Seq(A)
    OBVIOUS
  <2>1. CASE k = 0
    BY <1>1, <2>1 DEF Joining
  <2>2. CASE k # 0
    <3>1. k \in 1..n /\ (k + 1) - 1 = k /\ k + 1 # 1
      BY <2>2
    <3>2. g[k] \in Seq(A) /\ ss[k + 1] \in Seq(A)
      BY <1>3, <3>1
    <3>3. g[k + 1] = g[k] \o ss[k + 1]
      BY <1>1, <3>1 DEF Joining
    <3>4. QED
      BY <3>2, <3>3
  <2>3. QED
    BY <2>1, <2>2
<1> HIDE DEF N
<1>4. \A k \in Nat : k \in N
  BY <1>2, <1>3, CountingInduction
<1>5. QED
  BY <1>4 DEF N, g

(***************************************************************************)
(* filter_map over a sequence, F giving for each element the sequence of   *)
(* what becomes of it.                                                     *)
(***************************************************************************)
Mapped(F, s, n) == FlattenSeq([i \in 1..n |-> F[s[i]]])

LEMMA MappedNone ==
    ASSUME NEW F, NEW s PROVE Mapped(F, s, 0) = <<>>
<1>1. [i \in 1..0 |-> F[s[i]]] = <<>>
  OBVIOUS
<1>2. QED
  BY <1>1 DEF Mapped, FlattenSeq

FlatMap(F, A, B) == \A a \in A : F[a] \in Seq(B)

LEMMA MappedOneMore ==
    ASSUME NEW F, NEW A, NEW B, FlatMap(F, A, B), NEW s \in Seq(A),
           NEW n \in Nat, n + 1 <= Len(s)
    PROVE  /\ Mapped(F, s, n) \in Seq(B)
           /\ Mapped(F, s, n + 1) = Mapped(F, s, n) \o F[s[n + 1]]
           /\ s[n + 1] \in A /\ F[s[n + 1]] \in Seq(B)
<1> DEFINE m == n + 1
           ss == [i \in 1..n |-> F[s[i]]]
           tt == [i \in 1..m |-> F[s[i]]]
           g == Flat(ss, n)
           h == Flat(tt, m)
<1>1. m \in Nat /\ m # 0 /\ m - 1 = n /\ (m = 1 <=> n = 0) /\ n <= m /\ m \in 1..m
  OBVIOUS
<1>0. \A i \in 1..m : s[i] \in A /\ F[s[i]] \in Seq(B)
  BY DEF FlatMap
<1>2. Len(ss) = n /\ Len(tt) = m
  OBVIOUS
<1>3. Mapped(F, s, n) = FlattenSeq(ss) /\ Mapped(F, s, m) = FlattenSeq(tt)
  BY DEF Mapped
<1>4. /\ \A i \in 1..n : ss[i] = tt[i] /\ ss[i] \in Seq(B)
      /\ tt[m] = F[s[m]] /\ tt[m] \in Seq(B)
  BY <1>0, <1>1
<1> HIDE DEF ss, tt, m
<1>5. h[m] = Joining(h, tt, m)
  BY <1>1, FlatExists DEF IsFlat
<1>6. /\ n # 0 => Mapped(F, s, n) = g[n]
      /\ Mapped(F, s, m) = h[m]
  BY <1>1, <1>2, <1>3, FlattenIsFlat
<1>7. \A i \in 1..n : g[i] = h[i]
  BY <1>1, <1>4, FlatAgrees
<1>8. \A i \in 1..n : g[i] \in Seq(B)
  BY <1>4, FlatType
<1> HIDE DEF g, h
<1>9. CASE n = 0
  <2>1. Mapped(F, s, n) = <<>>
    BY <1>9, MappedNone
  <2>2. h[m] = tt[m]
    BY <1>1, <1>5, <1>9 DEF Joining
  <2>3. QED
    BY <1>4, <1>6, <2>1, <2>2, <1>0, <1>1 DEF m
<1>10. CASE n # 0
  <2>1. h[m] = h[n] \o tt[m]
    BY <1>1, <1>5, <1>10 DEF Joining
  <2>2. n \in 1..n
    BY <1>10
  <2>3. QED
    BY <1>4, <1>6, <1>7, <1>8, <1>10, <2>1, <2>2, <1>0, <1>1 DEF m
<1>11. QED
  BY <1>9, <1>10



All(F, s) == Mapped(F, s, Len(s))

LEMMA MappedPrefix ==
    ASSUME NEW F, NEW s, NEW t, NEW n \in Nat, \A i \in 1..n : s[i] = t[i]
    PROVE  Mapped(F, s, n) = Mapped(F, t, n)
<1>1. [i \in 1..n |-> F[s[i]]] = [i \in 1..n |-> F[t[i]]]
  OBVIOUS
<1>2. QED
  BY <1>1 DEF Mapped

LEMMA AllType ==
    ASSUME NEW F, NEW A, NEW B, FlatMap(F, A, B), NEW s \in Seq(A)
    PROVE  All(F, s) \in Seq(B)
<1>1. Len(s) \in Nat
  OBVIOUS
<1>2. CASE Len(s) = 0
  <2>1. <<>> \in Seq(B)
    OBVIOUS
  <2>2. QED
    BY <1>2, <2>1, MappedNone DEF All
<1>3. CASE Len(s) # 0
  <2> DEFINE k == Len(s) - 1
             r == Mapped(F, s, k)
             e == F[s[k + 1]]
  <2>1. k \in Nat /\ Len(s) = k + 1 /\ k + 1 <= Len(s)
    BY <1>1, <1>3
  <2> HIDE DEF k
  <2>2. r \in Seq(B) /\ e \in Seq(B) /\ Mapped(F, s, k + 1) = r \o e
    BY <2>1, MappedOneMore
  <2> HIDE DEF r, e
  <2>3. Mapped(F, s, k + 1) \in Seq(B)
    <3>1. \A p, q \in Seq(B) : p \o q \in Seq(B)
      BY ConcatProperties
    <3>2. QED
      BY <2>2, <3>1
  <2>4. QED
    BY <2>1, <2>3 DEF All
<1>4. QED
  BY <1>2, <1>3

(***************************************************************************)
(* What becomes of two sequences one after the other.                      *)
(***************************************************************************)
LEMMA AllConcat ==
    ASSUME NEW F, NEW A, NEW B, FlatMap(F, A, B), NEW s \in Seq(A), NEW t \in Seq(A)
    PROVE  All(F, s \o t) = All(F, s) \o All(F, t)
<1> DEFINE u == s \o t
           N == {k \in Nat : k <= Len(t) => Mapped(F, u, Len(s) + k) = All(F, s) \o Mapped(F, t, k)}
<1>1. /\ u \in Seq(A) /\ Len(u) = Len(s) + Len(t)
      /\ Len(s) \in Nat /\ Len(t) \in Nat
      /\ \A i \in 1..Len(s) : u[i] = s[i]
      /\ \A i \in 1..Len(t) : u[Len(s) + i] = t[i]
  OBVIOUS
<1> HIDE DEF u
<1>2. All(F, s) \in Seq(B)
  BY AllType
<1>3. 0 \in N
  <2>1. Mapped(F, u, Len(s)) = All(F, s)
    BY <1>1, MappedPrefix DEF All
  <2>2. Mapped(F, t, 0) = <<>> /\ All(F, s) \o <<>> = All(F, s)
    BY <1>2, MappedNone
  <2>3. Len(s) + 0 = Len(s)
    BY <1>1
  <2>4. QED
    BY <2>1, <2>2, <2>3
<1>4. ASSUME NEW k \in Nat, k \in N PROVE k + 1 \in N
  <2> SUFFICES ASSUME k + 1 <= Len(t)
               PROVE  Mapped(F, u, Len(s) + (k + 1)) = All(F, s) \o Mapped(F, t, k + 1)
    OBVIOUS
  <2> DEFINE n == Len(s) + k
  <2>1. n \in Nat /\ n + 1 = Len(s) + (k + 1) /\ n + 1 <= Len(u) /\ k <= Len(t)
    BY <1>1
  <2>2. u[n + 1] = t[k + 1]
    BY <1>1, <2>1
  <2>3. Mapped(F, u, n) = All(F, s) \o Mapped(F, t, k)
    BY <1>4, <2>1
  <2> HIDE DEF n, N
  <2>4. Mapped(F, u, n + 1) = Mapped(F, u, n) \o F[u[n + 1]]
    <3>1. u \in Seq(A) /\ n \in Nat /\ n + 1 <= Len(u)
      BY <1>1, <2>1
    <3>2. QED
      BY <3>1, MappedOneMore
  <2>5. /\ Mapped(F, t, k) \in Seq(B)
        /\ Mapped(F, t, k + 1) = Mapped(F, t, k) \o F[t[k + 1]]
        /\ F[t[k + 1]] \in Seq(B)
    BY MappedOneMore
  <2>6. (All(F, s) \o Mapped(F, t, k)) \o F[t[k + 1]]
            = All(F, s) \o (Mapped(F, t, k) \o F[t[k + 1]])
    <3>1. \A p, q, r \in Seq(B) : (p \o q) \o r = p \o (q \o r)
      BY ConcatAssociative
    <3>2. QED
      BY <1>2, <2>5, <3>1
  <2>7. QED
    BY <2>1, <2>2, <2>3, <2>4, <2>5, <2>6
<1> HIDE DEF N
<1>5. \A k \in Nat : k \in N
  BY <1>3, <1>4, CountingInduction
<1>6. QED
  BY <1>1, <1>5 DEF N, All, u

(***************************************************************************)
(* Mapping what was mapped is mapping each element through both.           *)
(***************************************************************************)
LEMMA AllTwice ==
    ASSUME NEW F, NEW A, NEW B, FlatMap(F, A, B), NEW G, NEW C, FlatMap(G, B, C),
           NEW H, \A a \in A : H[a] = All(G, F[a]), NEW s \in Seq(A)
    PROVE  All(G, All(F, s)) = All(H, s)
<1> DEFINE N == {k \in Nat : k <= Len(s) => All(G, Mapped(F, s, k)) = Mapped(H, s, k)}
<1>1. FlatMap(H, A, C)
  <2> SUFFICES ASSUME NEW a \in A PROVE H[a] \in Seq(C)
    BY DEF FlatMap
  <2>1. F[a] \in Seq(B)
    BY DEF FlatMap
  <2>2. All(G, F[a]) \in Seq(C)
    BY <2>1, AllType
  <2>3. QED
    BY <2>2
<1>2. 0 \in N
  BY MappedNone DEF All
<1>3. ASSUME NEW k \in Nat, k \in N PROVE k + 1 \in N
  <2> SUFFICES ASSUME k + 1 <= Len(s)
               PROVE  All(G, Mapped(F, s, k + 1)) = Mapped(H, s, k + 1)
    OBVIOUS
  <2> DEFINE a == s[k + 1]
             r == Mapped(F, s, k)
             e == F[a]
  <2>1. /\ r \in Seq(B)
        /\ Mapped(F, s, k + 1) = r \o e
        /\ a \in A /\ e \in Seq(B)
    BY MappedOneMore
  <2>2. Mapped(H, s, k + 1) = Mapped(H, s, k) \o H[a]
    BY <1>1, MappedOneMore
  <2>3. All(G, r) = Mapped(H, s, k)
    <3>1. k <= Len(s)
      OBVIOUS
    <3>2. QED
      BY <1>3, <3>1
  <2> HIDE DEF r, e, N
  <2>4. All(G, r \o e) = All(G, r) \o All(G, e)
    BY <2>1, AllConcat
  <2>5. QED
    BY <2>1, <2>2, <2>3, <2>4 DEF e
<1> HIDE DEF N
<1>4. \A k \in Nat : k \in N
  BY <1>2, <1>3, CountingInduction
<1>5. QED
  BY <1>4 DEF N, All

LEMMA AllOfNone ==
    ASSUME NEW F PROVE All(F, <<>>) = <<>>
  BY MappedNone DEF All

LEMMA AllOfOne ==
    ASSUME NEW F, NEW A, NEW B, FlatMap(F, A, B), NEW a \in A
    PROVE  All(F, <<a>>) = F[a]
<1> DEFINE s == <<a>>
           e == F[a]
<1>1. s \in Seq(A) /\ Len(s) = 1 /\ s[1] = a /\ 0 + 1 <= Len(s) /\ 0 + 1 = 1
  OBVIOUS
<1> HIDE DEF s
<1>2. Mapped(F, s, 0 + 1) = Mapped(F, s, 0) \o F[s[0 + 1]] /\ F[s[0 + 1]] \in Seq(B)
  BY <1>1, MappedOneMore
<1>3. All(F, s) = <<>> \o e /\ e \in Seq(B)
  BY <1>1, <1>2, MappedNone DEF All
<1> HIDE DEF e
<1>4. \A q \in Seq(B) : <<>> \o q = q
  BY ConcatEmptySeq
<1>5. QED
  BY <1>3, <1>4 DEF s, e

-----------------------------------------------------------------------------
(***************************************************************************)
(* A message says what its text parts do, and those are sent.              *)
(***************************************************************************)
TextsOf == [part \in Part |-> TextOf(part)]

Spoken(role) ==
    [part \in Part |-> IF IsText(part) THEN <<<<role, part.text>>>> ELSE <<>>]

Speech == {"user", "assistant"} \X Texts

LEMMA PartsTyped ==
    /\ FlatMap(TextsOf, Part, TextPart)
    /\ FlatMap(TextsOf, Part, Part)
    /\ \A role \in {"user", "assistant"} : FlatMap(Spoken(role), Part, Speech)
<1>1. ASSUME NEW part \in Part
      PROVE  TextsOf[part] \in Seq(TextPart) /\ TextsOf[part] \in Seq(Part)
  <2>1. CASE ~IsText(part)
    <3>1. TextsOf[part] = <<>>
      BY <2>1 DEF TextsOf, TextOf
    <3>2. QED
      BY <3>1
  <2>2. CASE IsText(part)
    <3>1. TextsOf[part] = <<part>> /\ part \in TextPart
      BY <2>2 DEF TextPart, TextsOf, TextOf
    <3>2. QED
      BY <3>1
  <2>3. QED
    BY <2>1, <2>2
<1>2. ASSUME NEW role \in {"user", "assistant"}, NEW part \in Part
      PROVE  Spoken(role)[part] \in Seq(Speech)
  <2>1. CASE ~IsText(part)
    <3>1. Spoken(role)[part] = <<>>
      BY <2>1 DEF Spoken
    <3>2. QED
      BY <3>1
  <2>2. CASE IsText(part)
    <3>1. part.text \in Texts
      BY <2>2 DEF IsText, Part
    <3>2. Spoken(role)[part] = <<<<role, part.text>>>>
      BY <2>2 DEF Spoken
    <3>3. <<role, part.text>> \in Speech
      BY <3>1 DEF Speech
    <3>4. QED
      BY <3>2, <3>3
  <2>3. QED
    BY <2>1, <2>2
<1>3. QED
  BY <1>1, <1>2 DEF FlatMap

LEMMA TextsSayTheSame ==
    ASSUME NEW role \in {"user", "assistant"}, NEW content \in Seq(Part)
    PROVE  All(Spoken(role), All(TextsOf, content)) = All(Spoken(role), content)
<1> DEFINE G == Spoken(role)
<1>1. FlatMap(TextsOf, Part, Part) /\ FlatMap(G, Part, Speech)
  BY PartsTyped
<1>2. ASSUME NEW part \in Part PROVE G[part] = All(G, TextsOf[part])
  <2>1. CASE ~IsText(part)
    <3>1. TextsOf[part] = <<>> /\ G[part] = <<>>
      BY <2>1 DEF TextsOf, TextOf, Spoken
    <3>2. QED
      BY <3>1, AllOfNone
  <2>2. CASE IsText(part)
    <3>1. TextsOf[part] = <<part>>
      BY <2>2 DEF TextsOf, TextOf
    <3> HIDE DEF G
    <3>2. QED
      BY <1>1, <3>1, AllOfOne
  <2>3. QED
    BY <2>1, <2>2
<1> HIDE DEF G
<1>3. All(G, All(TextsOf, content)) = All(G, content)
  BY <1>1, <1>2, AllTwice
<1>4. QED
  BY <1>3 DEF G

LEMMA SaidInParts ==
    ASSUME NEW m, m.content \in Seq(Part)
    PROVE  SaidIn(m) = All(Spoken(IF m.role = Absent THEN "user" ELSE m.role), m.content)
<1> DEFINE role == IF m.role = Absent THEN "user" ELSE m.role
<1>1. m.content \notin {Absent, Null}
  BY ConversionAssumption DEF ConversionAssumption, Contents
<1>2. SaidIn(m) = FlattenSeq([k \in 1..Len(m.content) |->
                      IF IsText(m.content[k]) THEN <<<<role, m.content[k].text>>>> ELSE <<>>])
  BY <1>1 DEF SaidIn
<1>3. \A k \in 1..Len(m.content) : m.content[k] \in Part
  OBVIOUS
<1>4. [k \in 1..Len(m.content) |->
          IF IsText(m.content[k]) THEN <<<<role, m.content[k].text>>>> ELSE <<>>]
          = [k \in 1..Len(m.content) |-> Spoken(role)[m.content[k]]]
  BY <1>3 DEF Spoken
<1>5. QED
  BY <1>2, <1>4 DEF All, Mapped

LEMMA ContentConverted ==
    ASSUME NEW content \in Seq(Part)
    PROVE  /\ content_to_text(content) = All(TextsOf, content)
           /\ content_to_text(content) \in Seq(TextPart)
<1>1. content # Null
  BY ConversionAssumption DEF ConversionAssumption
<1>2. \A k \in 1..Len(content) : content[k] \in Part
  OBVIOUS
<1>3. [k \in 1..Len(content) |-> TextOf(content[k])]
          = [k \in 1..Len(content) |-> TextsOf[content[k]]]
  BY <1>2 DEF TextsOf
<1>4. content_to_text(content) = All(TextsOf, content)
  BY <1>1, <1>3 DEF content_to_text, All, Mapped
<1>5. QED
  BY <1>4, PartsTyped, AllType

-----------------------------------------------------------------------------
(***************************************************************************)
(* A message is sent as one of the other format that says the same, or, if *)
(* it has no content, it says nothing and is not sent.                     *)
(***************************************************************************)
LEMMA MessageConverted ==
    ASSUME NEW m \in Message, m.content # Absent
    PROVE  LET n == [role |-> Role(m), content |-> content_to_text(m.content)]
           IN n \in SentMessage /\ SaidIn(n) = SaidIn(m)
<1> DEFINE role == IF m.role = Absent THEN "user" ELSE m.role
           n == [role |-> Role(m), content |-> content_to_text(m.content)]
<1>1. /\ role \in {"user", "assistant"}
      /\ Role(m) = role
      /\ role # Absent
  BY ConversionAssumption DEF ConversionAssumption, Message, Role
<1>2. n.role = role /\ n.content = content_to_text(m.content)
  BY <1>1
<1>3. CASE m.content = Null
  <2>1. n.content = Null
    BY <1>3 DEF content_to_text
  <2>2. n \in SentMessage
    BY <1>1, <2>1 DEF SentMessage
  <2>3. SaidIn(n) = <<>> /\ SaidIn(m) = <<>>
    BY <1>3, <2>1 DEF SaidIn
  <2>4. QED
    BY <2>2, <2>3
<1>4. CASE m.content # Null
  <2>1. m.content \in Seq(Part)
    BY <1>4 DEF Message, Contents
  <2>2. n.content = All(TextsOf, m.content) /\ n.content \in Seq(TextPart)
    BY <1>2, <2>1, ContentConverted
  <2>3. n \in SentMessage
    BY <1>1, <2>2 DEF SentMessage
  <2>4. n.content \in Seq(Part)
    BY <2>1, <2>2, PartsTyped, AllType
  <2> HIDE DEF n
  <2>5. SaidIn(n) = All(Spoken(role), n.content)
    BY <1>1, <1>2, <2>4, SaidInParts
  <2>6. SaidIn(m) = All(Spoken(role), m.content)
    BY <2>1, SaidInParts
  <2>7. All(Spoken(role), n.content) = All(Spoken(role), m.content)
    BY <1>1, <2>1, <2>2, TextsSayTheSame
  <2>8. QED
    BY <2>3, <2>5, <2>6, <2>7 DEF n
<1>5. QED
  BY <1>3, <1>4

LEMMA SaidInTyped ==
    ASSUME NEW n \in SentMessage PROVE SaidIn(n) \in Seq(Speech)
<1>1. n.role \in {"user", "assistant"} /\ n.role # Absent
  BY ConversionAssumption DEF ConversionAssumption, SentMessage
<1>2. CASE n.content = Null
  BY <1>2 DEF SaidIn
<1>3. CASE n.content # Null
  <2>1. n.content \in Seq(Part)
    <3>1. n.content \in Seq(TextPart)
      BY <1>3 DEF SentMessage
    <3>2. TextPart \subseteq Part
      BY DEF TextPart
    <3>3. QED
      BY <3>1, <3>2
  <2>2. SaidIn(n) = All(Spoken(n.role), n.content)
    BY <1>1, <2>1, SaidInParts
  <2>3. QED
    BY <1>1, <2>1, <2>2, PartsTyped, AllType
<1>4. QED
  BY <1>2, <1>3

(***************************************************************************)
(* A conversation says the same when it is converted, in the same order.   *)
(***************************************************************************)
LEMMA ConversationConverted ==
    ASSUME NEW messages \in Seq(Message)
    PROVE  /\ OpenAiMessages(messages) \in Seq(SentMessage)
           /\ Said(OpenAiMessages(messages)) = Said(messages)
<1> DEFINE F == [m \in Message |-> OpenAiMessage(m)]
           G == [n \in SentMessage |-> SaidIn(n)]
           H == [m \in Message |-> SaidIn(m)]
<1>1. FlatMap(F, Message, SentMessage)
  <2> SUFFICES ASSUME NEW m \in Message PROVE OpenAiMessage(m) \in Seq(SentMessage)
    BY DEF FlatMap
  <2>1. QED
    BY MessageConverted DEF OpenAiMessage
<1>2. FlatMap(G, SentMessage, Speech)
  BY SaidInTyped DEF FlatMap
<1>3. ASSUME NEW m \in Message PROVE H[m] = All(G, F[m])
  <2>1. CASE m.content = Absent
    <3>1. F[m] = <<>> /\ H[m] = <<>>
      BY <2>1 DEF OpenAiMessage, SaidIn
    <3>2. QED
      BY <3>1, AllOfNone
  <2>2. CASE m.content # Absent
    <3> DEFINE n == [role |-> Role(m), content |-> content_to_text(m.content)]
    <3>1. F[m] = <<n>>
      BY <2>2 DEF OpenAiMessage
    <3>2. n \in SentMessage /\ SaidIn(n) = SaidIn(m)
      BY <2>2, MessageConverted
    <3> HIDE DEF n
    <3>3. G[n] = H[m]
      BY <3>2
    <3> HIDE DEF F, G, H
    <3>4. All(G, <<n>>) = G[n]
      BY <1>2, <3>2, AllOfOne
    <3>5. QED
      BY <3>1, <3>3, <3>4
  <2>3. QED
    BY <2>1, <2>2
<1>4. OpenAiMessages(messages) = All(F, messages) /\ Said(messages) = All(H, messages)
  <2>1. \A i \in 1..Len(messages) : messages[i] \in Message
    OBVIOUS
  <2>2. /\ [i \in 1..Len(messages) |-> OpenAiMessage(messages[i])]
               = [i \in 1..Len(messages) |-> F[messages[i]]]
        /\ [i \in 1..Len(messages) |-> SaidIn(messages[i])]
               = [i \in 1..Len(messages) |-> H[messages[i]]]
    BY <2>1
  <2> HIDE DEF F, H
  <2>3. QED
    BY <2>2 DEF OpenAiMessages, Said, All, Mapped
<1>5. ASSUME NEW sm \in Seq(SentMessage) PROVE Said(sm) = All(G, sm)
  <2>1. \A i \in 1..Len(sm) : sm[i] \in SentMessage
    OBVIOUS
  <2>2. [i \in 1..Len(sm) |-> SaidIn(sm[i])] = [i \in 1..Len(sm) |-> G[sm[i]]]
    BY <2>1
  <2> HIDE DEF G
  <2>3. QED
    BY <2>2 DEF Said, All, Mapped
<1> HIDE DEF F, G, H
<1>6. OpenAiMessages(messages) \in Seq(SentMessage)
  BY <1>1, <1>4, AllType
<1>7. All(G, All(F, messages)) = All(H, messages)
  BY <1>1, <1>2, <1>3, AllTwice
<1>8. QED
  BY <1>4, <1>5, <1>6, <1>7

-----------------------------------------------------------------------------
(***************************************************************************)
(* A counter is a number, and the counters of a usage object are usage.    *)
(***************************************************************************)
LEMMA CounterIsNat ==
  ASSUME NEW object \in UsageObject \union {Absent}, NEW name \in CounterNames
  PROVE  Counter(object, name) \in Nat
BY DEF Counter, UsageObject

LEMMA CountedIsUsage ==
  ASSUME NEW object \in UsageObject \union {Absent}
  PROVE  Counted(object) \in TokenUsage /\ Counted(object) # Absent
<1>1. Counted(object) \in TokenUsage
  BY CounterIsNat DEF Counted, TokenUsage, CounterNames
<1> QED
  BY <1>1, ConversionAssumption DEF ConversionAssumption

-----------------------------------------------------------------------------
(***************************************************************************)
(* The cuts before a line of a stream, and that they number the chunks.    *)
(***************************************************************************)
CutsBefore(s, i) == {c \in s.cuts : c < 2 * i - 1}

LEMMA ChunksNumbered ==
  ASSUME NEW s \in Stream, NEW i \in 1..Len(s.lines)
  PROVE  /\ IsFiniteSet(CutsBefore(s, i))
         /\ ChunkOf(s, i) = Cardinality(CutsBefore(s, i))
         /\ ChunkOf(s, i) \in Nat
         /\ ChunkOf(s, i) <= 2 * Len(s.lines) + 1
<1>1. Len(s.lines) \in Nat /\ i \in Nat /\ s.cuts \in SUBSET Nat
  BY DEF Stream
<1>2. CutsBefore(s, i) \in SUBSET (0..(2 * Len(s.lines)))
  BY <1>1 DEF CutsBefore
<1>3. /\ IsFiniteSet(0..(2 * Len(s.lines)))
      /\ Cardinality(0..(2 * Len(s.lines))) = 2 * Len(s.lines) + 1
  <2>1. ASSUME NEW n \in Nat
        PROVE  IsFiniteSet(0..n) /\ Cardinality(0..n) = n + 1
    BY FS_Interval
  <2>2. 2 * Len(s.lines) \in Nat
    BY <1>1
  <2> QED
    BY <2>1, <2>2
<1>4. /\ IsFiniteSet(CutsBefore(s, i))
      /\ Cardinality(CutsBefore(s, i)) <= 2 * Len(s.lines) + 1
  BY <1>2, <1>3, FS_Subset
<1>5. Cardinality(CutsBefore(s, i)) \in Nat
  BY <1>4, FS_CardinalityType
<1>6. ChunkOf(s, i) = Cardinality(CutsBefore(s, i))
  BY DEF ChunkOf, CutsBefore
<1> QED
  BY <1>4, <1>5, <1>6

(***************************************************************************)
(* A cut between two lines puts the later one into a later chunk.          *)
(***************************************************************************)
LEMMA CutSeparates ==
  ASSUME NEW s \in Stream, NEW i \in 1..Len(s.lines), NEW j \in 1..Len(s.lines),
         j < i, NEW c \in s.cuts, 2 * j - 1 <= c, c < 2 * i - 1
  PROVE  ChunkOf(s, j) < ChunkOf(s, i)
<1>1. i \in Nat /\ j \in Nat /\ s.cuts \in SUBSET Nat /\ c \in Nat
  BY DEF Stream
<1>2. CutsBefore(s, j) \in SUBSET CutsBefore(s, i)
  BY <1>1 DEF CutsBefore
<1>3. c \in CutsBefore(s, i) /\ c \notin CutsBefore(s, j)
  BY <1>1 DEF CutsBefore
<1>4. /\ Cardinality(CutsBefore(s, j)) <= Cardinality(CutsBefore(s, i))
      /\ Cardinality(CutsBefore(s, j)) # Cardinality(CutsBefore(s, i))
  BY <1>2, <1>3, ChunksNumbered, FS_Subset
<1> QED
  BY <1>4, ChunksNumbered

(***************************************************************************)
(* If a line can be read there is a last chunk with such a line, and the   *)
(* line that extract_stream_usage takes is one of its readable lines.      *)
(***************************************************************************)
LEMMA LastChunkExists ==
  ASSUME NEW s \in Stream, Readable(s) # {}
  PROVE  Min(InLastChunk(s)) \in InLastChunk(s)
<1> DEFINE bound == 2 * Len(s.lines) + 1
           T == {bound - ChunkOf(s, i) : i \in Readable(s)}
<1>1. Readable(s) \subseteq 1..Len(s.lines) /\ Len(s.lines) \in Nat
  BY DEF Readable, Stream
<1>2. \A i \in Readable(s) : ChunkOf(s, i) \in Nat /\ ChunkOf(s, i) <= bound
  BY <1>1, ChunksNumbered
<1>3. T \in SUBSET Nat /\ T # {}
  BY <1>1, <1>2
<1>4. Min(T) \in T /\ \A y \in T : Min(T) <= y
  BY <1>3, MinOfNaturals
<1>5. PICK i \in Readable(s) : Min(T) = bound - ChunkOf(s, i)
  BY <1>4
<1>6. \A j \in Readable(s) : ChunkOf(s, j) <= ChunkOf(s, i)
  <2> TAKE j \in Readable(s)
  <2>1. bound - ChunkOf(s, j) \in T
    OBVIOUS
  <2>2. bound - ChunkOf(s, i) <= bound - ChunkOf(s, j)
    BY <1>4, <1>5, <2>1
  <2> QED
    BY <2>2, <1>1, <1>2
<1>7. i \in InLastChunk(s)
  BY <1>6 DEF InLastChunk
<1>8. InLastChunk(s) \in SUBSET Nat
  BY <1>1 DEF InLastChunk
<1> QED
  BY <1>7, <1>8, MinOfNaturals

-----------------------------------------------------------------------------
(***************************************************************************)
(* Every stage leaves what its code computes from what was there before:   *)
(* the converters never change the client's body, and nothing overwrites   *)
(* an answer between its being read for usage and its being converted.     *)
(***************************************************************************)
THEOREM ConversionInvariant == Spec => []ConversionInv
<1>1. Init => ConversionInv
  BY ConversionAssumption DEF Init, ConversionInv, ConversionAssumption
<1>2. ConversionInv /\ [Next]_vars => ConversionInv'
  <2> SUFFICES ASSUME ConversionInv, [Next]_vars
               PROVE  ConversionInv'
    OBVIOUS
  <2> USE DEF ConversionInv
  <2>1. CASE ConvertRequest
    BY <2>1 DEF ConvertRequest, convert_request, ClientBody
  <2>2. CASE Retry
    BY <2>2 DEF Retry
  <2>3. CASE Answer
    <3>1. /\ request' = request
          /\ target' = target
          /\ stage' = "tracker"
          /\ is_streaming' <=> is_streaming
          /\ sent' = convert_request'
      BY <2>3 DEF Answer, is_streaming, convert_request, ClientBody
    <3>2. AnswerRead'
      <4>1. CASE ~is_streaming
        <5>1. PICK body \in Documents[target.protocol] \union {Garbage} :
                  answer' = body /\ usage' = extract_response_usage(body)
          BY <2>3, <4>1 DEF Answer
        <5>2. body \in Document \union {Garbage}
          BY <5>1, ConversionAssumption DEF ConversionAssumption, Target
        <5> QED
          BY <3>1, <4>1, <5>1, <5>2 DEF AnswerRead, extract_response_usage
      <4>2. CASE is_streaming
        <5>1. PICK s \in Streams : answer' = s /\ usage' = extract_stream_usage(s)
          BY <2>3, <4>2 DEF Answer
        <5>2. s \in Stream
          BY <5>1, ConversionAssumption DEF ConversionAssumption
        <5>3. usage' = extract_stream_usage(answer')
          BY <5>1
        <5> QED
          BY <3>1, <4>2, <5>1, <5>2, <5>3 DEF AnswerRead
      <4> QED
        BY <4>1, <4>2
    <3> QED
      BY <3>1, <3>2
  <2>4. CASE Track
    BY <2>4 DEF Track, AnswerRead, Tracked, is_streaming, convert_request, ClientBody
  <2>5. CASE ConvertResponse
    BY <2>5 DEF ConvertResponse, AnswerRead, Tracked, Returned, is_streaming,
                convert_request, ClientBody
  <2>6. CASE UNCHANGED vars
    BY <2>6 DEF vars, AnswerRead, Tracked, Returned, convert_request, ClientBody,
                is_streaming
  <2> QED
    BY <2>1, <2>2, <2>3, <2>4, <2>5, <2>6 DEF Next
<1> QED
  BY <1>1, <1>2, PTL DEF Spec

(***************************************************************************)
(* What the converters make of the client's body is a body of the target's *)
(* format, and says what the client said.                                  *)
(***************************************************************************)
LEMMA BodyConverted ==
  ASSUME request \in Request, target \in Target
  PROVE  /\ convert_request \in IF target.protocol = "openai" THEN Body(SentMessage)
                                ELSE Request
         /\ Said(convert_request.messages) = Said(request.messages)
<1>1. request.messages \in Seq(Message) /\ request.fields \in SUBSET Fields
  BY DEF Request, Body
<1>2. target.model \in Models
  BY DEF Target
<1>3. CASE target.protocol = "openai"
  <2>1. convert_request = anthropic_to_openai(request, target.model)
    BY <1>3 DEF convert_request, ClientBody
  <2>2. /\ OpenAiMessages(request.messages) \in Seq(SentMessage)
        /\ Said(OpenAiMessages(request.messages)) = Said(request.messages)
    BY <1>1, ConversationConverted
  <2>3. /\ StreamFlag(request) \in {"true", "false", "other", Absent}
        /\ (request.fields \intersect {"max_tokens", "temperature", "top_p"})
               \union (IF "stop_sequences" \in request.fields THEN {"stop"} ELSE {})
               \in SUBSET Fields
    BY DEF StreamFlag, Fields
  <2>4. convert_request \in Body(SentMessage)
    BY <1>2, <2>1, <2>2, <2>3 DEF anthropic_to_openai, Body
  <2>5. convert_request.messages = OpenAiMessages(request.messages)
    BY <2>1 DEF anthropic_to_openai
  <2>6. QED
    BY <1>3, <2>2, <2>4, <2>5
<1>4. CASE target.protocol # "openai"
  <2>1. convert_request = [request EXCEPT !.model = target.model]
    BY <1>4 DEF convert_request, replace_model, ClientBody
  <2>2. convert_request \in Request /\ convert_request.messages = request.messages
    BY <1>2, <2>1 DEF Request, Body
  <2>3. QED
    BY <1>4, <2>2
<1>5. QED
  BY <1>3, <1>4

(***************************************************************************)
(* Every OpenAI provider that is tried is sent the texts of the client and *)
(* its limits, every Anthropic provider the client's body, for every       *)
(* conversation, however long and however divided into parts of whatever   *)
(* types, and every sequence of attempts.                                  *)
(***************************************************************************)
THEOREM TextsAlwaysKept == Spec => []TextsKept
<1>1. ConversionInv => TextsKept
  <2> SUFFICES ASSUME ConversionInv, stage = "upstream"
               PROVE  IF target.protocol = "anthropic"
                      THEN sent = [request EXCEPT !.model = target.model]
                      ELSE /\ sent.model = target.model
                           /\ Said(sent.messages) = Said(request.messages)
                           /\ {Renamed(f) : f \in request.fields \intersect Limits}
                                  \subseteq sent.fields
                           /\ sent.fields \subseteq {Renamed(f) : f \in request.fields}
    BY DEF TextsKept
  <2>1. sent = convert_request /\ request \in Request /\ target \in Target
    BY DEF ConversionInv
  <2>2. CASE target.protocol = "anthropic"
    BY <2>1, <2>2 DEF convert_request, replace_model, ClientBody
  <2>3. CASE target.protocol = "openai"
    <3>1. Said(sent.messages) = Said(request.messages)
      BY <2>1, BodyConverted
    <3>2. /\ sent.model = target.model
          /\ sent.fields = (request.fields \intersect {"max_tokens", "temperature", "top_p"})
                               \union (IF "stop_sequences" \in request.fields THEN {"stop"}
                                       ELSE {})
      BY <2>1, <2>3 DEF convert_request, anthropic_to_openai, ClientBody
    <3>3. {Renamed(f) : f \in request.fields \intersect Limits} \subseteq sent.fields
      BY <3>2 DEF Renamed, Limits
    <3>4. ASSUME NEW f \in sent.fields
          PROVE  f \in {Renamed(g) : g \in request.fields}
      <4>1. CASE f \in {"max_tokens", "temperature", "top_p"}
        BY <3>2, <4>1 DEF Renamed
      <4>2. CASE f = "stop" /\ "stop_sequences" \in request.fields
        BY <4>2 DEF Renamed
      <4>3. QED
        BY <3>2, <4>1, <4>2
    <3>5. QED
      BY <2>3, <3>1, <3>2, <3>3, <3>4
  <2>4. QED
    BY <2>1, <2>2, <2>3 DEF Target, Protocols
<1> QED
  BY <1>1, ConversionInvariant, PTL

(***************************************************************************)
(* What is read from an answer is usage, or nothing, and what is made of it*)
(* for the client has the form of an answer.                               *)
(***************************************************************************)
LEMMA UsageTyped ==
  /\ \A body \in Document \union {Garbage} :
         extract_response_usage(body) \in {Absent} \union TokenUsage
  /\ \A s \in Stream : extract_stream_usage(s) \in {Absent} \union TokenUsage
<1>1. ASSUME NEW body \in Document \union {Garbage}
      PROVE  extract_response_usage(body) \in {Absent} \union TokenUsage
  <2>1. body # Garbage => body.usage \in UsageObject \union {Absent}
    BY DEF Document
  <2>2. QED
    BY <2>1, CountedIsUsage DEF extract_response_usage
<1>2. ASSUME NEW s \in Stream
      PROVE  extract_stream_usage(s) \in {Absent} \union TokenUsage
  <2>1. CASE Readable(s) = {}
    BY <2>1 DEF extract_stream_usage
  <2>2. CASE Readable(s) # {}
    <3> DEFINE k == Min(InLastChunk(s))
    <3>1. k \in Readable(s)
      BY <2>2, LastChunkExists DEF InLastChunk
    <3>2. s.lines[k] \in UsageObject \union {Absent}
      BY <3>1 DEF Readable, Stream
    <3>3. QED
      BY <2>2, <3>2, CountedIsUsage DEF extract_stream_usage
  <2>3. QED
    BY <2>1, <2>2
<1>3. QED
  BY <1>1, <1>2

LEMMA AnswerTyped ==
  ASSUME NEW body \in Document PROVE openai_to_anthropic(body) \in Document
<1>1. body.text \in Texts \union {Absent} /\ body.usage \in UsageObject \union {Absent}
  BY DEF Document
<1> DEFINE text == IF body.text = Absent THEN "" ELSE body.text
           used == [name \in CounterNames |->
                       CASE name = "input_tokens" -> Counter(body.usage, "prompt_tokens")
                         [] name = "output_tokens" -> Counter(body.usage, "completion_tokens")
                         [] OTHER -> Absent]
<1>2. text \in Texts
  BY <1>1, ConversionAssumption DEF ConversionAssumption
<1>3. StopReason(body.reason) \in Reasons
  BY DEF StopReason, Reasons
<1>4. used \in UsageObject
  <2>1. /\ Counter(body.usage, "prompt_tokens") \in Nat
        /\ Counter(body.usage, "completion_tokens") \in Nat
    BY <1>1, CounterIsNat DEF CounterNames
  <2>2. QED
    BY <2>1 DEF UsageObject
<1>5. openai_to_anthropic(body) = [text |-> text, reason |-> StopReason(body.reason), usage |-> used]
  BY DEF openai_to_anthropic
<1> HIDE DEF text, used
<1>6. QED
  BY <1>2, <1>3, <1>4, <1>5 DEF Document

(***************************************************************************)
(* Every variable of the conversion keeps its type: what a provider is sent*)
(* is of its own format as soon as it is converted.                        *)
(***************************************************************************)
THEOREM ConversionTypeCorrect == Spec => []TypeOK
<1> DEFINE Bounded == 0..MaxRetries
<1>a. /\ 0 \in Bounded
      /\ \A n \in Bounded : n < MaxRetries => n + 1 \in Bounded
  <2>1. MaxRetries \in Nat
    BY ConversionAssumption DEF ConversionAssumption
  <2>2. QED
    BY <2>1
<1>b. TypeOK => retries \in Bounded
  BY DEF TypeOK
<1>1. Init => TypeOK
  <2> SUFFICES ASSUME Init PROVE TypeOK
    OBVIOUS
  <2>1. request \in Request
    BY ConversionAssumption DEF Init, ConversionAssumption
  <2>2. retries \in 0..MaxRetries
    BY <1>a DEF Init
  <2> HIDE DEF Bounded
  <2>3. QED
    BY <2>1, <2>2, Zenon DEF Init, TypeOK
<1>2. TypeOK /\ ConversionInv /\ [Next]_vars => TypeOK'
  <2> SUFFICES ASSUME TypeOK, ConversionInv, [Next]_vars
               PROVE  TypeOK'
    OBVIOUS
  <2>1. CASE ConvertRequest
    <3>1. request \in Request /\ target \in Target
      BY DEF TypeOK
    <3>2. sent' \in IF target.protocol = "openai" THEN Body(SentMessage) ELSE Request
      BY <2>1, <3>1, BodyConverted DEF ConvertRequest
    <3>3. QED
      BY <2>1, <3>2 DEF ConvertRequest, TypeOK
  <2>2. CASE Retry
    <3>1. retries' \in 0..MaxRetries
      BY <2>2, <1>a, <1>b DEF Retry
    <3>2. stage' = "converter" /\ target' \in Target
      BY <2>2 DEF Retry
    <3>3. UNCHANGED <<request, sent, answer, usage, recorded, reply>>
      BY <2>2 DEF Retry
    <3> HIDE DEF Bounded
    <3>4. QED
      BY <3>1, <3>2, <3>3, Zenon DEF TypeOK
  <2>3. CASE Answer
    <3>1. /\ answer' \in {Garbage} \union Document \union Stream
          /\ usage' \in {Absent} \union TokenUsage
      <4>1. CASE ~is_streaming
        <5>1. PICK body \in Documents[target.protocol] \union {Garbage} :
                  answer' = body /\ usage' = extract_response_usage(body)
          BY <2>3, <4>1 DEF Answer
        <5>2. body \in Document \union {Garbage}
          BY <5>1, ConversionAssumption DEF ConversionAssumption, TypeOK, Target
        <5>3. QED
          BY <5>1, <5>2, UsageTyped
      <4>2. CASE is_streaming
        <5>1. PICK s \in Streams : answer' = s /\ usage' = extract_stream_usage(s)
          BY <2>3, <4>2 DEF Answer
        <5>2. s \in Stream
          BY <5>1, ConversionAssumption DEF ConversionAssumption
        <5>3. QED
          BY <5>1, <5>2, UsageTyped
      <4>3. QED
        BY <4>1, <4>2
    <3>2. QED
      BY <2>3, <3>1 DEF Answer, TypeOK
  <2>4. CASE Track
    <3>1. Tracked \in TokenUsage
      BY CountedIsUsage DEF Tracked, TypeOK
    <3>2. QED
      BY <2>4, <3>1 DEF Track, TypeOK
  <2>5. CASE ConvertResponse
    <3>1. Returned \in {Absent, Garbage} \union Document \union Stream
      <4>1. AnswerRead
        BY <2>5 DEF ConvertResponse, ConversionInv
      <4>2. CASE is_streaming \/ target.protocol = "anthropic"
        BY <4>1, <4>2 DEF AnswerRead, Returned
      <4>3. CASE ~is_streaming /\ answer # Garbage
        <5>1. answer \in Document
          BY <4>1, <4>3 DEF AnswerRead
        <5>2. QED
          BY <5>1, AnswerTyped DEF Returned
      <4>4. CASE answer = Garbage
        BY <4>4 DEF Returned
      <4>5. QED
        BY <4>2, <4>3, <4>4
    <3>2. QED
      BY <2>5, <3>1 DEF ConvertResponse, TypeOK
  <2>6. CASE UNCHANGED vars
    BY <2>6 DEF vars, TypeOK
  <2>7. QED
    BY <2>1, <2>2, <2>3, <2>4, <2>5, <2>6 DEF Next
<1>3. QED
  BY <1>1, <1>2, ConversionInvariant, PTL DEF Spec

(***************************************************************************)
(* The forwarder expects a stream exactly when the body that the converter *)
(* made asks for one, for every stream field a client may send.            *)
(***************************************************************************)
THEOREM StreamsAlwaysAgree == Spec => []StreamsAgree
<1>1. ConversionInv => StreamsAgree
  <2> SUFFICES ASSUME ConversionInv, stage = "upstream"
               PROVE  sent.stream = "true" <=> is_streaming
    BY DEF StreamsAgree
  <2>1. sent = convert_request /\ request \in Request
    BY DEF ConversionInv
  <2>2. CASE target.protocol = "openai"
    <3>1. sent.stream = StreamFlag(request)
      BY <2>1, <2>2 DEF convert_request, anthropic_to_openai, ClientBody
    <3> QED
      BY <3>1 DEF StreamFlag, is_streaming
  <2>3. CASE target.protocol # "openai"
    <3>1. sent = [request EXCEPT !.model = target.model]
      BY <2>1, <2>3 DEF convert_request, replace_model, ClientBody
    <3>2. sent.stream = request.stream
      BY <2>1, <3>1 DEF Request, Body
    <3> QED
      BY <3>2 DEF is_streaming
  <2> QED
    BY <2>2, <2>3
<1> QED
  BY <1>1, ConversionInvariant, PTL

(***************************************************************************)
(* No complete answer loses its text, the counters a client is charged by, *)
(* or the mark of having been cut off, whichever protocol it came in.      *)
(***************************************************************************)
THEOREM AnswersAlwaysKept == Spec => []AnswerKept
<1>1. ConversionInv => AnswerKept
  <2> SUFFICES ASSUME ConversionInv, stage = "done",
                      reply \notin {Absent, Garbage}, ~is_streaming
               PROVE  LET names == Names(target.protocol)
                      IN /\ answer.text # Absent => reply.text = answer.text
                         /\ reply.reason = "max_tokens" <=> answer.reason = names.cut
                         /\ Counter(reply.usage, "input_tokens")
                                = Counter(answer.usage, names.in)
                         /\ Counter(reply.usage, "output_tokens")
                                = Counter(answer.usage, names.out)
    BY DEF AnswerKept
  <2>1. /\ reply = Returned
        /\ target \in Target
        /\ answer \in Document \union {Garbage}
    BY DEF ConversionInv, AnswerRead
  <2>2. CASE target.protocol = "anthropic"
    <3>1. reply = answer
      BY <2>1, <2>2 DEF Returned
    <3> QED
      BY <2>2, <3>1 DEF Names
  <2>3. CASE target.protocol = "openai"
    <3>1. reply = openai_to_anthropic(answer) /\ answer \in Document
      BY <2>1, <2>3 DEF Returned
    <3>2. answer.usage \in UsageObject \union {Absent}
      BY <3>1 DEF Document
    <3> DEFINE in == Counter(answer.usage, "prompt_tokens")
               out == Counter(answer.usage, "completion_tokens")
    <3>3. in \in Nat /\ out \in Nat
      BY <3>2, CounterIsNat DEF CounterNames
    <3>4. /\ reply.usage \in UsageObject
          /\ reply.usage["input_tokens"] = in
          /\ reply.usage["output_tokens"] = out
      BY <3>1, <3>3 DEF openai_to_anthropic, UsageObject, CounterNames
    <3>5. /\ Counter(reply.usage, "input_tokens") = in
          /\ Counter(reply.usage, "output_tokens") = out
      BY <3>3, <3>4, ConversionAssumption DEF Counter, ConversionAssumption
    <3>6. /\ answer.text # Absent => reply.text = answer.text
          /\ reply.reason = "max_tokens" <=> answer.reason = "length"
      BY <3>1 DEF openai_to_anthropic, StopReason
    <3> QED
      BY <2>3, <3>5, <3>6 DEF Names
  <2> QED
    BY <2>1, <2>2, <2>3 DEF Target, Protocols
<1> QED
  BY <1>1, ConversionInvariant, PTL

(***************************************************************************)
(* What is recorded for a stream is what one of its lines reports, and what*)
(* the last one does where the network allows, however the lines are cut.  *)
(***************************************************************************)
LEMMA LastLineIsTaken ==
  ASSUME NEW s \in Stream, NEW i \in Readable(s),
         \A j \in Reporting(s) : j <= i,
         AloneInChunk(s, i)
  PROVE  Min(InLastChunk(s)) = i
<1> DEFINE k == Min(InLastChunk(s))
<1>1. k \in InLastChunk(s)
  BY LastChunkExists
<1>2. /\ Readable(s) \subseteq Reporting(s)
      /\ Reporting(s) \subseteq 1..Len(s.lines)
      /\ Len(s.lines) \in Nat
  BY DEF Readable, Reporting, Stream
<1>3. k \in Readable(s) /\ ChunkOf(s, i) <= ChunkOf(s, k)
  BY <1>1 DEF InLastChunk
<1> SUFFICES ASSUME k # i
             PROVE  FALSE
  OBVIOUS
<1>4. k <= i /\ k \in Reporting(s) \ {i}
  BY <1>2, <1>3
<1>5. PICK c \in s.cuts : k < i /\ 2 * k - 1 <= c /\ c < 2 * i - 1
  BY <1>4 DEF AloneInChunk
<1>6. ChunkOf(s, k) < ChunkOf(s, i)
  BY <1>2, <1>3, <1>5, CutSeparates
<1>7. ChunkOf(s, k) \in Nat /\ ChunkOf(s, i) \in Nat
  BY <1>2, <1>3, ChunksNumbered
<1> QED
  BY <1>3, <1>6, <1>7

THEOREM StreamUsageAlwaysReported == Spec => []StreamUsageReported
<1>1. ConversionInv => StreamUsageReported
  <2> SUFFICES ASSUME ConversionInv, stage \in {"back", "done"}, is_streaming
               PROVE  /\ \/ recorded = Counted(Absent)
                         \/ \E i \in Reporting(answer) :
                                recorded = Counted(answer.lines[i])
                      /\ \A i \in Readable(answer) :
                             /\ \A j \in Reporting(answer) : j <= i
                             /\ AloneInChunk(answer, i)
                             => recorded = Counted(answer.lines[i])
    BY DEF StreamUsageReported
  <2>1. /\ answer \in Stream
        /\ usage = extract_stream_usage(answer)
        /\ recorded = Tracked
    BY DEF ConversionInv, AnswerRead
  <2>2. CASE Readable(answer) = {}
    BY <2>1, <2>2 DEF extract_stream_usage, Tracked
  <2>3. CASE Readable(answer) # {}
    <3> DEFINE k == Min(InLastChunk(answer))
    <3>1. k \in Readable(answer)
      BY <2>1, <2>3, LastChunkExists DEF InLastChunk
    <3>2. k \in Reporting(answer) /\ answer.lines[k] \in UsageObject \union {Absent}
      BY <2>1, <3>1 DEF Readable, Reporting, Stream
    <3>3. recorded = Counted(answer.lines[k])
      BY <2>1, <2>3, <3>2, CountedIsUsage DEF extract_stream_usage, Tracked
    <3>4. ASSUME NEW i \in Readable(answer),
                 \A j \in Reporting(answer) : j <= i,
                 AloneInChunk(answer, i)
          PROVE  recorded = Counted(answer.lines[i])
      BY <2>1, <3>3, <3>4, LastLineIsTaken
    <3> QED
      BY <3>2, <3>3, <3>4
  <2> QED
    BY <2>2, <2>3
<1> QED
  BY <1>1, ConversionInvariant, PTL
=============================================================================
