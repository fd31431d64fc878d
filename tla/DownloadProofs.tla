--------------------------- MODULE DownloadProofs ---------------------------
(* What downloads come to, for any number of clients, files and requests.  *)
EXTENDS Download, FiniteSetTheorems, SequenceTheorems, TLAPS

(* Induction and recursion *)

(* Induction, from the pigeonhole principle: a set with 0 that is closed   *)
(* under the successor, but lacks n, would map its numbers up to n one to  *)
(* one to themselves without 0.                                            *)
LEMMA InductiveSets ==
  ASSUME NEW S, 0 \in S, \A k \in Nat : k \in S => k + 1 \in S
  PROVE  Nat \subseteq S
<1> SUFFICES ASSUME NEW n \in Nat, n \notin S PROVE FALSE
  OBVIOUS
<1> DEFINE A == (0..n) \cap S
           B == A \ {0}
           f == [i \in A |-> i + 1]
<1>1. IsFiniteSet(A)
  <2>1. IsFiniteSet(0..n) /\ A \in SUBSET (0..n)
    BY FS_Interval
  <2>2. QED
    BY <2>1, FS_Subset
<1>2. 0 \in A
  OBVIOUS
<1>3. f \in [A -> B]
  OBVIOUS
<1>4. A \subseteq Nat
  OBVIOUS
<1>5. \A x, y \in A : f[x] = f[y] => x = y
  OBVIOUS
<1> HIDE DEF A, f
<1>6. IsFiniteSet(B) /\ Cardinality(B) = Cardinality(A) - 1
  BY <1>1, <1>2, FS_RemoveElement
<1>7. Cardinality(A) \in Nat
  BY <1>1, FS_CardinalityType
<1>8. Cardinality(B) < Cardinality(A)
  BY <1>6, <1>7
<1> HIDE DEF B
<1>9. QED
  BY <1>1, <1>3, <1>5, <1>6, <1>8, FS_PigeonHole

LEMMA LeastNumber ==
  ASSUME NEW T \in SUBSET Nat, T # {}
  PROVE  \E x \in T : \A y \in T : x <= y
<1> DEFINE S == {k \in Nat : \A y \in T : k < y}
<1> SUFFICES ASSUME \A x \in T : \E y \in T : y < x PROVE FALSE
  OBVIOUS
<1>1. 0 \in S
  <2> SUFFICES ASSUME NEW y \in T PROVE 0 < y
    OBVIOUS
  <2>1. QED
    OBVIOUS
<1>2. ASSUME NEW k \in Nat, k \in S PROVE k + 1 \in S
  <2> SUFFICES ASSUME NEW y \in T PROVE k + 1 < y
    OBVIOUS
  <2>1. PICK z \in T : z < y
    OBVIOUS
  <2>2. k < z
    BY <1>2
  <2>3. QED
    BY <2>1, <2>2
<1> HIDE DEF S
<1>3. Nat \subseteq S
  BY <1>1, <1>2, InductiveSets
<1>4. PICK t \in T : TRUE
  OBVIOUS
<1>5. t \in Nat /\ t \in S
  BY <1>3
<1>6. t < t
  BY <1>5 DEF S
<1>7. QED
  BY <1>5, <1>6

(* Recursion: what FlattenSeq is made of is there *)
LEMMA FlattenIsDefined ==
  ASSUME NEW U, NEW s \in Seq(Seq(U)), s # <<>>
  PROVE  \E g : /\ FlattenSeq(s) = g[Len(s)]
                /\ g = [i \in 1..Len(s) |-> IF i = 1 THEN s[i] ELSE g[i - 1] \o s[i]]
<1> DEFINE Flat(g, n) ==
      g = [i \in 1..n |-> IF i = 1 THEN s[i] ELSE g[i - 1] \o s[i]]
           S == {n \in Nat : \E g : Flat(g, n)}
<1>1. 0 \in S
  <2>1. Flat([i \in 1..0 |-> <<>>], 0)
    OBVIOUS
  <2>2. QED
    BY <2>1
<1>2. ASSUME NEW n \in Nat, n \in S PROVE n + 1 \in S
  <2>1. PICK g : Flat(g, n)
    BY <1>2
  <2> DEFINE h == [i \in 1..n + 1 |->
                     IF i = n + 1 THEN IF i = 1 THEN s[i] ELSE g[i - 1] \o s[i] ELSE g[i]]
  <2>2. \A i \in 1..n : h[i] = g[i] /\ i \in 1..n + 1
    OBVIOUS
  <2>3. \A i \in 1..n : g[i] = IF i = 1 THEN s[i] ELSE g[i - 1] \o s[i]
    BY <2>1
  <2>4. ASSUME NEW i \in 1..n + 1
        PROVE  h[i] = IF i = 1 THEN s[i] ELSE h[i - 1] \o s[i]
    <3>1. i # 1 => i - 1 \in 1..n /\ h[i - 1] = g[i - 1]
      BY <2>2
    <3>2. CASE i = n + 1
      BY <3>1, <3>2
    <3>3. CASE i # n + 1
      <4>1. i \in 1..n
        BY <3>3
      <4>2. QED
        BY <2>2, <2>3, <3>1, <4>1
    <3>4. QED
      BY <3>2, <3>3
  <2>5. DOMAIN h = 1..n + 1 /\ h = [i \in 1..n + 1 |-> h[i]]
    OBVIOUS
  <2> HIDE DEF h
  <2>6. h = [i \in 1..n + 1 |-> IF i = 1 THEN s[i] ELSE h[i - 1] \o s[i]]
    BY <2>4, <2>5
  <2>7. \E z : Flat(z, n + 1)
    BY <2>6
  <2>8. n + 1 \in Nat
    OBVIOUS
  <2> HIDE DEF Flat
  <2>9. QED
    BY <2>7, <2>8
<1>3. Len(s) \in Nat /\ Len(s) # 0
  OBVIOUS
<1> HIDE DEF S
<1>4. Len(s) \in S
  BY <1>1, <1>2, <1>3, InductiveSets
<1>5. \E g : Flat(g, Len(s))
  BY <1>4 DEF S
<1> DEFINE made == CHOOSE g : Flat(g, Len(s))
<1>6. Flat(made, Len(s))
  BY <1>5
<1>7. FlattenSeq(s) = made[Len(s)]
  BY <1>3 DEF FlattenSeq
<1>8. QED
  BY <1>6, <1>7

(* Lemma: the parts are all in the whole, and each unit of the whole comes *)
(* after those that come before it in its part.                            *)
Holds(s, h, k) ==
  /\ \A l \in 1..k : \A i \in 1..Len(s[l]) : \E j \in 1..Len(h) : h[j] = s[l][i]
  /\ \A j \in 1..Len(h) : \E l \in 1..k : \E i \in 1..Len(s[l]) :
       i <= j /\ \A e \in 1..i : h[j - i + e] = s[l][e]

LEMMA HoldsMore ==
  ASSUME NEW U, NEW s \in Seq(Seq(U)), NEW h \in Seq(U), NEW k \in Nat,
         k + 1 \in 1..Len(s), Holds(s, h, k)
  PROVE  Holds(s, h \o s[k + 1], k + 1)
<1> DEFINE p == s[k + 1]
           w == h \o p
<1>1. p \in Seq(U) /\ Len(p) \in Nat /\ Len(h) \in Nat
  OBVIOUS
<1> HIDE DEF p
<1>2. /\ Len(w) = Len(h) + Len(p)
      /\ \A j \in 1..Len(h) : w[j] = h[j]
      /\ \A i \in 1..Len(p) : w[Len(h) + i] = p[i]
  BY <1>1
<1> HIDE DEF w
<1>3. ASSUME NEW l \in 1..k + 1, NEW i \in 1..Len(s[l])
      PROVE  \E j \in 1..Len(w) : w[j] = s[l][i]
  <2>1. CASE l = k + 1
    <3>1. i \in 1..Len(p) /\ s[l][i] = p[i]
      BY <2>1 DEF p
    <3>2. Len(h) + i \in 1..Len(w) /\ w[Len(h) + i] = p[i]
      BY <1>1, <1>2, <3>1
    <3>3. QED
      BY <3>1, <3>2
  <2>2. CASE l # k + 1
    <3>1. l \in 1..k
      BY <2>2
    <3>2. PICK j \in 1..Len(h) : h[j] = s[l][i]
      BY <3>1 DEF Holds
    <3>3. j \in 1..Len(w) /\ w[j] = h[j]
      BY <1>1, <1>2
    <3>4. QED
      BY <3>2, <3>3
  <2>3. QED
    BY <2>1, <2>2
<1>4. ASSUME NEW j \in 1..Len(w)
      PROVE  \E l \in 1..k + 1 : \E i \in 1..Len(s[l]) :
               i <= j /\ \A e \in 1..i : w[j - i + e] = s[l][e]
  <2>1. CASE j <= Len(h)
    <3>1. j \in 1..Len(h)
      BY <1>1, <2>1
    <3>2. PICK l \in 1..k : \E i \in 1..Len(s[l]) :
            i <= j /\ \A e \in 1..i : h[j - i + e] = s[l][e]
      BY <3>1 DEF Holds
    <3>3. PICK i \in 1..Len(s[l]) : i <= j /\ \A e \in 1..i : h[j - i + e] = s[l][e]
      BY <3>2
    <3>4. i \in Nat /\ l \in 1..k + 1
      <4>1. s[l] \in Seq(U)
        OBVIOUS
      <4>2. QED
        BY <4>1
    <3>5. \A e \in 1..i : w[j - i + e] = s[l][e]
      <4> SUFFICES ASSUME NEW e \in 1..i PROVE w[j - i + e] = s[l][e]
        OBVIOUS
      <4>1. j - i + e \in 1..Len(h)
        BY <1>1, <3>1, <3>3, <3>4
      <4>2. QED
        BY <1>2, <3>3, <4>1
    <3>6. QED
      BY <3>3, <3>4, <3>5
  <2>2. CASE ~(j <= Len(h))
    <3> DEFINE i == j - Len(h)
    <3>1. i \in 1..Len(p) /\ i <= j /\ j - i = Len(h)
      BY <1>1, <1>2, <2>2
    <3>2. \A e \in 1..i : w[j - i + e] = p[e]
      <4> SUFFICES ASSUME NEW e \in 1..i PROVE w[j - i + e] = p[e]
        OBVIOUS
      <4>1. e \in 1..Len(p) /\ j - i + e = Len(h) + e
        BY <1>1, <3>1
      <4>2. QED
        BY <1>2, <4>1
    <3> HIDE DEF i
    <3>3. k + 1 \in 1..k + 1
      OBVIOUS
    <3>4. QED
      BY <3>1, <3>2, <3>3 DEF p
  <2>3. QED
    BY <2>1, <2>2
<1>5. QED
  BY <1>3, <1>4 DEF Holds, w, p

LEMMA FlattenHolds ==
  ASSUME NEW U, NEW s \in Seq(Seq(U))
  PROVE  FlattenSeq(s) \in Seq(U) /\ Holds(s, FlattenSeq(s), Len(s))
<1>1. CASE s = <<>>
  <2>1. FlattenSeq(s) = <<>>
    BY <1>1 DEF FlattenSeq
  <2>2. Len(<<>>) = 0 /\ <<>> \in Seq(U)
    OBVIOUS
  <2>3. Holds(s, <<>>, 0)
    BY <2>2 DEF Holds
  <2>4. QED
    BY <1>1, <2>1, <2>2, <2>3
<1>2. CASE s # <<>>
  <2>1. PICK g : /\ FlattenSeq(s) = g[Len(s)]
                 /\ g = [i \in 1..Len(s) |->
                          IF i = 1 THEN s[i] ELSE g[i - 1] \o s[i]]
    BY <1>2, FlattenIsDefined
  <2>2. \A i \in 1..Len(s) : g[i] = IF i = 1 THEN s[i] ELSE g[i - 1] \o s[i]
    BY <2>1
  <2> DEFINE Good(n) ==
        n \in 1..Len(s) => g[n] \in Seq(U) /\ Holds(s, g[n], n)
             S == {n \in Nat : Good(n)}
  <2>3. 0 \in S
    OBVIOUS
  <2>4. ASSUME NEW n \in Nat, n \in S PROVE n + 1 \in S
    <3>1. ASSUME n + 1 \in 1..Len(s)
          PROVE  g[n + 1] \in Seq(U) /\ Holds(s, g[n + 1], n + 1)
      <4>1. CASE n = 0
        <5>1. g[1] = s[1] /\ s[1] \in Seq(U)
          BY <2>2, <3>1, <4>1
        <5>2. Holds(s, <<>>, 0)
          <6>1. Len(<<>>) = 0
            OBVIOUS
          <6>2. QED
            BY <6>1 DEF Holds
        <5>3. <<>> \in Seq(U) /\ 0 \in Nat /\ 0 + 1 = 1
          OBVIOUS
        <5>4. Holds(s, <<>> \o s[0 + 1], 0 + 1)
          BY <3>1, <4>1, <5>2, <5>3, HoldsMore
        <5>5. <<>> \o s[1] = s[1]
          BY <5>1
        <5>6. QED
          BY <4>1, <5>1, <5>3, <5>4, <5>5
      <4>2. CASE n # 0
        <5>1. n \in 1..Len(s) /\ n + 1 # 1 /\ (n + 1) - 1 = n
          BY <3>1, <4>2
        <5>2. g[n] \in Seq(U) /\ Holds(s, g[n], n)
          BY <2>4, <5>1
        <5>3. g[n + 1] = g[n] \o s[n + 1]
          BY <2>2, <3>1, <5>1
        <5>4. s[n + 1] \in Seq(U)
          BY <3>1
        <5>5. g[n + 1] \in Seq(U)
          BY <5>2, <5>3, <5>4
        <5>6. Holds(s, g[n] \o s[n + 1], n + 1)
          BY <3>1, <5>2, HoldsMore
        <5>7. QED
          BY <5>3, <5>5, <5>6
      <4>3. QED
        BY <4>1, <4>2
    <3>2. QED
      BY <3>1
  <2>5. Len(s) \in Nat /\ Len(s) \in 1..Len(s)
    BY <1>2
  <2> HIDE DEF S
  <2>6. Len(s) \in S
    BY <2>3, <2>4, <2>5, InductiveSets
  <2>7. QED
    BY <2>1, <2>5, <2>6 DEF S
<1>3. QED
  BY <1>1, <1>2
-----------------------------------------------------------------------------
(* The layout of an archive *)

LEMMA Constants ==
  /\ FileCount \in Nat /\ File = 1..FileCount /\ MaxRequests \in Nat \ {0}
  /\ Listed \in [File -> Nat] /\ Length \in [File -> Nat]
  /\ \A f \in File : Listed[f] = 0 => Length[f] = 0
  /\ \A f \in File : Listed[f] <= Length[f]
  /\ \A f, g \in File : BlobOf[f] = BlobOf[g] =>
       Listed[f] = Listed[g] /\ Length[f] = Length[g]
  /\ None \notin Client
BY DownloadAssumption DEF DownloadAssumption, File

LEMMA SizesAreNumbers == Sizes \subseteq Nat
BY Constants DEF Sizes

LEMMA ManifestTyped ==
  ASSUME NEW m \in Manifests
  PROVE  /\ DOMAIN m \subseteq File /\ DOMAIN m \subseteq Nat
         /\ \A f \in DOMAIN m : m[f] \in Sizes /\ m[f] \in Nat
         /\ IsFiniteSet(DOMAIN m) /\ Cardinality(DOMAIN m) \in Nat
<1>1. PICK S \in SUBSET File : m \in [S -> Sizes]
  BY DEF Manifests
<1>2. DOMAIN m = S /\ \A f \in S : m[f] \in Sizes
  BY <1>1
<1>3. File \subseteq Nat /\ IsFiniteSet(File)
  BY Constants, FS_Interval
<1>4. IsFiniteSet(S) /\ Cardinality(S) \in Nat
  BY <1>3, FS_Subset, FS_CardinalityType
<1>5. QED
  BY <1>2, <1>3, <1>4, SizesAreNumbers

Kinds == {"header", "byte", "descriptor", "record", "end"}
Units == [kind : Kinds, file : Nat, n : Nat, crc : {None}]

Planned(m, u) ==
  /\ u.kind # "end" => u.file \in DOMAIN m
  /\ u.kind = "byte" => u.n \in 1..m[u.file]

UnitsOf(m) == {u \in Units : Planned(m, u)}

LastByte(m, f, u) == u.kind = "byte" /\ u.file = f /\ u.n = m[f]

(* In front of what needs the CRC of a file are all of its bytes, and in   *)
(* front of a byte are those before it.                                    *)
BytesFirst(m, s) ==
  \A i \in 1..Len(s) :
    /\ s[i].kind = "byte" => s[i].n < i
    /\ s[i].kind = "descriptor" /\ m[s[i].file] > 0 =>
         \E j \in 1..i - 1 : LastByte(m, s[i].file, s[j])
    /\ s[i].kind \in {"record", "end"} =>
         \A f \in DOMAIN m : m[f] > 0 => \E j \in 1..i - 1 : LastByte(m, f, s[j])

LEMMA UnitParts ==
  ASSUME NEW kind, NEW f, NEW n
  PROVE  /\ Unit(kind, f, n).kind = kind /\ Unit(kind, f, n).file = f
         /\ Unit(kind, f, n).n = n /\ Unit(kind, f, n).crc = None
BY DEF Unit

LEMMA Framed ==
  ASSUME NEW U, NEW n \in Nat, NEW head \in Seq(U), NEW body \in Seq(U),
         NEW tail \in Seq(U)
  PROVE  LET s == head \o body \o tail
         IN Len(head) = 1 /\ Len(body) = n /\ Len(tail) = 1 =>
              /\ s \in Seq(U) /\ Len(s) = n + 2 /\ s[1] = head[1]
              /\ \A i \in 1..n : s[i + 1] = body[i]
              /\ s[n + 2] = tail[1]
<1> DEFINE r == head \o body
           s == r \o tail
<1>1. /\ r \in Seq(U) /\ s \in Seq(U) /\ Len(r) \in Nat
      /\ Len(head) \in Nat /\ Len(body) \in Nat /\ Len(tail) \in Nat
  OBVIOUS
<1>2. /\ Len(r) = Len(head) + Len(body)
      /\ \A i \in 1..Len(head) : r[i] = head[i]
      /\ \A i \in 1..Len(body) : r[Len(head) + i] = body[i]
  BY <1>1
<1> HIDE DEF r
<1>3. /\ Len(s) = Len(r) + Len(tail)
      /\ \A i \in 1..Len(r) : s[i] = r[i]
      /\ \A i \in 1..Len(tail) : s[Len(r) + i] = tail[i]
  BY <1>1
<1>4. head \o body \o tail = s
  BY DEF r
<1> HIDE DEF s
<1> SUFFICES ASSUME Len(head) = 1, Len(body) = n, Len(tail) = 1
             PROVE  /\ s \in Seq(U) /\ Len(s) = n + 2 /\ s[1] = head[1]
                    /\ \A i \in 1..n : s[i + 1] = body[i]
                    /\ s[n + 2] = tail[1]
  BY <1>4
<1>5. Len(r) = n + 1 /\ Len(s) = n + 2 /\ s[n + 2] = tail[1]
  <2>1. Len(r) = n + 1 /\ 1 \in 1..Len(tail)
    BY <1>2
  <2>2. (n + 1) + 1 = n + 2
    OBVIOUS
  <2>3. QED
    BY <1>3, <2>1, <2>2
<1>6. s[1] = head[1]
  <2>1. 1 \in 1..Len(head) /\ 1 \in 1..Len(r)
    BY <1>5
  <2>2. QED
    BY <1>2, <1>3, <2>1
<1>7. ASSUME NEW i \in 1..n PROVE s[i + 1] = body[i]
  <2>1. 1 + i = i + 1 /\ i + 1 \in 1..Len(r)
    BY <1>5
  <2>2. QED
    BY <1>2, <1>3, <2>1
<1>8. QED
  BY <1>1, <1>5, <1>6, <1>7

LEMMA FileUnitsAre ==
  ASSUME NEW m \in Manifests, NEW f \in DOMAIN m
  PROVE  LET s == FileUnits(f, m[f])
         IN /\ s \in Seq(UnitsOf(m)) /\ Len(s) = m[f] + 2
            /\ s[1] = Unit("header", f, 0)
            /\ \A i \in 1..m[f] : s[i + 1] = Unit("byte", f, i)
            /\ s[m[f] + 2] = Unit("descriptor", f, m[f])
<1> DEFINE n == m[f]
           head == <<Unit("header", f, 0)>>
           body == [i \in 1..n |-> Unit("byte", f, i)]
           tail == <<Unit("descriptor", f, n)>>
           U == UnitsOf(m)
<1>1. n \in Nat /\ f \in Nat
  BY ManifestTyped
<1>2. /\ Unit("header", f, 0) \in U /\ Unit("descriptor", f, n) \in U
      /\ \A i \in 1..n : Unit("byte", f, i) \in U
  BY <1>1 DEF Unit, UnitsOf, Units, Planned, Kinds
<1> HIDE DEF U, n
<1>3. body \in Seq(U) /\ Len(body) = n /\ \A i \in 1..n : body[i] = Unit("byte", f, i)
  BY <1>1, <1>2
<1>4. /\ head \in Seq(U) /\ Len(head) = 1 /\ head[1] = Unit("header", f, 0)
      /\ tail \in Seq(U) /\ Len(tail) = 1 /\ tail[1] = Unit("descriptor", f, n)
  BY <1>2
<1> HIDE DEF head, body, tail
<1> DEFINE s == head \o body \o tail
<1>6. /\ s \in Seq(U) /\ Len(s) = n + 2 /\ s[1] = head[1]
      /\ \A i \in 1..n : s[i + 1] = body[i]
      /\ s[n + 2] = tail[1]
  BY <1>1, <1>3, <1>4, Framed, SMTT(30)
<1>7. s = FileUnits(f, m[f])
  BY DEF FileUnits, s, head, body, tail, n
<1> HIDE DEF s
<1>8. QED
  BY <1>3, <1>4, <1>6, <1>7 DEF U, n

(* Lemma: every file has its part, and there is nothing else.              *)
LEMMA FilesAre ==
  ASSUME NEW m \in Manifests
  PROVE  /\ Files(m) \in Seq(UnitsOf(m))
         /\ \A j \in 1..Len(Files(m)) :
              /\ Files(m)[j].kind \in {"header", "byte", "descriptor"}
              /\ Files(m)[j].kind = "byte" => Files(m)[j].n < j
              /\ Files(m)[j].kind = "descriptor" /\ m[Files(m)[j].file] > 0 =>
                   \E i \in 1..j - 1 : LastByte(m, Files(m)[j].file, Files(m)[i])
         /\ \A f \in DOMAIN m : m[f] > 0 =>
              \E j \in 1..Len(Files(m)) : LastByte(m, f, Files(m)[j])
<1> DEFINE U == UnitsOf(m)
           s == [f \in File |-> IF f \in DOMAIN m THEN FileUnits(f, m[f]) ELSE <<>>]
           h == FlattenSeq(s)
<1>1. /\ DOMAIN m \subseteq File /\ FileCount \in Nat /\ File = 1..FileCount
      /\ \A f \in DOMAIN m : m[f] \in Nat
  BY Constants, ManifestTyped
<1>2. \A f \in File : s[f] = IF f \in DOMAIN m THEN FileUnits(f, m[f]) ELSE <<>>
  OBVIOUS
<1>3. s \in Seq(Seq(U)) /\ Len(s) = FileCount
  <2>1. \A f \in File : s[f] \in Seq(U)
    BY <1>2, FileUnitsAre
  <2>2. s = [f \in File |-> s[f]]
    OBVIOUS
  <2> HIDE DEF s, U
  <2>3. s \in [1..FileCount -> Seq(U)]
    BY <1>1, <2>1, <2>2
  <2>4. QED
    BY <1>1, <2>3
<1> HIDE DEF s
<1>4. h \in Seq(U) /\ Holds(s, h, FileCount)
  BY <1>3, FlattenHolds
<1>5. h = Files(m)
  BY DEF h, s, Files
<1> HIDE DEF h, U
<1>6. ASSUME NEW j \in 1..Len(h)
      PROVE  /\ h[j].kind \in {"header", "byte", "descriptor"}
             /\ h[j].kind = "byte" => h[j].n < j
             /\ h[j].kind = "descriptor" /\ m[h[j].file] > 0 =>
                  \E i \in 1..j - 1 : LastByte(m, h[j].file, h[i])
  <2>1. PICK f \in 1..FileCount : \E i \in 1..Len(s[f]) :
          i <= j /\ \A e \in 1..i : h[j - i + e] = s[f][e]
    BY <1>4 DEF Holds
  <2>2. PICK i \in 1..Len(s[f]) : i <= j /\ \A e \in 1..i : h[j - i + e] = s[f][e]
    BY <2>1
  <2>3. CASE f \notin DOMAIN m
    <3>1. s[f] = <<>>
      BY <1>1, <1>2, <2>3
    <3>2. QED
      BY <2>2, <3>1
  <2>4. CASE f \in DOMAIN m
    <3> DEFINE n == m[f]
               p == FileUnits(f, n)
    <3>1. s[f] = p
      BY <1>1, <1>2, <2>4
    <3>2. /\ n \in Nat /\ Len(p) = n + 2 /\ p[1] = Unit("header", f, 0)
          /\ \A e \in 1..n : p[e + 1] = Unit("byte", f, e)
          /\ p[n + 2] = Unit("descriptor", f, n)
      BY <1>1, <2>4, FileUnitsAre
    <3> HIDE DEF p, n
    <3>3. i \in 1..n + 2 /\ j \in Nat /\ i <= j
      BY <1>4, <2>2, <3>1, <3>2
    <3>4. \A e \in 1..i : h[j - i + e] = p[e]
      BY <2>2, <3>1
    <3>5. h[j] = p[i]
      <4>1. i \in 1..i /\ j - i + i = j
        BY <3>3
      <4>2. QED
        BY <3>4, <4>1
    <3>6. CASE i = 1
      BY <3>2, <3>5, <3>6, UnitParts
    <3>7. CASE i \in 2..n + 1
      <4>1. i - 1 \in 1..n /\ (i - 1) + 1 = i
        BY <3>2, <3>7
      <4>2. p[i] = Unit("byte", f, i - 1)
        BY <3>2, <4>1
      <4>3. i - 1 < j
        BY <3>2, <3>3, <3>7
      <4>4. QED
        BY <3>5, <4>2, <4>3, UnitParts
    <3>8. CASE i = n + 2
      <4>1. h[j].kind = "descriptor" /\ h[j].file = f
        BY <3>2, <3>5, <3>8, UnitParts
      <4>2. ASSUME n > 0
            PROVE  \E k \in 1..j - 1 : LastByte(m, f, h[k])
        <5>1. /\ n \in 1..n /\ n + 1 \in 1..i
              /\ j - i + (n + 1) = j - 1 /\ j - 1 \in 1..j - 1
          BY <3>2, <3>3, <3>8, <4>2
        <5>2. h[j - 1] = Unit("byte", f, n)
          BY <3>2, <3>4, <5>1
        <5>3. LastByte(m, f, h[j - 1])
          BY <5>2, UnitParts DEF LastByte, n
        <5>4. QED
          BY <5>1, <5>3
      <4>3. QED
        BY <4>1, <4>2 DEF n
    <3>9. QED
      BY <3>2, <3>3, <3>6, <3>7, <3>8
  <2>5. QED
    BY <2>3, <2>4
<1>7. ASSUME NEW f \in DOMAIN m, m[f] > 0
      PROVE  \E j \in 1..Len(h) : LastByte(m, f, h[j])
  <2>1. f \in 1..FileCount /\ s[f] = FileUnits(f, m[f])
    BY <1>1, <1>2
  <2>2. /\ m[f] \in 1..m[f] /\ m[f] + 1 \in 1..Len(s[f])
        /\ s[f][m[f] + 1] = Unit("byte", f, m[f])
    <3>1. /\ Len(s[f]) = m[f] + 2
          /\ \A i \in 1..m[f] : s[f][i + 1] = Unit("byte", f, i)
      BY <2>1, FileUnitsAre
    <3>2. m[f] \in 1..m[f] /\ m[f] + 1 \in 1..m[f] + 2
      BY <1>1, <1>7
    <3>3. QED
      BY <3>1, <3>2
  <2>3. PICK j \in 1..Len(h) : h[j] = s[f][m[f] + 1]
    BY <1>4, <2>1, <2>2 DEF Holds
  <2>4. LastByte(m, f, h[j])
    BY <2>2, <2>3, UnitParts DEF LastByte
  <2>5. QED
    BY <2>4
<1>8. QED
  BY <1>4, <1>5, <1>6, <1>7 DEF U

LEMMA RecordsAre ==
  ASSUME NEW m \in Manifests
  PROVE  /\ Records(m) \in Seq(UnitsOf(m))
         /\ \A j \in 1..Len(Records(m)) : Records(m)[j].kind = "record"
<1> DEFINE U == {u \in UnitsOf(m) : u.kind = "record"}
           s == [f \in File |->
                  IF f \in DOMAIN m THEN <<Unit("record", f, m[f])>> ELSE <<>>]
           h == FlattenSeq(s)
<1>1. /\ FileCount \in Nat /\ File = 1..FileCount
      /\ \A f \in DOMAIN m : m[f] \in Nat /\ f \in Nat
  BY Constants, ManifestTyped
<1>2. \A f \in DOMAIN m : Unit("record", f, m[f]) \in U
  BY <1>1 DEF Unit, UnitsOf, Units, Planned, Kinds
<1> HIDE DEF U
<1>3. \A f \in File : s[f] \in Seq(U)
  BY <1>2
<1>4. s = [f \in File |-> s[f]]
  OBVIOUS
<1> HIDE DEF s
<1>5. s \in [1..FileCount -> Seq(U)]
  BY <1>1, <1>3, <1>4
<1>6. s \in Seq(Seq(U))
  BY <1>1, <1>5
<1>7. h \in Seq(U)
  BY <1>6, FlattenHolds
<1>8. h = Records(m)
  BY DEF h, s, Records
<1> HIDE DEF h
<1>9. \A j \in 1..Len(h) : h[j] \in U
  BY <1>7
<1>10. U \subseteq UnitsOf(m)
  BY DEF U
<1>11. h \in Seq(UnitsOf(m))
  BY <1>7, <1>10
<1>12. QED
  BY <1>8, <1>9, <1>11 DEF U

(* Lemma: the plan of an archive has units of its manifest, and the bytes  *)
(* of a file in front of what needs its CRC.                               *)
LEMMA PlanIs ==
  ASSUME NEW m \in Manifests
  PROVE  Plan(m) \in Seq(UnitsOf(m)) /\ BytesFirst(m, Plan(m))
<1> DEFINE a == Files(m)
           b == Records(m)
           z == Unit("end", 0, Cardinality(DOMAIN m))
           s == a \o b \o <<z>>
           U == UnitsOf(m)
<1>1. a \in Seq(U) /\ b \in Seq(U)
  BY FilesAre, RecordsAre
<1>2. z \in U
  BY ManifestTyped DEF Unit, UnitsOf, Units, Planned, Kinds
<1>3. s = Plan(m)
  BY DEF Plan
<1> HIDE DEF a, b, z, U
<1>4. /\ s \in Seq(U) /\ Len(a) \in Nat /\ Len(s) \in Nat /\ Len(a) <= Len(s)
      /\ \A i \in 1..Len(a) : s[i] = a[i]
  BY <1>1, <1>2
<1>5. \A i \in 1..Len(s) : s[i].kind \in {"byte", "descriptor"} => i \in 1..Len(a)
  <2> SUFFICES ASSUME NEW i \in 1..Len(s), i > Len(a)
               PROVE  s[i].kind \notin {"byte", "descriptor"}
    BY <1>4
  <2>1. CASE i <= Len(a) + Len(b)
    <3>1. i - Len(a) \in 1..Len(b) /\ s[i] = b[i - Len(a)]
      BY <1>1, <1>2, <2>1
    <3>2. QED
      BY <3>1, RecordsAre DEF b
  <2>2. CASE ~(i <= Len(a) + Len(b))
    <3>1. s[i] = z
      BY <1>1, <1>2, <2>2
    <3>2. QED
      BY <3>1, UnitParts DEF z
  <2>3. QED
    BY <2>1, <2>2
<1> HIDE DEF s
<1>6. ASSUME NEW i \in 1..Len(s), s[i].kind = "descriptor", m[s[i].file] > 0
      PROVE  \E j \in 1..i - 1 : LastByte(m, s[i].file, s[j])
  <2>1. i \in 1..Len(a) /\ s[i] = a[i]
    BY <1>4, <1>5, <1>6
  <2>2. PICK j \in 1..i - 1 : LastByte(m, a[i].file, a[j])
    BY <1>6, <2>1, FilesAre DEF a
  <2>3. j \in 1..Len(a)
    BY <1>4, <2>1
  <2>4. QED
    BY <1>4, <2>1, <2>2, <2>3
<1>7. ASSUME NEW i \in 1..Len(s), s[i].kind \in {"record", "end"},
             NEW f \in DOMAIN m, m[f] > 0
      PROVE  \E j \in 1..i - 1 : LastByte(m, f, s[j])
  <2>1. i \notin 1..Len(a)
    <3>1. \A j \in 1..Len(a) : a[j].kind \in {"header", "byte", "descriptor"}
      BY FilesAre DEF a
    <3>2. QED
      BY <1>4, <1>7, <3>1
  <2>2. PICK j \in 1..Len(a) : LastByte(m, f, a[j])
    BY <1>7, FilesAre DEF a
  <2>3. j \in 1..i - 1
    BY <1>4, <2>1
  <2>4. QED
    BY <1>4, <2>2, <2>3
<1>8. ASSUME NEW i \in 1..Len(s), s[i].kind = "byte" PROVE s[i].n < i
  <2>1. i \in 1..Len(a) /\ s[i] = a[i]
    BY <1>4, <1>5, <1>8
  <2>2. QED
    BY <1>8, <2>1, FilesAre DEF a
<1>9. QED
  BY <1>3, <1>4, <1>6, <1>7, <1>8 DEF BytesFirst, U
-----------------------------------------------------------------------------
(* The invariant.  What it says of a client is said of the place, the job  *)
(* and the units of one client, so that a step of another keeps it.        *)

CRCMap == UNION {[S -> CRCs] : S \in SUBSET File}
Sent == [kind : Kinds \cup {"json"}, file : Nat, n : Nat, crc : CRCs \cup {None}]
Job == [gone : BOOLEAN, sel : Manifests, from : Nat, computed : CRCMap, known : CRCMap]

Early == {"lookup", "list", "sizes", "layout"}
Sending == {"send", "miss", "hash", "wait"}
Stuck == {"miss", "hash", "wait"}

Sized(m) == \A f \in DOMAIN m : m[f] \in {Listed[f], Length[f]}
TrueCRCs(m) == [f \in DOMAIN m |-> CRC(f, m[f])]

(* What Needed, Missing and Wanted are of the job j and the units g        *)
NeededBy(j, g) ==
  {f \in DOMAIN j.sel :
     LET u == Plan(j.sel)[Len(g) + 1]
     IN /\ Len(g) + 1 <= Len(Plan(j.sel))
        /\ (u.kind = "descriptor" /\ u.file = f) \/ u.kind \in {"record", "end"}}
Lacks(j, g) == NeededBy(j, g) \ DOMAIN j.known
Seeks(j, g) == Min(Lacks(j, g))

(* g is a beginning of the archive of m. *)
Begins(m, g) ==
  /\ Len(g) <= Len(Plan(m))
  /\ \A i \in 1..Len(g) : g[i] = WithCRC(Plan(m)[i], TrueCRCs(m))

ClientTyped(place, j, g) ==
  /\ place \in Running \cup Ended /\ j \in Job /\ g \in Seq(Sent)

JobFits(place, j, g) ==
  /\ place \in {"idle", "failed"} => j = NoJob
  /\ place \in Early =>
       j.computed = NoFiles /\ j.known = NoFiles /\ j.from = Len(g)
  /\ j.from <= Len(g)
  /\ Sized(j.sel)
  /\ DOMAIN j.computed \subseteq DOMAIN j.sel
  /\ \A f \in DOMAIN j.computed : j.computed[f] = CRC(f, j.sel[f])
  /\ DOMAIN j.known \subseteq DOMAIN j.sel
  /\ place \in Stuck => Lacks(j, g) # {} /\ Seeks(j, g) \notin DOMAIN j.computed

(* An answer from the first unit on computes the CRC of every file that    *)
(* has bytes before it needs it; one that begins later can have what the   *)
(* caches say, which is true if nothing goes wrong.                        *)
AnswerFits(place, j, g) ==
  /\ place \in Sending /\ j.from = 0 =>
       \A i \in 1..Len(g) : \A f \in DOMAIN j.sel :
         LastByte(j.sel, f, g[i]) => f \in DOMAIN j.computed
  /\ place \in Sending /\ (j.from = 0 \/ Troubles = {}) =>
       /\ Begins(j.sel, g)
       /\ \A f \in DOMAIN j.known : j.known[f] = CRC(f, j.sel[f])
  /\ place = "done" /\ (j.from = 0 \/ Troubles = {}) =>
       Begins(j.sel, g) /\ Len(g) = Len(Plan(j.sel))

(* No listing is cut short, and every size is resolved. *)
Resolved == Troubles \subseteq {"source"}

Untroubled(place, j, g) ==
  /\ "cut" \notin Troubles =>
       /\ place \in {"lookup", "list", "sizes"} => ~j.gone
       /\ place \in {"sizes", "layout"} => DOMAIN j.sel = File
  /\ Resolved =>
       /\ place = "sizes" => j.sel = Listed
       /\ place \in {"layout", "done"} \cup Sending => j.sel = Length
  /\ Troubles = {} => Begins(Length, g)

Fits(place, j, g) ==
  /\ ClientTyped(place, j, g) /\ JobFits(place, j, g)
  /\ AnswerFits(place, j, g) /\ Untroubled(place, j, g)

ManifestFits(m) ==
  /\ m \in Manifests \cup {None}
  /\ m # None => /\ Sized(m)
                 /\ "cut" \notin Troubles => DOMAIN m = File
                 /\ Resolved => m = Length

CRCsFit(cs) ==
  /\ cs \in [Blob -> CRCs \cup {None}]
  /\ \A f \in File :
       /\ cs[BlobOf[f]] \in {None, CRC(f, Listed[f]), CRC(f, Length[f])}
       /\ Resolved => cs[BlobOf[f]] \in {None, CRC(f, Length[f])}

Inv ==
  /\ pc \in [Client -> Running \cup Ended]
  /\ job \in [Client -> Job] /\ got \in [Client -> Seq(Sent)]
  /\ leader \in [Blob -> Client \cup {None}]
  /\ requests \in [Client -> 0..MaxRequests]
  /\ ManifestFits(manifest) /\ CRCsFit(crcs)
  /\ \A c \in Client : Fits(pc[c], job[c], got[c])
  /\ FlightsAreLed

LEMMA Empty ==
  /\ NoFiles \in Manifests /\ NoFiles \in CRCMap /\ DOMAIN NoFiles = {}
  /\ NoJob \in Job
<1>1. DOMAIN NoFiles = {} /\ NoFiles \in [{} -> Sizes] /\ NoFiles \in [{} -> CRCs]
  BY DEF NoFiles
<1>2. {} \in SUBSET File
  OBVIOUS
<1>3. NoFiles \in Manifests /\ NoFiles \in CRCMap
  BY <1>1, <1>2 DEF Manifests, CRCMap
<1>4. QED
  BY <1>1, <1>3 DEF NoJob, Job

LEMMA Planning ==
  ASSUME NEW m \in Manifests
  PROVE  /\ Len(Plan(m)) \in Nat
         /\ \A i \in 1..Len(Plan(m)) :
              /\ Plan(m)[i] \in Units
              /\ Plan(m)[i].kind # "end" => Plan(m)[i].file \in DOMAIN m
              /\ Plan(m)[i].kind = "byte" => Plan(m)[i].n \in 1..m[Plan(m)[i].file]
<1>1. Plan(m) \in Seq(UnitsOf(m))
  BY PlanIs
<1>2. \A i \in 1..Len(Plan(m)) : Plan(m)[i] \in UnitsOf(m)
  BY <1>1
<1>3. QED
  BY <1>1, <1>2 DEF UnitsOf, Planned

(* What is missing is of the selection, and one of it is wanted. *)
LEMMA Seeking ==
  ASSUME NEW j \in Job, NEW g \in Seq(Sent)
  PROVE  /\ Lacks(j, g) \subseteq DOMAIN j.sel
         /\ Lacks(j, g) # {} =>
              /\ Seeks(j, g) \in Lacks(j, g) /\ Seeks(j, g) \in DOMAIN j.sel
              /\ Seeks(j, g) \in File /\ Len(g) + 1 \in 1..Len(Plan(j.sel))
<1>1. j.sel \in Manifests
  BY DEF Job
<1>2. DOMAIN j.sel \subseteq File /\ DOMAIN j.sel \subseteq Nat
  BY <1>1, ManifestTyped
<1>3. Len(Plan(j.sel)) \in Nat /\ Len(g) \in Nat
  BY <1>1, Planning
<1>4. NeededBy(j, g) \subseteq DOMAIN j.sel
  BY DEF NeededBy
<1>5. Lacks(j, g) # {} => Len(g) + 1 \in 1..Len(Plan(j.sel))
  BY <1>3 DEF Lacks, NeededBy
<1>6. ASSUME Lacks(j, g) # {} PROVE Seeks(j, g) \in Lacks(j, g)
  <2>1. Lacks(j, g) \in SUBSET Nat
    BY <1>2, <1>4 DEF Lacks
  <2>2. \E x \in Lacks(j, g) : \A y \in Lacks(j, g) : x <= y
    BY <1>6, <2>1, LeastNumber
  <2>3. QED
    BY <2>2 DEF Seeks, Min
<1>7. QED
  BY <1>2, <1>4, <1>5, <1>6 DEF Lacks

LEMMA MissingIs ==
  ASSUME NEW c \in Client
  PROVE  /\ Missing(c) = Lacks(job[c], got[c]) /\ Wanted(c) = Seeks(job[c], got[c])
         /\ Needed(c) = NeededBy(job[c], got[c])
BY DEF Missing, Wanted, Needed, Unsent, Current, At, Lacks, Seeks, NeededBy

(* FlightsAreLed, said with Seeks *)
Led(lead, place, jobs, units) ==
  /\ \A b \in Blob : lead[b] # None =>
       /\ place[lead[b]] = "hash"
       /\ BlobOf[Seeks(jobs[lead[b]], units[lead[b]])] = b
  /\ \A c \in Client : place[c] = "wait" =>
       lead[BlobOf[Seeks(jobs[c], units[c])]] # None

LEMMA FlightsAre ==
  /\ FlightsAreLed <=> Led(leader, pc, job, got)
  /\ FlightsAreLed' <=> Led(leader', pc', job', got')
<1>1. FlightsAreLed <=> Led(leader, pc, job, got)
  BY DEF FlightsAreLed, Led, Missing, Wanted, Needed, Unsent, Current, At, Lacks, Seeks,
         NeededBy
<1>2. FlightsAreLed' <=> Led(leader', pc', job', got')
  BY DEF FlightsAreLed, Led, Missing, Wanted, Needed, Unsent, Current, At, Lacks, Seeks,
         NeededBy
<1>3. QED
  BY <1>1, <1>2

LEMMA Learns ==
  ASSUME NEW k \in CRCMap, NEW f \in File, NEW crc \in CRCs
  PROVE  LET l == Noting(k, f, crc)
         IN /\ l \in CRCMap /\ DOMAIN l = DOMAIN k \cup {f} /\ l[f] = crc
            /\ \A g \in DOMAIN k : g # f => l[g] = k[g]
<1> DEFINE l == Noting(k, f, crc)
<1>1. PICK S \in SUBSET File : k \in [S -> CRCs]
  BY DEF CRCMap
<1>2. l = [x \in S \cup {f} |-> IF x = f THEN crc ELSE k[x]]
  BY <1>1 DEF Noting
<1> HIDE DEF l
<1>3. l \in [S \cup {f} -> CRCs] /\ S \cup {f} \in SUBSET File
  BY <1>1, <1>2
<1>4. l \in CRCMap
  BY <1>3 DEF CRCMap
<1>5. QED
  BY <1>1, <1>2, <1>4 DEF l


(* A step of one client that leaves the flights alone keeps the invariant. *)
LEMMA OwnStep ==
  ASSUME Inv, NEW c \in Client, NEW place, NEW j, NEW g,
         pc' = [pc EXCEPT ![c] = place], job' = [job EXCEPT ![c] = j],
         got' = [got EXCEPT ![c] = g], leader' = leader,
         requests' \in [Client -> 0..MaxRequests],
         ManifestFits(manifest'), CRCsFit(crcs'),
         Fits(place, j, g),
         pc[c] = "hash" => place = "hash" /\ Seeks(j, g) = Seeks(job[c], got[c]),
         place = "wait" => leader[BlobOf[Seeks(j, g)]] # None
  PROVE  Inv'
<1>1. /\ pc \in [Client -> Running \cup Ended]
      /\ job \in [Client -> Job] /\ got \in [Client -> Seq(Sent)]
      /\ leader \in [Blob -> Client \cup {None}]
  BY DEF Inv
<1>2. /\ pc' \in [Client -> Running \cup Ended]
      /\ job' \in [Client -> Job] /\ got' \in [Client -> Seq(Sent)]
      /\ pc'[c] = place /\ job'[c] = j /\ got'[c] = g
      /\ \A d \in Client : d # c =>
           pc'[d] = pc[d] /\ job'[d] = job[d] /\ got'[d] = got[d]
  BY <1>1 DEF Fits, ClientTyped
<1>3. \A d \in Client : Fits(pc'[d], job'[d], got'[d])
  BY <1>2 DEF Inv
<1>4. Led(leader, pc, job, got)
  BY FlightsAre DEF Inv
<1>5. ASSUME NEW b \in Blob, leader[b] # None
      PROVE  pc'[leader[b]] = "hash" /\ BlobOf[Seeks(job'[leader[b]], got'[leader[b]])] = b
  <2>1. leader[b] \in Client
    BY <1>1, <1>5
  <2>2. pc[leader[b]] = "hash" /\ BlobOf[Seeks(job[leader[b]], got[leader[b]])] = b
    BY <1>4, <1>5 DEF Led
  <2>3. QED
    BY <1>2, <2>1, <2>2
<1>6. ASSUME NEW d \in Client, pc'[d] = "wait"
      PROVE  leader[BlobOf[Seeks(job'[d], got'[d])]] # None
  BY <1>2, <1>4, <1>6 DEF Led
<1>7. FlightsAreLed'
  BY <1>5, <1>6, FlightsAre DEF Led
<1>8. QED
  BY <1>1, <1>2, <1>3, <1>7 DEF Inv


LEMMA Now ==
  ASSUME Inv, NEW c \in Client
  PROVE  /\ Fits(pc[c], job[c], got[c]) /\ job[c] \in Job /\ got[c] \in Seq(Sent)
         /\ job[c].sel \in Manifests /\ Len(got[c]) \in Nat
         /\ DOMAIN job[c].sel \subseteq File
         /\ ManifestFits(manifest) /\ CRCsFit(crcs)
         /\ pc = [pc EXCEPT ![c] = pc[c]] /\ job = [job EXCEPT ![c] = job[c]]
         /\ got = [got EXCEPT ![c] = got[c]]
         /\ requests \in [Client -> 0..MaxRequests]
<1>1. Fits(pc[c], job[c], got[c]) /\ job[c] \in Job /\ got[c] \in Seq(Sent)
  BY DEF Inv, Fits, ClientTyped
<1>2. job[c].sel \in Manifests /\ Len(got[c]) \in Nat
  BY <1>1 DEF Job
<1>3. QED
  BY <1>1, <1>2, ManifestTyped DEF Inv

LEMMA FailedFits ==
  ASSUME NEW place, NEW j, NEW g, Fits(place, j, g)
  PROVE  Fits("failed", NoJob, g)
<1>1. g \in Seq(Sent) /\ Len(g) \in Nat
  BY DEF Fits, ClientTyped
<1>2. ClientTyped("failed", NoJob, g)
  BY <1>1, Empty DEF ClientTyped, Ended
<1>3. JobFits("failed", NoJob, g)
  BY <1>1, Empty DEF JobFits, NoJob, Sized, Early, Stuck
<1>4. AnswerFits("failed", NoJob, g)
  BY DEF AnswerFits, Sending
<1>5. Untroubled("failed", NoJob, g)
  BY DEF Untroubled, Fits, Sending
<1>6. QED
  BY <1>2, <1>3, <1>4, <1>5 DEF Fits

(* An error text is only added to what has been sent if the source fails. *)
LEMMA ToldFits ==
  ASSUME NEW place, NEW j, NEW g, Fits(place, j, g), Troubles # {}
  PROVE  Fits("failed", NoJob, Append(g, JSON))
<1>1. Fits("failed", NoJob, g) /\ g \in Seq(Sent)
  BY FailedFits DEF Fits, ClientTyped
<1>2. JSON \in Sent
  BY DEF JSON, Unit, Sent
<1>3. Append(g, JSON) \in Seq(Sent) /\ Len(Append(g, JSON)) \in Nat
  BY <1>1, <1>2
<1>4. ClientTyped("failed", NoJob, Append(g, JSON))
  BY <1>1, <1>3 DEF Fits, ClientTyped
<1>5. JobFits("failed", NoJob, Append(g, JSON))
  BY <1>1, <1>3, Empty DEF JobFits, NoJob, Sized, Early, Stuck
<1>6. QED
  BY <1>4, <1>5 DEF Fits, AnswerFits, Untroubled, Sending

(* One whose request fails, alone, while it leads no flight *)
LEMMA FailsAlone ==
  ASSUME Inv, NEW c \in Client, Fail({c}), pc[c] # "hash", NEW g,
         Fits("failed", NoJob, g), got' = [got EXCEPT ![c] = g],
         UNCHANGED <<shared, requests>>
  PROVE  Inv'
<1>1. pc' = [pc EXCEPT ![c] = "failed"] /\ job' = [job EXCEPT ![c] = NoJob]
  BY DEF Fail, Inv
<1>2. QED
  BY <1>1, Now, OwnStep DEF shared

LEMMA RequestKeeps ==
  ASSUME Inv, NEW c \in Client, Request(c)
  PROVE  Inv'
<1> DEFINE g == got[c]
           j == [job[c] EXCEPT !.from = Len(g)]
<1>1. /\ Fits(pc[c], job[c], g) /\ pc[c] \in {"idle", "failed"}
      /\ job[c] = NoJob /\ g \in Seq(Sent) /\ Len(g) \in Nat
  BY Now DEF Request, Fits, JobFits
<1>2. /\ j \in Job /\ j.gone = FALSE /\ j.sel = NoFiles /\ j.from = Len(g)
      /\ j.computed = NoFiles /\ j.known = NoFiles
  <2>1. NoJob \in Job /\ j = [NoJob EXCEPT !.from = Len(g)]
    BY <1>1, Empty
  <2> HIDE DEF j, g
  <2>2. j \in Job
    BY <1>1, <2>1 DEF Job
  <2>3. QED
    BY <2>1, <2>2 DEF NoJob
<1> HIDE DEF j
<1>3. ClientTyped("lookup", j, g)
  BY <1>1, <1>2 DEF ClientTyped, Running
<1>4. JobFits("lookup", j, g)
  BY <1>1, <1>2, Empty DEF JobFits, Sized, Stuck
<1>5. AnswerFits("lookup", j, g)
  BY DEF AnswerFits, Sending
<1>6. Untroubled("lookup", j, g)
  BY <1>1, <1>2 DEF Fits, Untroubled, Sending
<1>7. requests' \in [Client -> 0..MaxRequests]
  <2>1. requests[c] + 1 \in 0..MaxRequests
    BY Now, Constants DEF Request
  <2>2. QED
    BY <2>1, Now DEF Request
<1>8. QED
  BY <1>3, <1>4, <1>5, <1>6, <1>7, Now, OwnStep DEF Request, Goto, shared, Fits, j

(* A step that changes the job in "gone" at most *)
LEMMA LeaveKeeps ==
  ASSUME Inv, NEW c \in Client, Leave(c)
  PROVE  Inv'
<1> DEFINE g == got[c]
           j == [job[c] EXCEPT !.gone = TRUE]
<1>1. Fits(pc[c], job[c], g) /\ job[c] \in Job /\ pc[c] \in Running /\ pc[c] \notin Ended
  BY Now DEF Leave, Running, Ended
<1>2. /\ j \in Job /\ j.sel = job[c].sel /\ j.from = job[c].from
      /\ j.computed = job[c].computed /\ j.known = job[c].known
  BY <1>1 DEF Job
<1> HIDE DEF j
<1>3. Lacks(j, g) = Lacks(job[c], g) /\ Seeks(j, g) = Seeks(job[c], g)
  BY <1>2 DEF Lacks, Seeks, NeededBy
<1>4. ClientTyped(pc[c], j, g) /\ JobFits(pc[c], j, g) /\ AnswerFits(pc[c], j, g)
  BY <1>1, <1>2, <1>3 DEF Fits, ClientTyped, JobFits, AnswerFits, Ended
<1>5. Untroubled(pc[c], j, g)
  BY <1>1, <1>2 DEF Fits, Untroubled, Leave
<1>6. pc[c] = "wait" => leader[BlobOf[Seeks(j, g)]] # None
  BY <1>3, FlightsAre DEF Inv, Led
<1>7. /\ pc' = [pc EXCEPT ![c] = pc[c]] /\ got' = [got EXCEPT ![c] = g]
      /\ job' = [job EXCEPT ![c] = j] /\ UNCHANGED <<shared, requests>>
  BY Now DEF Leave, j
<1>8. QED
  BY <1>3, <1>4, <1>5, <1>6, <1>7, Now, OwnStep DEF shared, Fits

LEMMA ExpireKeeps ==
  ASSUME Inv, Expire
  PROVE  Inv'
<1>1. ManifestFits(None)
  BY DEF ManifestFits
<1>2. FlightsAreLed'
  BY FlightsAre DEF Inv, Expire, Led
<1>3. QED
  BY <1>1, <1>2 DEF Inv, Expire


-----------------------------------------------------------------------------
(* The steps of the selection *)

LEMMA SelectStep ==
  ASSUME Inv, NEW c \in Client, NEW place \in Early, NEW j \in Job,
         pc[c] \in {"lookup", "list", "sizes"}, Sized(j.sel),
         j.gone = job[c].gone, j.from = job[c].from,
         j.computed = job[c].computed, j.known = job[c].known,
         "cut" \notin Troubles /\ place \in {"sizes", "layout"} => DOMAIN j.sel = File,
         Resolved => /\ place = "sizes" => j.sel = Listed
                     /\ place = "layout" => j.sel = Length,
         pc' = [pc EXCEPT ![c] = place], job' = [job EXCEPT ![c] = j],
         ManifestFits(manifest'), UNCHANGED <<crcs, leader, got, requests>>
  PROVE  Inv'
<1> DEFINE g == got[c]
<1>1. Fits(pc[c], job[c], g) /\ g \in Seq(Sent) /\ Len(g) \in Nat
  BY Now
<1>2. ClientTyped(place, j, g)
  BY <1>1 DEF ClientTyped, Early, Running
<1>3. JobFits(place, j, g)
  BY <1>1, Empty DEF Fits, JobFits, Early, Stuck
<1>4. AnswerFits(place, j, g)
  BY DEF AnswerFits, Early, Sending
<1>5. Untroubled(place, j, g)
  BY <1>1 DEF Fits, Untroubled, Early, Sending
<1>6. QED
  BY <1>2, <1>3, <1>4, <1>5, Now, OwnStep DEF Fits, Early

LEMMA ManifestsAre ==
  /\ Listed \in Manifests /\ Sized(Listed) /\ Length \in Manifests /\ Sized(Length)
  /\ DOMAIN Listed = File /\ DOMAIN Length = File
  /\ \A S \in SUBSET File :
       /\ [f \in S |-> Listed[f]] \in Manifests /\ Sized([f \in S |-> Listed[f]])
       /\ [f \in S |-> Length[f]] \in Manifests /\ Sized([f \in S |-> Length[f]])
<1>1. \A f \in File : Listed[f] \in Sizes /\ Length[f] \in Sizes
  BY DEF Sizes
<1>2. \A S \in SUBSET File :
        [f \in S |-> Listed[f]] \in [S -> Sizes] /\ [f \in S |-> Length[f]] \in [S -> Sizes]
  BY <1>1
<1>3. /\ Listed = [f \in File |-> Listed[f]] /\ Length = [f \in File |-> Length[f]]
      /\ DOMAIN Listed = File /\ DOMAIN Length = File
  BY Constants
<1>4. \A S \in SUBSET File :
        [f \in S |-> Listed[f]] \in Manifests /\ [f \in S |-> Length[f]] \in Manifests
  BY <1>2 DEF Manifests
<1>5. Listed \in Manifests /\ Length \in Manifests
  BY <1>3, <1>4
<1>6. QED
  BY <1>3, <1>4, <1>5 DEF Sized

LEMMA HitManifestKeeps ==
  ASSUME Inv, NEW c \in Client, HitManifest(c)
  PROVE  Inv'
<1> DEFINE j == [job[c] EXCEPT !.sel = manifest]
<1>1. job[c] \in Job /\ manifest \in Manifests /\ ManifestFits(manifest)
  BY Now DEF HitManifest, ManifestFits
<1>2. /\ j \in Job /\ j.sel = manifest /\ j.gone = job[c].gone
      /\ j.from = job[c].from /\ j.computed = job[c].computed /\ j.known = job[c].known
  BY <1>1 DEF Job
<1>3. /\ pc' = [pc EXCEPT ![c] = "layout"] /\ job' = [job EXCEPT ![c] = j]
      /\ UNCHANGED <<manifest, crcs, leader, got, requests>>
  BY DEF HitManifest, Goto, shared
<1>4. /\ Sized(manifest) /\ (Resolved => manifest = Length)
      /\ "cut" \notin Troubles => DOMAIN manifest = File
  BY <1>1 DEF ManifestFits, HitManifest
<1> HIDE DEF j
<1>5. "layout" \in Early /\ pc[c] = "lookup"
  BY DEF Early, HitManifest
<1>6. QED
  BY <1>1, <1>2, <1>3, <1>4, <1>5, SelectStep

LEMMA MissManifestKeeps ==
  ASSUME Inv, NEW c \in Client, MissManifest(c)
  PROVE  Inv'
<1>1. /\ job[c] \in Job /\ Sized(job[c].sel) /\ ManifestFits(manifest)
      /\ job = [job EXCEPT ![c] = job[c]]
  BY Now DEF Fits, JobFits
<1>2. /\ pc' = [pc EXCEPT ![c] = "list"] /\ job' = [job EXCEPT ![c] = job[c]]
      /\ UNCHANGED <<manifest, crcs, leader, got, requests>>
  BY <1>1 DEF MissManifest, Goto, shared
<1>3. "list" \in Early /\ pc[c] = "lookup"
  BY DEF Early, MissManifest
<1>4. QED
  BY <1>1, <1>2, <1>3, SelectStep

LEMMA ListFilesKeeps ==
  ASSUME Inv, NEW c \in Client, ListFiles(c)
  PROVE  Inv'
<1> DEFINE j == [job[c] EXCEPT !.sel = Listed]
<1>1. /\ job[c] \in Job /\ Listed \in Manifests /\ Sized(Listed) /\ ManifestFits(manifest)
      /\ DOMAIN Listed = File
  BY Now, ManifestsAre
<1>2. /\ j \in Job /\ j.sel = Listed /\ j.gone = job[c].gone
      /\ j.from = job[c].from /\ j.computed = job[c].computed /\ j.known = job[c].known
  BY <1>1 DEF Job
<1>3. /\ pc' = [pc EXCEPT ![c] = "sizes"] /\ job' = [job EXCEPT ![c] = j]
      /\ UNCHANGED <<manifest, crcs, leader, got, requests>>
  BY DEF ListFiles, Goto, shared
<1> HIDE DEF j
<1>4. "sizes" \in Early /\ pc[c] = "list"
  BY DEF Early, ListFiles
<1>5. QED
  BY <1>1, <1>2, <1>3, <1>4, SelectStep

LEMMA ListFilesCutShortKeeps ==
  ASSUME Inv, NEW c \in Client, ListFilesCutShort(c)
  PROVE  Inv'
<1>1. PICK S \in SUBSET File :
        job' = [job EXCEPT ![c].sel = [f \in S |-> Listed[f]]]
  BY DEF ListFilesCutShort
<1> DEFINE m == [f \in S |-> Listed[f]]
           j == [job[c] EXCEPT !.sel = m]
<1>2. job[c] \in Job /\ m \in Manifests /\ Sized(m) /\ ManifestFits(manifest)
  BY Now, ManifestsAre
<1>3. job' = [job EXCEPT ![c] = j]
  BY <1>1
<1> HIDE DEF m
<1>4. /\ j \in Job /\ j.sel = m /\ j.gone = job[c].gone
      /\ j.from = job[c].from /\ j.computed = job[c].computed /\ j.known = job[c].known
  BY <1>2 DEF Job
<1> HIDE DEF j
<1>5. pc' = [pc EXCEPT ![c] = "sizes"] /\ UNCHANGED <<manifest, crcs, leader, got, requests>>
  BY DEF ListFilesCutShort, Goto, shared
<1>6. "cut" \in Troubles /\ ~Resolved
  BY Now DEF ListFilesCutShort, Fits, Untroubled, Resolved
<1>7. "sizes" \in Early /\ pc[c] = "list"
  BY DEF Early, ListFilesCutShort
<1>8. QED
  BY <1>2, <1>3, <1>4, <1>5, <1>6, <1>7, SelectStep

LEMMA ListFilesFailsKeeps ==
  ASSUME Inv, NEW c \in Client, ListFilesFails(c)
  PROVE  Inv'
BY Now, FailedFits, FailsAlone DEF ListFilesFails

LEMMA ResolveSizesKeeps ==
  ASSUME Inv, NEW c \in Client, ResolveSizes(c)
  PROVE  Inv'
<1> DEFINE m == [f \in DOMAIN job[c].sel |-> Length[f]]
           j == [job[c] EXCEPT !.sel = m]
<1>1. /\ job[c] \in Job /\ DOMAIN job[c].sel \in SUBSET File
      /\ job \in [Client -> Job]
  BY Now DEF Inv
<1>2. m \in Manifests /\ Sized(m)
  BY <1>1, ManifestsAre
<1>3. job' = [job EXCEPT ![c] = j]
  BY DEF ResolveSizes
<1>4. /\ "cut" \notin Troubles => DOMAIN m = File
      /\ Resolved => m = Length
  <2>1. /\ "cut" \notin Troubles => DOMAIN job[c].sel = File
        /\ Resolved => job[c].sel = Listed
    BY Now DEF ResolveSizes, Fits, Untroubled
  <2>2. Length = [f \in DOMAIN Listed |-> Length[f]]
    BY Constants
  <2>3. QED
    BY <2>1, <2>2
<1> HIDE DEF m
<1>5. /\ j \in Job /\ j.sel = m /\ j.gone = job[c].gone
      /\ j.from = job[c].from /\ j.computed = job[c].computed /\ j.known = job[c].known
  BY <1>1, <1>2 DEF Job
<1> HIDE DEF j
<1>6. job'[c] = j
  BY <1>1, <1>3
<1>7. manifest' = m
  BY <1>5, <1>6 DEF ResolveSizes
<1>8. ManifestFits(manifest')
  BY <1>2, <1>4, <1>7 DEF ManifestFits
<1>9. pc' = [pc EXCEPT ![c] = "layout"] /\ UNCHANGED <<crcs, leader, got, requests>>
  BY DEF ResolveSizes, Goto
<1>10. "layout" \in Early /\ pc[c] = "sizes"
  BY DEF Early, ResolveSizes
<1>11. QED
  BY <1>2, <1>3, <1>4, <1>5, <1>8, <1>9, <1>10, SelectStep

LEMMA ResolveSizesFailsKeeps ==
  ASSUME Inv, NEW c \in Client, ResolveSizesFails(c)
  PROVE  Inv'
<1>1. /\ job[c] \in Job /\ Sized(job[c].sel) /\ job[c].sel \in Manifests
      /\ job = [job EXCEPT ![c] = job[c]]
  BY Now DEF Fits, JobFits
<1>2. ~Resolved /\ ("cut" \notin Troubles => DOMAIN job[c].sel = File)
  BY Now DEF ResolveSizesFails, Fits, Untroubled, Resolved
<1>3. ManifestFits(manifest')
  BY <1>1, <1>2 DEF ResolveSizesFails, ManifestFits
<1>4. /\ pc' = [pc EXCEPT ![c] = "layout"] /\ job' = [job EXCEPT ![c] = job[c]]
      /\ UNCHANGED <<crcs, leader, got, requests>>
  BY <1>1 DEF ResolveSizesFails, Goto
<1>5. "layout" \in Early /\ pc[c] = "sizes"
  BY DEF Early, ResolveSizesFails
<1>6. QED
  BY <1>1, <1>2, <1>3, <1>4, <1>5, SelectStep

-----------------------------------------------------------------------------
(* The steps of an answer *)

LEMMA StartStreamKeeps ==
  ASSUME Inv, NEW c \in Client, StartStream(c)
  PROVE  Inv'
<1> DEFINE g == got[c]
           j == job[c]
<1>1. /\ Fits("layout", j, g) /\ g \in Seq(Sent) /\ Len(g) \in Nat
      /\ j.sel \in Manifests /\ Len(Plan(j.sel)) \in Nat
  BY Now, Planning DEF StartStream
<1>2. ClientTyped("send", j, g) /\ JobFits("send", j, g)
  BY <1>1 DEF Fits, ClientTyped, JobFits, Running, Early, Stuck
<1>3. j.known = NoFiles /\ j.from = Len(g)
  BY <1>1 DEF Fits, JobFits, Early
<1>4. AnswerFits("send", j, g)
  <2>1. j.from = 0 => Begins(j.sel, g) /\ 1..Len(g) = {}
    BY <1>1, <1>3 DEF Begins
  <2>2. Troubles = {} => Begins(j.sel, g)
    BY <1>1 DEF Fits, Untroubled, Resolved
  <2>3. QED
    BY <1>3, <2>1, <2>2, Empty DEF AnswerFits
<1>5. Untroubled("send", j, g)
  BY <1>1 DEF Fits, Untroubled, Sending
<1>6. /\ pc' = [pc EXCEPT ![c] = "send"] /\ job' = [job EXCEPT ![c] = j]
      /\ got' = [got EXCEPT ![c] = g] /\ UNCHANGED <<shared, requests>>
  BY Now DEF StartStream, Goto
<1>7. Fits("send", j, g) /\ pc[c] = "layout"
  BY <1>2, <1>4, <1>5 DEF Fits, StartStream
<1>8. /\ ManifestFits(manifest') /\ CRCsFit(crcs') /\ leader' = leader
      /\ requests' \in [Client -> 0..MaxRequests]
  BY <1>6, Now DEF shared
<1> HIDE DEF j, g
<1>9. QED
  BY <1>6, <1>7, <1>8, OwnStep

LEMMA RefuseRangeKeeps ==
  ASSUME Inv, NEW c \in Client, RefuseRange(c)
  PROVE  Inv'
BY Now, FailedFits, FailsAlone DEF RefuseRange

LEMMA AbortKeeps ==
  ASSUME Inv, NEW c \in Client, Abort(c)
  PROVE  Inv'
BY Now, FailedFits, FailsAlone DEF Abort

LEMMA SourceFailsKeeps ==
  ASSUME Inv, NEW c \in Client, SourceFails(c)
  PROVE  Inv'
<1>1. pc[c] # "hash" /\ Fail({c}) /\ UNCHANGED <<shared, requests>>
  BY DEF SourceFails
<1>2. CASE UNCHANGED got
  BY <1>1, <1>2, Now, FailedFits, FailsAlone
<1>3. CASE Begun(c) /\ AppendErrorText({c})
  <2>1. got' = [got EXCEPT ![c] = Append(got[c], JSON)]
    BY <1>3 DEF AppendErrorText, Inv
  <2>2. Troubles # {}
    BY <1>3, Now DEF SourceFails, MayBreak, Begun, Job
  <2>3. Fits("failed", NoJob, Append(got[c], JSON))
    BY <2>2, Now, ToldFits
  <2>4. QED
    BY <1>1, <2>1, <2>3, FailsAlone
<1>4. QED
  BY <1>2, <1>3 DEF SourceFails

LEMMA CurrentIs ==
  ASSUME Inv, NEW c \in Client, Unsent(c)
  PROVE  /\ At(c) \in 1..Len(Plan(job[c].sel)) /\ At(c) = Len(got[c]) + 1
         /\ Current(c) = Plan(job[c].sel)[Len(got[c]) + 1] /\ Current(c) \in Units
         /\ Current(c).kind # "end" => Current(c).file \in DOMAIN job[c].sel
         /\ Current(c).kind = "byte" =>
              Current(c).n \in 1..job[c].sel[Current(c).file] /\ Current(c).n < At(c)
<1>1. job[c].sel \in Manifests /\ Len(got[c]) \in Nat
  BY Now
<1>2. Len(Plan(job[c].sel)) \in Nat
  BY <1>1, Planning
<1>3. At(c) \in 1..Len(Plan(job[c].sel)) /\ At(c) = Len(got[c]) + 1
  BY <1>1, <1>2 DEF At, Unsent
<1>4. BytesFirst(job[c].sel, Plan(job[c].sel))
  BY <1>1, PlanIs
<1>5. QED
  BY <1>1, <1>3, <1>4, Planning DEF Current, BytesFirst

(* One more unit, with the CRC of its file, is still a beginning. *)
LEMMA BeginsMore ==
  ASSUME NEW m, NEW g \in Seq(Sent), NEW u \in Sent, Begins(m, g),
         Len(g) + 1 <= Len(Plan(m)), u = WithCRC(Plan(m)[Len(g) + 1], TrueCRCs(m))
  PROVE  Begins(m, Append(g, u))
<1>1. /\ Len(g) \in Nat /\ Len(Append(g, u)) = Len(g) + 1
      /\ Append(g, u)[Len(g) + 1] = u
      /\ \A i \in 1..Len(g) : Append(g, u)[i] = g[i]
  OBVIOUS
<1>2. \A i \in 1..Len(g) + 1 : i = Len(g) + 1 \/ i \in 1..Len(g)
  BY <1>1
<1>3. QED
  BY <1>1, <1>2 DEF Begins

LEMMA SendStep ==
  ASSUME Inv, NEW c \in Client, NEW j \in Job, NEW u \in Sent,
         pc[c] = "send", Unsent(c),
         j.sel = job[c].sel, j.from = job[c].from, j.gone = job[c].gone,
         j.from = 0 \/ Troubles = {} => u = WithCRC(Current(c), TrueCRCs(j.sel)),
         DOMAIN job[c].computed \subseteq DOMAIN j.computed,
         DOMAIN j.computed \subseteq DOMAIN j.sel,
         \A f \in DOMAIN j.computed : j.computed[f] = CRC(f, j.sel[f]),
         j.from = 0 => \A f \in DOMAIN j.sel : LastByte(j.sel, f, u) => f \in DOMAIN j.computed,
         \A f \in DOMAIN j.known : f \in DOMAIN job[c].known /\ j.known[f] = job[c].known[f],
         CRCsFit(crcs'), pc' = pc, job' = [job EXCEPT ![c] = j],
         got' = [got EXCEPT ![c] = Append(@, u)],
         UNCHANGED <<manifest, leader, requests>>
  PROVE  Inv'
<1> DEFINE g == got[c]
           h == Append(g, u)
<1>1. /\ Fits("send", job[c], g) /\ g \in Seq(Sent) /\ Len(g) \in Nat
      /\ h \in Seq(Sent) /\ Len(h) = Len(g) + 1 /\ h[Len(g) + 1] = u
      /\ \A i \in 1..Len(g) : h[i] = g[i]
      /\ \A i \in 1..Len(g) + 1 : i = Len(g) + 1 \/ i \in 1..Len(g)
  BY Now
<1>2. At(c) = Len(g) + 1 /\ Current(c) = Plan(j.sel)[Len(g) + 1]
      /\ Len(g) + 1 <= Len(Plan(j.sel))
  BY CurrentIs DEF Unsent
<1>3. got' = [got EXCEPT ![c] = h]
  OBVIOUS
<1> HIDE DEF h
<1>4. ClientTyped("send", j, h)
  BY <1>1 DEF ClientTyped, Running
<1>5. JobFits("send", j, h)
  BY <1>1 DEF Fits, JobFits, Early, Stuck, Job
<1>6. j.from = 0 \/ Troubles = {} => Begins(j.sel, h)
  BY <1>1, <1>2, BeginsMore DEF Fits, AnswerFits, Sending, h
<1>7. AnswerFits("send", j, h)
  <2>1. ASSUME j.from = 0, NEW i \in 1..Len(h), NEW f \in DOMAIN j.sel,
               LastByte(j.sel, f, h[i])
        PROVE  f \in DOMAIN j.computed
    BY <1>1, <2>1 DEF Fits, AnswerFits, Sending
  <2>2. ASSUME j.from = 0 \/ Troubles = {}, NEW f \in DOMAIN j.known
        PROVE  j.known[f] = CRC(f, j.sel[f])
    BY <1>1, <2>2 DEF Fits, AnswerFits, Sending
  <2>3. QED
    BY <1>6, <2>1, <2>2 DEF AnswerFits
<1>8. Untroubled("send", j, h)
  BY <1>1, <1>6 DEF Fits, Untroubled, Resolved, Sending
<1>9. pc' = [pc EXCEPT ![c] = "send"]
  BY Now
<1>10. QED
  BY <1>3, <1>4, <1>5, <1>7, <1>8, <1>9, Now, OwnStep DEF Fits


LEMMA WithCRCIs ==
  ASSUME NEW u \in Units, NEW k
  PROVE  /\ WithCRC(u, k) = WithCRC([u EXCEPT !.crc = None], k)
         /\ WithCRC(u, k).kind = u.kind /\ WithCRC(u, k).file = u.file
         /\ WithCRC(u, k).n = u.n
         /\ u.kind \notin {"descriptor", "record"} => WithCRC(u, k) = u /\ u \in Sent
         /\ u.kind \in {"descriptor", "record"} /\ k[u.file] \in CRCs =>
              WithCRC(u, k) \in Sent
         /\ \A l : l[u.file] = k[u.file] => WithCRC(u, l) = WithCRC(u, k)
BY DEF WithCRC, Units, Sent

LEMMA SendHeaderKeeps ==
  ASSUME Inv, NEW c \in Client, SendHeader(c)
  PROVE  Inv'
<1> DEFINE j == job[c]
           u == Current(c)
<1>1. pc[c] = "send" /\ Unsent(c) /\ u.kind = "header"
  BY DEF SendHeader
<1>2. u \in Units /\ u \in Sent /\ u = WithCRC(u, TrueCRCs(j.sel))
  BY <1>1, CurrentIs, WithCRCIs
<1>3. /\ j \in Job /\ JobFits("send", j, got[c]) /\ CRCsFit(crcs)
      /\ job = [job EXCEPT ![c] = j]
  BY <1>1, Now DEF Fits
<1>4. \A f \in DOMAIN j.sel : ~LastByte(j.sel, f, u)
  BY <1>1 DEF LastByte
<1>5. /\ pc' = pc /\ job' = [job EXCEPT ![c] = j] /\ got' = [got EXCEPT ![c] = Append(@, u)]
      /\ CRCsFit(crcs') /\ UNCHANGED <<manifest, leader, requests>>
  BY <1>3 DEF SendHeader, shared
<1>6. /\ DOMAIN j.computed \subseteq DOMAIN j.sel
      /\ \A f \in DOMAIN j.computed : j.computed[f] = CRC(f, j.sel[f])
  BY <1>3 DEF JobFits
<1>7. QED
  BY <1>1, <1>2, <1>3, <1>4, <1>5, <1>6, SendStep

LEMMA SendByteKeeps ==
  ASSUME Inv, NEW c \in Client, SendByte(c)
  PROVE  Inv'
<1> DEFINE j == job[c]
           u == Current(c)
<1>1. pc[c] = "send" /\ Unsent(c) /\ u.kind = "byte" /\ u.n < j.sel[u.file]
  BY DEF SendByte
<1>2. /\ u \in Units /\ u \in Sent /\ u = WithCRC(u, TrueCRCs(j.sel))
      /\ j.sel[u.file] \in Nat /\ u.n \in Nat
  <2>1. u \in Units /\ u.file \in DOMAIN j.sel /\ j.sel \in Manifests
    BY <1>1, CurrentIs, Now
  <2>2. j.sel[u.file] \in Nat /\ u.n \in Nat
    BY <2>1, ManifestTyped DEF Units
  <2>3. u \in Sent /\ u = WithCRC(u, TrueCRCs(j.sel))
    BY <1>1, <2>1, WithCRCIs
  <2>4. QED
    BY <2>1, <2>2, <2>3
<1>3. /\ j \in Job /\ JobFits("send", j, got[c]) /\ CRCsFit(crcs)
      /\ job = [job EXCEPT ![c] = j]
  BY <1>1, Now DEF Fits
<1>4. \A f \in DOMAIN j.sel : ~LastByte(j.sel, f, u)
  BY <1>1, <1>2 DEF LastByte
<1>5. /\ pc' = pc /\ job' = [job EXCEPT ![c] = j] /\ got' = [got EXCEPT ![c] = Append(@, u)]
      /\ CRCsFit(crcs') /\ UNCHANGED <<manifest, leader, requests>>
  BY <1>3 DEF SendByte, shared
<1>6. /\ DOMAIN j.computed \subseteq DOMAIN j.sel
      /\ \A f \in DOMAIN j.computed : j.computed[f] = CRC(f, j.sel[f])
  BY <1>3 DEF JobFits
<1>7. QED
  BY <1>1, <1>2, <1>3, <1>4, <1>5, <1>6, SendStep

LEMMA CRCsHave ==
  ASSUME NEW f \in File, NEW n \in {Listed[f], Length[f]}
  PROVE  CRC(f, n) \in CRCs
BY DEF CRCs, Sizes

(* A CRC of a file of one of its two sizes *)
LEMMA StoringFits ==
  ASSUME CRCsFit(crcs), NEW f \in File, NEW n \in {Listed[f], Length[f]},
         Resolved => n = Length[f]
  PROVE  CRCsFit([crcs EXCEPT ![BlobOf[f]] = CRC(f, n)])
<1> DEFINE cs == [crcs EXCEPT ![BlobOf[f]] = CRC(f, n)]
<1>1. crcs \in [Blob -> CRCs \cup {None}] /\ BlobOf[f] \in Blob
  BY DEF CRCsFit, Blob
<1>2. CRC(f, n) \in CRCs
  BY CRCsHave
<1>3. cs \in [Blob -> CRCs \cup {None}]
  BY <1>1, <1>2
<1>4. ASSUME NEW e \in File
      PROVE  /\ cs[BlobOf[e]] \in {None, CRC(e, Listed[e]), CRC(e, Length[e])}
             /\ Resolved => cs[BlobOf[e]] \in {None, CRC(e, Length[e])}
  <2>1. CASE BlobOf[e] = BlobOf[f]
    <3>1. Listed[e] = Listed[f] /\ Length[e] = Length[f]
      BY <2>1, Constants
    <3>2. cs[BlobOf[e]] = CRC(f, n)
      BY <1>1, <2>1
    <3>3. CRC(e, Listed[e]) = CRC(f, Listed[f]) /\ CRC(e, Length[e]) = CRC(f, Length[f])
      BY <2>1, <3>1 DEF CRC
    <3>4. QED
      BY <3>2, <3>3
  <2>2. CASE BlobOf[e] # BlobOf[f]
    <3>1. cs[BlobOf[e]] = crcs[BlobOf[e]]
      BY <1>1, <2>2 DEF Blob
    <3>2. QED
      BY <3>1 DEF CRCsFit
  <2>3. QED
    BY <2>1, <2>2
<1>5. QED
  BY <1>3, <1>4 DEF CRCsFit

LEMMA SendLastByteKeeps ==
  ASSUME Inv, NEW c \in Client, SendLastByte(c)
  PROVE  Inv'
<1> DEFINE u == Current(c)
           f == u.file
           crc == CRC(f, u.n)
           k == Noting(job[c].computed, f, crc)
           j == IF SentWhole(c) THEN [job[c] EXCEPT !.computed = k] ELSE job[c]
<1>1. /\ pc[c] = "send" /\ Unsent(c) /\ u.kind = "byte" /\ u.n = job[c].sel[f]
  BY DEF SendLastByte
<1>2. /\ u \in Units /\ u \in Sent /\ u = WithCRC(u, TrueCRCs(job[c].sel))
      /\ f \in DOMAIN job[c].sel /\ f \in File /\ u.n < At(c) /\ At(c) = Len(got[c]) + 1
      /\ u.n \in Nat
  BY <1>1, CurrentIs, WithCRCIs, Now, ManifestTyped
<1>3. /\ job[c] \in Job /\ Fits("send", job[c], got[c]) /\ CRCsFit(crcs)
      /\ job = [job EXCEPT ![c] = job[c]] /\ Len(got[c]) \in Nat
  BY <1>1, Now
<1>4. /\ Sized(job[c].sel) /\ DOMAIN job[c].computed \subseteq DOMAIN job[c].sel
      /\ \A e \in DOMAIN job[c].computed : job[c].computed[e] = CRC(e, job[c].sel[e])
  BY <1>3 DEF Fits, JobFits
<1>5. u.n \in {Listed[f], Length[f]} /\ (Resolved => u.n = Length[f])
  BY <1>1, <1>2, <1>3, <1>4 DEF Sized, Fits, Untroubled, Sending
<1>6. crc \in CRCs
  BY <1>2, <1>5, CRCsHave
<1>7. /\ k \in CRCMap /\ DOMAIN k = DOMAIN job[c].computed \cup {f} /\ k[f] = crc
      /\ \A e \in DOMAIN job[c].computed : e # f => k[e] = job[c].computed[e]
  <2> HIDE DEF u, f, crc
  <2>1. job[c].computed \in CRCMap
    BY <1>3 DEF Job
  <2>2. QED
    BY <1>2, <1>6, <2>1, Learns
<1>8. /\ j \in Job /\ j.sel = job[c].sel /\ j.from = job[c].from /\ j.gone = job[c].gone
      /\ j.known = job[c].known
      /\ j.computed = IF SentWhole(c) THEN k ELSE job[c].computed
  <2> HIDE DEF k
  <2>1. QED
    BY <1>3, <1>7 DEF Job
<1>9. /\ job' = [job EXCEPT ![c] = j] /\ CRCsFit(crcs') /\ pc' = pc
      /\ got' = [got EXCEPT ![c] = Append(@, u)] /\ UNCHANGED <<manifest, leader, requests>>
  <2>1. CASE SentWhole(c)
    <3>1. crcs' = [crcs EXCEPT ![BlobOf[f]] = crc]
      BY <2>1 DEF SendLastByte
    <3>2. CRCsFit(crcs')
      BY <1>2, <1>3, <1>5, <3>1, StoringFits
    <3>3. QED
      BY <2>1, <3>2 DEF SendLastByte
  <2>2. CASE ~SentWhole(c)
    BY <1>3, <2>2 DEF SendLastByte
  <2>3. QED
    BY <2>1, <2>2
<1>10. j.from = 0 => SentWhole(c)
  BY <1>2, <1>3, <1>8 DEF SentWhole, At
<1>11. j.from = 0 => \A e \in DOMAIN j.sel : LastByte(j.sel, e, u) => e \in DOMAIN j.computed
  BY <1>7, <1>8, <1>10 DEF LastByte
<1> HIDE DEF k, crc
<1>12. /\ DOMAIN job[c].computed \subseteq DOMAIN j.computed
       /\ DOMAIN j.computed \subseteq DOMAIN j.sel
       /\ \A e \in DOMAIN j.computed : j.computed[e] = CRC(e, j.sel[e])
  BY <1>1, <1>2, <1>4, <1>7, <1>8 DEF crc
<1>13. u = WithCRC(u, TrueCRCs(j.sel))
  BY <1>2, <1>8
<1>14. \A e \in DOMAIN j.known : e \in DOMAIN job[c].known /\ j.known[e] = job[c].known[e]
  BY <1>8
<1> HIDE DEF j, u
<1>15. QED
  BY <1>1, <1>2, <1>8, <1>9, <1>11, <1>12, <1>13, <1>14, SendStep DEF u


(* A unit with a CRC is sent when the CRC is known. *)
LEMMA CompletedUnit ==
  ASSUME Inv, NEW c \in Client, pc[c] = "send", Unsent(c), Missing(c) = {},
         Current(c).kind \in {"descriptor", "record", "end"}
  PROVE  LET u == WithCRC(Current(c), job[c].known)
         IN /\ u \in Sent /\ u.kind # "byte"
            /\ job[c].from = 0 \/ Troubles = {} =>
                 u = WithCRC(Current(c), TrueCRCs(job[c].sel))
<1> DEFINE v == Current(c)
           m == job[c].sel
           k == job[c].known
           u == WithCRC(v, k)
<1>1. v \in Units /\ (v.kind # "end" => v.file \in DOMAIN m)
  BY CurrentIs
<1>2. Fits("send", job[c], got[c]) /\ k \in CRCMap
  BY Now DEF Job
<1>3. v.kind # "end" => v.file \in DOMAIN k
  BY <1>1 DEF Missing, Needed
<1>4. v.kind # "end" => k[v.file] \in CRCs
  <2>1. PICK S \in SUBSET File : k \in [S -> CRCs]
    BY <1>2 DEF CRCMap
  <2>2. QED
    BY <1>3, <2>1
<1>5. (job[c].from = 0 \/ Troubles = {}) /\ v.kind # "end" =>
        k[v.file] = TrueCRCs(m)[v.file]
  BY <1>1, <1>2, <1>3 DEF Fits, AnswerFits, Sending, TrueCRCs
<1> HIDE DEF v, k, m
<1>6. u \in Sent /\ u.kind # "byte"
  BY <1>1, <1>4, WithCRCIs DEF v
<1>7. job[c].from = 0 \/ Troubles = {} => u = WithCRC(v, TrueCRCs(m))
  BY <1>1, <1>5, WithCRCIs DEF v
<1>8. QED
  BY <1>6, <1>7 DEF v, k, m

LEMMA SendDescriptorKeeps ==
  ASSUME Inv, NEW c \in Client, SendDescriptor(c)
  PROVE  Inv'
<1> DEFINE u == WithCRC(Current(c), job[c].known)
           j == [job[c] EXCEPT !.known = NoFiles]
<1>1. /\ pc[c] = "send" /\ Unsent(c) /\ Missing(c) = {} /\ Current(c).kind = "descriptor"
  BY DEF SendDescriptor
<1>2. /\ u \in Sent /\ u.kind # "byte"
      /\ job[c].from = 0 \/ Troubles = {} => u = WithCRC(Current(c), TrueCRCs(job[c].sel))
  BY <1>1, CompletedUnit
<1>3. /\ job' = [job EXCEPT ![c] = j] /\ pc' = pc /\ CRCsFit(crcs')
      /\ got' = [got EXCEPT ![c] = Append(@, u)] /\ UNCHANGED <<manifest, leader, requests>>
  BY Now DEF SendDescriptor, shared
<1> HIDE DEF u
<1>4. job[c] \in Job /\ JobFits("send", job[c], got[c])
  BY <1>1, Now DEF Fits
<1>5. /\ j \in Job /\ j.sel = job[c].sel /\ j.from = job[c].from /\ j.gone = job[c].gone
      /\ j.computed = job[c].computed /\ j.known = NoFiles
  BY <1>4, Empty DEF Job
<1> HIDE DEF j
<1>6. \A f \in DOMAIN j.sel : ~LastByte(j.sel, f, u)
  BY <1>2 DEF LastByte
<1>7. /\ DOMAIN j.computed \subseteq DOMAIN j.sel
      /\ \A f \in DOMAIN j.computed : j.computed[f] = CRC(f, j.sel[f])
  BY <1>4, <1>5 DEF JobFits
<1>8. DOMAIN j.known = {}
  BY <1>5, Empty
<1>9. QED
  BY <1>1, <1>2, <1>3, <1>5, <1>6, <1>7, <1>8, SendStep

LEMMA SendTailKeeps ==
  ASSUME Inv, NEW c \in Client, SendTail(c)
  PROVE  Inv'
<1> DEFINE u == WithCRC(Current(c), job[c].known)
           j == job[c]
<1>1. /\ pc[c] = "send" /\ Unsent(c) /\ Missing(c) = {}
      /\ Current(c).kind \in {"record", "end"}
  BY DEF SendTail
<1>2. /\ u \in Sent /\ u.kind # "byte"
      /\ job[c].from = 0 \/ Troubles = {} => u = WithCRC(Current(c), TrueCRCs(job[c].sel))
  BY <1>1, CompletedUnit
<1>3. /\ job' = [job EXCEPT ![c] = j] /\ pc' = pc /\ CRCsFit(crcs')
      /\ got' = [got EXCEPT ![c] = Append(@, u)] /\ UNCHANGED <<manifest, leader, requests>>
  BY Now DEF SendTail, shared
<1> HIDE DEF u
<1>4. j \in Job /\ JobFits("send", j, got[c])
  BY <1>1, Now DEF Fits
<1>5. \A f \in DOMAIN j.sel : ~LastByte(j.sel, f, u)
  BY <1>2 DEF LastByte
<1>6. /\ DOMAIN j.computed \subseteq DOMAIN j.sel
      /\ \A f \in DOMAIN j.computed : j.computed[f] = CRC(f, j.sel[f])
  BY <1>4 DEF JobFits
<1>7. QED
  BY <1>1, <1>2, <1>3, <1>4, <1>5, <1>6, SendStep

LEMMA FinishKeeps ==
  ASSUME Inv, NEW c \in Client, Finish(c)
  PROVE  Inv'
<1> DEFINE g == got[c]
           j == [job[c] EXCEPT !.gone = FALSE, !.computed = NoFiles, !.known = NoFiles]
<1>1. pc[c] = "send" /\ ~Unsent(c)
  BY DEF Finish
<1>2. /\ job[c] \in Job /\ Fits("send", job[c], g) /\ g \in Seq(Sent) /\ Len(g) \in Nat
      /\ job[c].sel \in Manifests
  BY <1>1, Now
<1>3. /\ pc' = [pc EXCEPT ![c] = "done"] /\ job' = [job EXCEPT ![c] = j]
      /\ got' = [got EXCEPT ![c] = g] /\ UNCHANGED <<shared, requests>>
  BY Now DEF Finish, Goto
<1>4. /\ j \in Job /\ j.sel = job[c].sel /\ j.from = job[c].from
      /\ j.computed = NoFiles /\ j.known = NoFiles
  BY <1>2, Empty DEF Job
<1> HIDE DEF j
<1>5. ClientTyped("done", j, g) /\ JobFits("done", j, g)
  BY <1>2, <1>4, Empty DEF Fits, ClientTyped, JobFits, Running, Ended, Early, Stuck
<1>6. Len(Plan(j.sel)) \in Nat /\ ~(Len(g) + 1 <= Len(Plan(j.sel)))
  BY <1>1, <1>2, <1>4, Planning DEF Unsent, At
<1>7. j.from = 0 \/ Troubles = {} => Begins(j.sel, g)
  BY <1>2, <1>4 DEF Fits, AnswerFits, Sending
<1>8. Begins(j.sel, g) => Len(g) = Len(Plan(j.sel))
  BY <1>2, <1>6 DEF Begins
<1>9. AnswerFits("done", j, g)
  BY <1>7, <1>8 DEF AnswerFits, Sending
<1>10. Untroubled("done", j, g)
  BY <1>2, <1>4 DEF Fits, Untroubled, Sending
<1>11. Fits("done", j, g) /\ pc[c] # "hash"
  BY <1>1, <1>5, <1>9, <1>10 DEF Fits
<1>12. /\ ManifestFits(manifest') /\ CRCsFit(crcs') /\ leader' = leader
       /\ requests' \in [Client -> 0..MaxRequests]
  BY <1>3, Now DEF shared
<1> HIDE DEF g
<1>13. QED
  BY <1>3, <1>11, <1>12, OwnStep
-----------------------------------------------------------------------------
(* The steps of a CRC *)

(* A CRC that this answer did not compute is that of the file if the       *)
(* answer began with the archive: then the file is empty.  Otherwise it is *)
(* if nothing goes wrong.                                                  *)
LEMMA Trusted ==
  ASSUME Inv, NEW c \in Client, pc[c] \in Sending, Missing(c) # {},
         Wanted(c) \notin DOMAIN job[c].computed, job[c].from = 0 \/ Troubles = {}
  PROVE  /\ crcs[BlobOf[Wanted(c)]] \in {None, CRC(Wanted(c), job[c].sel[Wanted(c)])}
         /\ Length[Wanted(c)] = job[c].sel[Wanted(c)]
<1> DEFINE f == Wanted(c)
           m == job[c].sel
           g == got[c]
<1>1. /\ f \in File /\ f \in DOMAIN m /\ f \in Needed(c) /\ Len(g) + 1 \in 1..Len(Plan(m))
      /\ m \in Manifests /\ Fits(pc[c], job[c], g) /\ Len(g) \in Nat
  BY Now, MissingIs, Seeking DEF Lacks
<1>2. /\ crcs[BlobOf[f]] \in {None, CRC(f, Listed[f]), CRC(f, Length[f])}
      /\ Resolved => crcs[BlobOf[f]] \in {None, CRC(f, Length[f])}
  BY <1>1, Now DEF CRCsFit
<1>3. CASE Troubles = {}
  <2>1. Resolved /\ m = Length
    BY <1>1, <1>3 DEF Fits, Untroubled, Resolved
  <2>2. QED
    BY <1>2, <2>1
<1>4. CASE job[c].from = 0
  <2>1. m[f] = 0
    <3> SUFFICES ASSUME m[f] # 0 PROVE FALSE
      OBVIOUS
    <3> DEFINE s == Plan(m)
               e == Len(g) + 1
    <3>1. m[f] > 0
      BY <1>1, ManifestTyped
    <3>2. /\ s[e].kind = "descriptor" /\ s[e].file = f
          \/ s[e].kind \in {"record", "end"}
      BY <1>1 DEF Needed, Current, At
    <3>3. PICK i \in 1..e - 1 : LastByte(m, f, s[i])
      BY <1>1, <3>1, <3>2, PlanIs DEF BytesFirst
    <3>4. i \in 1..Len(g) /\ i \in 1..Len(s) /\ s[i] \in Units
      BY <1>1, Planning
    <3>5. g[i] = WithCRC(s[i], TrueCRCs(m))
      BY <1>1, <1>4, <3>4 DEF Fits, AnswerFits, Begins
    <3>6. LastByte(m, f, g[i])
      BY <3>3, <3>4, <3>5, WithCRCIs DEF LastByte
    <3>7. QED
      BY <1>1, <1>4, <3>4, <3>6 DEF Fits, AnswerFits
  <2>2. Listed[f] = 0 /\ Length[f] = 0
    BY <1>1, <2>1, Constants DEF Fits, JobFits, Sized
  <2>3. QED
    BY <1>2, <2>1, <2>2
<1>5. QED
  BY <1>3, <1>4



LEMMA LearnFits ==
  ASSUME NEW place \in Sending, NEW j, NEW g, Fits(place, j, g), NEW f \in DOMAIN j.sel,
         NEW crc \in CRCs, j.from = 0 \/ Troubles = {} => crc = CRC(f, j.sel[f])
  PROVE  Fits("send", [j EXCEPT !.known = Noting(@, f, crc)], g)
<1> DEFINE k == Noting(j.known, f, crc)
           l == [j EXCEPT !.known = k]
<1>1. j \in Job /\ g \in Seq(Sent) /\ j.known \in CRCMap /\ f \in File
  BY ManifestTyped DEF Fits, ClientTyped, Job
<1>2. /\ k \in CRCMap /\ DOMAIN k = DOMAIN j.known \cup {f} /\ k[f] = crc
      /\ \A e \in DOMAIN j.known : e # f => k[e] = j.known[e]
  BY <1>1, Learns
<1> HIDE DEF k
<1>3. /\ l \in Job /\ l.gone = j.gone /\ l.sel = j.sel /\ l.from = j.from
      /\ l.computed = j.computed /\ l.known = k
  BY <1>1, <1>2 DEF Job
<1>4. l = [j EXCEPT !.known = Noting(@, f, crc)]
  BY DEF k
<1> HIDE DEF l
<1>5. ClientTyped("send", l, g)
  BY <1>1, <1>3 DEF ClientTyped, Running
<1>6. JobFits("send", l, g)
  BY <1>2, <1>3 DEF Fits, JobFits, Early, Stuck
<1>7. AnswerFits("send", l, g)
  BY <1>2, <1>3 DEF Fits, AnswerFits, Sending
<1>8. Untroubled("send", l, g)
  BY <1>3 DEF Fits, Untroubled, Sending
<1>9. QED
  BY <1>4, <1>5, <1>6, <1>7, <1>8 DEF Fits

(* What a client of the flights looks for *)
LEMMA WantedIs ==
  ASSUME Inv, NEW c \in Client, Missing(c) # {} \/ pc[c] \in Stuck
  PROVE  /\ Missing(c) # {} /\ Wanted(c) \in File /\ Wanted(c) \in DOMAIN job[c].sel
         /\ BlobOf[Wanted(c)] \in Blob
         /\ pc[c] \in Stuck => Wanted(c) \notin DOMAIN job[c].computed
<1>1. Missing(c) # {} /\ (pc[c] \in Stuck => Wanted(c) \notin DOMAIN job[c].computed)
  BY Now, MissingIs DEF Fits, JobFits
<1>2. Wanted(c) \in File /\ Wanted(c) \in DOMAIN job[c].sel
  BY <1>1, Now, MissingIs, Seeking
<1>3. QED
  BY <1>1, <1>2 DEF Blob

(* A step of one answer that comes to know a CRC *)
LEMMA KnowStep ==
  ASSUME Inv, NEW c \in Client, pc[c] \in {"send", "miss"}, Missing(c) # {},
         NEW crc \in CRCs,
         job[c].from = 0 \/ Troubles = {} => crc = CRC(Wanted(c), job[c].sel[Wanted(c)]),
         pc' = [pc EXCEPT ![c] = "send"], Know(c, crc), UNCHANGED <<shared, got, requests>>
  PROVE  Inv'
<1> DEFINE j == [job[c] EXCEPT !.known = Noting(@, Wanted(c), crc)]
<1>1. Wanted(c) \in DOMAIN job[c].sel /\ Fits(pc[c], job[c], got[c]) /\ pc[c] \in Sending
  BY WantedIs, Now DEF Sending
<1>2. Fits("send", j, got[c])
  BY <1>1, LearnFits
<1>3. /\ job' = [job EXCEPT ![c] = j] /\ got' = [got EXCEPT ![c] = got[c]]
      /\ leader' = leader
  BY Now DEF Know, shared
<1>4. /\ ManifestFits(manifest') /\ CRCsFit(crcs')
      /\ requests' \in [Client -> 0..MaxRequests]
  BY Now DEF shared
<1> HIDE DEF j
<1>5. QED
  BY <1>2, <1>3, <1>4, OwnStep

LEMMA UseComputedKeeps ==
  ASSUME Inv, NEW c \in Client, UseComputed(c)
  PROVE  Inv'
<1> DEFINE f == Wanted(c)
           crc == job[c].computed[f]
<1>1. /\ pc[c] = "send" /\ Missing(c) # {} /\ f \in DOMAIN job[c].computed
      /\ Know(c, crc) /\ UNCHANGED <<shared, pc, got, requests>>
  BY DEF UseComputed
<1>2. f \in File /\ f \in DOMAIN job[c].sel /\ Fits(pc[c], job[c], got[c])
      /\ pc = [pc EXCEPT ![c] = pc[c]]
  BY <1>1, WantedIs, Now
<1>3. crc = CRC(f, job[c].sel[f]) /\ job[c].sel[f] \in {Listed[f], Length[f]}
  BY <1>1, <1>2 DEF Fits, JobFits, Sized
<1>4. crc \in CRCs
  BY <1>2, <1>3, CRCsHave
<1>5. pc' = [pc EXCEPT ![c] = "send"]
  BY <1>1, <1>2
<1> HIDE DEF crc
<1>6. QED
  BY <1>1, <1>3, <1>4, <1>5, KnowStep

LEMMA UseCachedKeeps ==
  ASSUME Inv, NEW c \in Client, UseCached(c)
  PROVE  Inv'
<1> DEFINE f == Wanted(c)
           crc == crcs[BlobOf[f]]
<1>1. /\ pc[c] = "send" /\ Missing(c) # {} /\ f \notin DOMAIN job[c].computed
      /\ crc # None /\ Know(c, crc) /\ UNCHANGED <<shared, pc, got, requests>>
  BY DEF UseCached
<1>2. BlobOf[f] \in Blob /\ CRCsFit(crcs) /\ pc = [pc EXCEPT ![c] = pc[c]]
  BY <1>1, WantedIs, Now
<1>3. crc \in CRCs
  BY <1>1, <1>2 DEF CRCsFit
<1>4. job[c].from = 0 \/ Troubles = {} => crc = CRC(f, job[c].sel[f])
  BY <1>1, Trusted DEF Sending
<1>5. pc' = [pc EXCEPT ![c] = "send"]
  BY <1>1, <1>2
<1> HIDE DEF crc
<1>6. QED
  BY <1>1, <1>3, <1>4, <1>5, KnowStep

LEMMA MissCRCKeeps ==
  ASSUME Inv, NEW c \in Client, MissCRC(c)
  PROVE  Inv'
<1> DEFINE j == job[c]
           g == got[c]
<1>1. /\ pc[c] = "send" /\ Lacks(j, g) # {} /\ Seeks(j, g) \notin DOMAIN j.computed
  BY MissingIs DEF MissCRC
<1>2. Fits("send", j, g)
  BY <1>1, Now
<1>3. Fits("miss", j, g)
  BY <1>1, <1>2 DEF Fits, ClientTyped, JobFits, AnswerFits, Untroubled, Running, Early,
                    Stuck, Sending
<1>4. /\ pc' = [pc EXCEPT ![c] = "miss"] /\ job' = [job EXCEPT ![c] = j]
      /\ got' = [got EXCEPT ![c] = g] /\ leader' = leader
      /\ ManifestFits(manifest') /\ CRCsFit(crcs')
      /\ requests' \in [Client -> 0..MaxRequests]
  BY Now DEF MissCRC, Goto, shared
<1> HIDE DEF j, g
<1>5. QED
  BY <1>1, <1>3, <1>4, OwnStep

LEMMA JoinFlightKeeps ==
  ASSUME Inv, NEW c \in Client, JoinFlight(c)
  PROVE  Inv'
<1> DEFINE j == job[c]
           g == got[c]
<1>1. pc[c] = "miss" /\ leader[BlobOf[Seeks(j, g)]] # None
  BY MissingIs DEF JoinFlight
<1>2. Fits("miss", j, g)
  BY <1>1, Now
<1>3. Fits("wait", j, g)
  BY <1>2 DEF Fits, ClientTyped, JobFits, AnswerFits, Untroubled, Running, Early,
                    Stuck, Sending
<1>4. /\ pc' = [pc EXCEPT ![c] = "wait"] /\ job' = [job EXCEPT ![c] = j]
      /\ got' = [got EXCEPT ![c] = g] /\ leader' = leader
      /\ ManifestFits(manifest') /\ CRCsFit(crcs')
      /\ requests' \in [Client -> 0..MaxRequests]
  BY Now DEF JoinFlight, Goto, shared
<1> HIDE DEF j, g
<1>5. QED
  BY <1>1, <1>3, <1>4, OwnStep


LEMMA LeadFlightKeeps ==
  ASSUME Inv, NEW c \in Client, LeadFlight(c)
  PROVE  Inv'
<1> DEFINE b == BlobOf[Wanted(c)]
<1>1. /\ pc[c] = "miss" /\ leader[b] = None /\ UNCHANGED <<manifest, crcs, got, requests>>
  BY DEF LeadFlight
<1>2. /\ Missing(c) # {} /\ b \in Blob /\ Wanted(c) \notin DOMAIN job[c].computed
      /\ CRCsFit(crcs)
  BY <1>1, WantedIs, Now DEF Stuck
<1>3. CASE crcs[b] # None
  <2>1. crcs[b] \in CRCs
    BY <1>2, <1>3 DEF CRCsFit
  <2>2. job[c].from = 0 \/ Troubles = {} => crcs[b] = CRC(Wanted(c), job[c].sel[Wanted(c)])
    BY <1>1, <1>2, <1>3, Trusted DEF Sending
  <2>3. /\ pc' = [pc EXCEPT ![c] = "send"] /\ Know(c, crcs[b])
        /\ UNCHANGED <<shared, got, requests>>
    BY <1>1, <1>3 DEF LeadFlight, Goto, shared
  <2>4. QED
    BY <1>1, <1>2, <2>1, <2>2, <2>3, KnowStep
<1>4. CASE crcs[b] = None
  <2>1. /\ pc' = [pc EXCEPT ![c] = "hash"] /\ leader' = [leader EXCEPT ![b] = c]
        /\ UNCHANGED <<manifest, crcs, job, got, requests>>
    BY <1>1, <1>4 DEF LeadFlight, Goto
  <2>2. /\ pc \in [Client -> Running \cup Ended] /\ leader \in [Blob -> Client \cup {None}]
        /\ c # None
    BY Constants DEF Inv
  <2>3. /\ pc' \in [Client -> Running \cup Ended] /\ leader' \in [Blob -> Client \cup {None}]
        /\ pc'[c] = "hash" /\ \A d \in Client : d # c => pc'[d] = pc[d]
        /\ leader'[b] = c /\ \A o \in Blob : o # b => leader'[o] = leader[o]
    BY <1>2, <2>1, <2>2 DEF Running
  <2>4. Fits("miss", job[c], got[c])
    BY <1>1, Now
  <2>5. Fits("hash", job[c], got[c])
    BY <2>4 DEF Fits, ClientTyped, JobFits, AnswerFits, Untroubled, Running, Early,
                      Stuck, Sending
  <2>6. \A d \in Client : Fits(pc'[d], job'[d], got'[d])
    BY <2>1, <2>3, <2>5 DEF Inv
  <2>7. Led(leader, pc, job, got) /\ b = BlobOf[Seeks(job[c], got[c])]
    BY FlightsAre, MissingIs DEF Inv
  <2>8. Led(leader', pc', job', got')
    <3>1. ASSUME NEW o \in Blob, leader'[o] # None
          PROVE  /\ pc'[leader'[o]] = "hash"
                 /\ BlobOf[Seeks(job'[leader'[o]], got'[leader'[o]])] = o
      <4>1. CASE o = b
        BY <2>1, <2>3, <2>7, <4>1
      <4>2. CASE o # b
        <5>1. leader'[o] = leader[o] /\ leader[o] # None /\ leader[o] \in Client
          BY <2>2, <2>3, <3>1, <4>2
        <5>2. /\ pc[leader[o]] = "hash"
              /\ BlobOf[Seeks(job[leader[o]], got[leader[o]])] = o
          BY <2>7, <5>1 DEF Led
        <5>3. leader[o] # c
          BY <1>1, <5>2
        <5>4. QED
          BY <2>1, <2>3, <5>1, <5>2, <5>3
      <4>3. QED
        BY <4>1, <4>2
    <3>2. ASSUME NEW d \in Client, pc'[d] = "wait"
          PROVE  leader'[BlobOf[Seeks(job'[d], got'[d])]] # None
      <4>1. d # c /\ pc[d] = "wait"
        BY <2>3, <3>2
      <4>2. BlobOf[Seeks(job[d], got[d])] \in Blob
        BY <4>1, WantedIs, MissingIs DEF Stuck
      <4>3. leader[BlobOf[Seeks(job[d], got[d])]] # None
        BY <2>7, <4>1 DEF Led
      <4>4. QED
        BY <2>1, <2>2, <2>3, <4>2, <4>3
    <3>3. QED
      BY <3>1, <3>2 DEF Led
  <2>9. FlightsAreLed'
    BY <2>8, FlightsAre
  <2>10. ManifestFits(manifest') /\ CRCsFit(crcs')
    BY <2>1, Now
  <2>11. QED
    BY <2>1, <2>3, <2>6, <2>9, <2>10 DEF Inv
<1>5. QED
  BY <1>3, <1>4

(* However a flight ends, all who share it go on or fail. *)
LEMMA FlightEnds ==
  ASSUME Inv, NEW c \in Client, pc[c] = "hash",
         leader' = [leader EXCEPT ![BlobOf[Wanted(c)]] = None],
         pc' \in [Client -> Running \cup Ended], job' \in [Client -> Job],
         got' \in [Client -> Seq(Sent)], UNCHANGED <<manifest, requests>>, CRCsFit(crcs'),
         \A d \in Flight(c) : pc'[d] \in {"send", "failed"}
                                /\ Fits(pc'[d], job'[d], got'[d]),
         \A d \in Client \ Flight(c) :
           pc'[d] = pc[d] /\ job'[d] = job[d] /\ got'[d] = got[d]
  PROVE  Inv'
<1> DEFINE b == BlobOf[Wanted(c)]
<1>1. /\ b \in Blob /\ leader \in [Blob -> Client \cup {None}]
      /\ leader' \in [Blob -> Client \cup {None}]
      /\ leader'[b] = None /\ \A o \in Blob : o # b => leader'[o] = leader[o]
  <2>1. b \in Blob /\ leader \in [Blob -> Client \cup {None}]
    BY WantedIs DEF Stuck, Inv
  <2>2. QED
    BY <2>1
<1>2. /\ Led(leader, pc, job, got)
      /\ \A d \in Client : Wanted(d) = Seeks(job[d], got[d])
  BY FlightsAre, MissingIs DEF Inv
<1>3. \A d \in Client : d \in Flight(c) <=>
        d = c \/ (pc[d] = "wait" /\ WantsCRC(d, b))
  BY DEF Flight
<1>4. \A d \in Client : Fits(pc'[d], job'[d], got'[d])
  BY DEF Inv
<1>5. ASSUME NEW o \in Blob, leader'[o] # None
      PROVE  /\ pc'[leader'[o]] = "hash"
             /\ BlobOf[Seeks(job'[leader'[o]], got'[leader'[o]])] = o
  <2> DEFINE l == leader[o]
  <2>1. o # b /\ leader'[o] = l /\ l # None /\ l \in Client
    BY <1>1, <1>5
  <2>2. pc[l] = "hash" /\ BlobOf[Seeks(job[l], got[l])] = o
    BY <1>2, <2>1 DEF Led
  <2>3. l # c
    BY <1>2, <2>1, <2>2
  <2>4. l \notin Flight(c)
    BY <1>3, <2>1, <2>2, <2>3
  <2>5. QED
    BY <2>1, <2>2, <2>4
<1>6. ASSUME NEW d \in Client, pc'[d] = "wait"
      PROVE  leader'[BlobOf[Seeks(job'[d], got'[d])]] # None
  <2>1. d \notin Flight(c)
    BY <1>6
  <2>2. pc[d] = "wait" /\ job'[d] = job[d] /\ got'[d] = got[d]
    BY <1>6, <2>1
  <2>3. BlobOf[Wanted(d)] \in Blob /\ Missing(d) # {}
    BY <2>2, WantedIs DEF Stuck
  <2>4. BlobOf[Wanted(d)] # b
    BY <1>3, <2>1, <2>2, <2>3 DEF WantsCRC
  <2>5. leader[BlobOf[Wanted(d)]] # None
    BY <1>2, <2>2 DEF Led
  <2>6. QED
    BY <1>1, <1>2, <2>2, <2>3, <2>4, <2>5
<1>7. FlightsAreLed'
  BY <1>5, <1>6, FlightsAre DEF Led
<1>8. QED
  BY <1>1, <1>4, <1>7 DEF Inv

LEMMA FlightIs ==
  ASSUME Inv, NEW c \in Client, pc[c] = "hash", NEW d \in Flight(c)
  PROVE  /\ d \in Client /\ pc[d] \in {"hash", "wait"} /\ Missing(d) # {}
         /\ Wanted(d) \in File /\ Wanted(d) \in DOMAIN job[d].sel
         /\ Wanted(d) \notin DOMAIN job[d].computed
         /\ BlobOf[Wanted(d)] = BlobOf[Wanted(c)]
<1>1. d \in Client /\ (d = c \/ (pc[d] = "wait" /\ WantsCRC(d, BlobOf[Wanted(c)])))
  BY DEF Flight
<1>2. pc[d] \in {"hash", "wait"} /\ BlobOf[Wanted(d)] = BlobOf[Wanted(c)]
  BY <1>1 DEF WantsCRC
<1>3. QED
  BY <1>1, <1>2, WantedIs DEF Stuck

LEMMA HashFileKeeps ==
  ASSUME Inv, NEW c \in Client, HashFile(c)
  PROVE  Inv'
<1> DEFINE f == Wanted(c)
           crc == CRC(f, Length[f])
           know(d) == [job[d] EXCEPT !.known = Noting(@, Wanted(d), crc)]
<1>1. /\ pc[c] = "hash" /\ crcs' = [crcs EXCEPT ![BlobOf[f]] = crc]
      /\ leader' = [leader EXCEPT ![BlobOf[f]] = None]
      /\ pc' = [d \in Client |-> IF d \in Flight(c) THEN "send" ELSE pc[d]]
      /\ job' = [d \in Client |-> IF d \in Flight(c) THEN know(d) ELSE job[d]]
      /\ UNCHANGED <<manifest, got, requests>>
  BY DEF HashFile
<1>2. f \in File /\ CRCsFit(crcs)
  BY <1>1, WantedIs, Now DEF Stuck
<1>3. crc \in CRCs /\ CRCsFit(crcs')
  BY <1>1, <1>2, CRCsHave, StoringFits
<1>4. ASSUME NEW d \in Flight(c)
      PROVE  Fits("send", know(d), got[d])
  <2>1. /\ d \in Client /\ pc[d] \in Sending /\ Missing(d) # {}
        /\ Wanted(d) \in File /\ Wanted(d) \in DOMAIN job[d].sel
        /\ Wanted(d) \notin DOMAIN job[d].computed /\ BlobOf[Wanted(d)] = BlobOf[f]
    BY <1>1, <1>4, FlightIs DEF Sending
  <2>2. crc = CRC(Wanted(d), Length[Wanted(d)])
    BY <1>2, <2>1, Constants DEF CRC
  <2>3. job[d].from = 0 \/ Troubles = {} => crc = CRC(Wanted(d), job[d].sel[Wanted(d)])
    BY <2>1, <2>2, Trusted
  <2>4. Fits(pc[d], job[d], got[d])
    BY <2>1, Now
  <2> HIDE DEF crc
  <2>5. QED
    BY <1>3, <2>1, <2>3, <2>4, LearnFits
<1> HIDE DEF know, crc
<1>5. /\ pc \in [Client -> Running \cup Ended] /\ job \in [Client -> Job]
      /\ got \in [Client -> Seq(Sent)] /\ "send" \in Running
  BY DEF Inv, Running
<1>6. \A d \in Flight(c) : know(d) \in Job
  BY <1>4 DEF Fits, ClientTyped
<1>7. Flight(c) \subseteq Client
  BY DEF Flight
<1>8. /\ pc' \in [Client -> Running \cup Ended] /\ job' \in [Client -> Job]
      /\ \A d \in Flight(c) : pc'[d] = "send" /\ job'[d] = know(d)
      /\ \A d \in Client \ Flight(c) : pc'[d] = pc[d] /\ job'[d] = job[d]
  BY <1>1, <1>5, <1>6, <1>7
<1>9. QED
  BY <1>1, <1>3, <1>4, <1>5, <1>8, FlightEnds

(* Those who fail with a flight, some of them after an error text *)
LEMMA FlightFails ==
  ASSUME Inv, NEW c \in Client, pc[c] = "hash", Fail(Flight(c)),
         leader' = [leader EXCEPT ![BlobOf[Wanted(c)]] = None],
         NEW told \in SUBSET Flight(c), told # {} => Troubles # {}, AppendErrorText(told),
         UNCHANGED <<manifest, crcs, requests>>
  PROVE  Inv'
<1>1. Flight(c) \subseteq Client
  BY DEF Flight
<1>2. /\ pc \in [Client -> Running \cup Ended] /\ job \in [Client -> Job]
      /\ got \in [Client -> Seq(Sent)] /\ CRCsFit(crcs')
  BY DEF Inv
<1>3. \A d \in Client : got'[d] = IF d \in told THEN Append(got[d], JSON) ELSE got[d]
  BY DEF AppendErrorText
<1>4. /\ \A d \in Flight(c) : pc'[d] = "failed" /\ job'[d] = NoJob
      /\ \A d \in Client \ Flight(c) : pc'[d] = pc[d] /\ job'[d] = job[d] /\ got'[d] = got[d]
  BY <1>1, <1>3 DEF Fail
<1>5. ASSUME NEW d \in Flight(c)
      PROVE  Fits("failed", NoJob, got'[d])
  BY <1>1, <1>3, Now, FailedFits, ToldFits
<1>6. pc' \in [Client -> Running \cup Ended] /\ job' \in [Client -> Job]
  BY <1>2, Empty DEF Fail, Ended
<1>7. got' \in [Client -> Seq(Sent)]
  <2>1. \A d \in Client : got'[d] \in Seq(Sent)
    BY <1>2, <1>4, <1>5 DEF Fits, ClientTyped
  <2>2. got' = [d \in Client |-> got'[d]]
    BY DEF AppendErrorText
  <2>3. QED
    BY <2>1, <2>2
<1>8. \A d \in Flight(c) : pc'[d] \in {"send", "failed"} /\ Fits(pc'[d], job'[d], got'[d])
  BY <1>4, <1>5
<1>9. QED
  BY <1>2, <1>4, <1>6, <1>7, <1>8, FlightEnds

LEMMA HashFileCancelledKeeps ==
  ASSUME Inv, NEW c \in Client, HashFileCancelled(c)
  PROVE  Inv'
<1>1. got' = [d \in Client |-> IF d \in {} THEN Append(got[d], JSON) ELSE got[d]]
  BY DEF HashFileCancelled, Inv
<1>2. AppendErrorText({})
  BY <1>1 DEF AppendErrorText
<1>3. QED
  BY <1>2, FlightFails DEF HashFileCancelled

LEMMA HashFileFailsKeeps ==
  ASSUME Inv, NEW c \in Client, HashFileFails(c)
  PROVE  Inv'
<1>1. PICK told \in SUBSET {d \in Flight(c) : Begun(d)} : AppendErrorText(told)
  BY DEF HashFileFails
<1>2. ASSUME NEW d \in told PROVE Troubles # {}
  <2>1. d \in Client /\ d \in Flight(c) /\ Begun(d)
    BY <1>1 DEF Flight
  <2>2. Len(got[d]) # job[d].from
    BY <2>1, Now DEF Begun, Job
  <2>3. QED
    BY <2>1, <2>2 DEF HashFileFails, MayBreak
<1>3. told \in SUBSET Flight(c)
  OBVIOUS
<1>4. QED
  BY <1>1, <1>2, <1>3, FlightFails DEF HashFileFails

-----------------------------------------------------------------------------
(* The theorems *)

LEMMA Begin == Init => Inv
<1> SUFFICES ASSUME Init PROVE Inv
  OBVIOUS
<1>1. /\ pc \in [Client -> Running \cup Ended] /\ job \in [Client -> Job]
      /\ got \in [Client -> Seq(Sent)] /\ leader \in [Blob -> Client \cup {None}]
      /\ requests \in [Client -> 0..MaxRequests]
  <2>1. <<>> \in Seq(Sent)
    OBVIOUS
  <2>2. QED
    BY <2>1, Empty, Constants DEF Init, Ended
<1>2. ManifestFits(manifest)
  BY DEF Init, ManifestFits
<1>3. CRCsFit(crcs)
  BY DEF Init, CRCsFit, Blob
<1>4. ASSUME NEW c \in Client PROVE Fits(pc[c], job[c], got[c])
  <2>1. pc[c] = "idle" /\ job[c] = NoJob /\ got[c] = <<>> /\ Len(<<>>) = 0
    BY <1>4 DEF Init
  <2>2. ClientTyped("idle", NoJob, <<>>)
    BY Empty DEF ClientTyped, Ended
  <2>3. JobFits("idle", NoJob, <<>>)
    BY <2>1, Empty DEF JobFits, NoJob, Sized, Early, Stuck
  <2>4. Len(Plan(Length)) \in Nat
    BY ManifestsAre, Planning
  <2>5. Begins(Length, <<>>)
    BY <2>1, <2>4 DEF Begins
  <2>6. AnswerFits("idle", NoJob, <<>>) /\ Untroubled("idle", NoJob, <<>>)
    BY <2>5 DEF AnswerFits, Untroubled, Sending
  <2>7. QED
    BY <2>1, <2>2, <2>3, <2>6 DEF Fits
<1>5. FlightsAreLed
  BY DEF Init, FlightsAreLed
<1>6. QED
  BY <1>1, <1>2, <1>3, <1>4, <1>5 DEF Inv

LEMMA Step == Inv /\ [Next]_vars => Inv'
<1> SUFFICES ASSUME Inv, [Next]_vars PROVE Inv'
  OBVIOUS
<1>1. CASE UNCHANGED vars
  <2>1. FlightsAreLed'
    BY <1>1, FlightsAre DEF Inv, vars, shared
  <2>2. QED
    BY <1>1, <2>1 DEF Inv, vars, shared
<1>2. CASE Rest
  BY <1>1, <1>2 DEF Rest
<1>3. CASE Expire
  BY <1>3, ExpireKeeps
<1>4. ASSUME NEW c \in Client, Request(c) PROVE Inv'
  BY <1>4, RequestKeeps
<1>5. ASSUME NEW c \in Client, Leave(c) PROVE Inv'
  BY <1>5, LeaveKeeps
<1>6. ASSUME NEW c \in Client, Select(c) PROVE Inv'
  BY <1>6, HitManifestKeeps, MissManifestKeeps, ListFilesKeeps, ListFilesCutShortKeeps,
     ListFilesFailsKeeps, ResolveSizesKeeps, ResolveSizesFailsKeeps DEF Select
<1>7. ASSUME NEW c \in Client, Serve(c) PROVE Inv'
  BY <1>7, StartStreamKeeps, RefuseRangeKeeps, SourceFailsKeeps, AbortKeeps, SendHeaderKeeps,
     SendByteKeeps, SendLastByteKeeps, SendDescriptorKeeps, SendTailKeeps, FinishKeeps
     DEF Serve
<1>8. ASSUME NEW c \in Client, FindCRC(c) PROVE Inv'
  BY <1>8, UseComputedKeeps, UseCachedKeeps, MissCRCKeeps, LeadFlightKeeps, JoinFlightKeeps,
     HashFileKeeps, HashFileCancelledKeeps, HashFileFailsKeeps DEF FindCRC
<1>9. QED
  BY <1>1, <1>2, <1>3, <1>4, <1>5, <1>6, <1>7, <1>8 DEF Next, Handle

(* The invariant: what the caches hold has one of the sizes of its file,   *)
(* what a client has is a beginning of the archive, and a flight is led.   *)
THEOREM Invariance == Spec => []Inv
BY Begin, Step, PTL DEF Spec

(* The caches, the flights and the jobs of the handlers are what they are  *)
(* declared to be; what a handler has computed is the CRC of the size that *)
(* its manifest has.                                                       *)
THEOREM TypeCorrect == Spec => []TypeOK
<1>1. Inv => TypeOK
  <2> SUFFICES ASSUME Inv PROVE TypeOK
    OBVIOUS
  <2>1. ASSUME NEW c \in Client
        PROVE  /\ job[c].sel \in Manifests
               /\ job[c].from \in 0..Len(got[c])
               /\ \A f \in DOMAIN job[c].computed :
                    job[c].computed[f] = CRC(f, job[c].sel[f])
               /\ DOMAIN job[c].known \subseteq DOMAIN job[c].sel
    BY Now DEF Fits, JobFits, Job
  <2>2. QED
    BY <2>1 DEF Inv, ManifestFits, CRCsFit, TypeOK
<1>2. QED
  BY <1>1, Invariance, PTL

(* Lemma: what begins an archive and is as long is the archive. *)
LEMMA WholeIs ==
  ASSUME NEW m \in Manifests, NEW g \in Seq(Sent), Begins(m, g), Len(g) = Len(Plan(m))
  PROVE  g = Archive(m)
<1>1. DOMAIN Plan(m) = 1..Len(Plan(m))
  BY PlanIs
<1>2. g = [i \in 1..Len(g) |-> g[i]]
  OBVIOUS
<1>3. Archive(m) = [i \in 1..Len(g) |-> WithCRC(Plan(m)[i], TrueCRCs(m))]
  BY <1>1 DEF Archive, TrueCRCs
<1>4. QED
  BY <1>2, <1>3 DEF Begins

(* One answer from the first unit to the last is an archive in itself      *)
(* (writeEntryBytes, resolveEntryCRC, buildTail), whatever goes wrong and  *)
(* whatever the caches hold.                                               *)
THEOREM WholeAnswers == Spec => []WholeAnswersConsistent
<1>1. Inv => WholeAnswersConsistent
  <2> SUFFICES ASSUME Inv, NEW c \in Client, pc[c] = "done", job[c].from = 0
               PROVE  got[c] = Archive(job[c].sel)
    BY DEF WholeAnswersConsistent
  <2>1. Begins(job[c].sel, got[c]) /\ Len(got[c]) = Len(Plan(job[c].sel))
    BY Now DEF Fits, AnswerFits
  <2>2. QED
    BY <2>1, Now, WholeIs
<1>2. QED
  BY <1>1, Invariance, PTL

(* What a client has put together from answers that broke off anywhere is  *)
(* the archive of the selection, if the sizes are resolved, no listing is  *)
(* cut short and the source does not fail in an answer.                    *)
THEOREM ResumedAnswers ==
  ASSUME Troubles = {}
  PROVE  Spec => []ResumedIsArchive
<1>1. Inv => ResumedIsArchive
  <2> SUFFICES ASSUME Inv, NEW c \in Client, pc[c] = "done"
               PROVE  got[c] = Archive(Length)
    BY DEF ResumedIsArchive
  <2>1. /\ Begins(job[c].sel, got[c]) /\ Len(got[c]) = Len(Plan(job[c].sel))
        /\ job[c].sel = Length
    BY Now DEF Fits, AnswerFits, Untroubled, Resolved
  <2>2. QED
    BY <2>1, Now, WholeIs
<1>2. QED
  BY <1>1, Invariance, PTL

(* An answer from the first unit to the last is the archive of the whole   *)
(* selection if listings are not cut short and sizes are resolved, however *)
(* the source fails in the answers of others or of this client before.     *)
THEOREM FirstAnswers ==
  ASSUME Troubles \subseteq {"source"}
  PROVE  Spec => [](\A c \in Client :
                      pc[c] = "done" /\ job[c].from = 0 => got[c] = Archive(Length))
<1>1. Inv => \A c \in Client :
               pc[c] = "done" /\ job[c].from = 0 => got[c] = Archive(Length)
  <2> SUFFICES ASSUME Inv, NEW c \in Client, pc[c] = "done", job[c].from = 0
               PROVE  got[c] = Archive(Length)
    OBVIOUS
  <2>1. /\ Begins(job[c].sel, got[c]) /\ Len(got[c]) = Len(Plan(job[c].sel))
        /\ job[c].sel = Length
    BY Now DEF Fits, AnswerFits, Untroubled, Resolved
  <2>2. QED
    BY <2>1, Now, WholeIs
<1>2. QED
  BY <1>1, Invariance, PTL

(* The crcCache has the CRCs of whole files only, if sizes are resolved    *)
(* and listings not cut short, or if no file is longer than its listing    *)
(* says, as without LFS; a failing source does not spoil it.               *)
THEOREM CachedCRCs ==
  ASSUME Troubles \subseteq {"source"} \/ Listed = Length
  PROVE  Spec => []CachedCRCsTrue
<1>1. Inv => CachedCRCsTrue
  BY DEF Inv, CRCsFit, CachedCRCsTrue, Resolved
<1>2. QED
  BY <1>1, Invariance, PTL

(* The manifest that is stored lists every file of the selection, unless a *)
(* client leaves while the rows are read (src/internal/cache/tree_db.go,   *)
(* lines 236-245): nothing else makes it incomplete.                       *)
THEOREM ManifestLists ==
  ASSUME "cut" \notin Troubles
  PROVE  Spec => []ManifestComplete
<1>1. Inv => ManifestComplete
  BY DEF Inv, ManifestFits, ManifestComplete
<1>2. QED
  BY <1>1, Invariance, PTL

(* A flight of the singleflight group has a leader that is hashing its     *)
(* blob, and who waits waits for such a flight, whatever goes wrong.       *)
THEOREM FlightsLed == Spec => []FlightsAreLed
<1>1. Inv => FlightsAreLed
  BY DEF Inv
<1>2. QED
  BY <1>1, Invariance, PTL

-----------------------------------------------------------------------------
(* The promise of ArchiveTransfer *)

TransferVars == <<StatusMap, got, requests>>

LEMMA Ends ==
  ASSUME Inv
  PROVE  /\ \A c \in Client : pc[c] \in Running \cup Ended
         /\ \A c \in Client : StatusMap[c] = IF pc[c] \in Running THEN "busy" ELSE pc[c]
         /\ DOMAIN got = Client
         /\ Running \cap Ended = {}
  BY DEF Inv, StatusMap, Running, Ended

LEMMA TransferBegin == Init => Transfer!Init
BY DEF Init, Transfer!Init, StatusMap, Running

(* A handler that stays at work and sends nothing *)
LEMMA WorkUnseen ==
  ASSUME Inv, NEW cs \in SUBSET Client,
         \A c \in cs : pc[c] \in Running /\ pc'[c] \in Running,
         \A c \in Client \ cs : pc'[c] = pc[c],
         UNCHANGED <<got, requests>>
  PROVE  UNCHANGED TransferVars
<1>1. \A c \in Client : (IF pc'[c] \in Running THEN "busy" ELSE pc'[c])
                        = (IF pc[c] \in Running THEN "busy" ELSE pc[c])
  OBVIOUS
<1>2. StatusMap' = StatusMap
  BY <1>1 DEF StatusMap
<1>3. QED
  BY <1>2 DEF TransferVars

LEMMA WorksAlone ==
  ASSUME Inv, NEW c \in Client, pc[c] \in Running, pc'[c] \in Running,
         \A d \in Client \ {c} : pc'[d] = pc[d],
         UNCHANGED <<got, requests>>
  PROVE  UNCHANGED TransferVars
<1>1. {c} \in SUBSET Client /\ \A d \in {c} : pc[d] \in Running /\ pc'[d] \in Running
  OBVIOUS
<1>2. QED
  BY <1>1, WorkUnseen

(* Handlers that fail and send nothing *)
LEMMA FailsTogether ==
  ASSUME Inv, NEW cs \in SUBSET Client, \A c \in cs : pc[c] \in Running,
         Fail(cs), UNCHANGED <<got, requests>>
  PROVE  Transfer!BreakOff(cs)
<1>1. \A c \in cs : StatusMap[c] = "busy"
  BY Ends
<1>2. StatusMap' = [c \in Client |-> IF c \in cs THEN "failed" ELSE StatusMap[c]]
  BY DEF StatusMap, Fail, Running
<1>3. QED
  BY <1>1, <1>2 DEF Transfer!BreakOff

(* A unit that is sent is the next one of the archive. *)
LEMMA SendsNext ==
  ASSUME Inv, Inv', Troubles = {}, NEW c \in Client, pc[c] = "send", pc' = pc, NEW u,
         got' = [got EXCEPT ![c] = Append(@, u)], UNCHANGED requests
  PROVE  Transfer!Continue(c)
<1> DEFINE g == got[c]
           h == Append(g, u)
<1>1. g \in Seq(Sent) /\ Len(g) \in Nat /\ got'[c] = h
  BY Now, Ends
<1>2. got' \in [Client -> Seq(Sent)] /\ Fits(pc'[c], job'[c], got'[c])
  BY DEF Inv
<1>3. h \in Seq(Sent) /\ Begins(Length, h)
  BY <1>1, <1>2 DEF Fits, Untroubled
<1> HIDE DEF g
<1>4. Len(h) = Len(g) + 1 /\ h[Len(g) + 1] = u
  BY <1>1
<1> HIDE DEF h
<1>5. Len(g) + 1 \in 1..Len(h) /\ Len(g) + 1 <= Len(Plan(Length))
  BY <1>1, <1>3, <1>4 DEF Begins
<1>6. u = WithCRC(Plan(Length)[Len(g) + 1], TrueCRCs(Length))
  BY <1>3, <1>4, <1>5 DEF Begins
<1>7. Length \in Manifests /\ Len(Plan(Length)) \in Nat
  BY ManifestsAre, Planning
<1>8. /\ DOMAIN Plan(Length) = 1..Len(Plan(Length))
      /\ WholeArchive = [i \in 1..Len(Plan(Length)) |->
                           WithCRC(Plan(Length)[i], TrueCRCs(Length))]
  BY <1>7, PlanIs DEF WholeArchive, Archive, TrueCRCs
<1>9. Len(WholeArchive) = Len(Plan(Length))
  BY <1>7, <1>8
<1>10. Len(g) < Len(WholeArchive) /\ WholeArchive[Len(g) + 1] = u
  BY <1>1, <1>5, <1>6, <1>7, <1>8, <1>9
<1>11. StatusMap[c] = "busy" /\ StatusMap' = StatusMap
  BY Ends DEF StatusMap, Running
<1>12. got' = [got EXCEPT ![c] = Append(@, WholeArchive[Len(@) + 1])]
  BY <1>10 DEF g
<1>13. QED
  BY <1>10, <1>11, <1>12 DEF Transfer!Continue, g

LEMMA SelectTransfers ==
  ASSUME Inv, NEW c \in Client, Select(c)
  PROVE  Transfer!Next \/ UNCHANGED TransferVars
<1>1. CASE ListFilesFails(c)
  <2>1. Transfer!BreakOff({c})
    BY <1>1, FailsTogether DEF ListFilesFails, Running
  <2>2. QED
    BY <2>1 DEF Transfer!Next
<1>2. CASE ~ListFilesFails(c)
  <2>1. /\ pc[c] \in Running /\ pc'[c] \in Running /\ \A d \in Client \ {c} : pc'[d] = pc[d]
        /\ UNCHANGED <<got, requests>>
    BY <1>2 DEF Inv, Select, HitManifest, MissManifest, ListFiles, ListFilesCutShort,
                ResolveSizes, ResolveSizesFails, Goto, Running
  <2>2. QED
    BY <2>1, WorksAlone
<1>3. QED
  BY <1>1, <1>2

LEMMA ServeTransfers ==
  ASSUME Inv, Inv', Troubles = {}, NEW c \in Client, Serve(c)
  PROVE  Transfer!Next \/ UNCHANGED TransferVars
<1>1. CASE StartStream(c)
  <2>1. /\ pc[c] \in Running /\ pc'[c] \in Running /\ \A d \in Client \ {c} : pc'[d] = pc[d]
        /\ UNCHANGED <<got, requests>>
    BY <1>1 DEF Inv, StartStream, Goto, Running
  <2>2. QED
    BY <2>1, WorksAlone
<1>2. CASE RefuseRange(c) \/ Abort(c) \/ SourceFails(c)
  <2>1. pc[c] \in Running /\ Fail({c}) /\ UNCHANGED requests
    BY <1>2 DEF RefuseRange, Abort, SourceFails, Running
  <2>2. UNCHANGED got
    <3>1. SourceFails(c) => ~Begun(c)
      BY Now DEF SourceFails, MayBreak, Begun, Fits, JobFits, Job
    <3>2. QED
      BY <1>2, <3>1 DEF RefuseRange, Abort, SourceFails
  <2>3. Transfer!BreakOff({c})
    BY <2>1, <2>2, FailsTogether
  <2>4. QED
    BY <2>3 DEF Transfer!Next
<1>3. CASE SendHeader(c) \/ SendByte(c) \/ SendLastByte(c)
  <2>1. Transfer!Continue(c)
    BY <1>3, SendsNext DEF SendHeader, SendByte, SendLastByte
  <2>2. QED
    BY <2>1 DEF Transfer!Next
<1>4. CASE SendDescriptor(c) \/ SendTail(c)
  <2>1. Transfer!Continue(c)
    BY <1>4, SendsNext DEF SendDescriptor, SendTail, shared
  <2>2. QED
    BY <2>1 DEF Transfer!Next
<1>5. CASE Finish(c)
  <2>1. /\ pc[c] = "send" /\ pc'[c] = "done" /\ got' = got /\ requests' = requests
        /\ pc' = [pc EXCEPT ![c] = "done"]
    BY <1>5 DEF Inv, Finish, Goto
  <2>2. Fits("done", job'[c], got[c])
    BY <2>1 DEF Inv
  <2>3. job'[c].sel = Length /\ got[c] \in Seq(Sent)
    BY <2>2 DEF Fits, Untroubled, Resolved, ClientTyped
  <2>4. Begins(Length, got[c]) /\ Len(got[c]) = Len(Plan(Length))
    BY <2>2, <2>3 DEF Fits, AnswerFits
  <2>5. got[c] = WholeArchive
    BY <2>3, <2>4, WholeIs, ManifestsAre DEF WholeArchive
  <2>6. StatusMap[c] = "busy" /\ StatusMap' = [StatusMap EXCEPT ![c] = "done"]
    BY <2>1 DEF Inv, StatusMap, Running
  <2>7. Transfer!Complete(c)
    BY <2>1, <2>5, <2>6 DEF Transfer!Complete
  <2>8. QED
    BY <2>7 DEF Transfer!Next
<1>6. QED
  BY <1>1, <1>2, <1>3, <1>4, <1>5 DEF Serve

LEMMA FindCRCTransfers ==
  ASSUME Inv, Troubles = {}, NEW c \in Client, FindCRC(c)
  PROVE  Transfer!Next \/ UNCHANGED TransferVars
<1>1. Flight(c) \in SUBSET Client /\ \A d \in Flight(c) : d = c \/ pc[d] = "wait"
  BY DEF Flight
<1>2. CASE UseComputed(c) \/ UseCached(c) \/ MissCRC(c) \/ LeadFlight(c) \/ JoinFlight(c)
  <2>1. /\ pc[c] \in Running /\ pc'[c] \in Running /\ \A d \in Client \ {c} : pc'[d] = pc[d]
        /\ UNCHANGED <<got, requests>>
    BY <1>2 DEF Inv, UseComputed, UseCached, MissCRC, LeadFlight, JoinFlight, Goto, Running
  <2>2. QED
    BY <2>1, WorksAlone
<1>3. CASE HashFile(c)
  <2>1. /\ \A d \in Flight(c) : pc[d] \in Running /\ pc'[d] \in Running
        /\ \A d \in Client \ Flight(c) : pc'[d] = pc[d]
        /\ UNCHANGED <<got, requests>>
    BY <1>1, <1>3 DEF HashFile, Running
  <2>2. QED
    BY <1>1, <2>1, WorkUnseen
<1>4. CASE HashFileCancelled(c) \/ HashFileFails(c)
  <2>1. /\ \A d \in Flight(c) : pc[d] \in Running
        /\ Fail(Flight(c)) /\ UNCHANGED requests
    BY <1>1, <1>4 DEF HashFileCancelled, HashFileFails, Running
  <2>2. UNCHANGED got
    <3>1. CASE HashFileCancelled(c)
      BY <3>1 DEF HashFileCancelled
    <3>2. CASE HashFileFails(c)
      <4>1. \A d \in Flight(c) : ~Begun(d)
        <5> SUFFICES ASSUME NEW d \in Flight(c) PROVE ~Begun(d)
          OBVIOUS
        <5>1. Len(got[d]) = job[d].from
          BY <3>2 DEF HashFileFails, MayBreak
        <5>2. d \in Client /\ Len(got[d]) \in Nat
          BY <1>1, Now
        <5>3. QED
          BY <5>1, <5>2 DEF Begun
      <4>2. AppendErrorText({})
        BY <3>2, <4>1 DEF HashFileFails
      <4>3. got' = [d \in Client |-> got[d]]
        BY <4>2 DEF AppendErrorText
      <4>4. QED
        BY <4>3 DEF Inv
    <3>3. QED
      BY <1>4, <3>1, <3>2
  <2>3. Transfer!BreakOff(Flight(c))
    BY <1>1, <2>1, <2>2, FailsTogether
  <2>4. QED
    BY <1>1, <2>3 DEF Transfer!Next
<1>5. QED
  BY <1>2, <1>3, <1>4 DEF FindCRC

LEMMA TransferStep ==
  ASSUME Troubles = {}
  PROVE  Inv /\ Inv' /\ [Next]_vars => [Transfer!Next]_TransferVars
<1> SUFFICES ASSUME Inv, Inv', [Next]_vars
             PROVE  Transfer!Next \/ UNCHANGED TransferVars
  OBVIOUS
<1>1. CASE UNCHANGED vars \/ Rest \/ Expire
  BY <1>1 DEF vars, shared, Rest, Expire, TransferVars, StatusMap
<1>2. ASSUME NEW c \in Client, Request(c)
      PROVE  Transfer!Next
  <2>1. /\ StatusMap[c] \in {"idle", "failed"} /\ got' = got
        /\ pc' = [pc EXCEPT ![c] = "lookup"]
    BY <1>2, Ends DEF Request, Goto, Running
  <2>2. StatusMap' = [StatusMap EXCEPT ![c] = "busy"]
    BY <2>1 DEF Inv, StatusMap, Running
  <2>3. Transfer!Ask(c)
    BY <1>2, <2>1, <2>2 DEF Request, Transfer!Ask
  <2>4. QED
    BY <2>3 DEF Transfer!Next
<1>3. ASSUME NEW c \in Client, Leave(c) PROVE UNCHANGED TransferVars
  BY <1>3 DEF Leave, TransferVars, StatusMap
<1>4. QED
  BY <1>1, <1>2, <1>3, SelectTransfers, ServeTransfers, FindCRCTransfers DEF Next, Handle

(* The handlers keep the promise of ArchiveTransfer (handleDownload,       *)
(* serveSelectionArchive, StreamRange, Resolve): with the caches and the   *)
(* flights they share, clients get what each would get alone, unit by      *)
(* unit, if sizes are resolved, no listing is cut short and the source     *)
(* does not fail in an answer.                                             *)
THEOREM KeepsTransfer ==
  ASSUME Troubles = {}
  PROVE  Spec => ImplementsTransfer
BY Invariance, TransferBegin, TransferStep, PTL
DEF Spec, ImplementsTransfer, Transfer!Spec, Transfer!transferVars, TransferVars
=============================================================================
