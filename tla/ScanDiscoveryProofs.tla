------------------------- MODULE ScanDiscoveryProofs -------------------------
(***************************************************************************)
(* Proofs about TaskGeneration and what ScanPipeline does with it: which   *)
(* rows a discover request leaves, for every document; and, with the same  *)
(* lemmas about lists and sums, that the views of a report agree.          *)
(***************************************************************************)
EXTENDS ScanPipelineProofs

----------------------------------------------------------------------------
(* Lists *)

LEMMA ListIs ==
  ASSUME NEW S, NEW s \in Seq(S)
  PROVE  IsList(s)
BY SeqRange DEF IsList

LEMMA EmptyIsList == IsList(<< >>)
BY DEF IsList

LEMMA DomainOfList ==
  ASSUME NEW s, IsList(s)
  PROVE  Len(s) \in Nat /\ DOMAIN s = 1..Len(s)
BY DEF IsList

LEMMA MadeList ==
  ASSUME NEW s, IsList(s), NEW f, DOMAIN f = DOMAIN s, f = [i \in DOMAIN s |-> f[i]]
  PROVE  IsList(f) /\ Len(f) = Len(s)
<1>1. \A i \in DOMAIN s : f[i] \in Range(f)
  BY DEF Range
<1>2. Len(s) \in Nat /\ DOMAIN s = 1..Len(s)
  BY DomainOfList
<1>3. f \in [1..Len(s) -> Range(f)]
  BY <1>1, <1>2
<1>4. f \in Seq(Range(f)) /\ Len(f) = Len(s)
  BY <1>2, <1>3, SeqDef
<1> QED BY <1>4 DEF IsList

LEMMA ConcatLists ==
  ASSUME NEW s, NEW t, IsList(s), IsList(t)
  PROVE  /\ IsList(s \o t)
         /\ Len(s \o t) = Len(s) + Len(t)
         /\ Range(s \o t) = Range(s) \cup Range(t)
         /\ \A i \in 1..Len(s) : (s \o t)[i] = s[i]
         /\ \A i \in 1..Len(t) : (s \o t)[Len(s) + i] = t[i]
<1> DEFINE S == Range(s) \cup Range(t)
<1>1. s \in Seq(S) /\ t \in Seq(S)
  BY DEF IsList
<1> HIDE DEF S
<1>2. s \o t \in Seq(S) /\ Range(s \o t) = Range(s) \cup Range(t)
  BY <1>1, RangeOfConcat
<1>3. /\ Len(s \o t) = Len(s) + Len(t)
      /\ \A i \in 1..Len(s) : (s \o t)[i] = s[i]
      /\ \A i \in 1..Len(t) : (s \o t)[Len(s) + i] = t[i]
  BY <1>1
<1> QED BY <1>2, <1>3, ListIs

\* The values of the loop that joins the lists
Joins(seqs, n, h) ==
  /\ h[0] = << >>
  /\ \A m \in 0..n - 1 : h[m + 1] = h[m] \o seqs[m + 1]
  /\ FlattenSeq(seqs) = h[n]

LEMMA FlattenJoins ==
  ASSUME NEW S, NEW seqs \in Seq(Seq(S)), NEW n \in Nat, n = Len(seqs)
  PROVE  \E h : Joins(seqs, n, h)
<1>1. CASE n = 0
  <2>1. FlattenSeq(seqs) = << >>
    <3>1. Len(seqs) = 0
      BY <1>1
    <3>2. FlattenSeq(seqs) = seqs
      BY <3>1, Zenon DEF FlattenSeq
    <3>3. DOMAIN seqs = {} /\ seqs \in [{} -> Seq(S)]
      BY <3>1
    <3> QED BY <3>2, <3>3
  <2> DEFINE h == [m \in {0} |-> << >>]
  <2>2. h[0] = << >> /\ 0..n - 1 = {}
    BY <1>1
  <2>3. Joins(seqs, n, h)
    BY <1>1, <2>1, <2>2 DEF Joins
  <2> QED BY <2>3
<1>2. CASE n # 0
  <2>1. PICK f : Flattens(seqs, n, f) /\ FlattenSeq(seqs) = f[n]
    BY <1>2, FlattenIs
  <2>2. \A i \in 1..n : f[i] = IF i = 1 THEN seqs[i] ELSE f[i - 1] \o seqs[i]
    BY <2>1, FlattensAt
  <2> DEFINE h == [m \in 0..n |-> IF m = 0 THEN << >> ELSE f[m]]
  <2>3. h[0] = << >> /\ h[n] = f[n]
    BY <1>2
  <2>4. \A m \in 0..n - 1 : h[m + 1] = f[m + 1]
    OBVIOUS
  <2>5. ASSUME NEW m \in 0..n - 1 PROVE h[m + 1] = h[m] \o seqs[m + 1]
    <3> PICK k \in 1..n : k = m + 1
      OBVIOUS
    <3>1. seqs[k] \in Seq(S)
      OBVIOUS
    <3>2. CASE m = 0
      <4>1. << >> \o seqs[k] = seqs[k]
        BY <3>1
      <4>2. k = 1 /\ h[m] = << >>
        BY <3>2
      <4> QED BY <2>2, <2>4, <4>1, <4>2
    <3>3. CASE m # 0
      <4>1. k # 1 /\ k - 1 = m /\ h[m] = f[m]
        BY <3>3
      <4> QED BY <2>2, <2>4, <4>1
    <3> QED BY <3>2, <3>3
  <2> HIDE DEF h
  <2>6. Joins(seqs, n, h)
    BY <2>1, <2>3, <2>5 DEF Joins
  <2> QED BY <2>6
<1> QED BY <1>1, <1>2

----------------------------------------------------------------------------
(* Picked keeps the order *)

\* f tells where in s the items of t come from.
Picks(t, s, J, f) ==
  /\ f \in [1..Len(t) -> J]
  /\ \A k \in 1..Len(t) : t[k] = s[f[k]]
  /\ \A k, l \in 1..Len(t) : k < l => f[k] < f[l]
  /\ \A j \in J : \E k \in 1..Len(t) : f[k] = j

IsPick(t, S, s, J) == t \in Seq(S) /\ \E f : Picks(t, s, J, f)

LEMMA PickMore ==
  ASSUME NEW S, NEW t \in Seq(S), NEW s, NEW J \in SUBSET Nat, NEW f, Picks(t, s, J, f),
         NEW i \in Nat, \A j \in J : j < i, s[i] \in S
  PROVE  \E g : Picks(t \o <<s[i]>>, s, J \cup {i}, g)
<1>1. PICK n \in Nat : n = Len(t)
  OBVIOUS
<1> DEFINE u == t \o <<s[i]>>
           g == [k \in 1..n + 1 |-> IF k = n + 1 THEN i ELSE f[k]]
<1>2. Len(u) = n + 1 /\ u[n + 1] = s[i] /\ \A k \in 1..n : u[k] = t[k]
  BY <1>1
<1>3. /\ \A k \in 1..n : f[k] \in J /\ t[k] = s[f[k]]
      /\ \A k, l \in 1..n : k < l => f[k] < f[l]
      /\ \A j \in J : \E k \in 1..n : f[k] = j
  BY <1>1 DEF Picks
<1>4. g[n + 1] = i /\ \A k \in 1..n : g[k] = f[k]
  OBVIOUS
<1>5. \A k \in 1..n + 1 : k = n + 1 \/ k \in 1..n
  OBVIOUS
<1>6. g \in [1..n + 1 -> J \cup {i}]
  BY <1>3, <1>5
<1> HIDE DEF g, u
<1>7. \A k \in 1..n + 1 : u[k] = s[g[k]]
  BY <1>2, <1>3, <1>4, <1>5
<1>8. ASSUME NEW k \in 1..n + 1, NEW l \in 1..n + 1, k < l PROVE g[k] < g[l]
  <2>1. k \in 1..n
    BY <1>8
  <2>2. g[k] \in J /\ g[k] = f[k]
    BY <1>3, <1>4, <2>1
  <2>3. CASE l = n + 1
    BY <1>4, <2>2, <2>3
  <2>4. CASE l \in 1..n
    BY <1>3, <1>4, <1>8, <2>1, <2>4
  <2> QED BY <1>5, <2>3, <2>4
<1>9. ASSUME NEW j \in J \cup {i} PROVE \E k \in 1..n + 1 : g[k] = j
  <2>1. CASE j = i
    BY <1>4, <2>1
  <2>2. CASE j \in J
    <3>1. PICK k \in 1..n : f[k] = j
      BY <1>3, <2>2
    <3>2. k \in 1..n + 1
      OBVIOUS
    <3> QED BY <1>4, <3>1, <3>2
  <2> QED BY <2>1, <2>2
<1>10. Picks(u, s, J \cup {i}, g)
  BY <1>2, <1>6, <1>7, <1>8, <1>9 DEF Picks
<1> QED BY <1>10 DEF u

LEMMA PickedOrder ==
  ASSUME NEW S, NEW s \in Seq(S), NEW I
  PROVE  IsPick(Picked(s, I), S, s, I \cap DOMAIN s)
<1> PICK n \in Nat : n = Len(s) /\ DOMAIN s = 1..n
  OBVIOUS
<1>2. PICK ones : ones = [i \in DOMAIN s |-> IF i \in I THEN <<s[i]>> ELSE << >>]
  OBVIOUS
<1>3. \A i \in 1..n : s[i] \in S /\ ones[i] = (IF i \in I THEN <<s[i]>> ELSE << >>)
  BY <1>2
<1>4. ones \in Seq(Seq(S)) /\ Len(ones) = n
  <2>1. \A x \in S : <<x>> \in Seq(S)
    OBVIOUS
  <2>2. << >> \in Seq(S)
    OBVIOUS
  <2>3. ones \in [1..n -> Seq(S)]
    BY <1>2, <1>3, <2>1, <2>2
  <2> QED BY <2>3, SeqDef
<1>5. PICK h : Joins(ones, n, h)
  BY <1>4, FlattenJoins
<1>6. h[0] = << >> /\ \A m \in 0..n - 1 : h[m + 1] = h[m] \o ones[m + 1]
  BY <1>5, Zenon DEF Joins
<1>7. Picked(s, I) = h[n]
  BY <1>2, <1>5, Zenon DEF Joins, Picked
<1> DEFINE Good(m) == IsPick(h[m], S, s, I \cap (1..m))
           T == {m \in Nat : m <= n => Good(m)}
<1>8. 0 \in T
  <2>1. Len(<< >>) = 0 /\ 1..0 = {}
    OBVIOUS
  <2> DEFINE f == [k \in {} |-> 0]
  <2>2. f \in [{} -> {}]
    OBVIOUS
  <2>3. Picks(<< >>, s, {}, f)
    BY <2>1, <2>2 DEF Picks
  <2>4. I \cap (1..0) = {}
    BY <2>1
  <2>5. Picks(h[0], s, I \cap (1..0), f)
    BY <1>6, <2>3, <2>4, Zenon
  <2> HIDE DEF f
  <2>6. h[0] \in Seq(S)
    BY <1>6
  <2> QED BY <2>5, <2>6 DEF IsPick
<1>9. ASSUME NEW m \in Nat, m \in T PROVE m + 1 \in T
  <2> PICK k \in Nat : k = m + 1
    OBVIOUS
  <2> SUFFICES ASSUME k <= n PROVE Good(k)
    BY Z3
  <2>1. Good(m)
    BY <1>9
  <2>2. h[m] \in Seq(S)
    BY <2>1 DEF IsPick
  <2>3. PICK f : Picks(h[m], s, I \cap (1..m), f)
    BY <2>1 DEF IsPick
  <2> HIDE DEF T
  <2>4. h[k] = h[m] \o ones[k] /\ s[k] \in S /\ k \in 1..n
    <3>1. k \in 1..n /\ m \in 0..n - 1
      OBVIOUS
    <3>2. h[m + 1] = h[m] \o ones[m + 1]
      BY <1>6, <3>1, Zenon
    <3> QED BY <1>3, <3>1, <3>2
  <2>5. CASE k \in I
    <3>1. ones[k] = <<s[k]>>
      BY <1>3, <2>4, <2>5
    <3>2. I \cap (1..k) = (I \cap (1..m)) \cup {k}
      BY <2>5
    <3>3. \A j \in I \cap (1..m) : j < k
      OBVIOUS
    <3>4. PICK J \in SUBSET Nat : J = I \cap (1..m)
      <4>1. I \cap (1..m) \in SUBSET Nat
        OBVIOUS
      <4> QED BY <4>1
    <3>5. \E g : Picks(h[m] \o <<s[k]>>, s, J \cup {k}, g)
      <4>1. Picks(h[m], s, J, f) /\ \A j \in J : j < k
        BY <2>3, <3>3, <3>4
      <4> QED BY <2>2, <2>4, <4>1, PickMore
    <3>6. h[m] \o <<s[k]>> \in Seq(S)
      BY <2>2, <2>4
    <3> QED BY <2>4, <3>1, <3>2, <3>4, <3>5, <3>6 DEF IsPick
  <2>6. CASE k \notin I
    <3>1. ones[k] = << >>
      BY <1>3, <2>4, <2>6
    <3>2. h[k] = h[m]
      BY <2>2, <2>4, <3>1
    <3>3. I \cap (1..k) = I \cap (1..m)
      BY <2>6
    <3> QED BY <2>2, <2>3, <3>2, <3>3 DEF IsPick
  <2> QED BY <2>5, <2>6
<1>10. Nat \subseteq T
  <2> HIDE DEF T
  <2> QED BY <1>8, <1>9, Induction
<1>11. Good(n)
  <2>1. n \in T
    BY <1>10, Zenon
  <2> QED BY <2>1
<1> QED BY <1>7, <1>11

----------------------------------------------------------------------------
(* Paths *)

LEMMA MinLeast ==
  ASSUME NEW I \in SUBSET Nat, I # {}
  PROVE  Min(I) \in I /\ \A i \in I : Min(I) <= i
<1>1. \E n \in I : \A m \in I : n <= m
  BY LeastNumber
<1> QED BY <1>1 DEF Min

LEMMA MaxInside ==
  ASSUME NEW k \in Nat, NEW I \in SUBSET (1..k), I # {}
  PROVE  Max(I) \in I
<1> DEFINE D == {k - i : i \in I}
<1>1. D \in SUBSET Nat /\ D # {}
  <2>1. \A i \in I : k - i \in Nat
    OBVIOUS
  <2> QED BY <2>1
<1>2. PICK d \in D : \A e \in D : d <= e
  BY <1>1, LeastNumber
<1>3. PICK i \in I : d = k - i
  OBVIOUS
<1>4. ASSUME NEW j \in I PROVE i >= j
  <2>1. k - j \in D
    OBVIOUS
  <2>2. d <= k - j
    BY <1>2, <2>1
  <2> QED BY <1>3, <2>2
<1> QED BY <1>4 DEF Max

\* One slash leads, and no second one follows.
Normal(p) == IsList(p) /\ p # << >> /\ p[1] = "/" /\ (Len(p) > 1 => p[2] # "/")

LEMMA OneLeadingSlash ==
  ASSUME NEW S, NEW path \in Seq(S), NEW I,
         I = {i \in DOMAIN path : i = 1 \/ path[i] # "/" \/ path[i - 1] # "/"},
         NEW once, IsPick(once, S, path, I), Len(once) > 1, once[1] = "/"
  PROVE  once[2] # "/"
<1> SUFFICES ASSUME once[2] = "/" PROVE FALSE
  OBVIOUS
<1> PICK n \in Nat : n = Len(once) /\ n > 1
  BY DEF IsPick
<1>1. PICK f : Picks(once, path, I, f)
  BY DEF IsPick
<1>2. /\ \A k \in 1..n : f[k] \in I /\ once[k] = path[f[k]]
      /\ \A k, l \in 1..n : k < l => f[k] < f[l]
      /\ \A j \in I : \E k \in 1..n : f[k] = j
  BY <1>1 DEF Picks
<1>3. DOMAIN path \in SUBSET Nat
  OBVIOUS
<1>4. PICK a \in I, b \in I : a = f[1] /\ b = f[2]
  BY <1>2
<1>5. a \in Nat /\ b \in Nat /\ a < b /\ a >= 1 /\ path[a] = "/" /\ path[b] = "/"
  BY <1>2, <1>3, <1>4
<1>6. b - 1 \in DOMAIN path /\ path[b - 1] # "/"
  BY <1>5
<1>7. b - 1 \in I
  BY <1>6
<1>8. PICK k \in 1..n : f[k] = b - 1
  BY <1>2, <1>7
<1>9. k # 1
  BY <1>4, <1>5, <1>6, <1>8
<1>10. k # 2
  BY <1>4, <1>5, <1>8
<1>11. 2 < k
  BY <1>9, <1>10
<1>12. f[2] < f[k]
  BY <1>2, <1>11
<1> QED BY <1>4, <1>5, <1>8, <1>12

LEMMA PrefixHolds ==
  ASSUME NEW S, NEW s \in Seq(S), NEW m \in 0..Len(s)
  PROVE  /\ SubSeq(s, 1, m) \in Seq(S) /\ Len(SubSeq(s, 1, m)) = m
         /\ \A i \in 1..m : SubSeq(s, 1, m)[i] = s[i]
OBVIOUS

LEMMA NormalizeHolds ==
  ASSUME NEW path, IsList(path)
  PROVE  Normal(NormalizePath(path))
<1> PICK S : path \in Seq(S)
  BY DEF IsList
<1> DEFINE I == {i \in DOMAIN path : i = 1 \/ path[i] # "/" \/ path[i - 1] # "/"}
<1>1. PICK once : once = Picked(path, I) /\ IsPick(once, S, path, I)
  <2>1. I \cap DOMAIN path = I
    OBVIOUS
  <2> HIDE DEF I
  <2> QED BY <2>1, PickedOrder
<1>2. once \in Seq(S) /\ (Len(once) > 1 /\ once[1] = "/" => once[2] # "/")
  <2>1. once \in Seq(S)
    BY <1>1 DEF IsPick
  <2> QED BY <1>1, <2>1, OneLeadingSlash
<1>3. PICK bare : bare = IF once # << >> /\ Last(once) = "/" THEN Front(once) ELSE once
  OBVIOUS
<1>4. NormalizePath(path) = IF bare # << >> /\ bare[1] = "/" THEN bare ELSE <<"/">> \o bare
  BY <1>1, <1>3 DEF NormalizePath
<1> HIDE DEF I
<1>5. bare \in Seq(S) /\ Len(bare) <= Len(once) /\ \A i \in 1..Len(bare) : bare[i] = once[i]
  <2>1. CASE once # << >>
    <3>1. PICK m \in 0..Len(once) : m = Len(once) - 1
      BY <1>2, <2>1
    <3>2. /\ SubSeq(once, 1, m) \in Seq(S) /\ Len(SubSeq(once, 1, m)) = m
          /\ \A i \in 1..m : SubSeq(once, 1, m)[i] = once[i]
      BY <1>2, <3>1, PrefixHolds
    <3> QED BY <1>2, <1>3, <3>1, <3>2 DEF Front
  <2>2. CASE once = << >>
    BY <1>2, <1>3, <2>2
  <2> QED BY <2>1, <2>2
<1>6. Len(bare) \in Nat /\ Len(once) \in Nat
  BY <1>2, <1>5
<1>7. CASE bare # << >> /\ bare[1] = "/"
  <2>1. IsList(bare)
    BY <1>5, ListIs
  <2>2. Len(bare) > 1 => bare[2] # "/"
    BY <1>2, <1>5, <1>6, <1>7
  <2> QED BY <1>4, <1>7, <2>1, <2>2 DEF Normal
<1>8. CASE bare = << >> \/ bare[1] # "/"
  <2> DEFINE p == <<"/">> \o bare
  <2>1. IsList(p)
    <3>1. IsList(<<"/">>) /\ IsList(bare)
      <4>1. <<"/">> \in Seq({"/"})
        OBVIOUS
      <4> QED BY <1>5, <4>1, ListIs
    <3> QED BY <3>1, ConcatLists
  <2>2. p # << >> /\ p[1] = "/" /\ Len(p) = Len(bare) + 1
    BY <1>5
  <2>3. Len(p) > 1 => p[2] # "/"
    <3>1. Len(bare) > 0 => p[2] = bare[1] /\ bare # << >>
      BY <1>5
    <3> QED BY <1>6, <1>8, <2>2, <3>1
  <2>4. NormalizePath(path) = p
    BY <1>4, <1>8
  <2> QED BY <2>1, <2>2, <2>3, <2>4 DEF Normal
<1> QED BY <1>7, <1>8

LEMMA LStripHolds ==
  ASSUME NEW p, Normal(p)
  PROVE  IsList(LStrip(p)) /\ <<"/">> \o LStrip(p) = p
<1> PICK S : p \in Seq(S)
  BY DEF Normal, IsList
<1> PICK n \in Nat : n = Len(p) /\ n >= 1 /\ p[1] = "/" /\ (n > 1 => p[2] # "/")
  BY DEF Normal
<1> DEFINE I == {i \in 1..Len(p) : p[i] # "/"}
<1>1. LStrip(p) = IF I = {} \/ Min(I) = 0 THEN << >> ELSE SubSeq(p, Min(I), Len(p))
  BY DEF LStrip, SelectInSeq
<1>2. LStrip(p) \in Seq(S) /\ <<"/">> \o LStrip(p) = p
  <2>1. CASE n = 1
    <3>1. I = {}
      BY <2>1
    <3>2. p = <<"/">>
      <4>1. "/" \in S /\ Len(p) = 1
        <5>1. Len(p) = 1 /\ p[1] = "/"
          BY <2>1
        <5>2. p[1] \in S
          BY <5>1
        <5> QED BY <5>1, <5>2
      <4>2. <<"/">> \in Seq(S) /\ Len(<<"/">>) = 1 /\ <<"/">>[1] = "/"
        BY <4>1
      <4> QED BY <4>1, <4>2
    <3>3. p \o << >> = p
      OBVIOUS
    <3> QED BY <1>1, <3>1, <3>2, <3>3
  <2>2. CASE n > 1
    <3>1. 2 \in I /\ 1 \notin I /\ I \in SUBSET Nat /\ 0 \notin I
      BY <2>2
    <3>2. Min(I) = 2
      <4> HIDE DEF I
      <4>1. Min(I) \in I /\ \A i \in I : Min(I) <= i
        BY <3>1, MinLeast
      <4>2. Min(I) <= 2 /\ Min(I) \in Nat /\ Min(I) # 0 /\ Min(I) # 1
        BY <3>1, <4>1
      <4> QED BY <4>2
    <3>3. LStrip(p) = SubSeq(p, 2, n)
      BY <1>1, <3>1, <3>2
    <3>4. SubSeq(p, 2, n) \in Seq(S) /\ <<"/">> \o SubSeq(p, 2, n) = p
      BY <2>2
    <3> QED BY <3>3, <3>4
  <2> QED BY <2>1, <2>2
<1> QED BY <1>2, ListIs

LEMMA RStripHolds ==
  ASSUME NEW base, IsList(base)
  PROVE  IsList(RStrip(base)) /\ (base # << >> /\ Last(base) # "/" => RStrip(base) = base)
<1> PICK S : base \in Seq(S)
  BY DEF IsList
<1> PICK n \in Nat : n = Len(base)
  OBVIOUS
<1> DEFINE I == {i \in 1..Len(base) : base[i] # "/"}
<1>1. RStrip(base) = SubSeq(base, 1, IF I # {} THEN Max(I) ELSE 0)
  BY DEF RStrip, SelectLastInSeq
<1>2. I # {} => Max(I) \in 1..n
  <2>1. I \in SUBSET (1..n)
    OBVIOUS
  <2> HIDE DEF I
  <2> QED BY <2>1, MaxInside
<1>3. base # << >> /\ Last(base) # "/" => I # {} /\ Max(I) = n
  <2> SUFFICES ASSUME base # << >>, Last(base) # "/" PROVE I # {} /\ Max(I) = n
    OBVIOUS
  <2>1. n \in I /\ I \in SUBSET (1..n)
    BY DEF Last
  <2> HIDE DEF I
  <2> QED BY <2>1, MaxIs
<1>4. PICK m \in 0..n : m = IF I # {} THEN Max(I) ELSE 0
  <2> HIDE DEF I
  <2> QED BY <1>2
<1>5. SubSeq(base, 1, m) \in Seq(S) /\ (m = n => SubSeq(base, 1, m) = base)
  OBVIOUS
<1>6. RStrip(base) = SubSeq(base, 1, m)
  <2> HIDE DEF I
  <2> QED BY <1>1, <1>4
<1>7. IsList(RStrip(base))
  BY <1>5, <1>6, ListIs
<1> HIDE DEF I
<1> QED BY <1>3, <1>4, <1>5, <1>6, <1>7

LEMMA ConcatAssociates ==
  ASSUME NEW S, NEW a \in Seq(S), NEW b \in Seq(S), NEW c \in Seq(S)
  PROVE  a \o b \o c = a \o (b \o c)
OBVIOUS

\* The URL of a normal path is a beginning that depends on the base, and the path.
LEMMA TargetUrlHolds ==
  ASSUME NEW base, IsList(base)
  PROVE  \E b : /\ IsList(b)
                /\ base = << >> \/ Last(base) # "/" => b = base
                /\ \A p : Normal(p) => TargetUrl(base, p) = b \o p
<1>1. CASE base = << >>
  <2>1. ASSUME NEW p, Normal(p) PROVE TargetUrl(base, p) = base \o p
    <3>1. PICK S : p \in Seq(S)
      BY <2>1 DEF Normal, IsList
    <3>2. << >> \o p = p
      BY <3>1
    <3> QED BY <1>1, <3>2 DEF TargetUrl
  <2> QED BY <2>1
<1>2. CASE base # << >>
  <2>1. ASSUME NEW p, Normal(p) PROVE TargetUrl(base, p) = RStrip(base) \o p
    <3> DEFINE a == RStrip(base)
               c == LStrip(p)
               S == Range(a) \cup Range(c) \cup {"/"}
    <3>1. a \in Seq(Range(a)) /\ c \in Seq(Range(c)) /\ <<"/">> \o c = p
      BY <2>1, RStripHolds, LStripHolds DEF IsList
    <3>2. TargetUrl(base, p) = a \o <<"/">> \o c
      BY <1>2 DEF TargetUrl
    <3> HIDE DEF a, c
    <3>3. a \in Seq(S) /\ c \in Seq(S) /\ <<"/">> \in Seq(S)
      BY <3>1
    <3>4. a \o <<"/">> \o c = a \o (<<"/">> \o c)
      <4> HIDE DEF S
      <4> QED BY <3>3, ConcatAssociates
    <3> QED BY <3>1, <3>2, <3>4 DEF a
  <2>2. IsList(RStrip(base)) /\ (Last(base) # "/" => RStrip(base) = base)
    BY <1>2, RStripHolds
  <2> QED BY <1>2, <2>1, <2>2
<1> QED BY <1>1, <1>2

LEMMA SameUrl ==
  ASSUME NEW b, IsList(b), NEW p, IsList(p), NEW q, IsList(q), b \o p = b \o q
  PROVE  p = q
<1> DEFINE S == Range(b) \cup Range(p) \cup Range(q)
<1>1. b \in Seq(S) /\ p \in Seq(S) /\ q \in Seq(S)
  BY DEF IsList
<1> HIDE DEF S
<1>2. Len(b \o p) = Len(b) + Len(p) /\ Len(b \o q) = Len(b) + Len(q)
        /\ Len(b) \in Nat /\ Len(p) \in Nat /\ Len(q) \in Nat
  BY <1>1
<1>3. Len(p) = Len(q)
  BY <1>2
<1>4. ASSUME NEW i \in 1..Len(p) PROVE p[i] = q[i]
  <2>1. (b \o p)[Len(b) + i] = p[i]
    BY <1>1
  <2>2. (b \o q)[Len(b) + i] = q[i]
    BY <1>1, <1>3
  <2> QED BY <2>1, <2>2
<1> QED BY <1>1, <1>3, <1>4

----------------------------------------------------------------------------
(* The parser *)

ParseStart(doc) ==
  [endpoints |-> << >>, raised |-> FALSE, errors |-> doc.state \in {"unreadable", "no_paths"}]

LEMMA OperationSteps ==
  ASSUME NEW doc, NEW q, NEW entry, entry.wellFormed, NEW arg,
         \A r, x : Step("operations", arg, r, x) = ParseOperation(doc, r, NormalizePath(entry.path), x),
         NEW n \in Nat, DOMAIN entry.ops = 1..n
  PROVE  Folds("operations", arg, q, entry.ops, n, ParsePath(doc, q, entry))
<1> DEFINE Solves(it) == it = [s \in SUBSET (1..n) |-> IF s = {} THEN q
                                 ELSE ParseOperation(doc, it[s \ {Max(s)}], NormalizePath(entry.path),
                                                     entry.ops[Max(s)])]
<1>2. ASSUME NEW it PROVE Solves(it) <=> Iterates("operations", arg, q, entry.ops, n, it)
  BY ZenonT(60) DEF Iterates
<1>3. \E it : Solves(it)
  BY <1>2, IteratesExists
<1>4. PICK it : Solves(it) /\ ParsePath(doc, q, entry) = it[1..n]
  <2> DEFINE it == CHOOSE it : Solves(it)
  <2>1. Solves(it)
    BY <1>3
  <2>2. ParsePath(doc, q, entry) = it[1..n]
    BY DEF ParsePath, FoldLeft, MapThenFoldSet
  <2> QED BY <2>1, <2>2
<1> HIDE DEF Solves
<1> QED BY <1>2, <1>4, FoldsHold

LEMMA PathSteps ==
  ASSUME NEW doc, doc.state = "ok", NEW n \in Nat, DOMAIN doc.paths = 1..n
  PROVE  Folds("paths", doc, ParseStart(doc), doc.paths, n, Parse(doc))
<1> DEFINE Solves(it) == it = [s \in SUBSET (1..n) |-> IF s = {} THEN ParseStart(doc)
                                 ELSE ParsePath(doc, it[s \ {Max(s)}], doc.paths[Max(s)])]
<1>1. \A r, x : Step("paths", doc, r, x) = (ParsePath(doc, r, x))
  BY DEF Step
<1>2. ASSUME NEW it PROVE Solves(it) <=> Iterates("paths", doc, ParseStart(doc), doc.paths, n, it)
  BY <1>1, ZenonT(60) DEF Iterates
<1>3. \E it : Solves(it)
  BY <1>2, IteratesExists
<1>4. PICK it : Solves(it) /\ Parse(doc) = it[1..n]
  <2> DEFINE it == CHOOSE it : Solves(it)
  <2>1. Solves(it)
    BY <1>3
  <2>2. Parse(doc) = it[1..n]
    BY DEF Parse, ParseStart, FoldLeft, MapThenFoldSet
  <2> QED BY <2>1, <2>2
<1> HIDE DEF Solves
<1> QED BY <1>2, <1>4, FoldsHold

LEMMA UniqueSteps ==
  ASSUME NEW seq, NEW n \in Nat, DOMAIN seq = 1..n
  PROVE  Folds("unique", "", << >>, seq, n, Deduplicate(seq))
<1> DEFINE Solves(it) == it = [s \in SUBSET (1..n) |-> IF s = {} THEN << >>
                                 ELSE KeepNew(it[s \ {Max(s)}], seq[Max(s)])]
<1>1. \A r, x : Step("unique", "", r, x) = (KeepNew(r, x))
  BY DEF Step
<1>2. ASSUME NEW it PROVE Solves(it) <=> Iterates("unique", "", << >>, seq, n, it)
  BY <1>1, ZenonT(60) DEF Iterates
<1>3. \E it : Solves(it)
  BY <1>2, IteratesExists
<1>4. PICK it : Solves(it) /\ Deduplicate(seq) = it[1..n]
  <2> DEFINE it == CHOOSE it : Solves(it)
  <2>1. Solves(it)
    BY <1>3
  <2>2. Deduplicate(seq) = it[1..n]
    BY DEF Deduplicate, FoldLeft, MapThenFoldSet
  <2> QED BY <2>1, <2>2
<1> HIDE DEF Solves
<1> QED BY <1>2, <1>4, FoldsHold

LEMMA AppendList ==
  ASSUME NEW s, IsList(s), NEW x
  PROVE  /\ IsList(Append(s, x)) /\ Len(Append(s, x)) = Len(s) + 1
         /\ Append(s, x)[Len(s) + 1] = x /\ \A i \in 1..Len(s) : Append(s, x)[i] = s[i]
         /\ DOMAIN Append(s, x) = DOMAIN s \cup {Len(s) + 1}
<1> DEFINE S == Range(s) \cup {x}
<1>1. s \in Seq(S) /\ x \in S
  BY DEF IsList
<1> HIDE DEF S
<1>2. Append(s, x) \in Seq(S) /\ Len(Append(s, x)) = Len(s) + 1 /\ Len(s) \in Nat
        /\ Append(s, x)[Len(s) + 1] = x /\ \A i \in 1..Len(s) : Append(s, x)[i] = s[i]
  BY <1>1
<1>3. DOMAIN Append(s, x) = 1..Len(s) + 1 /\ DOMAIN s = 1..Len(s)
  BY <1>1, <1>2
<1>4. 1..Len(s) + 1 = 1..Len(s) \cup {Len(s) + 1}
  BY <1>2
<1> QED BY <1>2, <1>3, <1>4, ListIs

Pair(endpoint) == <<endpoint.method, endpoint.path>>

\* endpoints holds the operations O, each once.
EachOnce(endpoints, O) ==
  /\ IsList(endpoints)
  /\ \A i \in DOMAIN endpoints :
       endpoints[i].method \in ValidMethods /\ Normal(endpoints[i].path) /\ Pair(endpoints[i]) \in O
  /\ \A i, j \in DOMAIN endpoints : Pair(endpoints[i]) = Pair(endpoints[j]) => i = j
  /\ \A op \in O : \E i \in DOMAIN endpoints : Pair(endpoints[i]) = op

\* What the parser has after it has read the operations O; an exception ends it.
Parsed(r, O) ==
  /\ r = [endpoints |-> r.endpoints, raised |-> r.raised, errors |-> r.errors]
  /\ ~r.raised => EachOnce(r.endpoints, O)

OperationIn(path, op) ==
  IF op.wellFormed /\ UpperCase(op.name) \in ValidMethods THEN {<<UpperCase(op.name), path>>} ELSE {}

LEMMA ListsMore ==
  ASSUME NEW endpoints, NEW O, EachOnce(endpoints, O), NEW e,
         e.method \in ValidMethods, Normal(e.path),
         \A i \in DOMAIN endpoints : Pair(endpoints[i]) # Pair(e)
  PROVE  EachOnce(Append(endpoints, e), O \cup {Pair(e)})
<1> PICK after, n : after = Append(endpoints, e) /\ n = Len(endpoints) + 1
  OBVIOUS
<1>1. /\ IsList(after) /\ after[n] = e /\ DOMAIN after = DOMAIN endpoints \cup {n}
      /\ \A i \in DOMAIN endpoints : after[i] = endpoints[i]
  <2>1. IsList(endpoints)
    BY DEF EachOnce
  <2> QED BY <2>1, AppendList, DomainOfList
<1>2. \A i \in DOMAIN after : after[i].method \in ValidMethods /\ Normal(after[i].path)
                                /\ Pair(after[i]) \in O \cup {Pair(e)}
  BY <1>1 DEF EachOnce
<1>3. \A i, j \in DOMAIN after : Pair(after[i]) = Pair(after[j]) => i = j
  BY <1>1 DEF EachOnce
<1>4. \A op \in O \cup {Pair(e)} : \E i \in DOMAIN after : Pair(after[i]) = op
  BY <1>1 DEF EachOnce
<1> QED BY <1>1, <1>2, <1>3, <1>4 DEF EachOnce

LEMMA ParseOperationHolds ==
  ASSUME NEW doc, NEW r, NEW O, Parsed(r, O), NEW path, Normal(path), NEW op
  PROVE  Parsed(ParseOperation(doc, r, path, op), O \cup OperationIn(path, op))
<1>1. PICK es, raised, errors : r = [endpoints |-> es, raised |-> raised, errors |-> errors]
  BY DEF Parsed
<1>2. ~raised => EachOnce(es, O)
  BY <1>1 DEF Parsed
<1>3. PICK method : method = UpperCase(op.name)
  OBVIOUS
<1> DEFINE seen == \E i \in DOMAIN es : es[i].method = method /\ es[i].path = path
           e == NewEndpoint(doc, path, op)
           after == ParseOperation(doc, r, path, op)
<1>4. after = IF raised THEN r
              ELSE IF method \notin ValidMethods \/ ~op.wellFormed \/ seen
                   THEN [endpoints |-> es, raised |-> raised, errors |-> TRUE]
              ELSE IF Raises(op) THEN [endpoints |-> es, raised |-> TRUE, errors |-> errors]
              ELSE [endpoints |-> Append(es, e), raised |-> raised, errors |-> errors]
  <2>1. /\ [r EXCEPT !.errors = TRUE] = [endpoints |-> es, raised |-> raised, errors |-> TRUE]
        /\ [r EXCEPT !.raised = TRUE] = [endpoints |-> es, raised |-> TRUE, errors |-> errors]
        /\ [r EXCEPT !.endpoints = Append(@, e)]
             = [endpoints |-> Append(es, e), raised |-> raised, errors |-> errors]
        /\ r.raised = raised /\ r.endpoints = es
    <3> HIDE DEF e
    <3>1. \A x : [r EXCEPT !.errors = x] = [endpoints |-> es, raised |-> raised, errors |-> x]
      BY <1>1
    <3>2. \A x : [r EXCEPT !.raised = x] = [endpoints |-> es, raised |-> x, errors |-> errors]
      BY <1>1
    <3>4. r.raised = raised /\ r.endpoints = es
      BY <1>1
    <3>3. [r EXCEPT !.endpoints = Append(@, e)]
            = [endpoints |-> Append(es, e), raised |-> raised, errors |-> errors]
      <4>1. [r EXCEPT !.endpoints = Append(@, e)] = [r EXCEPT !.endpoints = Append(r.endpoints, e)]
        OBVIOUS
      <4> QED BY <1>1, <3>4, <4>1
    <3> QED BY <3>1, <3>2, <3>3, <3>4, Zenon
  <2> QED BY <1>3, <2>1, Zenon DEF ParseOperation
<1>5. Pair(e) = <<method, path>> /\ e.method = method /\ e.path = path
  BY <1>3 DEF Pair, NewEndpoint
<1> HIDE DEF after, e
<1>6. CASE raised
  <2>1. after = r /\ r.raised
    BY <1>1, <1>4, <1>6
  <2> QED BY <2>1 DEF Parsed, after
<1>7. CASE ~raised /\ (method \notin ValidMethods \/ ~op.wellFormed \/ seen)
  <2>1. after = [endpoints |-> es, raised |-> raised, errors |-> TRUE]
    BY <1>4, <1>7
  <2>2. seen => <<method, path>> \in O
    BY <1>2, <1>7 DEF EachOnce, Pair
  <2>3. O \cup OperationIn(path, op) = O
    BY <1>3, <1>7, <2>2 DEF OperationIn
  <2> QED BY <1>2, <1>7, <2>1, <2>3 DEF Parsed, after
<1>8. CASE ~raised /\ method \in ValidMethods /\ op.wellFormed /\ ~seen /\ Raises(op)
  <2>1. after = [endpoints |-> es, raised |-> TRUE, errors |-> errors]
    BY <1>4, <1>8
  <2> QED BY <2>1 DEF Parsed, after
<1>9. CASE ~raised /\ method \in ValidMethods /\ op.wellFormed /\ ~seen /\ ~Raises(op)
  <2>1. after = [endpoints |-> Append(es, e), raised |-> raised, errors |-> errors]
    BY <1>4, <1>9
  <2>2. \A i \in DOMAIN es : Pair(es[i]) # Pair(e)
    BY <1>5, <1>9 DEF Pair
  <2>3. O \cup OperationIn(path, op) = O \cup {Pair(e)}
    BY <1>3, <1>5, <1>9 DEF OperationIn
  <2>4. EachOnce(Append(es, e), O \cup {Pair(e)})
    BY <1>2, <1>5, <1>9, <2>2, ListsMore
  <2>5. after.endpoints = Append(es, e) /\ after.raised = raised /\ after.errors = errors
    BY <2>1
  <2>6. Parsed(after, O \cup {Pair(e)})
    BY <2>1, <2>4, <2>5 DEF Parsed
  <2> QED BY <2>3, <2>6 DEF after
<1> QED BY <1>6, <1>7, <1>8, <1>9

LEMMA ParsePathHolds ==
  ASSUME NEW doc, NEW r, NEW O, Parsed(r, O), NEW entry,
         entry.wellFormed => IsList(entry.path) /\ IsList(entry.ops)
  PROVE  Parsed(ParsePath(doc, r, entry), O \cup IF entry.wellFormed THEN OperationsOf(entry) ELSE {})
<1>1. CASE ~entry.wellFormed
  <2>1. PICK es, raised, errors : r = [endpoints |-> es, raised |-> raised, errors |-> errors]
    BY DEF Parsed
  <2>2. \A x : [r EXCEPT !.errors = x] = [endpoints |-> es, raised |-> raised, errors |-> x]
    BY <2>1
  <2>3. ParsePath(doc, r, entry) = [endpoints |-> es, raised |-> raised, errors |-> TRUE]
    BY <1>1, <2>2, Zenon DEF ParsePath
  <2> QED BY <1>1, <2>1, <2>3 DEF Parsed
<1>2. CASE entry.wellFormed
  <2> PICK path, ops : path = NormalizePath(entry.path) /\ ops = entry.ops
    OBVIOUS
  <2> PICK n \in Nat : n = Len(ops) /\ DOMAIN ops = 1..n
    BY <1>2, DomainOfList
  <2>1. Normal(path)
    BY <1>2, NormalizeHolds
  <2>2. PICK arg : arg = [doc |-> doc, path |-> path]
    OBVIOUS
  <2>4. Folds("operations", arg, r, ops, n, ParsePath(doc, r, entry))
    <3>1. \A q, x : Step("operations", arg, q, x) = ParseOperation(doc, q, NormalizePath(entry.path), x)
      BY <2>2 DEF Step
    <3> QED BY <1>2, <3>1, OperationSteps
  <2>5. PICK c : /\ ParsePath(doc, r, entry) = c[n]
                 /\ c[0] = r
                 /\ \A m \in 0..n - 1 : c[m + 1] = Step("operations", arg, c[m], ops[m + 1])
    BY <2>4, Zenon DEF Folds
  <2>6. \A q, op : Step("operations", arg, q, op) = ParseOperation(doc, q, path, op)
    BY <2>2 DEF Step
  <2> DEFINE Read(m) == O \cup UNION {OperationIn(path, ops[i]) : i \in 1..m}
             T == {m \in Nat : m <= n => Parsed(c[m], Read(m))}
  <2>7. 0 \in T
    <3>1. Read(0) = O
      OBVIOUS
    <3> HIDE DEF Read
    <3> QED BY <2>5, <3>1
  <2>8. ASSUME NEW m \in Nat, m \in T PROVE m + 1 \in T
    <3> PICK k \in Nat : k = m + 1
      OBVIOUS
    <3> SUFFICES ASSUME k <= n PROVE Parsed(c[k], Read(k))
      BY Z3
    <3>1. Parsed(c[m], Read(m))
      BY <2>8
    <3>2. m \in 0..n - 1
      OBVIOUS
    <3>3. c[k] = ParseOperation(doc, c[m], path, ops[k])
      BY <2>5, <2>6, <3>2
    <3>4. Read(k) = Read(m) \cup OperationIn(path, ops[k])
      <4>1. 1..k = 1..m \cup {k}
        OBVIOUS
      <4> QED BY <4>1
    <3> HIDE DEF Read
    <3> QED BY <2>1, <3>1, <3>3, <3>4, ParseOperationHolds
  <2>9. Nat \subseteq T
    <3> HIDE DEF T
    <3> QED BY <2>7, <2>8, Induction
  <2>10. Parsed(c[n], Read(n))
    <3> HIDE DEF Read
    <3>1. n \in T
      BY <2>9, Zenon
    <3> QED BY <3>1
  <2>11. Read(n) = O \cup OperationsOf(entry)
    <3>1. Range(ops) = {ops[i] : i \in 1..n}
      BY DEF Range
    <3> QED BY <3>1 DEF OperationsOf, OperationIn
  <2> QED BY <1>2, <2>5, <2>10, <2>11
<1> QED BY <1>1, <1>2

LEMMA ParseHolds ==
  ASSUME NEW doc, doc.state = "ok", IsList(doc.paths),
         \A entry \in Range(doc.paths) : entry.wellFormed => IsList(entry.path) /\ IsList(entry.ops)
  PROVE  Parsed(Parse(doc), Operations(doc))
<1> PICK n \in Nat : n = Len(doc.paths) /\ DOMAIN doc.paths = 1..n
  BY DomainOfList
<1>1. PICK start : start = ParseStart(doc)
  OBVIOUS
<1>3. Folds("paths", doc, start, doc.paths, n, Parse(doc))
  BY <1>1, PathSteps
<1>4. PICK c : /\ Parse(doc) = c[n]
               /\ c[0] = start
               /\ \A m \in 0..n - 1 : c[m + 1] = Step("paths", doc, c[m], doc.paths[m + 1])
  BY <1>3, Zenon DEF Folds
<1>5. \A q, entry : Step("paths", doc, q, entry) = ParsePath(doc, q, entry)
  BY DEF Step
<1> DEFINE In(entry) == IF entry.wellFormed THEN OperationsOf(entry) ELSE {}
           Read(m) == UNION {In(doc.paths[i]) : i \in 1..m}
           T == {m \in Nat : m <= n => Parsed(c[m], Read(m))}
<1>6. 0 \in T
  <2>1. Read(0) = {}
    OBVIOUS
  <2>2. EachOnce(<< >>, {})
    BY EmptyIsList DEF EachOnce
  <2>3. Parsed(start, {})
    BY <1>1, <2>2 DEF Parsed, ParseStart
  <2> HIDE DEF Read
  <2> QED BY <1>4, <2>1, <2>3
<1>7. ASSUME NEW m \in Nat, m \in T PROVE m + 1 \in T
  <2> PICK k \in Nat : k = m + 1
    OBVIOUS
  <2> SUFFICES ASSUME k <= n PROVE Parsed(c[k], Read(k))
    BY Z3
  <2>1. Parsed(c[m], Read(m))
    BY <1>7
  <2>2. m \in 0..n - 1 /\ k \in DOMAIN doc.paths
    OBVIOUS
  <2>3. PICK entry : entry = doc.paths[k]
    OBVIOUS
  <2>4. c[k] = ParsePath(doc, c[m], entry)
    BY <1>4, <1>5, <2>2, <2>3
  <2>5. entry.wellFormed => IsList(entry.path) /\ IsList(entry.ops)
    BY <2>2, <2>3 DEF Range
  <2>6. Read(k) = Read(m) \cup In(entry)
    <3>1. 1..k = 1..m \cup {k}
      OBVIOUS
    <3> HIDE DEF In
    <3> QED BY <2>3, <3>1
  <2> HIDE DEF Read
  <2>7. Parsed(ParsePath(doc, c[m], entry), Read(m) \cup In(entry))
    BY <2>1, <2>5, ParsePathHolds
  <2> QED BY <2>4, <2>6, <2>7
<1>8. Nat \subseteq T
  <2> HIDE DEF T
  <2> QED BY <1>6, <1>7, Induction
<1>9. Parsed(c[n], Read(n))
  <2> HIDE DEF Read
  <2>1. n \in T
    BY <1>8, Zenon
  <2> QED BY <2>1
<1>10. Read(n) = Operations(doc)
  <2>1. Range(doc.paths) = {doc.paths[i] : i \in 1..n}
    BY DEF Range
  <2> QED BY <2>1 DEF Operations
<1> QED BY <1>4, <1>9, <1>10

----------------------------------------------------------------------------
(* The mutations of a request are a list, and tell a blank method apart *)

LEMMA FlattenLists ==
  ASSUME NEW seqs, IsList(seqs), \A i \in DOMAIN seqs : IsList(seqs[i])
  PROVE  IsList(FlattenSeq(seqs)) /\ Range(FlattenSeq(seqs)) = UNION {Range(seqs[i]) : i \in DOMAIN seqs}
<1> DEFINE S == UNION {Range(seqs[i]) : i \in DOMAIN seqs}
<1>1. \A i \in DOMAIN seqs : seqs[i] \in Seq(S)
  <2>1. ASSUME NEW i \in DOMAIN seqs PROVE seqs[i] \in Seq(S)
    <3>1. Range(seqs[i]) \subseteq S /\ seqs[i] \in Seq(Range(seqs[i]))
      BY DEF IsList
    <3> HIDE DEF S
    <3> QED BY <3>1
  <2> QED BY <2>1
<1>2. Len(seqs) \in Nat /\ DOMAIN seqs = 1..Len(seqs) /\ seqs = [i \in 1..Len(seqs) |-> seqs[i]]
  BY DEF IsList
<1> HIDE DEF S
<1>3. seqs \in Seq(Seq(S))
  BY <1>1, <1>2, SeqDef
<1>4. FlattenSeq(seqs) \in Seq(S) /\ Range(FlattenSeq(seqs)) = S
  BY <1>3, FlattenHolds DEF S
<1> QED BY <1>4, ListIs DEF S

LEMMA PickedList ==
  ASSUME NEW s, IsList(s), NEW I
  PROVE  IsList(Picked(s, I)) /\ Range(Picked(s, I)) \subseteq Range(s)
<1> PICK S : s \in Seq(S) /\ S = Range(s)
  BY DEF IsList
<1>1. Picked(s, I) \in Seq(S) /\ Range(Picked(s, I)) = {s[i] : i \in I \cap DOMAIN s}
  BY PickedHolds
<1>2. IsList(Picked(s, I))
  BY <1>1, ListIs
<1> QED BY <1>1, <1>2 DEF Range

LEMMA ShortLists ==
  /\ \A a : IsList(<<a>>)
  /\ \A a, b, c : IsList(<<a, b, c>>)
  /\ \A a, b, c, d : IsList(<<a, b, c, d>>)
  /\ \A a, b, c, d, e : IsList(<<a, b, c, d, e>>)
  /\ \A a, b, c, d, e, f, g : IsList(<<a, b, c, d, e, f, g>>)
<1>1. ASSUME NEW a PROVE IsList(<<a>>)
  <2>1. <<a>> \in Seq({a})
    OBVIOUS
  <2> QED BY <2>1, ListIs
<1>2. ASSUME NEW a, NEW b, NEW c, NEW d, NEW e, NEW f, NEW g
      PROVE  /\ IsList(<<a, b, c>>) /\ IsList(<<a, b, c, d>>)
             /\ IsList(<<a, b, c, d, e>>) /\ IsList(<<a, b, c, d, e, f, g>>)
  <2> DEFINE S == {a, b, c, d, e, f, g}
  <2>1. <<a, b, c>> \in Seq(S) /\ <<a, b, c, d>> \in Seq(S)
    OBVIOUS
  <2>2. <<a, b, c, d, e>> \in Seq(S) /\ <<a, b, c, d, e, f, g>> \in Seq(S)
    OBVIOUS
  <2> HIDE DEF S
  <2> QED BY <2>1, <2>2, ListIs
<1> QED BY <1>1, <1>2, Zenon

LEMMA KeysFinite ==
  ASSUME NEW F, IsFiniteSet(F)
  PROVE  IsFiniteSet({f[1] : f \in F})
<1> DEFINE K == {f[1] : f \in F}
           key == [f \in F |-> f[1]]
<1>1. key \in Surjection(F, K)
  BY DEF Surjection
<1> QED BY <1>1, FS_Surjection

\* What a mutation without fields reads like
Nothing == <<"", << >>, {}, {}>>

\* No method at all, or one that, if it is blank, comes with no other field.
Legible(m) == IF "method" \in m.has THEN m.method = "" => Fingerprint(m) = Nothing
              ELSE m.method = ""
Mutations(s) == IsList(s) /\ \A m \in Range(s) : Legible(m)

LEMMA Setters ==
  ASSUME NEW strategy, NEW x
  PROVE  /\ Legible(SetMethod(strategy, x)) /\ Legible(SetPath(strategy, x))
         /\ Legible(SetHeaders(strategy, x)) /\ Legible(SetBody(strategy, x))
BY DEF Legible, SetMethod, SetPath, SetHeaders, SetBody, Mutation, Fingerprint, Nothing

LEMMA EachMutation ==
  ASSUME NEW s, IsList(s), NEW f, DOMAIN f = DOMAIN s, f = [i \in DOMAIN s |-> f[i]],
         \A i \in DOMAIN s : Legible(f[i])
  PROVE  Mutations(f)
<1>1. IsList(f)
  BY MadeList
<1> QED BY <1>1 DEF Mutations, Range

LEMMA OneMutation ==
  ASSUME NEW m, Legible(m)
  PROVE  Mutations(<<m>>)
BY ShortLists DEF Mutations, Range

LEMMA NoMutations == Mutations(<< >>)
BY EmptyIsList DEF Mutations, Range

LEMMA MoreMutations ==
  ASSUME NEW s, NEW t, Mutations(s), Mutations(t)
  PROVE  Mutations(s \o t)
BY ConcatLists DEF Mutations

LEMMA ManyMutations ==
  ASSUME NEW seqs, IsList(seqs), \A i \in DOMAIN seqs : Mutations(seqs[i])
  PROVE  Mutations(FlattenSeq(seqs))
BY FlattenLists DEF Mutations

LEMMA HeaderMutations ==
  ASSUME NEW headers, IsFiniteSet(headers)
  PROVE  Mutations(MutateHeaders(headers))
<1> DEFINE keys == SetToSeq({h[1] : h \in headers})
           Of(k) == RemoveHeader(headers, k) \o BlankValue(headers, k) \o ContentTypeSwap(headers, k)
           each == [i \in DOMAIN keys |-> Of(keys[i])]
<1>1. IsList(keys)
  <2>1. IsFiniteSet({h[1] : h \in headers})
    BY KeysFinite
  <2> QED BY <2>1, SetToSeqHolds, ListIs
<1>2. ASSUME NEW k PROVE Mutations(Of(k))
  <2>1. Mutations(RemoveHeader(headers, k)) /\ Mutations(BlankValue(headers, k))
    BY Setters, OneMutation DEF RemoveHeader, BlankValue
  <2>2. Mutations(ContentTypeSwap(headers, k))
    <3> DEFINE types == <<"text/xml", "text/plain", "application/x-www-form-urlencoded">>
    <3>1. IsList(types) /\ ContentTypeSwap(headers, k)
                             = [i \in DOMAIN types |-> SetHeaders("type_swap", Put(headers, k, types[i]))]
      BY ShortLists DEF ContentTypeSwap, Each
    <3> HIDE DEF types
    <3> QED BY <3>1, Setters, EachMutation
  <2> QED BY <2>1, <2>2, MoreMutations
<1>3. Mutations(IdSpoofing(headers))
  <2> DEFINE names == <<"X-Forwarded-For", "X-Original-IP", "X-Real-IP">>
  <2>1. IsList(names) /\ IdSpoofing(headers)
                           = [i \in DOMAIN names |-> SetHeaders("id_spoof", Put(headers, names[i], "127.0.0.1"))]
    BY ShortLists DEF IdSpoofing, Each
  <2> HIDE DEF names
  <2> QED BY <2>1, Setters, EachMutation
<1>4. MutateHeaders(headers) = FlattenSeq(each) \o IdSpoofing(headers)
  BY DEF MutateHeaders, Each
<1> HIDE DEF keys, Of
<1>5. IsList(each) /\ \A i \in DOMAIN each : Mutations(each[i])
  BY <1>1, <1>2, MadeList
<1> HIDE DEF each
<1>6. Mutations(FlattenSeq(each))
  BY <1>5, ManyMutations
<1> QED BY <1>3, <1>4, <1>6, MoreMutations

LEMMA BodyMutations ==
  ASSUME NEW body, IsFiniteSet(body)
  PROVE  Mutations(MutateBody(body))
<1> DEFINE keys == SetToSeq({f[1] : f \in body})
           Of(k) == RemoveField(body, k) \o InjectSpecialChars(body, k) \o Nullify(body, k)
                      \o TypeConfusion(body, k)
           each == [i \in DOMAIN keys |-> Of(keys[i])]
<1>1. IsList(keys)
  <2>1. IsFiniteSet({f[1] : f \in body})
    BY KeysFinite
  <2> QED BY <2>1, SetToSeqHolds, ListIs
<1>2. ASSUME NEW k PROVE Mutations(Of(k))
  <2>1. Mutations(RemoveField(body, k))
    BY Setters, OneMutation DEF RemoveField
  <2>2. Mutations(InjectSpecialChars(body, k))
    BY VariantsAssumption, Setters, EachMutation DEF InjectSpecialChars, Each
  <2>3. Mutations(Nullify(body, k))
    BY VariantsAssumption, Setters, EachMutation DEF Nullify, Each
  <2>4. Mutations(TypeConfusion(body, k))
    BY VariantsAssumption, Setters, EachMutation DEF TypeConfusion, Each
  <2> QED BY <2>1, <2>2, <2>3, <2>4, MoreMutations
<1>3. Mutations(MassAssignment(body))
  BY Setters, OneMutation DEF MassAssignment
<1>4. MutateBody(body) = FlattenSeq(each) \o MassAssignment(body)
  BY DEF MutateBody, Each
<1> HIDE DEF keys, Of
<1>5. IsList(each) /\ \A i \in DOMAIN each : Mutations(each[i])
  BY <1>1, <1>2, MadeList
<1> HIDE DEF each
<1>6. Mutations(FlattenSeq(each))
  BY <1>5, ManyMutations
<1> QED BY <1>3, <1>4, <1>6, MoreMutations

LEMMA MethodMutations ==
  ASSUME NEW method \in ValidMethods
  PROVE  Mutations(MutateMethod(method))
<1>1. Mutations(MethodSwitching(method))
  <2> DEFINE methods == <<"GET", "POST", "PUT", "DELETE", "PATCH", "OPTIONS", "HEAD">>
             others == Picked(methods, {k \in DOMAIN methods : methods[k] # method})
  <2>1. IsList(others)
    BY ShortLists, PickedList
  <2>2. MethodSwitching(method) = [i \in DOMAIN others |-> SetMethod("method_switch", others[i])]
    BY DEF MethodSwitching, Each
  <2> HIDE DEF others
  <2> QED BY <2>1, <2>2, Setters, EachMutation
<1>2. Mutations(CaseSwapping(method))
  BY VariantsAssumption, Setters, EachMutation DEF CaseSwapping, Each
<1>3. Mutations(GarbageMethod)
  <2> DEFINE garbage == <<"HACK", "", "FAKEMETHOD", "NULL">>
  <2>1. IsList(garbage) /\ GarbageMethod = [i \in DOMAIN garbage |-> SetMethod("garbage_method", garbage[i])]
    BY ShortLists DEF GarbageMethod, Each
  <2> HIDE DEF garbage
  <2> QED BY <2>1, Setters, EachMutation
<1>4. Mutations(MethodOverrideHeader(method))
  <2>1. method # ""
    BY DEF ValidMethods
  <2>2. Legible([SetMethod("method_override", method) EXCEPT
                   !.has = {"method", "headers"}, !.headers = {<<"X-HTTP-Method-Override", "DELETE">>}])
    BY <2>1 DEF Legible, SetMethod, Mutation
  <2> QED BY <2>2, OneMutation DEF MethodOverrideHeader
<1> QED BY <1>1, <1>2, <1>3, <1>4, MoreMutations DEF MutateMethod

LEMMA PathMutations ==
  ASSUME NEW path, IsList(path)
  PROVE  Mutations(MutatePath(path))
<1>1. Mutations(IdEnumeration(path))
  <2> DEFINE numbers == Picked(path, {i \in DOMAIN path : path[i] \in DOMAIN NumberValue})
             n == NumberValue[Last(numbers)]
             values == <<n - 1, n + 1, 0, 1, 9999>>
             each == [i \in DOMAIN values |->
                        SetPath("path_id_enumeration",
                                ReplaceFirst(path, Last(numbers), NumberToken[values[i]]))]
  <2>1. IsList(values)
    BY ShortLists
  <2>2. IdEnumeration(path) = IF numbers = << >> THEN << >> ELSE each
    BY DEF IdEnumeration, Each
  <2> HIDE DEF values
  <2>3. Mutations(each)
    BY <2>1, Setters, EachMutation
  <2> QED BY <2>2, <2>3, NoMutations
<1>2. Mutations(AddedExtension(path)) /\ Mutations(AddingJunk(path)) /\ Mutations(PathTraversal(path))
  <2>1. \A s, strategy : IsList(s) => Mutations(Suffixed(path, s, strategy))
    BY Setters, EachMutation DEF Suffixed, Each
  <2> QED BY <2>1, VariantsAssumption DEF AddedExtension, AddingJunk, PathTraversal
<1>3. Mutations(CaseSwitching(path))
  <2> DEFINE Inner(i) == i \in DOMAIN path /\ path[i] # "/"
             positions == [i \in DOMAIN path |-> i]
             starts == Picked(positions, {i \in DOMAIN path : Inner(i) /\ ~Inner(i - 1)})
             End(i) == CHOOSE j \in i..Len(path) : ~Inner(j + 1) /\ \A k \in i..j : Inner(k)
             parts == [k \in DOMAIN starts |-> SubSeq(path, starts[k], End(starts[k]))]
             words == {k \in DOMAIN parts : ~IsNumber(parts[k]) /\ ~EndsInVersion(parts[k])}
             chosen == Picked(parts, words)
             each == [i \in DOMAIN chosen |->
                        SetPath("case_switching",
                          ReplaceFirstSubSeq([j \in DOMAIN chosen[i] |-> UpperCase(chosen[i][j])],
                                             chosen[i], path))]
  <2>1. IsList(positions)
    BY MadeList
  <2> HIDE DEF positions
  <2>2. IsList(starts)
    BY <2>1, PickedList
  <2> HIDE DEF starts
  <2>3. IsList(parts)
    BY <2>2, MadeList
  <2>4. Segments(path) = parts
    BY Zenon DEF Segments, positions, starts
  <2> HIDE DEF parts
  <2>5. IsList(chosen)
    BY <2>3, PickedList
  <2>6. CaseSwitching(path) = each
    BY <2>4, Zenon DEF CaseSwitching, Each
  <2> HIDE DEF chosen
  <2>7. Mutations(each)
    BY <2>5, Setters, EachMutation
  <2> QED BY <2>6, <2>7
<1>4. Mutations(DoubleSlashing(path))
  BY Setters, OneMutation DEF DoubleSlashing
<1>5. Mutations(VersionSwitching(path))
  <2> DEFINE IsVersion(i) == path[i] = "v" /\ i < Len(path) /\ path[i + 1] \in DOMAIN NumberValue
             versions == Picked([i \in DOMAIN path |-> i], {i \in DOMAIN path : IsVersion(i)})
             token == path[Last(versions) + 1]
             n == NumberValue[token]
             first == Min({i \in Range(versions) : path[i + 1] = token})
             values == <<n - 1, n + 1, n + 2, n + 5, 9999>>
             each == [i \in DOMAIN values |->
                        SetPath("version_switching",
                                [path EXCEPT ![first + 1] = NumberToken[values[i]]])]
  <2>1. IsList(values)
    BY ShortLists
  <2>2. VersionSwitching(path) = IF versions = << >> THEN << >> ELSE each
    BY DEF VersionSwitching, Each
  <2> HIDE DEF values
  <2>3. Mutations(each)
    BY <2>1, Setters, EachMutation
  <2> QED BY <2>2, <2>3, NoMutations
<1> QED BY <1>1, <1>2, <1>3, <1>4, <1>5, MoreMutations DEF MutatePath

\* u holds the mutations of each fingerprint in X once.
Unique(u, X) ==
  /\ IsList(u)
  /\ \A i \in DOMAIN u : Fingerprint(u[i]) \in X
  /\ \A i, j \in DOMAIN u : Fingerprint(u[i]) = Fingerprint(u[j]) => i = j
  /\ \A x \in X : \E i \in DOMAIN u : Fingerprint(u[i]) = x

LEMMA KeepNewHolds ==
  ASSUME NEW u, NEW X, Unique(u, X), NEW m
  PROVE  Unique(KeepNew(u, m), X \cup {Fingerprint(m)})
<1>1. CASE \E i \in DOMAIN u : Fingerprint(u[i]) = Fingerprint(m)
  <2>1. KeepNew(u, m) = u
    BY <1>1 DEF KeepNew
  <2>2. X \cup {Fingerprint(m)} = X
    BY <1>1 DEF Unique
  <2> QED BY <2>1, <2>2
<1>2. CASE \A i \in DOMAIN u : Fingerprint(u[i]) # Fingerprint(m)
  <2> PICK after, n : after = Append(u, m) /\ n = Len(u) + 1
    OBVIOUS
  <2>1. /\ IsList(after) /\ after[n] = m /\ DOMAIN after = DOMAIN u \cup {n}
        /\ \A i \in DOMAIN u : after[i] = u[i]
    <3>1. IsList(u)
      BY DEF Unique
    <3> QED BY <3>1, AppendList, DomainOfList
  <2>2. KeepNew(u, m) = after
    BY <1>2 DEF KeepNew
  <2>3. \A i \in DOMAIN after : Fingerprint(after[i]) \in X \cup {Fingerprint(m)}
    BY <2>1 DEF Unique
  <2>4. \A i, j \in DOMAIN after : Fingerprint(after[i]) = Fingerprint(after[j]) => i = j
    BY <1>2, <2>1 DEF Unique
  <2>5. \A x \in X \cup {Fingerprint(m)} : \E i \in DOMAIN after : Fingerprint(after[i]) = x
    BY <2>1 DEF Unique
  <2> QED BY <2>1, <2>2, <2>3, <2>4, <2>5 DEF Unique
<1> QED BY <1>1, <1>2

\* u has some of the mutations, the first of them as its first.
Kept(u, all) ==
  /\ \A i \in DOMAIN u : u[i] \in Range(all)
  /\ 1 \in DOMAIN u => u[1] = all[1]

LEMMA KeptMore ==
  ASSUME NEW u, IsList(u), NEW all, Kept(u, all), NEW m \in Range(all),
         1 \notin DOMAIN u => m = all[1]
  PROVE  Kept(KeepNew(u, m), all)
<1>1. CASE KeepNew(u, m) = u
  BY <1>1
<1>2. CASE KeepNew(u, m) = Append(u, m)
  <2> PICK after, n : after = Append(u, m) /\ n = Len(u)
    OBVIOUS
  <2>1. /\ DOMAIN after = DOMAIN u \cup {n + 1} /\ after[n + 1] = m /\ n \in Nat /\ DOMAIN u = 1..n
        /\ \A i \in 1..n : after[i] = u[i]
    BY AppendList, DomainOfList
  <2>2. \A i \in DOMAIN after : after[i] \in Range(all)
    BY <2>1 DEF Kept
  <2>3. after[1] = all[1]
    <3>1. CASE n = 0
      BY <2>1, <3>1
    <3>2. CASE n # 0
      BY <2>1, <3>2 DEF Kept
    <3> QED BY <3>1, <3>2
  <2> QED BY <1>2, <2>2, <2>3 DEF Kept
<1> QED BY <1>1, <1>2 DEF KeepNew

LEMMA DeduplicateHolds ==
  ASSUME NEW all, IsList(all)
  PROVE  /\ Unique(Deduplicate(all), {Fingerprint(all[i]) : i \in DOMAIN all})
         /\ Kept(Deduplicate(all), all)
<1> PICK n \in Nat : n = Len(all) /\ DOMAIN all = 1..n
  BY DomainOfList
<1>1. Folds("unique", "", << >>, all, n, Deduplicate(all))
  BY UniqueSteps
<1>2. PICK c : /\ Deduplicate(all) = c[n]
               /\ c[0] = << >>
               /\ \A m \in 0..n - 1 : c[m + 1] = Step("unique", "", c[m], all[m + 1])
  BY <1>1, Zenon DEF Folds
<1>3. \A u, m : Step("unique", "", u, m) = KeepNew(u, m)
  BY DEF Step
<1> DEFINE Read(m) == {Fingerprint(all[i]) : i \in 1..m}
           T == {m \in Nat : m <= n => Unique(c[m], Read(m)) /\ Kept(c[m], all)}
<1>4. 0 \in T
  <2>1. Read(0) = {}
    OBVIOUS
  <2>2. Unique(<< >>, {}) /\ Kept(<< >>, all)
    BY EmptyIsList DEF Unique, Kept
  <2> HIDE DEF Read
  <2> QED BY <1>2, <2>1, <2>2
<1>5. ASSUME NEW m \in Nat, m \in T PROVE m + 1 \in T
  <2> PICK k \in Nat : k = m + 1
    OBVIOUS
  <2> SUFFICES ASSUME k <= n PROVE Unique(c[k], Read(k)) /\ Kept(c[k], all)
    BY Z3
  <2>1. Unique(c[m], Read(m)) /\ Kept(c[m], all)
    BY <1>5
  <2>2. m \in 0..n - 1
    OBVIOUS
  <2>3. c[k] = KeepNew(c[m], all[k])
    BY <1>2, <1>3, <2>2
  <2>4. Read(k) = Read(m) \cup {Fingerprint(all[k])}
    <3>1. 1..k = 1..m \cup {k}
      OBVIOUS
    <3> QED BY <3>1
  <2>5. IsList(c[m]) /\ all[k] \in Range(all)
    BY <2>1 DEF Unique, Range
  <2>6. 1 \notin DOMAIN c[m] => all[k] = all[1]
    <3> SUFFICES ASSUME m # 0 PROVE 1 \in DOMAIN c[m]
      OBVIOUS
    <3>1. Fingerprint(all[1]) \in Read(m)
      OBVIOUS
    <3>2. DOMAIN c[m] # {}
      <4> HIDE DEF Read
      <4> QED BY <2>1, <3>1 DEF Unique
    <3> QED BY <2>5, <3>2, DomainOfList
  <2> HIDE DEF Read
  <2>7. Unique(c[k], Read(k))
    BY <2>1, <2>3, <2>4, KeepNewHolds
  <2>8. Kept(c[k], all)
    BY <2>1, <2>3, <2>5, <2>6, KeptMore
  <2> QED BY <2>7, <2>8
<1>6. Nat \subseteq T
  <2> HIDE DEF T
  <2> QED BY <1>4, <1>5, Induction
<1>7. Unique(c[n], Read(n)) /\ Kept(c[n], all)
  <2> HIDE DEF Read
  <2>1. n \in T
    BY <1>6, Zenon
  <2> QED BY <2>1
<1> QED BY <1>2, <1>7

LEMMA FirstOfBoth ==
  ASSUME NEW s, NEW t, IsList(s), IsList(t), 1 \in DOMAIN s
  PROVE  1 \in DOMAIN (s \o t) /\ (s \o t)[1] = s[1]
<1> PICK u, n, m : u = s \o t /\ n = Len(s) /\ m = Len(t)
  OBVIOUS
<1>1. n \in Nat /\ m \in Nat /\ 1 <= n
  BY DomainOfList
<1>2. IsList(u) /\ Len(u) = n + m /\ \A i \in 1..n : u[i] = s[i]
  BY ConcatLists
<1>3. DOMAIN u = 1..n + m
  BY <1>2, DomainOfList
<1> QED BY <1>1, <1>2, <1>3

StartsWith(s, m) == Mutations(s) /\ 1 \in DOMAIN s /\ s[1] = m

LEMMA StartKept ==
  ASSUME NEW s, NEW m, StartsWith(s, m), NEW t, Mutations(t)
  PROVE  StartsWith(s \o t, m)
<1> PICK u : u = s \o t
  OBVIOUS
<1>1. Mutations(u) /\ 1 \in DOMAIN u /\ u[1] = s[1]
  BY MoreMutations, FirstOfBoth DEF StartsWith, Mutations
<1> QED BY <1>1 DEF StartsWith

LEMMA FlattenOne ==
  ASSUME NEW s, IsList(s), NEW each, DOMAIN each = {1}, each = [i \in {1} |-> each[i]], each[1] = s
  PROVE  FlattenSeq(each) = s
<1> PICK S : S = Range(s) /\ s \in Seq(S)
  BY DEF IsList
<1>1. {1} = 1..1
  OBVIOUS
<1>2. each \in Seq(Seq(S)) /\ Len(each) = 1
  <2>1. each = <<s>>
    OBVIOUS
  <2>2. <<s>> \in Seq(Seq(S)) /\ Len(<<s>>) = 1
    OBVIOUS
  <2> QED BY <2>1, <2>2
<1>3. PICK h : Joins(each, 1, h)
  BY <1>2, FlattenJoins
<1>4. h[0] = << >> /\ h[0 + 1] = h[0] \o each[0 + 1] /\ FlattenSeq(each) = h[1]
  <2>1. 0 \in 0..1 - 1
    OBVIOUS
  <2> QED BY <1>3, <2>1 DEF Joins
<1>5. << >> \o s = s
  OBVIOUS
<1> QED BY <1>4, <1>5

\* The first mutation removes the one header.
LEMMA RemovedFirst ==
  ASSUME NEW all, all = MutateHeaders(JsonHeaders)
  PROVE  1 \in DOMAIN all /\ all[1] = SetHeaders("remove_header", {})
<1> DEFINE key == "Content-Type"
           keys == SetToSeq({h[1] : h \in JsonHeaders})
           first == RemoveHeader(JsonHeaders, key)
           blanks == BlankValue(JsonHeaders, key)
           swaps == ContentTypeSwap(JsonHeaders, key)
           Of(k) == RemoveHeader(JsonHeaders, k) \o BlankValue(JsonHeaders, k)
                      \o ContentTypeSwap(JsonHeaders, k)
           each == [i \in DOMAIN keys |-> Of(keys[i])]
<1>1. DOMAIN keys = {1} /\ keys[1] = key
  <2>1. {h[1] : h \in JsonHeaders} = {key}
    BY DEF JsonHeaders
  <2>2. IsFiniteSet({key}) /\ Cardinality({key}) = 1
    BY FS_Singleton
  <2>3. SetToSeq({key}) \in [1..1 -> {key}]
    BY <2>2, SetToSeqHolds DEF SetToSeqs
  <2>4. keys = SetToSeq({key})
    BY <2>1
  <2> HIDE DEF keys, key
  <2> QED BY <2>3, <2>4
<1>2. first = <<SetHeaders("remove_header", {})>>
  <2>1. {h \in JsonHeaders : h[1] # key} = {}
    BY DEF JsonHeaders
  <2> QED BY <2>1 DEF RemoveHeader
<1>3. IsList(first) /\ IsList(blanks)
  BY ShortLists DEF RemoveHeader, BlankValue
<1>4. IsList(swaps) /\ IsList(IdSpoofing(JsonHeaders))
  BY ShortLists, MadeList DEF ContentTypeSwap, IdSpoofing, Each
<1>5. 1 \in DOMAIN first /\ first[1] = SetHeaders("remove_header", {})
  BY <1>2
<1>6. all = FlattenSeq(each) \o IdSpoofing(JsonHeaders)
  BY DEF MutateHeaders, Each
<1>7. Of(key) = (first \o blanks) \o swaps
  OBVIOUS
<1> HIDE DEF keys, first, blanks, swaps, Of
<1>8. IsList(first \o blanks) /\ IsList(Of(key)) /\ 1 \in DOMAIN Of(key) /\ Of(key)[1] = first[1]
  <2> PICK both : both = first \o blanks
    OBVIOUS
  <2>1. IsList(both) /\ 1 \in DOMAIN both /\ both[1] = first[1]
    BY <1>3, <1>5, ConcatLists, FirstOfBoth
  <2>2. IsList(both \o swaps) /\ 1 \in DOMAIN (both \o swaps) /\ (both \o swaps)[1] = both[1]
    BY <1>4, <2>1, ConcatLists, FirstOfBoth
  <2> QED BY <1>7, <2>1, <2>2
<1>9. FlattenSeq(each) = Of(key)
  <2>1. DOMAIN each = {1} /\ each = [i \in {1} |-> each[i]] /\ each[1] = Of(key)
    BY <1>1
  <2> HIDE DEF each, key
  <2> QED BY <1>8, <2>1, FlattenOne
<1> QED BY <1>4, <1>5, <1>6, <1>8, <1>9, FirstOfBoth

LEMMA MutationsList ==
  ASSUME NEW base, IsList(base), NEW endpoint, endpoint.method \in ValidMethods, Normal(endpoint.path)
  PROVE  LET all == AllMutations(RequestForNode(base, endpoint))
         IN /\ Mutations(all) /\ 1 \in DOMAIN all /\ all[1] = SetHeaders("remove_header", {})
            /\ IsList(Mutate(RequestForNode(base, endpoint)))
<1> PICK req : req = RequestForNode(base, endpoint)
  OBVIOUS
<1>1. /\ req.method = endpoint.method /\ req.path = TargetUrl(base, endpoint.path)
      /\ req.headers = JsonHeaders /\ (req.body = {} \/ req.body = {<<"dummy", "value">>})
  BY DEF RequestForNode
<1>2. IsFiniteSet(req.headers) /\ IsFiniteSet(req.body)
  <2>1. \A x : IsFiniteSet({x})
    BY FS_Singleton
  <2>2. IsFiniteSet(JsonHeaders)
    BY <2>1 DEF JsonHeaders
  <2>3. IsFiniteSet(req.body)
    BY <1>1, <2>1, FS_EmptySet
  <2> QED BY <1>1, <2>2, <2>3
<1>3. IsList(req.path)
  <2>1. PICK b : IsList(b) /\ TargetUrl(base, endpoint.path) = b \o endpoint.path
    BY TargetUrlHolds
  <2>2. IsList(endpoint.path)
    BY DEF Normal
  <2> QED BY <1>1, <2>1, <2>2, ConcatLists
<1> PICK h, b, m, p : /\ h = MutateHeaders(req.headers) /\ m = MutateMethod(req.method)
                      /\ b = (IF req.body = {} THEN << >> ELSE MutateBody(req.body))
                      /\ p = MutatePath(req.path)
  OBVIOUS
<1>4. Mutations(h) /\ Mutations(m) /\ Mutations(p)
  BY <1>1, <1>2, <1>3, HeaderMutations, MethodMutations, PathMutations
<1>5. Mutations(b)
  BY <1>2, NoMutations, BodyMutations
<1>6. 1 \in DOMAIN h /\ h[1] = SetHeaders("remove_header", {})
  BY <1>1, RemovedFirst
<1>7. AllMutations(req) = ((h \o b) \o m) \o p
  BY DEF AllMutations
<1> PICK all, first : all = AllMutations(req) /\ first = SetHeaders("remove_header", {})
  OBVIOUS
<1>8. StartsWith(h, first)
  BY <1>4, <1>6 DEF StartsWith
<1>9. StartsWith(all, first)
  <2>1. StartsWith(((h \o b) \o m) \o p, first)
    BY <1>4, <1>5, <1>8, StartKept
  <2> QED BY <1>7, <2>1
<1>10. IsList(Mutate(req))
  BY <1>9, DeduplicateHolds DEF Mutate, Unique, Mutations, StartsWith
<1> QED BY <1>9, <1>10 DEF StartsWith

\* Of the mutations that read alike the one that is kept makes the same request.
LEMMA SameRequest ==
  ASSUME NEW all, Mutations(all), 1 \in DOMAIN all, all[1] = SetHeaders("remove_header", {}),
         NEW m \in Range(all), ~IsBlank(m), NEW found, found = Deduplicate(all)
  PROVE  \E j \in DOMAIN found : FuzzTask(found[j]) = FuzzTask(m)
<1>1. IsList(all) /\ \A k \in Range(all) : Legible(k)
  BY DEF Mutations
<1>2. Unique(found, {Fingerprint(all[i]) : i \in DOMAIN all}) /\ Kept(found, all)
  BY <1>1, DeduplicateHolds
<1>3. "method" \notin all[1].has /\ Fingerprint(all[1]) = Nothing
  BY DEF SetHeaders, Mutation, Fingerprint, Nothing
<1>4. 1 \in DOMAIN found /\ found[1] = all[1]
  <2>1. IsList(found) /\ DOMAIN found # {}
    BY <1>2 DEF Unique
  <2>2. 1 \in DOMAIN found
    BY <2>1, DomainOfList
  <2> QED BY <1>2, <2>2 DEF Kept
<1>5. PICK j \in DOMAIN found : Fingerprint(found[j]) = Fingerprint(m)
  BY <1>2 DEF Unique, Range
<1> PICK kept : kept = found[j]
  OBVIOUS
<1>6. /\ kept.method = m.method /\ kept.path = m.path
      /\ kept.headers = m.headers /\ kept.body = m.body
  BY <1>5 DEF Fingerprint
<1>7. Legible(m) /\ Legible(kept)
  BY <1>1, <1>2 DEF Kept
<1>8. "method" \in kept.has <=> "method" \in m.has
  <2>1. ASSUME "method" \in kept.has, "method" \notin m.has PROVE FALSE
    <3>1. Fingerprint(kept) = Nothing
      BY <1>6, <1>7, <2>1 DEF Legible
    <3>2. j = 1
      BY <1>2, <1>3, <1>4, <3>1 DEF Unique
    <3> QED BY <1>3, <1>4, <2>1, <3>2
  <2>2. ASSUME "method" \notin kept.has, "method" \in m.has PROVE FALSE
    BY <1>6, <1>7, <2>2 DEF Legible, IsBlank
  <2> QED BY <2>1, <2>2
<1>9. FuzzTask(kept) = FuzzTask(m)
  BY <1>6, <1>8 DEF FuzzTask
<1> QED BY <1>9

----------------------------------------------------------------------------
(* The tasks *)

LEMMA EmptyRange ==
  ASSUME NEW s, IsList(s), Range(s) = {}
  PROVE  s = << >>
<1>1. DOMAIN s = {} /\ Len(s) = 0
  BY DomainOfList DEF Range
<1> QED BY <1>1 DEF IsList

IsTask(task) ==
  task = [kind |-> task.kind, method |-> task.method, url |-> task.url, headers |-> task.headers,
          payload |-> task.payload, token |-> task.token, retries |-> task.retries,
          priority |-> task.priority]

LEMMA CrawlerTasksHold ==
  ASSUME NEW base, NEW endpoints, IsList(endpoints)
  PROVE  LET tasks == GenerateTasksFromSpec(endpoints, base)
         IN /\ IsList(tasks) /\ DOMAIN tasks = DOMAIN endpoints
            /\ \A i \in DOMAIN tasks :
                 /\ IsTask(tasks[i]) /\ tasks[i].kind = "crawler"
                 /\ tasks[i].method = endpoints[i].method
                 /\ tasks[i].url = TargetUrl(base, endpoints[i].path)
<1> DEFINE tasks == GenerateTasksFromSpec(endpoints, base)
<1>1. /\ DOMAIN tasks = DOMAIN endpoints
      /\ tasks = [i \in DOMAIN endpoints |-> tasks[i]]
      /\ \A i \in DOMAIN tasks : tasks[i] = CrawlerTask(base, endpoints[i])
  BY DEF GenerateTasksFromSpec
<1> HIDE DEF tasks
<1>2. IsList(tasks)
  BY <1>1, MadeList
<1>3. \A e : /\ IsTask(CrawlerTask(base, e)) /\ CrawlerTask(base, e).kind = "crawler"
             /\ CrawlerTask(base, e).method = e.method /\ CrawlerTask(base, e).url = TargetUrl(base, e.path)
  BY DEF CrawlerTask, IsTask
<1> QED BY <1>1, <1>2, <1>3 DEF tasks

LEMMA JwtTasksHold ==
  ASSUME NEW base, NEW endpoints, IsList(endpoints), NEW tokens, IsList(tokens),
         NEW tasks, tasks = GenerateJwtTasks(endpoints, tokens, base)
  PROVE  /\ IsList(tasks)
         /\ \A task \in Range(tasks) :
              /\ IsTask(task) /\ task.kind = "jwt"
              /\ \E e \in Range(endpoints) : task.method = e.method /\ task.url = base \o e.path
<1> PICK guarded : guarded = Picked(endpoints, {i \in DOMAIN endpoints : endpoints[i].auth})
  OBVIOUS
<1> PICK cases : cases = GenerateTestCases(base, guarded, tokens)
  OBVIOUS
<1>1. IsList(guarded) /\ Range(guarded) \subseteq Range(endpoints)
  BY PickedList
<1> DEFINE Case(i, j) == [method |-> guarded[i].method, url |-> base \o guarded[i].path, token |-> tokens[j]]
           row(i) == [j \in DOMAIN tokens |-> Case(i, j)]
           each == [i \in DOMAIN guarded |-> row(i)]
<1>2. cases = FlattenSeq(each)
  BY DEF GenerateTestCases
<1>3. ASSUME NEW i \in DOMAIN guarded PROVE IsList(row(i)) /\ DOMAIN row(i) = DOMAIN tokens
  <2> HIDE DEF Case
  <2> QED BY MadeList
<1>4. IsList(each)
  <2> HIDE DEF row
  <2> QED BY <1>1, MadeList
<1>5. IsList(cases) /\ Range(cases) = UNION {Range(each[i]) : i \in DOMAIN each}
  <2>1. \A i \in DOMAIN each : IsList(each[i])
    <3> HIDE DEF row
    <3> QED BY <1>3
  <2> HIDE DEF each
  <2> QED BY <1>2, <1>4, <2>1, FlattenLists
<1>6. ASSUME NEW c \in Range(cases)
      PROVE  \E e \in Range(endpoints) : c.method = e.method /\ c.url = base \o e.path
  <2>1. PICK i \in DOMAIN guarded : c \in Range(row(i))
    <3> HIDE DEF row
    <3> QED BY <1>5
  <2>2. PICK j \in DOMAIN tokens : c = Case(i, j)
    BY <2>1 DEF Range
  <2>3. guarded[i] \in Range(endpoints)
    BY <1>1 DEF Range
  <2> QED BY <2>2, <2>3
<1>7. /\ DOMAIN tasks = DOMAIN cases /\ tasks = [i \in DOMAIN cases |-> tasks[i]]
      /\ \A i \in DOMAIN cases : /\ IsTask(tasks[i]) /\ tasks[i].kind = "jwt"
                                 /\ tasks[i].method = cases[i].method /\ tasks[i].url = cases[i].url
  BY DEF GenerateJwtTasks, IsTask
<1>8. IsList(tasks)
  BY <1>5, <1>7, MadeList
<1>9. ASSUME NEW task \in Range(tasks)
      PROVE  /\ IsTask(task) /\ task.kind = "jwt"
             /\ \E e \in Range(endpoints) : task.method = e.method /\ task.url = base \o e.path
  <2>1. PICK i \in DOMAIN tasks : task = tasks[i]
    BY DEF Range
  <2>2. cases[i] \in Range(cases)
    BY <1>7, <2>1 DEF Range
  <2> HIDE DEF Case, each
  <2>3. PICK e \in Range(endpoints) : cases[i].method = e.method /\ cases[i].url = base \o e.path
    BY <1>6, <2>2
  <2>4. IsTask(task) /\ task.kind = "jwt" /\ task.method = cases[i].method /\ task.url = cases[i].url
    BY <1>7, <2>1
  <2>5. task.method = e.method /\ task.url = base \o e.path
    BY <2>3, <2>4
  <2> QED BY <2>3, <2>4, <2>5
<1> QED BY <1>8, <1>9

\* The fuzzing tasks of one endpoint
FuzzTasks(base, endpoint) ==
  LET found == Mutate(RequestForNode(base, endpoint))
  IN [j \in DOMAIN found |-> FuzzTask(found[j])]

LEMMA FuzzTasksHold ==
  ASSUME NEW base, IsList(base), NEW endpoints, IsList(endpoints), NEW node,
         \A e \in Range(endpoints) : e.method \in ValidMethods /\ Normal(e.path)
  PROVE  LET tasks == GenerateMutations(endpoints, base, node)
         IN /\ IsList(tasks) /\ \A task \in Range(tasks) : IsTask(task) /\ task.kind = "fuzz"
            /\ node => \A e \in Range(endpoints) : Range(FuzzTasks(base, e)) \subseteq Range(tasks)
<1> PICK tasks : tasks = GenerateMutations(endpoints, base, node)
  OBVIOUS
<1> DEFINE each == [i \in DOMAIN endpoints |-> FuzzTasks(base, endpoints[i])]
<1>1. tasks = IF ~node THEN << >> ELSE FlattenSeq(each)
  BY DEF GenerateMutations, FuzzTasks
<1>2. ASSUME NEW i \in DOMAIN endpoints
      PROVE  IsList(each[i]) /\ \A task \in Range(each[i]) : IsTask(task) /\ task.kind = "fuzz"
  <2> PICK found : found = Mutate(RequestForNode(base, endpoints[i]))
    OBVIOUS
  <2>1. IsList(found)
    <3>1. endpoints[i].method \in ValidMethods /\ Normal(endpoints[i].path)
      BY DEF Range
    <3> QED BY <3>1, MutationsList
  <2>2. each[i] = [j \in DOMAIN found |-> FuzzTask(found[j])]
    BY DEF FuzzTasks
  <2> HIDE DEF each
  <2>3. IsList(each[i])
    BY <2>1, <2>2, MadeList
  <2>4. \A m : IsTask(FuzzTask(m)) /\ FuzzTask(m).kind = "fuzz"
    BY DEF IsTask, FuzzTask
  <2> QED BY <2>2, <2>3, <2>4 DEF Range
<1>3. IsList(each)
  BY MadeList
<1>4. DOMAIN each = DOMAIN endpoints /\ \A e \in Range(endpoints) : FuzzTasks(base, e) \in Range(each)
  BY DEF Range
<1> HIDE DEF each
<1>5. IsList(FlattenSeq(each)) /\ Range(FlattenSeq(each)) = UNION {Range(each[i]) : i \in DOMAIN each}
  BY <1>2, <1>3, <1>4, FlattenLists
<1>6. \A task \in Range(FlattenSeq(each)) : IsTask(task) /\ task.kind = "fuzz"
  BY <1>2, <1>4, <1>5
<1>7. IsList(<< >>) /\ Range(<< >>) = {}
  BY EmptyIsList DEF Range
<1>8. \A e \in Range(endpoints) : Range(FuzzTasks(base, e)) \subseteq Range(FlattenSeq(each))
  BY <1>4, <1>5 DEF Range
<1> QED BY <1>1, <1>5, <1>6, <1>7, <1>8

----------------------------------------------------------------------------
(* The rows of a discover request *)

LEMMA ThreeLists ==
  ASSUME NEW C, NEW J, NEW M, IsList(C), IsList(J), IsList(M)
  PROVE  LET t == C \o J \o M
             c == Len(C)
             j == Len(J)
             m == Len(M)
         IN /\ IsList(t) /\ c \in Nat /\ j \in Nat /\ m \in Nat
            /\ DOMAIN C = 1..c /\ DOMAIN t = 1..c + j + m
            /\ \A i \in 1..c : t[i] = C[i]
            /\ \A i \in c + 1..c + j : t[i] \in Range(J)
            /\ \A i \in c + j + 1..c + j + m : t[i] \in Range(M)
<1>0. Len(C) \in Nat /\ Len(J) \in Nat /\ Len(M) \in Nat
  BY DomainOfList
<1> PICK c \in Nat, j \in Nat, m \in Nat : c = Len(C) /\ j = Len(J) /\ m = Len(M)
  BY <1>0
<1> PICK t, u : t = C \o J \o M /\ u = C \o J
  OBVIOUS
<1>1. /\ IsList(u) /\ Len(u) = c + j
      /\ \A i \in 1..c : u[i] = C[i]
      /\ \A i \in 1..j : u[c + i] = J[i]
  BY ConcatLists
<1>2. /\ IsList(t) /\ Len(t) = c + j + m
      /\ \A i \in 1..c + j : t[i] = u[i]
      /\ \A i \in 1..m : t[c + j + i] = M[i]
  BY <1>1, ConcatLists
<1>3. DOMAIN C = 1..c /\ DOMAIN J = 1..j /\ DOMAIN M = 1..m /\ DOMAIN t = 1..c + j + m
  BY <1>2, DomainOfList
<1>4. \A i \in 1..c : t[i] = C[i]
  BY <1>1, <1>2
<1>5. ASSUME NEW i \in c + 1..c + j PROVE t[i] \in Range(J)
  <2> PICK k \in 1..j : i = c + k
    <3>1. i - c \in 1..j /\ i = c + (i - c)
      OBVIOUS
    <3> QED BY <3>1
  <2>1. t[i] = J[k]
    BY <1>1, <1>2
  <2> QED BY <1>3, <2>1 DEF Range
<1>6. ASSUME NEW i \in c + j + 1..c + j + m PROVE t[i] \in Range(M)
  <2> PICK k \in 1..m : i = c + j + k
    <3>1. i - (c + j) \in 1..m /\ i = c + j + (i - (c + j))
      OBVIOUS
    <3> QED BY <3>1
  <2>1. t[i] = M[k]
    BY <1>2
  <2> QED BY <1>3, <2>1 DEF Range
<1> QED BY <1>2, <1>3, <1>4, <1>5, <1>6

\* AllTasks from what it depends on
TasksOf(endpoints, base, tokens, node) ==
  GenerateTasksFromSpec(endpoints, base) \o GenerateJwtTasks(endpoints, tokens, base)
    \o GenerateMutations(endpoints, base, node)

\* A row for every endpoint in their order, role tasks to the endpoints' URLs, and the mutations
RowsFor(tasks, endpoints, base, mutations) ==
  LET c == Len(endpoints)
      n == Len(tasks)
      m == Len(mutations)
  IN /\ IsList(tasks) /\ c \in Nat /\ n \in Nat /\ m \in Nat /\ n >= c + m
     /\ DOMAIN endpoints = 1..c /\ DOMAIN tasks = 1..n
     /\ \A i \in 1..c : /\ IsTask(tasks[i]) /\ tasks[i].kind = "crawler"
                        /\ tasks[i].method = endpoints[i].method
                        /\ tasks[i].url = TargetUrl(base, endpoints[i].path)
     /\ \A i \in c + 1..n - m :
          /\ IsTask(tasks[i]) /\ tasks[i].kind = "jwt"
          /\ \E e \in Range(endpoints) : tasks[i].method = e.method /\ tasks[i].url = base \o e.path
     /\ \A i \in n - m + 1..n : IsTask(tasks[i]) /\ tasks[i].kind = "fuzz"

LEMMA TasksHold ==
  ASSUME NEW node, NEW base, IsList(base), NEW tokens, IsList(tokens), NEW endpoints, IsList(endpoints),
         \A i \in DOMAIN endpoints : endpoints[i].method \in ValidMethods /\ Normal(endpoints[i].path)
  PROVE  RowsFor(TasksOf(endpoints, base, tokens, node), endpoints, base,
                 GenerateMutations(endpoints, base, node))
<1>0. PICK C, J, M : /\ C = GenerateTasksFromSpec(endpoints, base)
                     /\ J = GenerateJwtTasks(endpoints, tokens, base)
                     /\ M = GenerateMutations(endpoints, base, node)
  OBVIOUS
<1> PICK t : t = C \o J \o M
  OBVIOUS
<1>1. TasksOf(endpoints, base, tokens, node) = t
  BY <1>0 DEF TasksOf
<1>2. /\ IsList(C) /\ DOMAIN C = DOMAIN endpoints
      /\ \A i \in DOMAIN C :
           /\ IsTask(C[i]) /\ C[i].kind = "crawler" /\ C[i].method = endpoints[i].method
           /\ C[i].url = TargetUrl(base, endpoints[i].path)
  BY <1>0, CrawlerTasksHold
<1>3. /\ IsList(J)
      /\ \A task \in Range(J) :
           /\ IsTask(task) /\ task.kind = "jwt"
           /\ \E e \in Range(endpoints) : task.method = e.method /\ task.url = base \o e.path
  BY <1>0, JwtTasksHold
<1>4. IsList(M) /\ \A task \in Range(M) : IsTask(task) /\ task.kind = "fuzz"
  <2>1. \A e \in Range(endpoints) : e.method \in ValidMethods /\ Normal(e.path)
    BY DEF Range
  <2> QED BY <1>0, <2>1, FuzzTasksHold
<1> PICK c \in Nat, j \in Nat, m \in Nat : c = Len(C) /\ j = Len(J) /\ m = Len(M)
  BY <1>2, <1>3, <1>4, DomainOfList
<1>5. /\ IsList(t) /\ DOMAIN C = 1..c /\ DOMAIN t = 1..c + j + m
      /\ \A i \in 1..c : t[i] = C[i]
      /\ \A i \in c + 1..c + j : t[i] \in Range(J)
      /\ \A i \in c + j + 1..c + j + m : t[i] \in Range(M)
  <2>1. LET u == C \o J \o M
            a == Len(C)
            b == Len(J)
            d == Len(M)
        IN /\ IsList(u) /\ a \in Nat /\ b \in Nat /\ d \in Nat
           /\ DOMAIN C = 1..a /\ DOMAIN u = 1..a + b + d
           /\ \A i \in 1..a : u[i] = C[i]
           /\ \A i \in a + 1..a + b : u[i] \in Range(J)
           /\ \A i \in a + b + 1..a + b + d : u[i] \in Range(M)
    BY <1>2, <1>3, <1>4, ThreeLists, Zenon
  <2> QED BY <2>1
<1>6. Len(endpoints) = c
  <2>1. Len(endpoints) \in Nat /\ 1..Len(endpoints) = 1..c
    BY <1>2, <1>5, DomainOfList
  <2> QED BY <2>1
<1>7. Len(t) = c + j + m
  <2>1. Len(t) \in Nat /\ DOMAIN t = 1..Len(t)
    BY <1>5, DomainOfList
  <2> QED BY <1>5, <2>1
<1>8. /\ c + j + m \in Nat /\ c + j + m >= c + m
      /\ (c + j + m) - m = c + j
  OBVIOUS
<1>9. \A i \in 1..c : /\ IsTask(t[i]) /\ t[i].kind = "crawler" /\ t[i].method = endpoints[i].method
                      /\ t[i].url = TargetUrl(base, endpoints[i].path)
  BY <1>2, <1>5
<1>10. \A i \in c + 1..c + j :
          /\ IsTask(t[i]) /\ t[i].kind = "jwt"
          /\ \E e \in Range(endpoints) : t[i].method = e.method /\ t[i].url = base \o e.path
  BY <1>3, <1>5
<1>11. \A i \in c + j + 1..c + j + m : IsTask(t[i]) /\ t[i].kind = "fuzz"
  BY <1>4, <1>5
<1>12. PICK n \in Nat : n = Len(t) /\ n >= c + m /\ n - m = c + j /\ n = c + j + m
  BY <1>7, <1>8
<1>13. /\ \A i \in c + 1..n - m :
            /\ IsTask(t[i]) /\ t[i].kind = "jwt"
            /\ \E e \in Range(endpoints) : t[i].method = e.method /\ t[i].url = base \o e.path
       /\ \A i \in n - m + 1..n : IsTask(t[i]) /\ t[i].kind = "fuzz"
  BY <1>10, <1>11, <1>12, Zenon
<1>14. DOMAIN t = 1..n /\ DOMAIN endpoints = 1..c /\ IsList(t)
  BY <1>2, <1>5, <1>12
<1>15. RowsFor(t, endpoints, base, M)
  BY <1>6, <1>9, <1>12, <1>13, <1>14, Zenon DEF RowsFor
<1> QED BY <1>0, <1>1, <1>15

LEMMA RowIs ==
  ASSUME NEW task, IsTask(task)
  PROVE  /\ IsTask(ToRow(task)) /\ ToRow(task).kind = task.kind
         /\ ToRow(task).method = task.method /\ ToRow(task).url = task.url
<1>1. PICK kind, method, url, headers, payload, token, retries, priority :
        task = [kind |-> kind, method |-> method, url |-> url, headers |-> headers,
                payload |-> payload, token |-> token, retries |-> retries, priority |-> priority]
  BY DEF IsTask
<1>2. \A h : [task EXCEPT !.headers = h]
               = [kind |-> kind, method |-> method, url |-> url, headers |-> h, payload |-> payload,
                  token |-> token, retries |-> retries, priority |-> priority]
  BY <1>1
<1>3. \E h : ToRow(task) = [task EXCEPT !.headers = h]
  <2> DEFINE h == task.headers \cup (IF task.token = NoToken THEN {} ELSE {<<"Authorization", task.token>>})
  <2>1. ToRow(task) = [task EXCEPT !.headers = h]
    BY DEF ToRow
  <2> HIDE DEF h
  <2> QED BY <2>1
<1>4. PICK h : ToRow(task) = [kind |-> kind, method |-> method, url |-> url, headers |-> h,
                              payload |-> payload, token |-> token, retries |-> retries,
                              priority |-> priority]
  BY <1>2, <1>3
<1> QED BY <1>1, <1>4 DEF IsTask

LEMMA RowsHold ==
  ASSUME NEW tasks, NEW endpoints, NEW base, NEW mutations,
         RowsFor(tasks, endpoints, base, mutations)
  PROVE  RowsFor(Each(tasks, ToRow), endpoints, base, mutations)
<1> DEFINE made == Each(tasks, ToRow)
<1>1. /\ made = [i \in DOMAIN tasks |-> made[i]] /\ DOMAIN made = DOMAIN tasks
      /\ \A i \in DOMAIN tasks : made[i] = ToRow(tasks[i])
  BY DEF Each
<1> HIDE DEF made
<1>2. IsList(tasks)
  BY Zenon DEF RowsFor
<1>3. IsList(made) /\ Len(made) = Len(tasks)
  BY <1>1, <1>2, MadeList
<1> PICK c, n, m : c = Len(endpoints) /\ n = Len(tasks) /\ m = Len(mutations)
  OBVIOUS
<1>4. /\ c \in Nat /\ n \in Nat /\ m \in Nat /\ n >= c + m
      /\ DOMAIN endpoints = 1..c /\ DOMAIN tasks = 1..n
      /\ \A i \in 1..c : /\ IsTask(tasks[i]) /\ tasks[i].kind = "crawler"
                         /\ tasks[i].method = endpoints[i].method
                         /\ tasks[i].url = TargetUrl(base, endpoints[i].path)
      /\ \A i \in c + 1..n - m :
           /\ IsTask(tasks[i]) /\ tasks[i].kind = "jwt"
           /\ \E e \in Range(endpoints) : tasks[i].method = e.method /\ tasks[i].url = base \o e.path
      /\ \A i \in n - m + 1..n : IsTask(tasks[i]) /\ tasks[i].kind = "fuzz"
  BY DEF RowsFor
<1>5. \A i \in DOMAIN tasks : IsTask(tasks[i]) =>
        /\ IsTask(made[i]) /\ made[i].kind = tasks[i].kind
        /\ made[i].method = tasks[i].method /\ made[i].url = tasks[i].url
  BY <1>1, RowIs
<1>6. \A i \in 1..c : /\ IsTask(made[i]) /\ made[i].kind = "crawler"
                      /\ made[i].method = endpoints[i].method
                      /\ made[i].url = TargetUrl(base, endpoints[i].path)
  <2>1. \A i \in 1..c : i \in DOMAIN tasks
    BY <1>4
  <2> QED BY <1>4, <1>5, <2>1
<1>7. \A i \in c + 1..n - m :
        /\ IsTask(made[i]) /\ made[i].kind = "jwt"
        /\ \E e \in Range(endpoints) : made[i].method = e.method /\ made[i].url = base \o e.path
  <2> SUFFICES ASSUME NEW i \in c + 1..n - m
               PROVE  /\ IsTask(made[i]) /\ made[i].kind = "jwt"
                      /\ \E e \in Range(endpoints) :
                           made[i].method = e.method /\ made[i].url = base \o e.path
    OBVIOUS
  <2>1. i \in DOMAIN tasks
    BY <1>4
  <2>2. IsTask(tasks[i]) /\ tasks[i].kind = "jwt"
    BY <1>4
  <2>3. PICK e \in Range(endpoints) : tasks[i].method = e.method /\ tasks[i].url = base \o e.path
    BY <1>4
  <2>4. /\ IsTask(made[i]) /\ made[i].kind = tasks[i].kind
        /\ made[i].method = tasks[i].method /\ made[i].url = tasks[i].url
    BY <1>5, <2>1, <2>2
  <2> QED BY <2>2, <2>3, <2>4
<1>8. \A i \in n - m + 1..n : IsTask(made[i]) /\ made[i].kind = "fuzz"
  <2>1. \A i \in n - m + 1..n : i \in DOMAIN tasks
    BY <1>4
  <2> QED BY <1>4, <1>5, <2>1
<1>9. DOMAIN made = 1..n /\ n = Len(made)
  BY <1>1, <1>3, <1>4
<1> QED BY <1>3, <1>4, <1>6, <1>7, <1>8, <1>9 DEF RowsFor, made

\* What is known of the endpoints of a document that was parsed without an exception
LEMMA EndpointsHold ==
  ASSUME NEW req \in Requests, ~Parse(req.doc).raised
  PROVE  LET endpoints == Parse(req.doc).endpoints
         IN /\ IsList(req.base) /\ IsList(req.tokens) /\ IsList(endpoints)
            /\ \A i \in DOMAIN endpoints :
                 endpoints[i].method \in ValidMethods /\ Normal(endpoints[i].path)
            /\ IF req.doc.state = "ok" THEN EachOnce(endpoints, Operations(req.doc))
               ELSE endpoints = << >>
<1>1. /\ IsList(req.base) /\ IsList(req.tokens) /\ IsList(req.doc.paths)
      /\ \A entry \in Range(req.doc.paths) :
           entry.wellFormed => IsList(entry.path) /\ IsList(entry.ops)
  BY RequestsAssumption
<1>2. CASE req.doc.state = "ok"
  <2>1. Parsed(Parse(req.doc), Operations(req.doc))
    BY <1>1, <1>2, ParseHolds
  <2>2. EachOnce(Parse(req.doc).endpoints, Operations(req.doc))
    BY <2>1 DEF Parsed
  <2> QED BY <1>1, <1>2, <2>2 DEF EachOnce
<1>3. CASE req.doc.state # "ok"
  <2>1. Parse(req.doc).endpoints = << >>
    BY <1>3 DEF Parse
  <2> QED BY <1>1, <1>3, <2>1, EmptyIsList
<1> QED BY <1>2, <1>3

LEMMA NoTasks ==
  ASSUME NEW base, IsList(base), NEW tokens, IsList(tokens), NEW node
  PROVE  TasksOf(<< >>, base, tokens, node) = << >>
<1> PICK none : none = << >>
  OBVIOUS
<1>1. IsList(none) /\ DOMAIN none = {} /\ Range(none) = {} /\ Len(none) = 0
  BY EmptyIsList DEF Range
<1>2. GenerateMutations(none, base, node) = << >>
  <2> DEFINE each == [i \in DOMAIN none |-> FuzzTasks(base, none[i])]
  <2>1. GenerateMutations(none, base, node) = IF ~node THEN << >> ELSE FlattenSeq(each)
    BY DEF GenerateMutations, FuzzTasks
  <2>2. IsList(each) /\ DOMAIN each = {}
    BY <1>1, MadeList
  <2> HIDE DEF each
  <2>3. IsList(FlattenSeq(each)) /\ Range(FlattenSeq(each)) = {}
    BY <2>2, FlattenLists
  <2> QED BY <2>1, <2>3, EmptyRange
<1>3. PICK tasks, mutations : /\ tasks = TasksOf(none, base, tokens, node)
                              /\ mutations = GenerateMutations(none, base, node)
  OBVIOUS
<1>4. RowsFor(tasks, none, base, mutations)
  BY <1>1, <1>3, TasksHold
<1>5. Len(mutations) = 0
  BY <1>2, <1>3
<1>6. PICK n \in Nat : /\ IsList(tasks) /\ DOMAIN tasks = 1..n
                       /\ \A i \in 1..n : \E e \in Range(none) : TRUE
  <2>1. IsList(tasks) /\ Len(tasks) \in Nat /\ DOMAIN tasks = 1..Len(tasks)
    BY <1>4, Zenon DEF RowsFor
  <2>2. PICK n \in Nat : n = Len(tasks)
    BY <2>1
  <2>3. \A i \in 0 + 1..n - 0 : \E e \in Range(none) : TRUE
    BY <1>1, <1>4, <1>5, <2>2 DEF RowsFor
  <2>4. 0 + 1..n - 0 = 1..n
    OBVIOUS
  <2> QED BY <2>1, <2>2, <2>3, <2>4
<1>7. Range(tasks) = {}
  BY <1>1, <1>6 DEF Range
<1> QED BY <1>3, <1>6, <1>7, EmptyRange

\* The rows are those of the accepted request, and stay.
Discovered ==
  /\ rows # << >> => reply = "accepted"
  /\ reply = "accepted" =>
       LET endpoints == Parse(request.doc).endpoints
       IN /\ request \in Requests /\ ~Parse(request.doc).raised
          /\ request.doc.state = "ok" /\ rows # << >>
          /\ rows = Each(TasksOf(endpoints, request.base, request.tokens, site.node), ToRow)

LEMMA AcceptedHolds ==
  ASSUME NEW req \in Requests, ~Parse(req.doc).raised, NEW endpoints,
         endpoints = Parse(req.doc).endpoints, NEW node,
         TasksOf(endpoints, req.base, req.tokens, node) # << >>
  PROVE  /\ req.doc.state = "ok"
         /\ Each(TasksOf(endpoints, req.base, req.tokens, node), ToRow) # << >>
<1> PICK base, tokens : base = req.base /\ tokens = req.tokens
  OBVIOUS
<1>1. /\ IsList(base) /\ IsList(tokens) /\ IsList(endpoints)
      /\ \A i \in DOMAIN endpoints :
           endpoints[i].method \in ValidMethods /\ Normal(endpoints[i].path)
      /\ req.doc.state # "ok" => endpoints = << >>
  BY EndpointsHold
<1>2. req.doc.state = "ok"
  BY <1>1, NoTasks
<1>3. PICK tasks : tasks = TasksOf(endpoints, base, tokens, node)
  OBVIOUS
<1>4. IsList(tasks)
  <2>1. RowsFor(tasks, endpoints, base, GenerateMutations(endpoints, base, node))
    BY <1>1, <1>3, TasksHold
  <2> QED BY <2>1, Zenon DEF RowsFor
<1>5. DOMAIN tasks # {}
  <2> SUFFICES ASSUME DOMAIN tasks = {} PROVE FALSE
    OBVIOUS
  <2>1. Range(tasks) = {}
    BY DEF Range
  <2> QED BY <1>3, <1>4, <2>1, EmptyRange
<1>6. Each(tasks, ToRow) # << >>
  BY <1>5 DEF Each
<1> QED BY <1>2, <1>3, <1>6

LEMMA DiscoveredCorrect == Spec => []Discovered
<1>1. Init => Discovered
  BY DEF Init, Discovered
<1>2. Discovered /\ [Next]_vars => Discovered'
  <2> SUFFICES ASSUME Discovered, [Next]_vars PROVE Discovered'
    OBVIOUS
  <2>1. CASE UNCHANGED <<site, request, reply, rows>>
    BY <2>1 DEF Discovered
  <2>2. ASSUME NEW req \in Requests, DiscoverRejected(req) PROVE Discovered'
    <3>1. rows' = << >> /\ reply' # "accepted"
      BY <2>2 DEF DiscoverRejected
    <3> QED BY <3>1 DEF Discovered
  <2>3. ASSUME NEW req \in Requests, DiscoverFails(req) PROVE Discovered'
    BY <2>3 DEF DiscoverFails, Discovered
  <2>4. ASSUME NEW req \in Requests, DiscoverAccepted(req) PROVE Discovered'
    <3>1. PICK endpoints : endpoints = Parse(req.doc).endpoints
      OBVIOUS
    <3>2. AllTasks(req) = TasksOf(endpoints, req.base, req.tokens, site.node)
      BY <3>1 DEF AllTasks, TasksOf
    <3>3. /\ ~Parse(req.doc).raised /\ AllTasks(req) # << >>
          /\ request' = req /\ reply' = "accepted" /\ site' = site
          /\ rows' = Each(AllTasks(req), ToRow)
      BY <2>4 DEF DiscoverAccepted
    <3>4. req.doc.state = "ok" /\ rows' # << >>
      BY <3>1, <3>2, <3>3, AcceptedHolds
    <3> QED BY <3>1, <3>2, <3>3, <3>4 DEF Discovered
  <2>5. CASE Discover
    BY <2>2, <2>3, <2>4, <2>5 DEF Discover
  <2>6. CASE Work
    <3>1. UNCHANGED <<site, request, reply, rows>>
      BY <2>6 DEF Work, Succeed, Throttle, Fail, SaveResponse
    <3> QED BY <2>1, <3>1
  <2>7. CASE UNCHANGED vars
    BY <2>1, <2>7 DEF vars
  <2> QED BY <2>5, <2>6, <2>7 DEF Next
<1> QED BY <1>1, <1>2, PTL DEF Spec

LEMMA RowsAre ==
  ASSUME Discovered, reply = "accepted"
  PROVE  LET endpoints == Parse(request.doc).endpoints
         IN /\ IsList(request.base)
            /\ EachOnce(endpoints, Operations(request.doc))
            /\ RowsFor(rows, endpoints, request.base,
                       GenerateMutations(endpoints, request.base, site.node))
<1> PICK base, tokens, endpoints, node, tasks :
      /\ base = request.base /\ tokens = request.tokens
      /\ endpoints = Parse(request.doc).endpoints /\ node = site.node
      /\ tasks = TasksOf(endpoints, base, tokens, node)
  OBVIOUS
<1>1. /\ request \in Requests /\ ~Parse(request.doc).raised /\ request.doc.state = "ok"
      /\ rows = Each(tasks, ToRow)
  BY DEF Discovered
<1>2. /\ IsList(base) /\ IsList(tokens) /\ IsList(endpoints)
      /\ \A i \in DOMAIN endpoints :
           endpoints[i].method \in ValidMethods /\ Normal(endpoints[i].path)
      /\ EachOnce(endpoints, Operations(request.doc))
  BY <1>1, EndpointsHold
<1>3. RowsFor(tasks, endpoints, base, GenerateMutations(endpoints, base, node))
  BY <1>2, TasksHold
<1>4. RowsFor(rows, endpoints, base, GenerateMutations(endpoints, base, node))
  BY <1>1, <1>3, RowsHold
<1> QED BY <1>2, <1>4

----------------------------------------------------------------------------
(* Every operation is tested, once *)

LEMMA RowKinds ==
  ASSUME NEW endpoints, NEW base, NEW mutations, RowsFor(rows, endpoints, base, mutations)
  PROVE  LET c == Len(endpoints)
             n == Len(rows)
             m == Len(mutations)
         IN /\ c \in Nat /\ n \in Nat /\ m \in Nat /\ n >= c + m
            /\ Rows("crawler") = 1..c /\ Rows("jwt") = c + 1..n - m /\ Rows("fuzz") = n - m + 1..n
            /\ \A i \in 1..n : rows[i].kind \in {"crawler", "jwt", "fuzz"}
<1> PICK c, n, m : c = Len(endpoints) /\ n = Len(rows) /\ m = Len(mutations)
  OBVIOUS
<1>1. /\ c \in Nat /\ n \in Nat /\ m \in Nat /\ n >= c + m /\ DOMAIN rows = 1..n
      /\ \A i \in 1..c : rows[i].kind = "crawler"
      /\ \A i \in c + 1..n - m : rows[i].kind = "jwt"
      /\ \A i \in n - m + 1..n : rows[i].kind = "fuzz"
  BY DEF RowsFor
<1>2. \A i \in 1..n : i \in 1..c \/ i \in c + 1..n - m \/ i \in n - m + 1..n
  BY <1>1
<1>3. Rows("crawler") = 1..c /\ Rows("jwt") = c + 1..n - m /\ Rows("fuzz") = n - m + 1..n
  <2>1. 1..c \subseteq 1..n /\ c + 1..n - m \subseteq 1..n /\ n - m + 1..n \subseteq 1..n
    BY <1>1
  <2> QED BY <1>1, <1>2, <2>1 DEF Rows
<1> QED BY <1>1, <1>2, <1>3

LEMMA IntervalHolds ==
  ASSUME NEW n \in Nat
  PROVE  IsFiniteSet(1..n) /\ Cardinality(1..n) = n
<1>1. IsFiniteSet(1..n) /\ Cardinality(1..n) = IF 1 > n THEN 0 ELSE n - 1 + 1
  BY FS_Interval
<1>2. (IF 1 > n THEN 0 ELSE n - 1 + 1) = n
  OBVIOUS
<1> QED BY <1>1, <1>2

\* f numbers the members of X.
LEMMA Numbered ==
  ASSUME NEW n \in Nat, NEW X, NEW f \in [1..n -> X],
         \A i, j \in 1..n : f[i] = f[j] => i = j,
         \A x \in X : \E i \in 1..n : f[i] = x
  PROVE  IsFiniteSet(X) /\ Cardinality(X) = n
<1>1. f \in Bijection(1..n, X)
  BY DEF Bijection, Injection, Surjection, IsInjective
<1>2. ExistsBijection(1..n, X)
  BY <1>1, Zenon DEF ExistsBijection
<1>3. IsFiniteSet(1..n) /\ Cardinality(1..n) = n
  BY IntervalHolds
<1>4. IsFiniteSet(X) /\ Cardinality(X) = Cardinality(1..n)
  BY <1>2, <1>3, FS_Bijection, Zenon
<1> QED BY <1>3, <1>4

\* Each operation gets exactly one crawler task whatever else the document holds,
\* and there are no others: OpenAPIParser.parse finds each once, and the URLs of two
\* different paths differ (discover_and_submit, generate_tasks_from_spec).
THEOREM EveryOperationTestedCorrect == Spec => []EveryOperationTested
<1>1. ASSUME Discovered PROVE EveryOperationTested
  <2> SUFFICES ASSUME reply = "accepted"
               PROVE  /\ \A op \in Operations(request.doc) :
                           Cardinality({i \in Rows("crawler") : rows[i].method = op[1]
                                          /\ rows[i].url = TargetUrl(request.base, op[2])}) = 1
                      /\ Cardinality(Rows("crawler")) = Cardinality(Operations(request.doc))
    BY DEF EveryOperationTested
  <2>0. PICK base, endpoints, O, mutations :
        /\ base = request.base /\ endpoints = Parse(request.doc).endpoints
        /\ O = Operations(request.doc)
        /\ mutations = GenerateMutations(endpoints, base, site.node)
    OBVIOUS
  <2>1. IsList(base) /\ EachOnce(endpoints, O) /\ RowsFor(rows, endpoints, base, mutations)
    BY <1>1, <2>0, RowsAre
  <2> PICK c \in Nat : c = Len(endpoints) /\ DOMAIN endpoints = 1..c
    BY <2>1 DEF RowsFor
  <2>2. Rows("crawler") = 1..c
    BY <2>1, RowKinds
  <2>3. \A i \in 1..c : /\ rows[i].method = endpoints[i].method
                         /\ rows[i].url = TargetUrl(base, endpoints[i].path)
    BY <2>1 DEF RowsFor
  <2>4. /\ \A i \in 1..c : Normal(endpoints[i].path) /\ Pair(endpoints[i]) \in O
        /\ \A i, j \in 1..c : Pair(endpoints[i]) = Pair(endpoints[j]) => i = j
        /\ \A op \in O : \E i \in 1..c : Pair(endpoints[i]) = op
    BY <2>1 DEF EachOnce
  <2>5. Cardinality(O) = c
    <3> DEFINE f == [i \in 1..c |-> Pair(endpoints[i])]
    <3>1. f \in [1..c -> O] /\ \A i \in 1..c : f[i] = Pair(endpoints[i])
      BY <2>4
    <3> HIDE DEF f
    <3>2. \A i, j \in 1..c : f[i] = f[j] => i = j
      BY <2>4, <3>1
    <3>3. \A op \in O : \E i \in 1..c : f[i] = op
      BY <2>4, <3>1
    <3> QED BY <3>1, <3>2, <3>3, Numbered
  <2>6. ASSUME NEW op \in O
        PROVE  Cardinality({i \in 1..c : rows[i].method = op[1] /\ rows[i].url = TargetUrl(base, op[2])}) = 1
    <3>1. PICK k \in 1..c : Pair(endpoints[k]) = op
      BY <2>4
    <3>2. op[1] = endpoints[k].method /\ op[2] = endpoints[k].path
      BY <3>1 DEF Pair
    <3>3. ASSUME NEW i \in 1..c, rows[i].method = op[1], rows[i].url = TargetUrl(base, op[2]) PROVE i = k
      <4>1. PICK b : /\ IsList(b)
                     /\ base = << >> \/ Last(base) # "/" => b = base
                     /\ \A p : Normal(p) => TargetUrl(base, p) = b \o p
        BY <2>1, TargetUrlHolds, Zenon
      <4> PICK p, q : p = endpoints[i].path /\ q = endpoints[k].path
        OBVIOUS
      <4>2. Normal(p) /\ Normal(q) /\ IsList(p) /\ IsList(q)
        BY <2>4 DEF Normal
      <4>3. TargetUrl(base, p) = TargetUrl(base, q)
        BY <2>3, <3>2, <3>3
      <4>4. b \o p = b \o q
        BY <4>1, <4>2, <4>3
      <4>5. p = q
        BY <4>1, <4>2, <4>4, SameUrl
      <4>6. Pair(endpoints[i]) = Pair(endpoints[k])
        BY <2>3, <3>2, <3>3, <4>5 DEF Pair
      <4> QED BY <2>4, <4>6
    <3>4. {i \in 1..c : rows[i].method = op[1] /\ rows[i].url = TargetUrl(base, op[2])} = {k}
      BY <2>3, <3>2, <3>3
    <3> QED BY <3>4, FS_Singleton
  <2>7. Cardinality(Rows("crawler")) = c
    BY <2>2, IntervalHolds
  <2> QED BY <2>0, <2>2, <2>5, <2>6, <2>7
<1> QED BY <1>1, DiscoveredCorrect, PTL

\* The URL of a role task, base and path joined as they are, is the URL of the
\* crawler task of its endpoint when the base is empty or ends in no slash
\* (role_swapper.generate_test_cases, discovery_bridge.generate_tasks_from_spec).
THEOREM RolesMeetCrawlerCorrect == Spec => []RolesMeetCrawler
<1>1. ASSUME Discovered PROVE RolesMeetCrawler
  <2> SUFFICES ASSUME request.base = << >> \/ Last(request.base) # "/", NEW i \in Rows("jwt")
               PROVE  \E j \in Rows("crawler") :
                        rows[i].method = rows[j].method /\ rows[i].url = rows[j].url
    BY DEF RolesMeetCrawler
  <2>1. reply = "accepted"
    <3>1. i \in DOMAIN rows
      BY DEF Rows
    <3>2. rows # << >>
      BY <3>1
    <3> QED BY <1>1, <3>2 DEF Discovered
  <2>0. PICK base, endpoints, mutations :
        /\ base = request.base /\ endpoints = Parse(request.doc).endpoints
        /\ mutations = GenerateMutations(endpoints, base, site.node)
    OBVIOUS
  <2>2. /\ IsList(base) /\ EachOnce(endpoints, Operations(request.doc))
        /\ RowsFor(rows, endpoints, base, mutations)
    BY <1>1, <2>0, <2>1, RowsAre
  <2> PICK c, n, m : c = Len(endpoints) /\ n = Len(rows) /\ m = Len(mutations)
    OBVIOUS
  <2>3. Rows("crawler") = 1..c /\ Rows("jwt") = c + 1..n - m
    BY <2>2, RowKinds
  <2>4. DOMAIN endpoints = 1..c /\ i \in c + 1..n - m
    BY <2>2, <2>3, Zenon DEF RowsFor
  <2>5. PICK e \in Range(endpoints) : rows[i].method = e.method /\ rows[i].url = base \o e.path
    BY <2>2, <2>4, Zenon DEF RowsFor
  <2>6. PICK j \in 1..c : e = endpoints[j]
    BY <2>4 DEF Range
  <2>7. rows[j].method = e.method /\ rows[j].url = TargetUrl(base, e.path)
    BY <2>2, <2>6 DEF RowsFor
  <2>8. Normal(e.path)
    BY <2>2, <2>4, <2>6 DEF EachOnce
  <2>9. TargetUrl(base, e.path) = base \o e.path
    <3>1. PICK b : /\ IsList(b)
                   /\ base = << >> \/ Last(base) # "/" => b = base
                   /\ \A p : Normal(p) => TargetUrl(base, p) = b \o p
      BY <2>2, TargetUrlHolds, Zenon
    <3> QED BY <2>0, <2>8, <3>1
  <2> QED BY <2>3, <2>5, <2>7, <2>9
<1> QED BY <1>1, DiscoveredCorrect, PTL

----------------------------------------------------------------------------
(* What is made up is sent *)

LEMMA RequestSent ==
  ASSUME NEW base, IsList(base), NEW endpoint, endpoint.method \in ValidMethods, Normal(endpoint.path),
         NEW m \in Range(AllMutations(RequestForNode(base, endpoint))), ~IsBlank(m)
  PROVE  FuzzTask(m) \in Range(FuzzTasks(base, endpoint))
<1> PICK all, found : /\ all = AllMutations(RequestForNode(base, endpoint))
                      /\ found = Mutate(RequestForNode(base, endpoint))
  OBVIOUS
<1>1. /\ Mutations(all) /\ 1 \in DOMAIN all /\ all[1] = SetHeaders("remove_header", {})
      /\ found = Deduplicate(all)
  BY MutationsList DEF Mutate
<1>2. PICK j \in DOMAIN found : FuzzTask(found[j]) = FuzzTask(m)
  BY <1>1, SameRequest
<1>3. FuzzTasks(base, endpoint) = [i \in DOMAIN found |-> FuzzTask(found[i])]
  BY DEF FuzzTasks
<1> QED BY <1>2, <1>3 DEF Range

\* Every request that the engine makes up for an endpoint is among the tasks of the
\* scan, but that with a blank method.  Of two mutations that read alike only one
\* may say GET by leaving the method out; the first of all, which removes the only
\* header, is kept, and so no blank method ever stands for another mutation
\* (MutationEngine.mutate, _deduplicate, MutationBridge.generate_mutations).
THEOREM MutationsSentCorrect == Spec => []MutationsSent
<1>1. ASSUME Discovered PROVE MutationsSent
  <2> SUFFICES ASSUME Fuzzed, NEW m \in MadeUp, ~IsBlank(m) PROVE Sent(m)
    BY DEF MutationsSent
  <2>1. PICK base, tokens, endpoints, C, J, M, tasks :
          /\ base = request.base /\ tokens = request.tokens
          /\ endpoints = Parse(request.doc).endpoints
          /\ C = GenerateTasksFromSpec(endpoints, base)
          /\ J = GenerateJwtTasks(endpoints, tokens, base)
          /\ M = GenerateMutations(endpoints, base, site.node)
          /\ tasks = (C \o J) \o M
    OBVIOUS
  <2>2. /\ request \in Requests /\ ~Parse(request.doc).raised /\ site.node
        /\ rows = Each(tasks, ToRow)
    BY <1>1, <2>1 DEF Fuzzed, Discovered, TasksOf
  <2>3. /\ IsList(base) /\ IsList(tokens) /\ IsList(endpoints)
        /\ \A i \in DOMAIN endpoints :
             endpoints[i].method \in ValidMethods /\ Normal(endpoints[i].path)
    BY <2>1, <2>2, EndpointsHold
  <2>4. \A e \in Range(endpoints) : e.method \in ValidMethods /\ Normal(e.path)
    BY <2>3 DEF Range
  <2>5. PICK e \in Range(endpoints) : m \in Range(AllMutations(RequestForNode(base, e)))
    BY <2>1 DEF MadeUp
  <2>6. FuzzTask(m) \in Range(FuzzTasks(base, e))
    BY <2>3, <2>4, <2>5, RequestSent
  <2>7. IsList(M) /\ FuzzTask(m) \in Range(M)
    BY <2>1, <2>2, <2>3, <2>4, <2>6, FuzzTasksHold
  <2>8. IsList(C) /\ IsList(J)
    BY <2>1, <2>3, CrawlerTasksHold, JwtTasksHold
  <2>9. FuzzTask(m) \in Range(tasks)
    <3>1. IsList(C \o J)
      BY <2>8, ConcatLists
    <3> QED BY <2>1, <2>7, <3>1, ConcatLists
  <2>10. PICK i \in DOMAIN tasks : tasks[i] = FuzzTask(m)
    BY <2>9 DEF Range
  <2>11. i \in DOMAIN rows /\ rows[i] = ToRow(FuzzTask(m))
    BY <2>2, <2>10 DEF Each
  <2>12. rows[i].kind = "fuzz"
    <3>1. IsTask(FuzzTask(m)) /\ FuzzTask(m).kind = "fuzz"
      BY DEF IsTask, FuzzTask
    <3> QED BY <2>11, <3>1, RowIs
  <2> QED BY <2>11, <2>12 DEF Sent, Rows
<1> QED BY <1>1, DiscoveredCorrect, PTL

----------------------------------------------------------------------------
(* Sums.  MapThenSumSet takes the members in an order it chooses; the sum   *)
(* does not depend on it.                                                   *)

Chosen(s) == CHOOSE x \in s : TRUE

Sums(v, S, it) ==
  it = [s \in SUBSET S |-> IF s = {} THEN 0 ELSE v[Chosen(s)] + it[s \ {Chosen(s)}]]

LEMMA SumsAt ==
  ASSUME NEW v, NEW S, NEW it, Sums(v, S, it), NEW s \in SUBSET S
  PROVE  it[s] = IF s = {} THEN 0 ELSE v[Chosen(s)] + it[s \ {Chosen(s)}]
BY Zenon DEF Sums

LEMMA SmallerSet ==
  ASSUME NEW S, IsFiniteSet(S), NEW s \in SUBSET S, NEW m \in Nat, Cardinality(s) = m + 1, NEW x \in s
  PROVE  s \ {x} \in SUBSET S /\ Cardinality(s \ {x}) = m
<1>1. IsFiniteSet(s)
  BY FS_Subset
<1>2. Cardinality(s \ {x}) = Cardinality(s) - 1
  BY <1>1, FS_RemoveElement
<1> QED BY <1>2

LEMMA EmptyOrNot ==
  ASSUME NEW S, IsFiniteSet(S), NEW s \in SUBSET S
  PROVE  Cardinality(s) \in Nat /\ (Cardinality(s) = 0 <=> s = {})
<1>1. IsFiniteSet(s)
  BY FS_Subset
<1> QED BY <1>1, FS_CardinalityType, FS_EmptySet

LEMMA ChosenIn ==
  ASSUME NEW s, s # {}
  PROVE  Chosen(s) \in s
BY Zenon DEF Chosen

LEMMA SumsExist ==
  ASSUME NEW v, NEW S, IsFiniteSet(S)
  PROVE  \E it : Sums(v, S, it)
<1> DEFINE Rec(it, s) == it[s] = IF s = {} THEN 0 ELSE v[Chosen(s)] + it[s \ {Chosen(s)}]
           Solved(it, m) == /\ it = [s \in SUBSET S |-> it[s]]
                            /\ \A s \in SUBSET S : Cardinality(s) <= m => Rec(it, s)
           T == {m \in Nat : \E it : Solved(it, m)}
<1>1. 0 \in T
  <2> DEFINE it == [s \in SUBSET S |-> 0]
  <2>1. \A s \in SUBSET S : Cardinality(s) <= 0 => s = {}
    BY EmptyOrNot
  <2>2. Solved(it, 0)
    BY <2>1
  <2> HIDE DEF it, Solved
  <2> QED BY <2>2
<1>2. ASSUME NEW m \in Nat, m \in T PROVE m + 1 \in T
  <2> PICK k \in Nat : k = m + 1
    OBVIOUS
  <2>1. PICK it : Solved(it, m)
    BY <1>2
  <2> DEFINE g == [s \in SUBSET S |-> IF Cardinality(s) = k THEN v[Chosen(s)] + it[s \ {Chosen(s)}]
                                      ELSE it[s]]
  <2>2. /\ \A s \in SUBSET S : Cardinality(s) = k => g[s] = v[Chosen(s)] + it[s \ {Chosen(s)}]
        /\ \A s \in SUBSET S : Cardinality(s) # k => g[s] = it[s]
        /\ g = [s \in SUBSET S |-> g[s]]
    OBVIOUS
  <2> HIDE DEF g
  <2>3. ASSUME NEW s \in SUBSET S, Cardinality(s) <= k PROVE Rec(g, s)
    <3>1. CASE Cardinality(s) = k
      <4>1. s # {}
        BY <3>1, EmptyOrNot
      <4>2. Chosen(s) \in s
        BY <4>1, ChosenIn
      <4>3. s \ {Chosen(s)} \in SUBSET S /\ Cardinality(s \ {Chosen(s)}) = m
        BY <3>1, <4>2, SmallerSet
      <4>4. g[s \ {Chosen(s)}] = it[s \ {Chosen(s)}]
        <5> PICK r : r = s \ {Chosen(s)}
          OBVIOUS
        <5>1. r \in SUBSET S /\ Cardinality(r) # k
          BY <4>3
        <5> QED BY <2>2, <5>1
      <4> QED BY <2>2, <3>1, <4>1, <4>4
    <3>2. CASE Cardinality(s) # k
      <4>1. Cardinality(s) \in Nat /\ Cardinality(s) <= m
        BY <2>3, <3>2, EmptyOrNot
      <4>2. Rec(it, s)
        BY <2>1, <4>1
      <4>3. g[s] = it[s]
        BY <2>2, <3>2
      <4>4. CASE s = {}
        BY <4>2, <4>3, <4>4
      <4>5. CASE s # {}
        <5>1. Chosen(s) \in s /\ Cardinality(s) # 0
          BY <4>5, ChosenIn, EmptyOrNot
        <5> PICK j \in Nat : Cardinality(s) = j + 1 /\ j < k
          BY <4>1, <5>1, Cardinality(s) - 1 \in Nat
        <5>2. s \ {Chosen(s)} \in SUBSET S /\ Cardinality(s \ {Chosen(s)}) = j
          BY <5>1, SmallerSet
        <5>3. g[s \ {Chosen(s)}] = it[s \ {Chosen(s)}]
          <6> PICK r : r = s \ {Chosen(s)}
            OBVIOUS
          <6>1. r \in SUBSET S /\ Cardinality(r) # k
            BY <5>2
          <6> QED BY <2>2, <6>1
        <5> QED BY <4>2, <4>3, <4>5, <5>3
      <4> QED BY <4>4, <4>5
    <3> QED BY <3>1, <3>2
  <2>4. Solved(g, k)
    BY <2>2, <2>3
  <2> HIDE DEF Solved
  <2> QED BY <2>4
<1>3. Nat \subseteq T
  <2> HIDE DEF T
  <2> QED BY <1>1, <1>2, Induction
<1>4. PICK m \in Nat : m = Cardinality(S)
  BY FS_CardinalityType
<1>5. PICK it : Solved(it, m)
  <2>1. m \in T
    BY <1>3, Zenon
  <2> QED BY <2>1
<1>6. \A s \in SUBSET S : Rec(it, s)
  <2>1. \A s \in SUBSET S : Cardinality(s) <= m
    BY <1>4, FS_Subset
  <2> QED BY <1>5, <2>1
<1>7. Sums(v, S, it)
  BY <1>5, <1>6, Zenon DEF Sums
<1> QED BY <1>7

\* The sum over a set is that over the set without any of its members, and the member's.
Additive(v, S, it) ==
  /\ it[{}] = 0
  /\ \A s \in SUBSET S : it[s] \in Nat /\ \A x \in s : it[s] = v[x] + it[s \ {x}]

LEMMA SumHolds ==
  ASSUME NEW S, IsFiniteSet(S), NEW v \in [S -> Nat], NEW it, Sums(v, S, it)
  PROVE  Additive(v, S, it)
<1> DEFINE Good(s) == it[s] \in Nat /\ \A x \in s : it[s] = v[x] + it[s \ {x}]
           T == {m \in Nat : \A s \in SUBSET S : Cardinality(s) <= m => Good(s)}
<1>0. it[{}] = 0
  BY SumsAt
<1>1. 0 \in T
  <2>1. \A s \in SUBSET S : Cardinality(s) <= 0 => s = {}
    BY EmptyOrNot
  <2> QED BY <1>0, <2>1
<1>2. ASSUME NEW m \in Nat, m \in T PROVE m + 1 \in T
  <2> PICK k \in Nat : k = m + 1
    OBVIOUS
  <2>1. \A t \in SUBSET S : Cardinality(t) <= m => Good(t)
    BY <1>2
  <2> SUFFICES \A s \in SUBSET S : Cardinality(s) <= k => Good(s)
    OBVIOUS
  <2> SUFFICES ASSUME NEW s \in SUBSET S, Cardinality(s) <= k PROVE Good(s)
    OBVIOUS
  <2> HIDE DEF T
  <2>2. CASE Cardinality(s) = k
    <3> PICK c : c = Chosen(s)
      OBVIOUS
    <3>1. s # {}
      BY <2>2, EmptyOrNot
    <3>2. c \in s /\ c \in S /\ v[c] \in Nat
      BY <3>1, ChosenIn
    <3>3. it[s] = v[c] + it[s \ {c}]
      BY <3>1, SumsAt
    <3>4. s \ {c} \in SUBSET S /\ Cardinality(s \ {c}) = m
      BY <2>2, <3>2, SmallerSet
    <3>5. Good(s \ {c})
      <4> HIDE DEF Good
      <4>1. Cardinality(s \ {c}) <= m
        BY <3>4
      <4> QED BY <2>1, <3>4, <4>1
    <3>6. it[s \ {c}] \in Nat /\ \A x \in s \ {c} : it[s \ {c}] = v[x] + it[(s \ {c}) \ {x}]
      BY <3>5
    <3>7. ASSUME NEW x \in s, x # c PROVE it[s] = v[x] + it[s \ {x}]
      <4>1. s \ {x} \in SUBSET S /\ Cardinality(s \ {x}) = m /\ v[x] \in Nat
        BY <2>2, SmallerSet
      <4>2. Good(s \ {x})
        <5> HIDE DEF Good
        <5>1. Cardinality(s \ {x}) <= m
          BY <4>1
        <5> QED BY <2>1, <4>1, <5>1
      <4>3. it[s \ {x}] \in Nat /\ it[s \ {x}] = v[c] + it[(s \ {x}) \ {c}]
        BY <3>2, <3>7, <4>2
      <4>4. it[s \ {c}] = v[x] + it[(s \ {c}) \ {x}]
        BY <3>6, <3>7
      <4> PICK r : r = (s \ {x}) \ {c}
        OBVIOUS
      <4>5. (s \ {c}) \ {x} = r
        OBVIOUS
      <4>6. r \in SUBSET S /\ it[r] \in Nat
        <5>1. r \in SUBSET S /\ r \in SUBSET (s \ {x}) /\ IsFiniteSet(s \ {x})
          BY <4>1, FS_Subset
        <5>2. Cardinality(r) <= m
          BY <4>1, <5>1, FS_Subset
        <5> QED BY <2>1, <5>1, <5>2
      <4>7. it[s \ {x}] = v[c] + it[r] /\ it[s \ {c}] = v[x] + it[r]
        BY <4>3, <4>4, <4>5
      <4>8. it[s] = v[c] + (v[x] + it[r]) /\ it[r] \in Nat /\ v[c] \in Nat /\ v[x] \in Nat
        BY <3>2, <3>3, <4>1, <4>6, <4>7
      <4>9. \A a, b, d \in Nat : a + (b + d) = b + (a + d)
        OBVIOUS
      <4> QED BY <4>7, <4>8, <4>9
    <3>8. it[s] \in Nat
      BY <3>2, <3>3, <3>6
    <3> QED BY <3>3, <3>7, <3>8
  <2>3. CASE Cardinality(s) # k
    <3>1. Cardinality(s) <= m
      BY <2>3, EmptyOrNot
    <3> QED BY <2>1, <3>1
  <2> QED BY <2>2, <2>3
<1>3. Nat \subseteq T
  <2> HIDE DEF T
  <2> QED BY <1>1, <1>2, Induction
<1>4. ASSUME NEW s \in SUBSET S PROVE Good(s)
  <2> PICK m \in Nat : m = Cardinality(s)
    BY EmptyOrNot
  <2>1. m \in T
    BY <1>3, Zenon
  <2> QED BY <2>1
<1> QED BY <1>0, <1>4 DEF Additive

----------------------------------------------------------------------------
(* Types *)

\* What TypeOK says of everything but the kinds of the rows
PipelineTypes ==
  /\ site \in Sites /\ request \in Requests \cup {NoRequest}
  /\ reply \in {"none", "accepted", "invalid_spec", "no_endpoints", "server_error"}
  /\ status \in {"PENDING", "RUNNING"} /\ (rows # << >> => status = "RUNNING")
  /\ DOMAIN answers \subseteq DOMAIN rows

LEMMA PipelineTypesCorrect == Spec => []PipelineTypes
<1>1. Init => PipelineTypes
  BY DEF Init, PipelineTypes
<1>2. PipelineTypes /\ [Next]_vars => PipelineTypes'
  <2> SUFFICES ASSUME PipelineTypes, [Next]_vars PROVE PipelineTypes'
    OBVIOUS
  <2> USE DEF PipelineTypes
  <2>1. ASSUME NEW req \in Requests, DiscoverRejected(req) PROVE PipelineTypes'
    BY <2>1 DEF DiscoverRejected
  <2>2. ASSUME NEW req \in Requests, DiscoverFails(req) PROVE PipelineTypes'
    BY <2>2 DEF DiscoverFails
  <2>3. ASSUME NEW req \in Requests, DiscoverAccepted(req) PROVE PipelineTypes'
    <3>1. /\ rows = << >> /\ request' = req /\ reply' = "accepted" /\ status' = "RUNNING"
          /\ site' = site /\ answers' = answers
      BY <2>3 DEF DiscoverAccepted
    <3>2. DOMAIN answers' = {}
      BY <3>1
    <3> QED BY <3>1, <3>2
  <2>4. CASE Discover
    BY <2>1, <2>2, <2>3, <2>4 DEF Discover
  <2>5. ASSUME NEW i \in DOMAIN rows, NEW response, SaveResponse(i, response) PROVE PipelineTypes'
    <3>1. DOMAIN answers' = DOMAIN answers \cup {i} /\ UNCHANGED <<site, request, reply, status, rows>>
      BY <2>5 DEF SaveResponse
    <3> QED BY <3>1
  <2>6. CASE Work
    BY <2>5, <2>6 DEF Work, Succeed, Throttle, Fail
  <2>7. CASE UNCHANGED vars
    BY <2>7 DEF vars
  <2> QED BY <2>4, <2>6, <2>7 DEF Next
<1> QED BY <1>1, <1>2, PTL DEF Spec

\* Types of the pipeline's state; a scan that has rows is running, and only rows
\* get answers (discover_and_submit, _save_response).
THEOREM PipelineTypeCorrect == Spec => []TypeOK
<1>1. ASSUME PipelineTypes, Discovered, TypedAnswers PROVE TypeOK
  <2>1. ASSUME NEW i \in DOMAIN rows PROVE rows[i].kind \in {"crawler", "jwt", "fuzz"}
    <3>1. rows # << >>
      OBVIOUS
    <3>2. reply = "accepted"
      BY <1>1, <3>1 DEF Discovered
    <3>3. PICK endpoints, mutations : RowsFor(rows, endpoints, request.base, mutations)
      BY <1>1, <3>2, RowsAre
    <3>4. /\ Len(rows) \in Nat
          /\ \A k \in 1..Len(rows) : rows[k].kind \in {"crawler", "jwt", "fuzz"}
      BY <3>3, RowKinds
    <3>5. DOMAIN rows = 1..Len(rows)
      BY <3>3 DEF RowsFor
    <3> QED BY <3>4, <3>5
  <2> QED BY <1>1, <2>1 DEF TypeOK, PipelineTypes, TypedAnswers
<1> QED BY <1>1, PipelineTypesCorrect, DiscoveredCorrect, TypedAnswersCorrect, PTL

----------------------------------------------------------------------------
(* The views of a report *)

WithSeverity(issues, severity) == {i \in DOMAIN issues : issues[i].severity = severity}

LEMMA CountIs ==
  ASSUME NEW issues, IsList(issues), NEW severity
  PROVE  /\ IsFiniteSet(WithSeverity(issues, severity))
         /\ CountOf(issues, severity) = Cardinality(WithSeverity(issues, severity))
         /\ CountOf(issues, severity) \in Nat
         /\ CountOf(issues, severity) > 0 <=> \E i \in DOMAIN issues : issues[i].severity = severity
<1> PICK S : issues \in Seq(S)
  BY DEF IsList
<1>1. PICK I : I = WithSeverity(issues, severity)
  OBVIOUS
<1>2. PICK t : t = Picked(issues, I)
  OBVIOUS
<1>3. CountOf(issues, severity) = Len(t)
  BY <1>1, <1>2, Zenon DEF CountOf, OfSeverity, WithSeverity
<1>4. IsPick(t, S, issues, I)
  <2>1. I \cap DOMAIN issues = I
    BY <1>1 DEF WithSeverity
  <2> QED BY <1>2, <2>1, PickedOrder
<1>5. PICK n \in Nat : n = Len(t)
  BY <1>4 DEF IsPick
<1>6. PICK f : Picks(t, issues, I, f)
  BY <1>4 DEF IsPick
<1>7. /\ f \in [1..n -> I]
      /\ \A k, l \in 1..n : k < l => f[k] < f[l]
      /\ \A j \in I : \E k \in 1..n : f[k] = j
  BY <1>5, <1>6 DEF Picks
<1>8. \A k, l \in 1..n : f[k] = f[l] => k = l
  <2> SUFFICES ASSUME NEW k \in 1..n, NEW l \in 1..n, f[k] = f[l], k # l PROVE FALSE
    OBVIOUS
  <2>1. f[k] \in Int /\ f[l] \in Int
    BY <1>1, <1>7 DEF WithSeverity
  <2>2. k < l \/ l < k
    OBVIOUS
  <2>3. f[k] < f[l] \/ f[l] < f[k]
    BY <1>7, <2>2
  <2> QED BY <2>1, <2>3
<1>9. IsFiniteSet(I) /\ Cardinality(I) = n
  BY <1>7, <1>8, Numbered
<1>10. n > 0 <=> I # {}
  BY <1>9, FS_EmptySet
<1>11. I # {} <=> \E i \in DOMAIN issues : issues[i].severity = severity
  BY <1>1 DEF WithSeverity
<1> QED BY <1>1, <1>3, <1>5, <1>9, <1>10, <1>11

LEMMA CountsPartition ==
  ASSUME NEW issues, IsList(issues), \A i \in DOMAIN issues : issues[i].severity \in Range(Severities)
  PROVE  Len(issues) = CountOf(issues, "CRITICAL") + (CountOf(issues, "HIGH")
           + (CountOf(issues, "MEDIUM") + (CountOf(issues, "LOW") + CountOf(issues, "INFO"))))
<1> DEFINE With(s) == WithSeverity(issues, s)
<1>1. \A s : IsFiniteSet(With(s)) /\ CountOf(issues, s) = Cardinality(With(s)) /\ CountOf(issues, s) \in Nat
  BY CountIs
<1>2. \A s, t : s # t => With(s) \cap With(t) = {}
  BY DEF WithSeverity
<1>3. DOMAIN issues = With("CRITICAL") \cup (With("HIGH") \cup (With("MEDIUM") \cup (With("LOW")
                        \cup With("INFO"))))
  BY SeverityNames DEF WithSeverity
<1> HIDE DEF With
<1> DEFINE a == With("LOW") \cup With("INFO")
           b == With("MEDIUM") \cup a
           c == With("HIGH") \cup b
           d == With("CRITICAL") \cup c
<1>4. Cardinality({}) = 0
  BY FS_EmptySet
<1>5. IsFiniteSet(a) /\ Cardinality(a) = CountOf(issues, "LOW") + CountOf(issues, "INFO")
  <2>1. With("LOW") \cap With("INFO") = {}
    BY <1>2
  <2>2. /\ IsFiniteSet(a)
        /\ Cardinality(a) = Cardinality(With("LOW")) + Cardinality(With("INFO")) - Cardinality({})
    <3>1. IsFiniteSet(With("LOW")) /\ IsFiniteSet(With("INFO"))
      BY <1>1
    <3>2. Cardinality(a) = Cardinality(With("LOW")) + Cardinality(With("INFO"))
                            - Cardinality(With("LOW") \cap With("INFO"))
      BY <3>1, FS_Union
    <3>3. IsFiniteSet(a)
      BY <3>1, FS_Union
    <3> QED BY <2>1, <3>2, <3>3
  <2> QED BY <1>1, <1>4, <2>2
<1>6. With("MEDIUM") \cap a = {} /\ With("HIGH") \cap b = {} /\ With("CRITICAL") \cap c = {}
  <2>1. \A s \in {"LOW", "INFO"} : With("MEDIUM") \cap With(s) = {}
    BY <1>2
  <2>2. \A s \in {"MEDIUM", "LOW", "INFO"} : With("HIGH") \cap With(s) = {}
    BY <1>2
  <2>3. \A s \in {"HIGH", "MEDIUM", "LOW", "INFO"} : With("CRITICAL") \cap With(s) = {}
    BY <1>2
  <2> QED BY <2>1, <2>2, <2>3
<1> HIDE DEF a
<1>7. IsFiniteSet(b) /\ Cardinality(b) = CountOf(issues, "MEDIUM") + Cardinality(a)
  <2>1. IsFiniteSet(b) /\ Cardinality(b) = Cardinality(With("MEDIUM")) + Cardinality(a) - Cardinality({})
    BY <1>1, <1>5, <1>6, FS_Union
  <2> QED BY <1>1, <1>4, <1>5, <2>1
<1> HIDE DEF b
<1>8. IsFiniteSet(c) /\ Cardinality(c) = CountOf(issues, "HIGH") + Cardinality(b)
  <2>1. IsFiniteSet(c) /\ Cardinality(c) = Cardinality(With("HIGH")) + Cardinality(b) - Cardinality({})
    BY <1>1, <1>6, <1>7, FS_Union
  <2> QED BY <1>1, <1>4, <1>5, <1>7, <2>1
<1> HIDE DEF c
<1>9. Cardinality(d) = CountOf(issues, "CRITICAL") + Cardinality(c)
  <2>1. Cardinality(d) = Cardinality(With("CRITICAL")) + Cardinality(c) - Cardinality({})
    BY <1>1, <1>6, <1>8, FS_Union
  <2> QED BY <1>1, <1>4, <1>5, <1>7, <1>8, <2>1
<1>10. DOMAIN issues = d
  BY <1>3 DEF c, b, a
<1>11. Cardinality(DOMAIN issues) = Len(issues)
  BY DomainOfList, IntervalHolds
<1> HIDE DEF d
<1> QED BY <1>5, <1>7, <1>8, <1>9, <1>10, <1>11

Worst  == {"CRITICAL", "HIGH", "MEDIUM", "LOW"}

LEMMA SeverityNumbers ==
  /\ DOMAIN Severities = 1..5 /\ IsList(Severities)
  /\ Severities[1] = "CRITICAL" /\ Severities[2] = "HIGH" /\ Severities[3] = "MEDIUM"
  /\ Severities[4] = "LOW" /\ Severities[5] = "INFO"
  /\ Cvss["CRITICAL"] = 95 /\ Cvss["HIGH"] = 80 /\ Cvss["MEDIUM"] = 55
  /\ Cvss["LOW"] = 30 /\ Cvss["INFO"] = 0
<1>1. Severities \in Seq({"CRITICAL", "HIGH", "MEDIUM", "LOW", "INFO"})
  BY DEF Severities
<1>2. IsList(Severities)
  BY <1>1, ListIs
<1>3. DOMAIN Severities = 1..5
  BY DEF Severities
<1>4. /\ Severities[1] = "CRITICAL" /\ Severities[2] = "HIGH" /\ Severities[3] = "MEDIUM"
      /\ Severities[4] = "LOW" /\ Severities[5] = "INFO"
  BY DEF Severities
<1> QED BY <1>2, <1>3, <1>4 DEF Cvss

\* What a table that shows these rows adds up to
LEMMA TableSum ==
  ASSUME NEW counts, NEW S, IsFiniteSet(S), DOMAIN counts = S, \A s \in S : counts[s] \in Nat
  PROVE  \E it : Additive(counts, S, it) /\ MapThenSumSet(LAMBDA s : counts[s], DOMAIN counts) = it[S]
<1> DEFINE Solves(it) == it = [s \in SUBSET S |-> IF s = {} THEN 0
                                 ELSE counts[CHOOSE x \in s : TRUE] + it[s \ {CHOOSE x \in s : TRUE}]]
<1>1. MapThenSumSet(LAMBDA s : counts[s], DOMAIN counts) = (CHOOSE it : Solves(it))[S]
  BY DEF MapThenSumSet, MapThenFoldSet
<1>2. ASSUME NEW it PROVE Solves(it) <=> Sums(counts, S, it)
  BY DEF Sums, Chosen
<1> HIDE DEF Solves
<1>3. Sums(counts, S, CHOOSE it : Solves(it))
  <2>1. PICK it : Sums(counts, S, it)
    BY SumsExist
  <2>2. Solves(it)
    BY <1>2, <2>1
  <2>3. Solves(CHOOSE x : Solves(x))
    BY <2>2, Zenon
  <2> QED BY <1>2, <2>3
<1>4. PICK v : v = [s \in S |-> counts[s]]
  OBVIOUS
<1>5. v \in [S -> Nat] /\ \A s \in S : v[s] = counts[s]
  BY <1>4
<1>6. PICK it : it = CHOOSE x : Solves(x)
  OBVIOUS
<1>7. Sums(v, S, it)
  <2>1. Sums(counts, S, it)
    BY <1>3, <1>6
  <2>2. \A s \in SUBSET S : s # {} => Chosen(s) \in S
    BY ChosenIn
  <2>3. ASSUME NEW s \in SUBSET S
        PROVE  (IF s = {} THEN 0 ELSE counts[Chosen(s)] + it[s \ {Chosen(s)}])
                 = (IF s = {} THEN 0 ELSE v[Chosen(s)] + it[s \ {Chosen(s)}])
    BY <1>5, <2>2
  <2> QED BY <2>1, <2>3, Zenon DEF Sums
<1>8. Additive(v, S, it)
  BY <1>5, <1>7, SumHolds
<1>9. Additive(counts, S, it)
  BY <1>5, <1>8 DEF Additive
<1> QED BY <1>1, <1>6, <1>9

LEMMA SeveritiesFinite == IsFiniteSet(Worst) /\ IsFiniteSet(Worst \cup {"INFO"})
<1>1. \A S, x : IsFiniteSet(S) => IsFiniteSet(S \cup {x})
  BY FS_AddElement
<1>2. Worst = (({"CRITICAL"} \cup {"HIGH"}) \cup {"MEDIUM"}) \cup {"LOW"}
  BY DEF Worst
<1>3. IsFiniteSet({"CRITICAL"})
  BY FS_Singleton
<1> QED BY <1>1, <1>2, <1>3

LEMMA FourSum ==
  ASSUME NEW counts, DOMAIN counts = Worst, \A s \in Worst : counts[s] \in Nat
  PROVE  MapThenSumSet(LAMBDA s : counts[s], DOMAIN counts)
           = counts["CRITICAL"] + (counts["HIGH"] + (counts["MEDIUM"] + counts["LOW"]))
<1>1. IsFiniteSet(Worst)
  BY SeveritiesFinite
<1>2. PICK it : Additive(counts, Worst, it)
                  /\ MapThenSumSet(LAMBDA s : counts[s], DOMAIN counts) = it[Worst]
  BY <1>1, TableSum
<1>3. /\ it[{}] = 0
      /\ \A s \in SUBSET Worst : it[s] \in Nat /\ \A x \in s : it[s] = counts[x] + it[s \ {x}]
  BY <1>2 DEF Additive
<1> DEFINE a == {"LOW"}
           b == {"MEDIUM", "LOW"}
           c == {"HIGH", "MEDIUM", "LOW"}
<1>4. /\ a \in SUBSET Worst /\ b \in SUBSET Worst /\ c \in SUBSET Worst /\ Worst \in SUBSET Worst
      /\ "LOW" \in a /\ "MEDIUM" \in b /\ "HIGH" \in c /\ "CRITICAL" \in Worst
      /\ a \ {"LOW"} = {} /\ b \ {"MEDIUM"} = a /\ c \ {"HIGH"} = b /\ Worst \ {"CRITICAL"} = c
  BY DEF Worst
<1>5. "LOW" \in Worst /\ "MEDIUM" \in Worst /\ "HIGH" \in Worst /\ "CRITICAL" \in Worst
  BY DEF Worst
<1> HIDE DEF a, b, c
<1>6. it[a] = counts["LOW"] + it[a \ {"LOW"}] /\ it[b] = counts["MEDIUM"] + it[b \ {"MEDIUM"}]
  BY <1>3, <1>4, ZenonT(60)
<1>7. it[c] = counts["HIGH"] + it[c \ {"HIGH"}] /\ it[Worst] = counts["CRITICAL"] + it[Worst \ {"CRITICAL"}]
  BY <1>3, <1>4, ZenonT(60)
<1>8. it[a] = counts["LOW"]
  BY <1>3, <1>4, <1>5, <1>6
<1> QED BY <1>2, <1>4, <1>6, <1>7, <1>8

LEMMA FiveSum ==
  ASSUME NEW counts, DOMAIN counts = Range(Severities), \A s \in Range(Severities) : counts[s] \in Nat
  PROVE  MapThenSumSet(LAMBDA s : counts[s], DOMAIN counts)
           = counts["CRITICAL"] + (counts["HIGH"] + (counts["MEDIUM"] + (counts["LOW"] + counts["INFO"])))
<1> DEFINE R == Range(Severities)
<1>0. R = Worst \cup {"INFO"} /\ "INFO" \notin Worst
  BY SeverityNames DEF Worst
<1> HIDE DEF R
<1>1. IsFiniteSet(R)
  BY <1>0, SeveritiesFinite
<1>2. PICK it : Additive(counts, R, it)
                  /\ MapThenSumSet(LAMBDA s : counts[s], DOMAIN counts) = it[R]
  BY <1>1, TableSum DEF R
<1>3. /\ it[{}] = 0
      /\ \A s \in SUBSET R : it[s] \in Nat /\ \A x \in s : it[s] = counts[x] + it[s \ {x}]
  BY <1>2 DEF Additive
<1> DEFINE z == {"INFO"}
           a == {"LOW", "INFO"}
           b == {"MEDIUM", "LOW", "INFO"}
           c == {"HIGH", "MEDIUM", "LOW", "INFO"}
<1>4. /\ z \in SUBSET R /\ a \in SUBSET R /\ b \in SUBSET R /\ c \in SUBSET R /\ R \in SUBSET R
      /\ "INFO" \in z /\ "LOW" \in a /\ "MEDIUM" \in b /\ "HIGH" \in c /\ "CRITICAL" \in R
      /\ z \ {"INFO"} = {} /\ a \ {"LOW"} = z /\ b \ {"MEDIUM"} = a /\ c \ {"HIGH"} = b
      /\ R \ {"CRITICAL"} = c
  BY <1>0 DEF Worst
<1>5. "INFO" \in R /\ counts["INFO"] \in Nat
  BY <1>4 DEF R
<1> HIDE DEF z, a, b, c
<1>6. it[a] = counts["LOW"] + it[a \ {"LOW"}] /\ it[b] = counts["MEDIUM"] + it[b \ {"MEDIUM"}]
  BY <1>3, <1>4, ZenonT(60)
<1>7. it[c] = counts["HIGH"] + it[c \ {"HIGH"}] /\ it[R] = counts["CRITICAL"] + it[R \ {"CRITICAL"}]
  BY <1>3, <1>4, ZenonT(60)
<1>8. it[z] = counts["INFO"] + it[z \ {"INFO"}]
  BY <1>3, <1>4, Zenon
<1>9. it[z] = counts["INFO"]
  <2>1. it[z \ {"INFO"}] = 0
    BY <1>3, <1>4
  <2> QED BY <1>5, <1>8, <2>1
<1> QED BY <1>2, <1>4, <1>6, <1>7, <1>9

Score(issue) == Cvss[issue.severity]

\* The first issue is a worst one, and none scores below least.
WorstFirst(s, least) ==
  /\ IsList(s)
  /\ \A k \in DOMAIN s : Score(s[k]) \in Int /\ Score(s[k]) <= Score(s[1]) /\ least <= Score(s[k])

LEMMA WorstFirstMore ==
  ASSUME NEW s, NEW least \in Int, WorstFirst(s, least), NEW t, IsList(t), NEW score \in Int,
         \A k \in DOMAIN t : Score(t[k]) = score, score <= least
  PROVE  WorstFirst(s \o t, score) /\ Len(s \o t) = Len(s) + Len(t) /\ Len(s) \in Nat
<1>1. PICK u : u = s \o t
  OBVIOUS
<1>2. PICK m \in Nat, n \in Nat : m = Len(s) /\ n = Len(t)
  BY DomainOfList DEF WorstFirst
<1>3. DOMAIN s = 1..m /\ DOMAIN t = 1..n
  BY <1>2, DomainOfList DEF WorstFirst
<1>4. /\ IsList(u) /\ Len(u) = m + n
      /\ \A i \in 1..m : u[i] = s[i]
      /\ \A i \in 1..n : u[m + i] = t[i]
  BY <1>1, <1>2, ConcatLists DEF WorstFirst
<1>5. DOMAIN u = 1..m + n
  BY <1>4, DomainOfList
<1>6. \A i \in 1..m : Score(s[i]) \in Int /\ Score(s[i]) <= Score(s[1]) /\ least <= Score(s[i])
  BY <1>3 DEF WorstFirst
<1>7. \A i \in 1..n : Score(t[i]) = score
  BY <1>3
<1>8. ASSUME NEW k \in DOMAIN u
      PROVE  Score(u[k]) \in Int /\ Score(u[k]) <= Score(u[1]) /\ score <= Score(u[k])
  <2>1. CASE m = 0
    <3>1. k \in 1..n /\ 1 \in 1..n
      BY <1>5, <2>1
    <3>2. u[k] = t[k] /\ u[1] = t[1]
      <4>1. \A i \in 1..n : m + i = i
        BY <2>1
      <4> QED BY <1>4, <3>1, <4>1
    <3>3. Score(u[k]) = score /\ Score(u[1]) = score
      BY <1>7, <3>1, <3>2
    <3> QED BY <3>3
  <2>2. CASE m # 0
    <3>1. 1 \in 1..m
      BY <2>2
    <3>2. u[1] = s[1] /\ Score(s[1]) \in Int /\ least <= Score(s[1])
      BY <1>4, <1>6, <3>1
    <3>3. CASE k \in 1..m
      <4>1. u[k] = s[k]
        BY <1>4, <3>3
      <4>2. Score(s[k]) \in Int /\ Score(s[k]) <= Score(s[1]) /\ least <= Score(s[k])
        BY <1>6, <3>3
      <4> QED BY <3>2, <4>1, <4>2
    <3>4. CASE k \notin 1..m
      <4>1. PICK i \in 1..n : k = m + i
        <5>1. k \in 1..m + n /\ k - m \in 1..n /\ k = m + (k - m)
          BY <1>5, <3>4
        <5> QED BY <5>1
      <4>2. Score(u[k]) = score
        BY <1>4, <1>7, <4>1
      <4> QED BY <3>2, <4>2
    <3> QED BY <3>3, <3>4
  <2> QED BY <2>1, <2>2
<1> QED BY <1>1, <1>2, <1>4, <1>8 DEF WorstFirst

LEMMA OfSeverityHolds ==
  ASSUME NEW issues, IsList(issues), NEW severity
  PROVE  /\ IsList(OfSeverity(issues, severity))
         /\ \A k \in DOMAIN OfSeverity(issues, severity) : OfSeverity(issues, severity)[k].severity = severity
         /\ Len(OfSeverity(issues, severity)) = CountOf(issues, severity)
<1>1. PICK I : I = {i \in DOMAIN issues : issues[i].severity = severity}
  OBVIOUS
<1>2. PICK t : t = Picked(issues, I)
  OBVIOUS
<1>3. OfSeverity(issues, severity) = t
  BY <1>1, <1>2, Zenon DEF OfSeverity
<1>4. PICK S : issues \in Seq(S)
  BY DEF IsList
<1>5. t \in Seq(S) /\ Range(t) = {issues[i] : i \in I \cap DOMAIN issues}
  BY <1>2, <1>4, PickedHolds
<1>6. ASSUME NEW k \in DOMAIN t PROVE t[k].severity = severity
  <2>1. t[k] \in Range(t)
    BY DEF Range
  <2> QED BY <1>1, <1>5, <2>1
<1> QED BY <1>3, <1>5, <1>6, ListIs DEF CountOf

\* Sorting puts a worst issue first, and keeps the number of issues.
LEMMA BySeverityOrder ==
  ASSUME NEW issues, IsList(issues), \A i \in DOMAIN issues : issues[i].severity \in Range(Severities)
  PROVE  WorstFirst(BySeverity(issues), 0) /\ Len(BySeverity(issues)) = Len(issues)
<1>1. PICK each : each = [k \in DOMAIN Severities |-> OfSeverity(issues, Severities[k])]
  OBVIOUS
<1>2. DOMAIN each = 1..5 /\ \A k \in 1..5 : each[k] = OfSeverity(issues, Severities[k])
  BY <1>1, SeverityNumbers
<1>3. ASSUME NEW k \in 1..5
      PROVE  /\ IsList(each[k]) /\ Len(each[k]) = CountOf(issues, Severities[k])
             /\ \A l \in DOMAIN each[k] : Score(each[k][l]) = Cvss[Severities[k]]
  <2>1. each[k] = OfSeverity(issues, Severities[k])
    BY <1>2
  <2>2. /\ IsList(each[k]) /\ Len(each[k]) = CountOf(issues, Severities[k])
        /\ \A l \in DOMAIN each[k] : each[k][l].severity = Severities[k]
    BY <2>1, OfSeverityHolds
  <2> QED BY <2>2 DEF Score
<1>4. PICK S : \A k \in 1..5 : each[k] \in Seq(S)
  <2> DEFINE S == UNION {Range(each[k]) : k \in 1..5}
  <2>1. ASSUME NEW k \in 1..5 PROVE each[k] \in Seq(S)
    <3>1. Range(each[k]) \subseteq S /\ each[k] \in Seq(Range(each[k]))
      BY <1>3 DEF IsList
    <3> HIDE DEF S
    <3> QED BY <3>1
  <2> QED BY <2>1
<1>5. each \in Seq(Seq(S)) /\ Len(each) = 5
  <2>1. each = [k \in 1..5 |-> each[k]]
    BY <1>1, SeverityNumbers
  <2> QED BY <1>4, <2>1, SeqDef
<1>6. PICK h : Joins(each, 5, h)
  BY <1>5, FlattenJoins
<1>7. /\ h[0] = << >> /\ BySeverity(issues) = h[5]
      /\ \A m \in 0..5 - 1 : h[m + 1] = h[m] \o each[m + 1]
  BY <1>1, <1>6, Zenon DEF Joins, BySeverity
<1>8. /\ h[1] = h[0] \o each[1] /\ h[2] = h[1] \o each[2] /\ h[3] = h[2] \o each[3]
      /\ h[4] = h[3] \o each[4] /\ h[5] = h[4] \o each[5]
  <2>1. \A m \in {0, 1, 2, 3, 4} : m \in 0..5 - 1
    OBVIOUS
  <2>2. 0 + 1 = 1 /\ 1 + 1 = 2 /\ 2 + 1 = 3 /\ 3 + 1 = 4 /\ 4 + 1 = 5
    OBVIOUS
  <2>3. \A m \in {0, 1, 2, 3, 4} : h[m + 1] = h[m] \o each[m + 1]
    BY <1>7, <2>1
  <2> QED BY <2>2, <2>3
<1>a. ASSUME NEW k \in 1..5, NEW s, NEW least \in Int, WorstFirst(s, least), Cvss[Severities[k]] <= least
      PROVE  /\ WorstFirst(s \o each[k], Cvss[Severities[k]]) /\ Len(s) \in Nat
             /\ Len(s \o each[k]) = Len(s) + CountOf(issues, Severities[k])
  <2>1. Cvss[Severities[k]] \in Int
    BY SeverityNumbers
  <2> DEFINE t == each[k]
             score == Cvss[Severities[k]]
  <2>2. /\ IsList(t) /\ Len(t) = CountOf(issues, Severities[k])
        /\ \A l \in DOMAIN t : Score(t[l]) = score
    BY <1>3
  <2>3. score \in Int /\ score <= least
    BY <1>a, <2>1
  <2> HIDE DEF t, score
  <2>4. WorstFirst(s \o t, score) /\ Len(s \o t) = Len(s) + Len(t) /\ Len(s) \in Nat
    BY <1>a, <2>2, <2>3, WorstFirstMore
  <2> QED BY <2>2, <2>4 DEF t, score
<1>9. WorstFirst(h[0], 95) /\ Len(h[0]) = 0
  BY <1>7, EmptyIsList DEF WorstFirst
<1>10. /\ WorstFirst(h[1], 95) /\ Len(h[0]) \in Nat
      /\ Len(h[1]) = Len(h[0]) + CountOf(issues, "CRITICAL")
  <2>1. 1 \in 1..5 /\ Severities[1] = "CRITICAL" /\ Cvss[Severities[1]] = 95 /\ 95 \in Int
    BY SeverityNumbers
  <2>2. Cvss[Severities[1]] <= 95
    BY <2>1
  <2>3. /\ WorstFirst(h[0] \o each[1], Cvss[Severities[1]]) /\ Len(h[0]) \in Nat
        /\ Len(h[0] \o each[1]) = Len(h[0]) + CountOf(issues, Severities[1])
    BY <1>a, <1>9, <2>1, <2>2, ZenonT(60)
  <2> QED BY <1>8, <2>1, <2>3
<1>11. /\ WorstFirst(h[2], 80) /\ Len(h[1]) \in Nat
      /\ Len(h[2]) = Len(h[1]) + CountOf(issues, "HIGH")
  <2>1. 2 \in 1..5 /\ Severities[2] = "HIGH" /\ Cvss[Severities[2]] = 80 /\ 95 \in Int
    BY SeverityNumbers
  <2>2. Cvss[Severities[2]] <= 95
    BY <2>1
  <2>3. /\ WorstFirst(h[1] \o each[2], Cvss[Severities[2]]) /\ Len(h[1]) \in Nat
        /\ Len(h[1] \o each[2]) = Len(h[1]) + CountOf(issues, Severities[2])
    BY <1>a, <1>10, <2>1, <2>2, Zenon
  <2> QED BY <1>8, <2>1, <2>3
<1>12. /\ WorstFirst(h[3], 55) /\ Len(h[2]) \in Nat
      /\ Len(h[3]) = Len(h[2]) + CountOf(issues, "MEDIUM")
  <2>1. 3 \in 1..5 /\ Severities[3] = "MEDIUM" /\ Cvss[Severities[3]] = 55 /\ 80 \in Int
    BY SeverityNumbers
  <2>2. Cvss[Severities[3]] <= 80
    BY <2>1
  <2>3. /\ WorstFirst(h[2] \o each[3], Cvss[Severities[3]]) /\ Len(h[2]) \in Nat
        /\ Len(h[2] \o each[3]) = Len(h[2]) + CountOf(issues, Severities[3])
    BY <1>a, <1>11, <2>1, <2>2, Zenon
  <2> QED BY <1>8, <2>1, <2>3
<1>13. /\ WorstFirst(h[4], 30) /\ Len(h[3]) \in Nat
      /\ Len(h[4]) = Len(h[3]) + CountOf(issues, "LOW")
  <2>1. 4 \in 1..5 /\ Severities[4] = "LOW" /\ Cvss[Severities[4]] = 30 /\ 55 \in Int
    BY SeverityNumbers
  <2>2. Cvss[Severities[4]] <= 55
    BY <2>1
  <2>3. /\ WorstFirst(h[3] \o each[4], Cvss[Severities[4]]) /\ Len(h[3]) \in Nat
        /\ Len(h[3] \o each[4]) = Len(h[3]) + CountOf(issues, Severities[4])
    BY <1>a, <1>12, <2>1, <2>2, Zenon
  <2> QED BY <1>8, <2>1, <2>3
<1>14. /\ WorstFirst(h[5], 0) /\ Len(h[4]) \in Nat
      /\ Len(h[5]) = Len(h[4]) + CountOf(issues, "INFO")
  <2>1. 5 \in 1..5 /\ Severities[5] = "INFO" /\ Cvss[Severities[5]] = 0 /\ 30 \in Int
    BY SeverityNumbers
  <2>2. Cvss[Severities[5]] <= 30
    BY <2>1
  <2>3. /\ WorstFirst(h[4] \o each[5], Cvss[Severities[5]]) /\ Len(h[4]) \in Nat
        /\ Len(h[4] \o each[5]) = Len(h[4]) + CountOf(issues, Severities[5])
    BY <1>a, <1>13, <2>1, <2>2, Zenon
  <2> QED BY <1>8, <2>1, <2>3
<1>15. /\ CountOf(issues, "CRITICAL") \in Nat /\ CountOf(issues, "HIGH") \in Nat
       /\ CountOf(issues, "MEDIUM") \in Nat /\ CountOf(issues, "LOW") \in Nat
       /\ CountOf(issues, "INFO") \in Nat
  BY CountIs
<1>16. Len(h[5]) = CountOf(issues, "CRITICAL") + (CountOf(issues, "HIGH")
           + (CountOf(issues, "MEDIUM") + (CountOf(issues, "LOW") + CountOf(issues, "INFO"))))
  <2>1. \A a, b, c, d, e \in Nat : 0 + a + b + c + d + e = a + (b + (c + (d + e)))
    OBVIOUS
  <2>2. Len(h[5]) = 0 + CountOf(issues, "CRITICAL") + CountOf(issues, "HIGH") + CountOf(issues, "MEDIUM")
                      + CountOf(issues, "LOW") + CountOf(issues, "INFO")
    BY <1>9, <1>10, <1>11, <1>12, <1>13, <1>14, Zenon
  <2> QED BY <1>15, <2>1, <2>2
<1>17. Len(h[5]) = Len(issues)
  BY <1>16, CountsPartition
<1> QED BY <1>7, <1>14, <1>17

\* What the report is made of: issues is the list before it is sorted.
ReportOf(report, issues) ==
  /\ IsList(issues) /\ \A i \in DOMAIN issues : issues[i].severity \in {"CRITICAL", "HIGH", "MEDIUM"}
  /\ DOMAIN report.counts = Range(Severities)
  /\ \A s \in Range(Severities) : report.counts[s] = CountOf(issues, s)
  /\ report.issues = BySeverity(issues)

LEMMA ReportHolds ==
  ASSUME FiniteAnswers
  PROVE  \E issues : ReportOf(GenerateReport(SomeOrder), issues)
<1>1. PICK responses : responses = Each(SomeOrder, ReportResponse)
  OBVIOUS
<1>2. PICK S : S = {ReportResponse(i) : i \in Answered}
  OBVIOUS
<1>3. responses \in Seq(S)
  BY <1>1, <1>2, SomeOrderHolds, ResponsesIs
<1>4. PICK c : c = FoldLeft(OnResult, NewCollector, responses)
  OBVIOUS
<1>5. Collecting(c, S, Range(responses)) /\ Range(responses) \in SUBSET S
  BY <1>3, <1>4, CollectHolds, SeqRange
<1>6. PICK pairs : pairs = PairsOf(c.buffer)
  OBVIOUS
<1>7. pairs \in Seq(S \X S)
  BY <1>5, <1>6, PairsHold DEF Collecting
<1>8. PICK issues : issues = IssuesIn(pairs)
  OBVIOUS
<1>9. c.issues = << >> /\ ProcessBuffered(c).issues = issues
  <2>1. c.issues = << >>
    BY <1>5 DEF Collecting
  <2> QED BY <1>5, <1>6, <1>8, <2>1, ProcessHolds
<1>10. issues \in Seq(IssuesAmong(S))
  BY <1>7, <1>8, IssuesHold
<1>11. \A issue \in IssuesAmong(S) : issue.severity \in {"CRITICAL", "HIGH", "MEDIUM"}
  BY DEF IssuesAmong, IssuesOf, NewIssue
<1>12. IsList(issues) /\ \A i \in DOMAIN issues : issues[i].severity \in {"CRITICAL", "HIGH", "MEDIUM"}
  BY <1>10, <1>11, ListIs
<1>13. GenerateReport(SomeOrder) = BuildReport(ProcessBuffered(c))
  BY <1>1, <1>4, <1>9 DEF GenerateReport, Flush
<1>14. /\ BuildReport(ProcessBuffered(c)).counts = [s \in Range(Severities) |-> CountOf(issues, s)]
       /\ BuildReport(ProcessBuffered(c)).issues = BySeverity(issues)
  BY <1>9 DEF BuildReport
<1> QED BY <1>12, <1>13, <1>14 DEF ReportOf

\* ViewsAgree of a report
Views(report) ==
  LET saved == SaveReport(report)
      stats == DashboardStats(report.issues)
      top   == CopilotQuery("critical", report.issues)
  IN /\ \A format \in DOMAIN saved :
          LET counts == saved[format].counts
          IN MapThenSumSet(LAMBDA s : counts[s], DOMAIN counts) = Len(report.issues)
     /\ stats.total = Len(report.issues)
     /\ stats.risk = 0 <=> report.issues = << >>
     /\ \A k \in DOMAIN report.issues :
          Cvss[report.issues[k].severity] <= Cvss[top[1].severity]
     /\ stats.risk = 95 <=> (top # << >> /\ top[1].severity = "CRITICAL")

LEMMA ViewsIs == ViewsAgree <=> Views(GenerateReport(SomeOrder))
BY DEF ViewsAgree, Views

\* No issue is below MEDIUM, so that a table without the row for INFO adds up.
LEMMA NoInfo ==
  ASSUME NEW issues, IsList(issues),
         \A i \in DOMAIN issues : issues[i].severity \in {"CRITICAL", "HIGH", "MEDIUM"}
  PROVE  /\ \A s : CountOf(issues, s) \in Nat
         /\ CountOf(issues, "INFO") = 0 /\ CountOf(issues, "LOW") = 0
         /\ Len(issues) = CountOf(issues, "CRITICAL") + (CountOf(issues, "HIGH")
              + (CountOf(issues, "MEDIUM") + CountOf(issues, "LOW")))
<1>1. \A s : /\ CountOf(issues, s) \in Nat
             /\ CountOf(issues, s) > 0 <=> \E i \in DOMAIN issues : issues[i].severity = s
  BY CountIs
<1>2. \A i \in DOMAIN issues : issues[i].severity # "INFO" /\ issues[i].severity # "LOW"
  OBVIOUS
<1>3. ~(CountOf(issues, "INFO") > 0) /\ ~(CountOf(issues, "LOW") > 0)
  BY <1>1, <1>2, Zenon
<1>4. CountOf(issues, "INFO") = 0 /\ CountOf(issues, "LOW") = 0
  <2>1. CountOf(issues, "INFO") \in Nat /\ CountOf(issues, "LOW") \in Nat
    BY <1>1
  <2> QED BY <1>3, <2>1
<1>5. \A i \in DOMAIN issues : issues[i].severity \in Range(Severities)
  BY SeverityNames
<1>6. Len(issues) = CountOf(issues, "CRITICAL") + (CountOf(issues, "HIGH")
           + (CountOf(issues, "MEDIUM") + (CountOf(issues, "LOW") + CountOf(issues, "INFO"))))
  BY <1>5, CountsPartition
<1>7. CountOf(issues, "LOW") + CountOf(issues, "INFO") = CountOf(issues, "LOW")
  BY <1>4
<1>8. Len(issues) = CountOf(issues, "CRITICAL") + (CountOf(issues, "HIGH")
           + (CountOf(issues, "MEDIUM") + CountOf(issues, "LOW")))
  BY <1>6, <1>7, Zenon
<1> QED BY <1>1, <1>4, <1>8

LEMMA FormatsHold ==
  ASSUME NEW report, NEW issues, ReportOf(report, issues), NEW format \in DOMAIN SaveReport(report)
  PROVE  LET counts == SaveReport(report)[format].counts
         IN MapThenSumSet(LAMBDA s : counts[s], DOMAIN counts) = Len(issues)
<1>1. PICK counts : counts = SaveReport(report)[format].counts
  OBVIOUS
<1>2. format \in {"json", "html", "md"}
  BY DEF SaveReport
<1>3. /\ \A s : CountOf(issues, s) \in Nat
      /\ CountOf(issues, "INFO") = 0
      /\ Len(issues) = CountOf(issues, "CRITICAL") + (CountOf(issues, "HIGH")
           + (CountOf(issues, "MEDIUM") + CountOf(issues, "LOW")))
  BY NoInfo DEF ReportOf
<1>4. CASE format = "json"
  <2>1. counts = [s \in Range(Severities) |-> report.counts[s]]
    BY <1>1, <1>4 DEF SaveReport, GenerateJson, Rendered
  <2>2. DOMAIN counts = Range(Severities) /\ \A s \in Range(Severities) : counts[s] = CountOf(issues, s)
    BY <2>1 DEF ReportOf
  <2>3. MapThenSumSet(LAMBDA s : counts[s], DOMAIN counts)
          = counts["CRITICAL"] + (counts["HIGH"] + (counts["MEDIUM"] + (counts["LOW"] + counts["INFO"])))
    BY <1>3, <2>2, FiveSum
  <2>4. /\ counts["CRITICAL"] = CountOf(issues, "CRITICAL") /\ counts["HIGH"] = CountOf(issues, "HIGH")
        /\ counts["MEDIUM"] = CountOf(issues, "MEDIUM") /\ counts["LOW"] = CountOf(issues, "LOW")
        /\ counts["INFO"] = 0
    BY <1>3, <2>2, SeverityNames
  <2> QED BY <1>1, <1>3, <2>3, <2>4
<1>5. CASE format # "json"
  <2>1. counts = [s \in Range(Severities) \ {"INFO"} |-> report.counts[s]]
    BY <1>1, <1>2, <1>5 DEF SaveReport, GenerateMarkdown, GenerateHtml, Rendered
  <2>2. Range(Severities) \ {"INFO"} = Worst
    BY SeverityNames DEF Worst
  <2>3. DOMAIN counts = Worst /\ \A s \in Worst : counts[s] = CountOf(issues, s)
    BY <2>1, <2>2 DEF ReportOf
  <2>4. MapThenSumSet(LAMBDA s : counts[s], DOMAIN counts)
          = counts["CRITICAL"] + (counts["HIGH"] + (counts["MEDIUM"] + counts["LOW"]))
    BY <1>3, <2>3, FourSum
  <2>5. /\ counts["CRITICAL"] = CountOf(issues, "CRITICAL") /\ counts["HIGH"] = CountOf(issues, "HIGH")
        /\ counts["MEDIUM"] = CountOf(issues, "MEDIUM") /\ counts["LOW"] = CountOf(issues, "LOW")
    BY <2>3 DEF Worst
  <2> QED BY <1>1, <1>3, <2>4, <2>5
<1> QED BY <1>4, <1>5

\* What the sorted list of a report keeps, and what the dashboard makes of it
LEMMA SortedIssues ==
  ASSUME NEW report, NEW issues, ReportOf(report, issues)
  PROVE  /\ WorstFirst(report.issues, 0) /\ Len(report.issues) = Len(issues)
         /\ \A i \in DOMAIN report.issues :
              report.issues[i].severity \in {"CRITICAL", "HIGH", "MEDIUM"}
<1>1. PICK S : S = Range(issues)
  OBVIOUS
<1>2. issues \in Seq(S) /\ \A issue \in S : issue.severity \in {"CRITICAL", "HIGH", "MEDIUM"}
  BY <1>1 DEF ReportOf, IsList, Range
<1>3. \A issue \in S : issue.severity \in Range(Severities)
  BY <1>2, SeverityNames
<1>4. BySeverity(issues) \in Seq(S) /\ Range(BySeverity(issues)) = S
  BY <1>1, <1>2, <1>3, BySeverityHolds
<1>5. \A i \in DOMAIN issues : issues[i].severity \in Range(Severities)
  BY SeverityNames DEF ReportOf
<1>6. WorstFirst(BySeverity(issues), 0) /\ Len(BySeverity(issues)) = Len(issues)
  BY <1>5, BySeverityOrder DEF ReportOf
<1>7. \A i \in DOMAIN BySeverity(issues) : BySeverity(issues)[i] \in S
  BY <1>4 DEF Range
<1> QED BY <1>2, <1>6, <1>7 DEF ReportOf

LEMMA StatsHold ==
  ASSUME NEW sorted, IsList(sorted),
         \A i \in DOMAIN sorted : sorted[i].severity \in {"CRITICAL", "HIGH", "MEDIUM"}
  PROVE  /\ DashboardStats(sorted).total = Len(sorted)
         /\ DashboardStats(sorted).risk = 0 <=> DOMAIN sorted = {}
         /\ DashboardStats(sorted).risk = 95 <=>
              \E i \in DOMAIN sorted : sorted[i].severity = "CRITICAL"
<1>1. PICK counts : counts = [s \in Range(Severities) \ {"INFO"} |-> CountOf(sorted, s)]
  OBVIOUS
<1>2. /\ DashboardStats(sorted).total = MapThenSumSet(LAMBDA s : counts[s], DOMAIN counts)
      /\ DashboardStats(sorted).risk =
           IF counts["CRITICAL"] > 0 THEN 95 ELSE IF counts["HIGH"] > 0 THEN 75
           ELSE IF counts["MEDIUM"] > 0 THEN 45 ELSE IF counts["LOW"] > 0 THEN 15 ELSE 0
  BY <1>1 DEF DashboardStats
<1>3. Range(Severities) \ {"INFO"} = Worst
  BY SeverityNames DEF Worst
<1>4. DOMAIN counts = Worst /\ \A s \in Worst : counts[s] = CountOf(sorted, s)
  BY <1>1, <1>3
<1>5. /\ \A s : CountOf(sorted, s) \in Nat
      /\ CountOf(sorted, "LOW") = 0
      /\ Len(sorted) = CountOf(sorted, "CRITICAL") + (CountOf(sorted, "HIGH")
           + (CountOf(sorted, "MEDIUM") + CountOf(sorted, "LOW")))
  BY NoInfo
<1>6. MapThenSumSet(LAMBDA s : counts[s], DOMAIN counts)
        = counts["CRITICAL"] + (counts["HIGH"] + (counts["MEDIUM"] + counts["LOW"]))
  BY <1>4, <1>5, FourSum
<1>7. /\ counts["CRITICAL"] = CountOf(sorted, "CRITICAL") /\ counts["HIGH"] = CountOf(sorted, "HIGH")
      /\ counts["MEDIUM"] = CountOf(sorted, "MEDIUM") /\ counts["LOW"] = CountOf(sorted, "LOW")
  BY <1>4 DEF Worst
<1>8. \A s : CountOf(sorted, s) > 0 <=> \E i \in DOMAIN sorted : sorted[i].severity = s
  BY CountIs
<1>9. DashboardStats(sorted).total = Len(sorted)
  BY <1>2, <1>5, <1>6, <1>7
<1>10. DashboardStats(sorted).risk = 95 <=> CountOf(sorted, "CRITICAL") > 0
  BY <1>2, <1>7
<1>11. DashboardStats(sorted).risk = 0 <=>
         ~(CountOf(sorted, "CRITICAL") > 0) /\ ~(CountOf(sorted, "HIGH") > 0) /\ ~(CountOf(sorted, "MEDIUM") > 0)
  <2>1. ~(CountOf(sorted, "LOW") > 0)
    BY <1>5
  <2> QED BY <1>2, <1>7, <2>1
<1>12. DOMAIN sorted = {} <=>
         ~(CountOf(sorted, "CRITICAL") > 0) /\ ~(CountOf(sorted, "HIGH") > 0) /\ ~(CountOf(sorted, "MEDIUM") > 0)
  <2>1. (\E i \in DOMAIN sorted : sorted[i].severity = "CRITICAL") <=> CountOf(sorted, "CRITICAL") > 0
    BY <1>8, Zenon
  <2>2. (\E i \in DOMAIN sorted : sorted[i].severity = "HIGH") <=> CountOf(sorted, "HIGH") > 0
    BY <1>8, Zenon
  <2>3. (\E i \in DOMAIN sorted : sorted[i].severity = "MEDIUM") <=> CountOf(sorted, "MEDIUM") > 0
    BY <1>8, Zenon
  <2>4. DOMAIN sorted # {} => \E i \in DOMAIN sorted : sorted[i].severity \in {"CRITICAL", "HIGH", "MEDIUM"}
    OBVIOUS
  <2> QED BY <2>1, <2>2, <2>3, <2>4
<1>13. DashboardStats(sorted).risk = 95 <=> \E i \in DOMAIN sorted : sorted[i].severity = "CRITICAL"
  BY <1>8, <1>10, Zenon
<1> QED BY <1>9, <1>11, <1>12, <1>13, Zenon

\* The renderings, the dashboard and the copilot speak of the same findings,
\* whatever was answered: the table without a row for INFO adds up because the
\* classifier gives no severity below MEDIUM, and the first issue of the sorted
\* list is a worst one (report_generator, get_dashboard_stats).
THEOREM ViewsAgreeCorrect == Spec => []ViewsAgree
<1>1. ASSUME FiniteAnswers PROVE ViewsAgree
  <2>1. PICK report : report = GenerateReport(SomeOrder)
    OBVIOUS
  <2>2. PICK issues : ReportOf(report, issues)
    BY <1>1, <2>1, ReportHolds
  <2>3. PICK sorted : sorted = report.issues
    OBVIOUS
  <2>4. /\ WorstFirst(sorted, 0) /\ Len(sorted) = Len(issues) /\ IsList(sorted)
        /\ \A i \in DOMAIN sorted : sorted[i].severity \in {"CRITICAL", "HIGH", "MEDIUM"}
    BY <2>2, <2>3, SortedIssues DEF WorstFirst
  <2>5. DOMAIN sorted = 1..Len(sorted) /\ Len(sorted) \in Nat /\ (sorted = << >> <=> DOMAIN sorted = {})
    <3>1. sorted \in Seq(Range(sorted))
      BY <2>4 DEF IsList
    <3> QED BY <3>1
  <2>6. PICK top : top = CopilotQuery("critical", sorted)
    OBVIOUS
  <2>7. top = IF sorted = << >> THEN << >> ELSE <<sorted[1]>>
    BY <2>6 DEF CopilotQuery
  <2>8. sorted # << >> => 1 \in DOMAIN sorted /\ top # << >> /\ top[1] = sorted[1]
    BY <2>5, <2>7
  <2>9. ASSUME NEW k \in DOMAIN sorted
        PROVE  Cvss[sorted[k].severity] <= Cvss[top[1].severity]
    <3>1. Score(sorted[k]) <= Score(sorted[1])
      BY <2>4 DEF WorstFirst
    <3> QED BY <2>5, <2>8, <3>1 DEF Score
  <2>10. (\E i \in DOMAIN sorted : sorted[i].severity = "CRITICAL")
           <=> (top # << >> /\ top[1].severity = "CRITICAL")
    <3>1. ASSUME NEW i \in DOMAIN sorted, sorted[i].severity = "CRITICAL"
          PROVE  top # << >> /\ top[1].severity = "CRITICAL"
      <4>1. 1 \in DOMAIN sorted /\ top # << >> /\ top[1] = sorted[1]
        BY <2>5, <2>8
      <4>2. 95 <= Cvss[top[1].severity]
        BY <2>9, <3>1, SeverityNumbers
      <4>3. top[1].severity \in {"CRITICAL", "HIGH", "MEDIUM"}
        BY <2>4, <4>1
      <4> QED BY <4>1, <4>2, <4>3, SeverityNumbers
    <3>2. ASSUME top # << >>, top[1].severity = "CRITICAL"
          PROVE  \E i \in DOMAIN sorted : sorted[i].severity = "CRITICAL"
      BY <2>7, <2>8, <3>2
    <3> QED BY <3>1, <3>2
  <2>11. /\ DashboardStats(sorted).total = Len(sorted)
         /\ DashboardStats(sorted).risk = 0 <=> sorted = << >>
         /\ DashboardStats(sorted).risk = 95 <=> (top # << >> /\ top[1].severity = "CRITICAL")
    BY <2>4, <2>5, <2>10, StatsHold
  <2>12. \A format \in DOMAIN SaveReport(report) :
           LET counts == SaveReport(report)[format].counts
           IN MapThenSumSet(LAMBDA s : counts[s], DOMAIN counts) = Len(sorted)
    BY <2>2, <2>4, FormatsHold
  <2>13. Views(report)
    BY <2>3, <2>6, <2>9, <2>11, <2>12 DEF Views
  <2> QED BY <2>1, <2>13, ViewsIs
<1> QED BY <1>1, FiniteAnswersCorrect, PTL

==============================================================================
