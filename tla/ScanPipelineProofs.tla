------------------------- MODULE ScanPipelineProofs -------------------------
(***************************************************************************)
(* Proofs about ScanPipeline and ResponseAnalysis, for every document,     *)
(* every set of answers and every order the database returns them in: what *)
(* the report holds depends on the set of the answered rows alone.         *)
(***************************************************************************)
EXTENDS ScanPipeline, FiniteSetTheorems, WellFoundedInduction, TLAPS

----------------------------------------------------------------------------
(* Induction.  Stated for a set, so that it can be cited.                  *)

LEMMA LeastNumber ==
  ASSUME NEW S \in SUBSET Nat, S # {}
  PROVE  \E n \in S : \A m \in S : n <= m
<1> DEFINE R == StrictSubsetOrdering(Nat)
           T == {0..n : n \in S}
<1>1. T \subseteq FiniteSubsetsOf(Nat) /\ T # {}
  <2>1. ASSUME NEW n \in S PROVE 0..n \in FiniteSubsetsOf(Nat)
    <3>1. IsFiniteSet(0..n)
      BY FS_Interval
    <3> QED BY <3>1 DEF FiniteSubsetsOf
  <2> QED BY <2>1
<1>2. IsWellFoundedOn(R, FiniteSubsetsOf(Nat))
  BY FS_StrictSubsetOrderingWellFounded
<1>3. PICK X \in T : \A Y \in T : ~(<<Y, X>> \in R)
  <2> HIDE DEF R, T
  <2> QED BY <1>1, <1>2, WFMin
<1>4. PICK n \in S : X = 0..n
  OBVIOUS
<1>5. ASSUME NEW m \in S, m < n PROVE FALSE
  <2>1. <<0..m, 0..n>> \in R
    BY <1>5 DEF StrictSubsetOrdering
  <2> QED BY <1>3, <1>4, <2>1
<1> QED BY <1>4, <1>5

LEMMA Induction ==
  ASSUME NEW S, 0 \in S, \A n \in Nat : n \in S => n + 1 \in S
  PROVE  Nat \subseteq S
<1> DEFINE B == Nat \ S
<1> SUFFICES ASSUME B # {} PROVE FALSE
  OBVIOUS
<1>1. PICK n \in B : \A m \in B : n <= m
  BY LeastNumber
<1> QED BY <1>1

----------------------------------------------------------------------------
(* FlattenSeq *)

Flattens(seqs, m, f) == f = [i \in 1..m |-> IF i = 1 THEN seqs[i] ELSE f[i - 1] \o seqs[i]]

LEMMA FlattensAt ==
  ASSUME NEW seqs, NEW m, NEW f, Flattens(seqs, m, f), NEW i \in 1..m
  PROVE  f[i] = IF i = 1 THEN seqs[i] ELSE f[i - 1] \o seqs[i]
BY Zenon DEF Flattens

LEMMA FlattensExists ==
  ASSUME NEW seqs, NEW n \in Nat
  PROVE  \E f : Flattens(seqs, n, f)
<1> DEFINE S == {m \in Nat : \E f : Flattens(seqs, m, f)}
<1>1. 0 \in S
  <2>1. Flattens(seqs, 0, << >>)
    BY DEF Flattens
  <2> QED BY <2>1
<1>2. ASSUME NEW m \in Nat, m \in S PROVE m + 1 \in S
  <2>1. PICK f : Flattens(seqs, m, f)
    BY <1>2
  <2> DEFINE g == [i \in 1..m + 1 |-> IF i = 1 THEN seqs[i] ELSE f[i - 1] \o seqs[i]]
  <2>2. \A i \in 1..m : g[i] = f[i]
    BY <2>1, FlattensAt
  <2>3. \A i \in 1..m + 1 : g[i] = IF i = 1 THEN seqs[i] ELSE g[i - 1] \o seqs[i]
    <3> SUFFICES ASSUME NEW i \in 1..m + 1, i # 1 PROVE g[i - 1] = f[i - 1]
      OBVIOUS
    <3>1. i - 1 \in 1..m
      OBVIOUS
    <3> QED BY <2>2, <3>1
  <2>4. g = [i \in 1..m + 1 |-> g[i]]
    OBVIOUS
  <2> HIDE DEF g
  <2>5. Flattens(seqs, m + 1, g)
    BY <2>3, <2>4, Zenon DEF Flattens
  <2> QED BY <2>5
<1>3. Nat \subseteq S
  <2> HIDE DEF S
  <2> QED BY <1>1, <1>2, Induction
<1> QED BY <1>3

LEMMA FlattenIs ==
  ASSUME NEW seqs, NEW n \in Nat \ {0}, Len(seqs) = n
  PROVE  \E f : Flattens(seqs, n, f) /\ FlattenSeq(seqs) = f[n]
<1> DEFINE f == CHOOSE f : Flattens(seqs, n, f)
<1>1. Flattens(seqs, n, f)
  BY FlattensExists
<1>2. FlattenSeq(seqs) = f[n]
  BY DEF FlattenSeq, Flattens
<1> QED BY <1>1, <1>2

LEMMA SeqDef ==
  ASSUME NEW S, NEW n \in Nat, NEW f \in [1..n -> S]
  PROVE  f \in Seq(S) /\ Len(f) = n
OBVIOUS

LEMMA RangeOfConcat ==
  ASSUME NEW S, NEW s \in Seq(S), NEW t \in Seq(S)
  PROVE  s \o t \in Seq(S) /\ Range(s \o t) = Range(s) \cup Range(t)
<1>1. /\ DOMAIN (s \o t) = 1..Len(s) + Len(t)
      /\ \A i \in 1..Len(s) : (s \o t)[i] = s[i]
      /\ \A i \in 1..Len(t) : (s \o t)[Len(s) + i] = t[i]
  OBVIOUS
<1>2. DOMAIN s = 1..Len(s) /\ DOMAIN t = 1..Len(t) /\ Len(s) \in Nat /\ Len(t) \in Nat
  OBVIOUS
<1>3. \A i \in 1..Len(s) + Len(t) : i \in 1..Len(s) \/ i - Len(s) \in 1..Len(t)
  BY <1>2
<1>4. \A i \in 1..Len(s) + Len(t) : (s \o t)[i] \in Range(s) \cup Range(t)
  BY <1>1, <1>2, <1>3, SMTT(30) DEF Range
<1>5. \A i \in DOMAIN s : i \in DOMAIN (s \o t) /\ (s \o t)[i] = s[i]
  BY <1>1, <1>2
<1>6. \A i \in DOMAIN t : Len(s) + i \in DOMAIN (s \o t) /\ (s \o t)[Len(s) + i] = t[i]
  BY <1>1, <1>2
<1>7. Range(s \o t) \subseteq Range(s) \cup Range(t)
  BY <1>1, <1>4 DEF Range
<1>8. Range(s) \subseteq Range(s \o t) /\ Range(t) \subseteq Range(s \o t)
  BY <1>5, <1>6, Zenon DEF Range
<1>9. s \o t \in Seq(S)
  OBVIOUS
<1> QED BY <1>7, <1>8, <1>9

LEMMA InConcat ==
  ASSUME NEW S, NEW s \in Seq(S), NEW t \in Seq(S), NEW x, x \in Range(s) \/ x \in Range(t)
  PROVE  s \o t \in Seq(S) /\ x \in Range(s \o t)
<1>1. s \o t \in Seq(S) /\ Range(s \o t) = Range(s) \cup Range(t)
  BY RangeOfConcat, ZenonT(60)
<1> QED BY <1>1, Zenon

LEMMA FlattenHolds ==
  ASSUME NEW S, NEW seqs \in Seq(Seq(S))
  PROVE  /\ FlattenSeq(seqs) \in Seq(S)
         /\ Range(FlattenSeq(seqs)) = UNION {Range(seqs[i]) : i \in DOMAIN seqs}
<1>1. CASE Len(seqs) = 0
  BY <1>1 DEF FlattenSeq, Range
<1>2. CASE Len(seqs) # 0
  <2> PICK n \in Nat \ {0} : n = Len(seqs)
    BY <1>2
  <2>1. PICK f : Flattens(seqs, n, f) /\ FlattenSeq(seqs) = f[n]
    BY FlattenIs
  <2>2. /\ \A i \in 1..n : seqs[i] \in Seq(S)
        /\ f[1] = seqs[1]
        /\ \A i \in 1..n : i # 1 => f[i] = f[i - 1] \o seqs[i]
    <3>1. \A i \in 1..n : seqs[i] \in Seq(S)
      OBVIOUS
    <3>2. \A i \in 1..n : f[i] = IF i = 1 THEN seqs[i] ELSE f[i - 1] \o seqs[i]
      BY <2>1, FlattensAt
    <3>3. 1 \in 1..n
      OBVIOUS
    <3> QED BY <3>1, <3>2, <3>3
  <2> DEFINE Good(m) == f[m] \in Seq(S) /\ Range(f[m]) = UNION {Range(seqs[i]) : i \in 1..m}
             T == {m \in Nat : m + 1 <= n => Good(m + 1)}
  <2>3. 0 \in T
    <3>1. Good(1)
      <4>1. f[1] = seqs[1] /\ seqs[1] \in Seq(S) /\ 1..1 = {1}
        BY <2>2
      <4> QED BY <4>1
    <3> QED BY <3>1
  <2>4. ASSUME NEW m \in Nat, m \in T PROVE m + 1 \in T
    <3> PICK k \in Nat : k = m + 1
      OBVIOUS
    <3> SUFFICES ASSUME k + 1 <= n PROVE Good(k + 1)
      BY Z3
    <3>1. Good(k)
      BY <2>4
    <3>2. f[k + 1] = f[k] \o seqs[k + 1] /\ seqs[k + 1] \in Seq(S)
      <4>1. k + 1 \in 1..n /\ k + 1 # 1 /\ (k + 1) - 1 = k
        OBVIOUS
      <4> QED BY <2>2, <4>1
    <3>3. f[k + 1] \in Seq(S) /\ Range(f[k + 1]) = Range(f[k]) \cup Range(seqs[k + 1])
      BY <3>1, <3>2, RangeOfConcat
    <3>4. 1..k + 1 = 1..k \cup {k + 1}
      OBVIOUS
    <3> QED BY <3>1, <3>3, <3>4
  <2>5. Nat \subseteq T
    <3> HIDE DEF T
    <3> QED BY <2>3, <2>4, Induction
  <2>6. Good(n)
    <3> PICK k \in Nat : k + 1 = n
      BY n - 1 \in Nat
    <3>1. k + 1 <= n
      OBVIOUS
    <3>2. k \in T
      BY <2>5, Zenon
    <3> QED BY <3>1, <3>2, Zenon
  <2>7. DOMAIN seqs = 1..n
    OBVIOUS
  <2> QED BY <2>1, <2>6, <2>7
<1> QED BY <1>1, <1>2

LEMMA PickedHolds ==
  ASSUME NEW S, NEW s \in Seq(S), NEW I
  PROVE  /\ Picked(s, I) \in Seq(S)
         /\ Range(Picked(s, I)) = {s[i] : i \in I \cap DOMAIN s}
<1> DEFINE ones == [i \in DOMAIN s |-> IF i \in I THEN <<s[i]>> ELSE << >>]
<1>1. ones \in Seq(Seq(S)) /\ DOMAIN ones = DOMAIN s
  <2>1. ones \in [1..Len(s) -> Seq(S)]
    <3>1. \A i \in 1..Len(s) : s[i] \in S
      OBVIOUS
    <3>2. \A x \in S : <<x>> \in Seq(S)
      OBVIOUS
    <3>3. << >> \in Seq(S)
      OBVIOUS
    <3> QED BY <3>1, <3>2, <3>3
  <2> HIDE DEF ones
  <2>2. Len(s) \in Nat /\ DOMAIN s = 1..Len(s)
    OBVIOUS
  <2> QED BY <2>1, <2>2, SeqDef
<1>2. \A i \in DOMAIN s : Range(ones[i]) = IF i \in I THEN {s[i]} ELSE {}
  BY DEF Range
<1> HIDE DEF ones
<1>3. /\ FlattenSeq(ones) \in Seq(S)
      /\ Range(FlattenSeq(ones)) = UNION {Range(ones[i]) : i \in DOMAIN ones}
  BY <1>1, FlattenHolds
<1>4. UNION {Range(ones[i]) : i \in DOMAIN ones} = {s[i] : i \in I \cap DOMAIN s}
  BY <1>1, <1>2
<1>5. Picked(s, I) = FlattenSeq(ones)
  BY Zenon DEF Picked, ones
<1> QED BY <1>3, <1>4, <1>5

----------------------------------------------------------------------------
(* One comparison and its classification *)

\* What the classifier may say of a difference
IssuesOf(diff) == {NewIssue(diff, type, severity) :
                     type \in DOMAIN IssueMeta, severity \in {"CRITICAL", "HIGH", "MEDIUM"}}

LEMMA SeverityNames == Range(Severities) = {"CRITICAL", "HIGH", "MEDIUM", "LOW", "INFO"}
<1>1. DOMAIN Severities = 1..5
  BY DEF Severities
<1> QED BY <1>1 DEF Severities, Range

LEMMA CheckHolds ==
  ASSUME NEW diff, NEW found, NEW type \in DOMAIN IssueMeta,
         NEW severity \in {"CRITICAL", "HIGH", "MEDIUM"}
  PROVE  /\ Check(found, diff, type, severity) \in Seq(IssuesOf(diff))
         /\ Check(found, diff, type, severity) # << >> <=> found
<1>1. NewIssue(diff, type, severity) \in IssuesOf(diff)
  BY DEF IssuesOf
<1> QED BY <1>1 DEF Check

LEMMA ConcatEmpty ==
  ASSUME NEW S, NEW s \in Seq(S), NEW t \in Seq(S)
  PROVE  s \o t \in Seq(S) /\ (s \o t # << >> <=> s # << >> \/ t # << >>)
OBVIOUS

LEMMA ClassifyHolds ==
  ASSUME NEW diff
  PROVE  /\ ClassifyDiff(diff) \in Seq(IssuesOf(diff))
         /\ ClassifyDiff(diff) # << >> <=>
              /\ diff.anomaly
              /\ \/ diff.b.status = 200 /\ diff.b.tampered
                 \/ diff.foreign # {}
                 \/ BothAllowed(diff) /\ diff.similarity >= Threshold /\ diff.a.user # diff.b.user
                 \/ diff.a.status \in {401, 403} /\ diff.b.status = 200
                 \/ BothAllowed(diff) /\ RoleRank(diff.b.role) < RoleRank(diff.a.role)
                      /\ diff.similarity >= 50
                 \/ diff.fields.added \cap SecretKeys # {}
<1> DEFINE I == IssuesOf(diff)
           jwt == CheckJwtBypass(diff)
           tenant == CheckTenantLeak(diff)
           bola == CheckBola(diff)
           bfla == CheckBfla(diff)
           escalation == CheckPrivilegeEscalation(diff)
           disclosure == CheckInfoDisclosure(diff)
<1> USE DEF IssueMeta
<1>1. jwt \in Seq(I) /\ (jwt # << >> <=> diff.b.status = 200 /\ diff.b.tampered)
  BY CheckHolds DEF CheckJwtBypass
<1>2. tenant \in Seq(I) /\ (tenant # << >> <=> diff.foreign # {})
  BY CheckHolds DEF CheckTenantLeak
<1>3. /\ bola \in Seq(I)
      /\ bola # << >> <=>
           BothAllowed(diff) /\ diff.similarity >= Threshold /\ diff.a.user # diff.b.user
  BY CheckHolds DEF CheckBola, ScoreBola
<1>4. bfla \in Seq(I) /\ (bfla # << >> <=> diff.a.status \in {401, 403} /\ diff.b.status = 200)
  <2>1. ScoreBfla(diff) \in {"CRITICAL", "HIGH", "MEDIUM"}
    BY DEF ScoreBfla
  <2> QED BY <2>1, CheckHolds DEF CheckBfla
<1>5. /\ escalation \in Seq(I)
      /\ escalation # << >> <=>
           BothAllowed(diff) /\ RoleRank(diff.b.role) < RoleRank(diff.a.role) /\ diff.similarity >= 50
  BY CheckHolds DEF CheckPrivilegeEscalation
<1>6. disclosure \in Seq(I) /\ (disclosure # << >> <=> diff.fields.added \cap SecretKeys # {})
  BY CheckHolds DEF CheckInfoDisclosure
<1> HIDE DEF I, jwt, tenant, bola, bfla, escalation, disclosure
<1>7. /\ jwt \o tenant \in Seq(I)
      /\ jwt \o tenant # << >> <=> jwt # << >> \/ tenant # << >>
  BY <1>1, <1>2, ConcatEmpty
<1>8. /\ jwt \o tenant \o bola \in Seq(I)
      /\ jwt \o tenant \o bola # << >> <=> jwt \o tenant # << >> \/ bola # << >>
  BY <1>3, <1>7, ConcatEmpty
<1>9. /\ jwt \o tenant \o bola \o bfla \in Seq(I)
      /\ jwt \o tenant \o bola \o bfla # << >> <=> jwt \o tenant \o bola # << >> \/ bfla # << >>
  BY <1>4, <1>8, ConcatEmpty
<1> DEFINE five == jwt \o tenant \o bola \o bfla \o escalation
<1>10. five \in Seq(I) /\ (five # << >> <=> jwt \o tenant \o bola \o bfla # << >> \/ escalation # << >>)
  BY <1>5, <1>9, ConcatEmpty
<1> HIDE DEF five
<1>11. five \o disclosure \in Seq(I) /\ (five \o disclosure # << >> <=> five # << >> \/ disclosure # << >>)
  BY <1>6, <1>10, ConcatEmpty
<1>12. ClassifyDiff(diff) = IF ~diff.anomaly THEN << >> ELSE five \o disclosure
  BY DEF ClassifyDiff, five, jwt, tenant, bola, bfla, escalation, disclosure
<1>13. << >> \in Seq(I)
  OBVIOUS
<1> QED BY <1>1, <1>2, <1>3, <1>4, <1>5, <1>6, <1>7, <1>8, <1>9, <1>10, <1>11, <1>12, <1>13 DEF I

LEMMA ReasonHolds ==
  ASSUME NEW a, NEW b, NEW similarity, NEW foreign,
         AnomalyReason(a, b, similarity, foreign) # "none"
  PROVE  \/ foreign # {}
         \/ a.status = 200 /\ b.status = 200 /\ similarity >= Threshold /\ a.user # b.user
         \/ a.status \in {401, 403} /\ b.status = 200
<1>1. CASE a.user = b.user
  BY <1>1 DEF AnomalyReason
<1>2. CASE a.user # b.user /\ foreign = {} /\ ~(a.status \in {401, 403} /\ b.status = 200)
  BY <1>2 DEF AnomalyReason
<1> QED BY <1>1, <1>2

\* The three branches of compare_responses are among the six rules of the
\* classifier, under the same conditions.
LEMMA AnomalyIsClassified ==
  ASSUME NEW a, NEW b
  PROVE  LET diff == CompareResponses(a, b)
         IN diff.anomaly <=> ClassifyDiff(diff) # << >>
<1> DEFINE diff == CompareResponses(a, b)
<1>1. /\ diff.a = a /\ diff.b = b /\ diff.anomaly \in BOOLEAN
      /\ diff.anomaly <=> diff.reason # "none"
      /\ diff.reason = AnomalyReason(a, b, diff.similarity, diff.foreign)
  BY DEF CompareResponses
<1> HIDE DEF diff
<1>2. diff.reason # "none" =>
        \/ diff.foreign # {}
        \/ BothAllowed(diff) /\ diff.similarity >= Threshold /\ diff.a.user # diff.b.user
        \/ diff.a.status \in {401, 403} /\ diff.b.status = 200
  BY <1>1, ReasonHolds DEF BothAllowed
<1> QED BY <1>1, <1>2, ClassifyHolds DEF diff

----------------------------------------------------------------------------
(* Folds over a list.  A lemma about all folds would need the step as a     *)
(* parameter; the steps of this development are therefore one operator.     *)

Step(fold, arg, r, x) ==
  IF fold = "responses" THEN OnResult(r, x)
  ELSE IF fold = "operations" THEN ParseOperation(arg.doc, r, arg.path, x)
  ELSE IF fold = "paths" THEN ParsePath(arg, r, x)
  ELSE KeepNew(r, x)

Iterates(fold, arg, base, seq, n, it) ==
  it = [s \in SUBSET (1..n) |-> IF s = {} THEN base
                                ELSE Step(fold, arg, it[s \ {Max(s)}], seq[Max(s)])]

LEMMA IteratesAt ==
  ASSUME NEW fold, NEW arg, NEW base, NEW seq, NEW n, NEW it,
         Iterates(fold, arg, base, seq, n, it), NEW s \in SUBSET (1..n)
  PROVE  it[s] = IF s = {} THEN base ELSE Step(fold, arg, it[s \ {Max(s)}], seq[Max(s)])
BY Zenon DEF Iterates

LEMMA WithoutLast ==
  ASSUME NEW m \in Nat
  PROVE  (1..m + 1) \ {m + 1} = 1..m /\ 1..m + 1 # {}
OBVIOUS

LEMMA MaxIs ==
  ASSUME NEW k \in Nat, NEW s \in SUBSET (1..k), k \in s
  PROVE  Max(s) = k
<1>1. \A y \in s : k >= y
  OBVIOUS
<1>2. \A x \in s : (\A y \in s : x >= y) => x = k
  OBVIOUS
<1> QED BY <1>1, <1>2 DEF Max

LEMMA IteratesExists ==
  ASSUME NEW fold, NEW arg, NEW base, NEW seq, NEW n \in Nat
  PROVE  \E it : Iterates(fold, arg, base, seq, n, it)
<1> DEFINE S == {m \in Nat : \E it : Iterates(fold, arg, base, seq, m, it)}
<1>1. 0 \in S
  <2> DEFINE g == [s \in SUBSET (1..0) |-> base]
  <2>1. \A s \in SUBSET (1..0) : s = {}
    OBVIOUS
  <2>2. g = [s \in SUBSET (1..0) |-> IF s = {} THEN base
                                     ELSE Step(fold, arg, g[s \ {Max(s)}], seq[Max(s)])]
    BY <2>1
  <2> HIDE DEF g
  <2>3. Iterates(fold, arg, base, seq, 0, g)
    BY <2>2, Zenon DEF Iterates
  <2> QED BY <2>3
<1>2. ASSUME NEW m \in Nat, m \in S PROVE m + 1 \in S
  <2>1. PICK it : Iterates(fold, arg, base, seq, m, it)
    BY <1>2
  <2> PICK k \in Nat : k = m + 1
    OBVIOUS
  <2> DEFINE g == [s \in SUBSET (1..k) |->
                     IF k \in s THEN Step(fold, arg, it[s \ {k}], seq[k]) ELSE it[s]]
  <2>2. ASSUME NEW s \in SUBSET (1..k)
        PROVE  g[s] = IF s = {} THEN base ELSE Step(fold, arg, g[s \ {Max(s)}], seq[Max(s)])
    <3>1. CASE k \in s
      <4>1. Max(s) = k
        BY <3>1, MaxIs
      <4>2. s \ {k} \in SUBSET (1..k) /\ k \notin s \ {k}
        OBVIOUS
      <4>3. g[s \ {k}] = it[s \ {k}]
        BY <4>2, Zenon
      <4>4. g[s] = Step(fold, arg, it[s \ {k}], seq[k])
        BY <3>1, Zenon
      <4> HIDE DEF g
      <4> QED BY <3>1, <4>1, <4>3, <4>4, Zenon
    <3>2. CASE k \notin s
      <4>1. s \in SUBSET (1..m)
        <5>1. \A x \in 1..k : x = k \/ x \in 1..m
          OBVIOUS
        <5> QED BY <3>2, <5>1
      <4>2. it[s] = IF s = {} THEN base ELSE Step(fold, arg, it[s \ {Max(s)}], seq[Max(s)])
        BY <2>1, <4>1, IteratesAt
      <4>3. g[s] = it[s]
        BY <3>2, Zenon
      <4>4. s \ {Max(s)} \in SUBSET (1..k) /\ k \notin s \ {Max(s)}
        BY <3>2
      <4>5. g[s \ {Max(s)}] = it[s \ {Max(s)}]
        BY <4>4, Zenon
      <4> HIDE DEF g
      <4> QED BY <4>2, <4>3, <4>5, Zenon
    <3> QED BY <3>1, <3>2
  <2>3. g = [s \in SUBSET (1..k) |-> g[s]]
    OBVIOUS
  <2> HIDE DEF g
  <2>4. Iterates(fold, arg, base, seq, k, g)
    BY <2>2, <2>3, Zenon DEF Iterates
  <2> QED BY <2>4
<1>3. Nat \subseteq S
  <2> HIDE DEF S
  <2> QED BY <1>1, <1>2, Induction
<1> QED BY <1>3

\* The values of a fold after each item
Folds(fold, arg, base, seq, n, result) ==
  \E c : /\ result = c[n]
         /\ c[0] = base
         /\ \A m \in 0..n - 1 : c[m + 1] = Step(fold, arg, c[m], seq[m + 1])

LEMMA FoldsHold ==
  ASSUME NEW fold, NEW arg, NEW base, NEW seq, NEW n \in Nat, NEW it,
         Iterates(fold, arg, base, seq, n, it)
  PROVE  Folds(fold, arg, base, seq, n, it[1..n])
<1>3. ASSUME NEW s \in SUBSET (1..n)
      PROVE  it[s] = IF s = {} THEN base ELSE Step(fold, arg, it[s \ {Max(s)}], seq[Max(s)])
  BY Zenon DEF Iterates
<1> DEFINE c == [m \in 0..n |-> it[1..m]]
<1>4. c[0] = base
  <2>1. 1..0 = {} /\ 0 \in 0..n
    OBVIOUS
  <2> QED BY <1>3, <2>1
<1>5. ASSUME NEW m \in 0..n - 1 PROVE c[m + 1] = Step(fold, arg, c[m], seq[m + 1])
  <2> PICK k \in Nat : k = m + 1
    OBVIOUS
  <2>1. Max(1..k) = k
    BY MaxIs
  <2>2. (1..k) \ {k} = 1..m /\ 1..k # {}
    BY WithoutLast
  <2>3. 1..k \in SUBSET (1..n) /\ k \in 0..n /\ m \in 0..n
    OBVIOUS
  <2>4. it[1..k] = Step(fold, arg, it[1..m], seq[k])
    BY <1>3, <2>1, <2>2, <2>3
  <2> QED BY <2>2, <2>4
<1>6. c[n] = it[1..n]
  OBVIOUS
<1> HIDE DEF c
<1> QED BY <1>4, <1>5, <1>6 DEF Folds

LEMMA CollectorSteps ==
  ASSUME NEW seq, NEW n \in Nat, DOMAIN seq = 1..n
  PROVE  Folds("responses", "", NewCollector, seq, n, FoldLeft(OnResult, NewCollector, seq))
<1> DEFINE Solves(it) == it = [s \in SUBSET (1..n) |-> IF s = {} THEN NewCollector
                                 ELSE OnResult(it[s \ {Max(s)}], seq[Max(s)])]
<1>1. \A r, x : Step("responses", "", r, x) = OnResult(r, x)
  BY DEF Step
<1>2. ASSUME NEW it PROVE Solves(it) <=> Iterates("responses", "", NewCollector, seq, n, it)
  BY <1>1, Zenon DEF Iterates
<1>3. \E it : Solves(it)
  BY <1>2, IteratesExists
<1>4. PICK it : Solves(it) /\ FoldLeft(OnResult, NewCollector, seq) = it[1..n]
  <2> DEFINE it == CHOOSE it : Solves(it)
  <2>1. Solves(it)
    BY <1>3
  <2>2. FoldLeft(OnResult, NewCollector, seq) = it[1..n]
    BY DEF FoldLeft, MapThenFoldSet
  <2> QED BY <2>1, <2>2
<1> HIDE DEF Solves
<1> QED BY <1>2, <1>4, FoldsHold

\* What a collector of responses of S holds once it has read those of X
Key(r) == <<r.method, r.endpoint>>
GroupsOf(S) == [key : {Key(r) : r \in S}, responses : Seq(S)]

Grouped(buffer, S, X) ==
  /\ buffer \in Seq(GroupsOf(S))
  /\ \A g, h \in DOMAIN buffer : buffer[g].key = buffer[h].key => g = h
  /\ \A g \in DOMAIN buffer : Range(buffer[g].responses) = {r \in X : Key(r) = buffer[g].key}
  /\ \A r \in X : \E g \in DOMAIN buffer : buffer[g].key = Key(r)

Collecting(c, S, X) ==
  /\ c = [buffer |-> c.buffer, diffs |-> << >>, issues |-> << >>, requests |-> c.requests]
  /\ Grouped(c.buffer, S, X)

LEMMA MinIs ==
  ASSUME NEW I \in SUBSET Nat, I # {}
  PROVE  Min(I) \in I
<1>1. \E n \in I : \A m \in I : n <= m
  BY LeastNumber
<1> QED BY <1>1 DEF Min

LEMMA AppendRange ==
  ASSUME NEW S, NEW s \in Seq(S), NEW x \in S
  PROVE  Append(s, x) \in Seq(S) /\ Range(Append(s, x)) = Range(s) \cup {x}
<1>1. Append(s, x) = s \o <<x>> /\ <<x>> \in Seq(S)
  OBVIOUS
<1>2. Range(<<x>>) = {x}
  BY DEF Range
<1>3. s \o <<x>> \in Seq(S) /\ Range(s \o <<x>>) = Range(s) \cup Range(<<x>>)
  BY <1>1, RangeOfConcat, ZenonT(60)
<1> QED BY <1>1, <1>2, <1>3, Zenon

LEMMA GroupIs ==
  ASSUME NEW S, NEW X, NEW buffer, Grouped(buffer, S, X), NEW g \in DOMAIN buffer
  PROVE  /\ buffer[g] = [key |-> buffer[g].key, responses |-> buffer[g].responses]
         /\ buffer[g].responses \in Seq(S)
         /\ buffer[g].key \in {Key(r) : r \in S}
<1>1. buffer[g] \in GroupsOf(S)
  BY DEF Grouped
<1> QED BY <1>1 DEF GroupsOf

LEMMA NewGroup ==
  ASSUME NEW S, NEW X \in SUBSET S, NEW buffer, Grouped(buffer, S, X), NEW r \in S,
         \A g \in DOMAIN buffer : buffer[g].key # Key(r)
  PROVE  Grouped(Append(buffer, [key |-> Key(r), responses |-> <<r>>]), S, X \cup {r})
<1> DEFINE group == [key |-> Key(r), responses |-> <<r>>]
           after == Append(buffer, group)
           new == Len(buffer) + 1
<1>1. group \in GroupsOf(S)
  BY DEF GroupsOf
<1>2. buffer \in Seq(GroupsOf(S))
  BY DEF Grouped
<1>3. group.key = Key(r) /\ Range(group.responses) = {r}
  BY DEF Range
<1> HIDE DEF group
<1>4. /\ after \in Seq(GroupsOf(S))
      /\ DOMAIN after = DOMAIN buffer \cup {new} /\ new \notin DOMAIN buffer
      /\ \A g \in DOMAIN buffer : after[g] = buffer[g]
      /\ after[new] = group
  BY <1>1, <1>2
<1> HIDE DEF after, new
<1>5. \A x \in X : Key(x) # Key(r)
  BY DEF Grouped
<1>6. \A g, h \in DOMAIN after : after[g].key = after[h].key => g = h
  BY <1>3, <1>4 DEF Grouped
<1>7. \A g \in DOMAIN after : Range(after[g].responses) = {x \in X \cup {r} : Key(x) = after[g].key}
  <2>1. ASSUME NEW g \in DOMAIN buffer
        PROVE  Range(after[g].responses) = {x \in X \cup {r} : Key(x) = after[g].key}
    BY <1>4 DEF Grouped
  <2>2. Range(after[new].responses) = {x \in X \cup {r} : Key(x) = after[new].key}
    BY <1>3, <1>4, <1>5
  <2> QED BY <1>4, <2>1, <2>2
<1>8. \A x \in X \cup {r} : \E g \in DOMAIN after : after[g].key = Key(x)
  BY <1>3, <1>4 DEF Grouped
<1>9. Grouped(after, S, X \cup {r})
  BY <1>4, <1>6, <1>7, <1>8 DEF Grouped
<1> QED BY <1>9 DEF after, group

LEMMA GroupGrows ==
  ASSUME NEW S, NEW X \in SUBSET S, NEW buffer, Grouped(buffer, S, X), NEW r \in S,
         NEW i \in DOMAIN buffer, buffer[i].key = Key(r)
  PROVE  Grouped([buffer EXCEPT ![i].responses = Append(@, r)], S, X \cup {r})
<1> DEFINE after == [buffer EXCEPT ![i].responses = Append(@, r)]
           group == [key |-> buffer[i].key, responses |-> Append(buffer[i].responses, r)]
<1>1. buffer \in Seq(GroupsOf(S))
  BY DEF Grouped
<1>2. /\ buffer[i] = [key |-> buffer[i].key, responses |-> buffer[i].responses]
      /\ buffer[i].responses \in Seq(S)
      /\ buffer[i].key \in {Key(x) : x \in S}
  BY GroupIs
<1>3. after = [buffer EXCEPT ![i] = group]
  <2>1. [buffer[i] EXCEPT !.responses = Append(@, r)] = group
    BY <1>2
  <2>2. after = [buffer EXCEPT ![i] = [buffer[i] EXCEPT !.responses = Append(@, r)]]
    OBVIOUS
  <2> HIDE DEF after, group
  <2> QED BY <2>1, <2>2
<1>4. group \in GroupsOf(S) /\ group.key = Key(r)
      /\ Range(group.responses) = Range(buffer[i].responses) \cup {r}
  BY <1>2, AppendRange DEF GroupsOf
<1> HIDE DEF after, group
<1>5. after \in Seq(GroupsOf(S))
  BY <1>1, <1>3, <1>4
<1>6. /\ DOMAIN after = DOMAIN buffer
      /\ \A g \in DOMAIN buffer : after[g] = IF g = i THEN group ELSE buffer[g]
  BY <1>1, <1>3
<1>7. \A g \in DOMAIN buffer : after[g].key = buffer[g].key
  BY <1>4, <1>6
<1>8. \A g, h \in DOMAIN after : after[g].key = after[h].key => g = h
  BY <1>6, <1>7 DEF Grouped
<1>9. ASSUME NEW g \in DOMAIN after
      PROVE  Range(after[g].responses) = {x \in X \cup {r} : Key(x) = after[g].key}
  <2>1. Range(buffer[g].responses) = {x \in X : Key(x) = buffer[g].key}
    BY <1>6 DEF Grouped
  <2>2. CASE g = i
    BY <1>4, <1>6, <1>7, <2>1, <2>2
  <2>3. CASE g # i
    <3>1. buffer[g].key # Key(r)
      BY <1>6, <2>3 DEF Grouped
    <3> QED BY <1>6, <1>7, <2>1, <2>3, <3>1
  <2> QED BY <2>2, <2>3
<1>10. \A x \in X \cup {r} : \E g \in DOMAIN after : after[g].key = Key(x)
  BY <1>6, <1>7 DEF Grouped
<1>11. Grouped(after, S, X \cup {r})
  BY <1>5, <1>8, <1>9, <1>10 DEF Grouped
<1> QED BY <1>11 DEF after

LEMMA OnResultHolds ==
  ASSUME NEW S, NEW X \in SUBSET S, NEW r \in S, NEW c, Collecting(c, S, X)
  PROVE  Collecting(OnResult(c, r), S, X \cup {r})
<1> DEFINE i == SelectInSeq(c.buffer, LAMBDA group : group.key = <<r.method, r.endpoint>>)
           after == IF i = 0
                    THEN Append(c.buffer, [key |-> <<r.method, r.endpoint>>, responses |-> <<r>>])
                    ELSE [c.buffer EXCEPT ![i].responses = Append(@, r)]
<1>1. OnResult(c, r) = [c EXCEPT !.buffer = after, !.requests = c.requests + 1]
  BY DEF OnResult
<1>2. PICK buffer, requests :
        /\ c = [buffer |-> buffer, diffs |-> << >>, issues |-> << >>, requests |-> requests]
        /\ Grouped(buffer, S, X)
  BY DEF Collecting
<1>3. Len(buffer) \in Nat /\ DOMAIN buffer = 1..Len(buffer)
  BY <1>2 DEF Grouped
<1> DEFINE I == {g \in 1..Len(buffer) : buffer[g].key = Key(r)}
<1>4. i = IF I # {} THEN Min(I) ELSE 0
  BY <1>2 DEF SelectInSeq, Key
<1> HIDE DEF i
<1>5. I # {} => Min(I) \in I
  <2>1. I \in SUBSET Nat
    BY <1>3
  <2> HIDE DEF I
  <2> QED BY <2>1, MinIs
<1>6. OnResult(c, r) = [buffer |-> after, diffs |-> << >>, issues |-> << >>, requests |-> requests + 1]
  <2> HIDE DEF after
  <2> QED BY <1>1, <1>2
<1>7. CASE I = {}
  <2>1. \A g \in DOMAIN buffer : buffer[g].key # Key(r)
    BY <1>3, <1>7
  <2>2. Grouped(Append(buffer, [key |-> Key(r), responses |-> <<r>>]), S, X \cup {r})
    BY <1>2, <2>1, NewGroup
  <2>3. i = 0
    BY <1>4, <1>7
  <2>4. Grouped(after, S, X \cup {r})
    BY <1>2, <2>2, <2>3 DEF Key
  <2> HIDE DEF after
  <2> QED BY <1>6, <2>4 DEF Collecting
<1>8. CASE I # {}
  <2>1. i \in DOMAIN buffer /\ buffer[i].key = Key(r) /\ i # 0
    BY <1>3, <1>4, <1>5, <1>8
  <2>2. Grouped([buffer EXCEPT ![i].responses = Append(@, r)], S, X \cup {r})
    BY <1>2, <2>1, GroupGrows
  <2>3. Grouped(after, S, X \cup {r})
    BY <1>2, <2>1, <2>2
  <2> HIDE DEF after
  <2> QED BY <1>6, <2>3 DEF Collecting
<1> QED BY <1>7, <1>8

LEMMA CollectHolds ==
  ASSUME NEW S, NEW seq \in Seq(S)
  PROVE  Collecting(FoldLeft(OnResult, NewCollector, seq), S, Range(seq))
<1> PICK n \in Nat : n = Len(seq) /\ DOMAIN seq = 1..n
  OBVIOUS
<1>a. Folds("responses", "", NewCollector, seq, n, FoldLeft(OnResult, NewCollector, seq))
  BY CollectorSteps
<1>b. PICK c : /\ FoldLeft(OnResult, NewCollector, seq) = c[n]
               /\ c[0] = NewCollector
               /\ \A m \in 0..n - 1 : c[m + 1] = Step("responses", "", c[m], seq[m + 1])
  BY <1>a, Zenon DEF Folds
<1>c. \A r, x : Step("responses", "", r, x) = OnResult(r, x)
  BY DEF Step
<1>1. /\ FoldLeft(OnResult, NewCollector, seq) = c[n]
      /\ c[0] = NewCollector
      /\ \A m \in 0..n - 1 : c[m + 1] = OnResult(c[m], seq[m + 1])
  BY <1>b, <1>c, Zenon
<1> DEFINE Read(m) == {seq[i] : i \in 1..m}
           T == {m \in Nat : m <= n => Collecting(c[m], S, Read(m))}
<1>2. 0 \in T
  <2>1. Read(0) = {}
    OBVIOUS
  <2>2. Collecting(NewCollector, S, {})
    BY DEF Collecting, Grouped, NewCollector
  <2> QED BY <1>1, <2>1, <2>2
<1>3. ASSUME NEW m \in Nat, m \in T PROVE m + 1 \in T
  <2> PICK k \in Nat : k = m + 1
    OBVIOUS
  <2> SUFFICES ASSUME k <= n PROVE Collecting(c[k], S, Read(k))
    BY Z3
  <2>1. Collecting(c[m], S, Read(m))
    BY <1>3
  <2>2. seq[k] \in S /\ Read(m) \in SUBSET S /\ m \in 0..n - 1
    OBVIOUS
  <2>3. c[k] = OnResult(c[m], seq[k])
    BY <1>1, <2>2
  <2>4. Read(k) = Read(m) \cup {seq[k]}
    <3>1. 1..k = (1..m) \cup {k}
      OBVIOUS
    <3> QED BY <3>1
  <2> HIDE DEF Read
  <2> QED BY <2>1, <2>2, <2>3, <2>4, OnResultHolds
<1>4. Nat \subseteq T
  <2> HIDE DEF T
  <2> QED BY <1>2, <1>3, Induction
<1>5. Collecting(c[n], S, Read(n))
  <2>1. n \in T
    BY <1>4, Zenon
  <2> QED BY <2>1
<1>6. Read(n) = Range(seq)
  BY DEF Range
<1> QED BY <1>1, <1>5, <1>6

----------------------------------------------------------------------------
(* Pairs, differences and issues *)

IsAdminResponse(r) == r.role = "admin"

LEMMA SeqRange ==
  ASSUME NEW S, NEW s \in Seq(S)
  PROVE  s \in Seq(Range(s)) /\ Range(s) \in SUBSET S
<1>1. DOMAIN s = 1..Len(s) /\ Len(s) \in Nat /\ \A i \in 1..Len(s) : s[i] \in S /\ s[i] \in Range(s)
  BY DEF Range
<1>2. s \in [1..Len(s) -> Range(s)]
  BY <1>1
<1>3. Range(s) \in SUBSET S
  BY <1>1 DEF Range
<1> QED BY <1>1, <1>2, <1>3, SeqDef

LEMMA MadeSeq ==
  ASSUME NEW S, NEW s \in Seq(S), NEW T, NEW f, DOMAIN f = DOMAIN s, \A i \in DOMAIN s : f[i] \in T,
         f = [i \in DOMAIN s |-> f[i]]
  PROVE  f \in Seq(T)
<1>1. DOMAIN s = 1..Len(s) /\ Len(s) \in Nat
  OBVIOUS
<1>2. f \in [1..Len(s) -> T]
  BY <1>1
<1> QED BY <1>1, <1>2, SeqDef

LEMMA AdminsHolds ==
  ASSUME NEW S, NEW rs \in Seq(S)
  PROVE  /\ Admins(rs) \in Seq(S) /\ Range(Admins(rs)) = {r \in Range(rs) : r.role = "admin"}
         /\ Others(rs) \in Seq(S) /\ Range(Others(rs)) = {r \in Range(rs) : r.role # "admin"}
<1> DEFINE I == {i \in DOMAIN rs : rs[i].role = "admin"}
           J == {i \in DOMAIN rs : rs[i].role # "admin"}
<1>1. Picked(rs, I) \in Seq(S) /\ Range(Picked(rs, I)) = {rs[i] : i \in I \cap DOMAIN rs}
  <2> HIDE DEF I
  <2> QED BY PickedHolds
<1>2. Picked(rs, J) \in Seq(S) /\ Range(Picked(rs, J)) = {rs[i] : i \in J \cap DOMAIN rs}
  <2> HIDE DEF J
  <2> QED BY PickedHolds
<1>3. {rs[i] : i \in I \cap DOMAIN rs} = {r \in Range(rs) : r.role = "admin"}
  BY DEF Range
<1>4. {rs[i] : i \in J \cap DOMAIN rs} = {r \in Range(rs) : r.role # "admin"}
  BY DEF Range
<1>5. Admins(rs) = Picked(rs, I) /\ Others(rs) = Picked(rs, J)
  BY Zenon DEF Admins, Others
<1> QED BY <1>1, <1>2, <1>3, <1>4, <1>5, Zenon

LEMMA PairsWithHolds ==
  ASSUME NEW S, NEW ref \in S, NEW others \in Seq(S)
  PROVE  /\ PairsWith(ref, others) \in Seq(S \X S)
         /\ Range(PairsWith(ref, others)) =
              {<<ref, o>> : o \in {o \in Range(others) : ref.user # o.user \/ ref.role # o.role}}
<1> DEFINE differ == {i \in DOMAIN others : ref.user # others[i].user \/ ref.role # others[i].role}
           all == [i \in DOMAIN others |-> <<ref, others[i]>>]
<1>1. all \in Seq(S \X S) /\ DOMAIN all = DOMAIN others
  <2>1. \A i \in DOMAIN others : others[i] \in S
    OBVIOUS
  <2>2. \A i \in DOMAIN others : all[i] \in S \X S
    BY <2>1
  <2>3. DOMAIN all = DOMAIN others /\ all = [i \in DOMAIN others |-> all[i]]
    OBVIOUS
  <2> HIDE DEF all
  <2> QED BY <2>2, <2>3, MadeSeq
<1>2. \A i \in DOMAIN others : all[i] = <<ref, others[i]>>
  OBVIOUS
<1> HIDE DEF all
<1>3. Picked(all, differ) \in Seq(S \X S) /\ Range(Picked(all, differ)) = {all[i] : i \in differ \cap DOMAIN all}
  <2> HIDE DEF differ
  <2> QED BY <1>1, PickedHolds
<1>4. {all[i] : i \in differ \cap DOMAIN all}
        = {<<ref, o>> : o \in {o \in Range(others) : ref.user # o.user \/ ref.role # o.role}}
  BY <1>1, <1>2 DEF Range
<1>5. PairsWith(ref, others) = Picked(all, differ)
  BY Zenon DEF PairsWith, all
<1> QED BY <1>3, <1>4, <1>5, Zenon

\* The pairs of references and challengers, one reference after another
AllPairs(refs, others) == FlattenSeq([i \in DOMAIN refs |-> PairsWith(refs[i], others)])

LEMMA AllPairsHold ==
  ASSUME NEW S, NEW refs \in Seq(S), NEW others \in Seq(S)
  PROVE  /\ AllPairs(refs, others) \in Seq(S \X S)
         /\ Range(AllPairs(refs, others)) =
              {p \in Range(refs) \X Range(others) : p[1].user # p[2].user \/ p[1].role # p[2].role}
<1> DEFINE each == [i \in DOMAIN refs |-> PairsWith(refs[i], others)]
<1>1. \A i \in DOMAIN refs :
        /\ PairsWith(refs[i], others) \in Seq(S \X S)
        /\ Range(PairsWith(refs[i], others)) =
             {<<refs[i], o>> : o \in {o \in Range(others) : refs[i].user # o.user \/ refs[i].role # o.role}}
  <2>1. \A i \in DOMAIN refs : refs[i] \in S
    OBVIOUS
  <2> QED BY <2>1, PairsWithHolds
<1>2. /\ DOMAIN each = DOMAIN refs /\ each = [i \in DOMAIN refs |-> each[i]]
      /\ \A i \in DOMAIN refs : each[i] = PairsWith(refs[i], others)
  OBVIOUS
<1> HIDE DEF each
<1>3. each \in Seq(Seq(S \X S))
  BY <1>1, <1>2, MadeSeq
<1>4. /\ FlattenSeq(each) \in Seq(S \X S)
      /\ Range(FlattenSeq(each)) = UNION {Range(each[i]) : i \in DOMAIN each}
  BY <1>3, FlattenHolds
<1> DEFINE Both == {p \in Range(refs) \X Range(others) : p[1].user # p[2].user \/ p[1].role # p[2].role}
<1>5. ASSUME NEW i \in DOMAIN each, NEW p \in Range(each[i]) PROVE p \in Both
  <2>1. refs[i] \in Range(refs)
    BY <1>2 DEF Range
  <2>2. PICK o \in Range(others) : p = <<refs[i], o>> /\ (refs[i].user # o.user \/ refs[i].role # o.role)
    BY <1>1, <1>2, <1>5
  <2> QED BY <2>1, <2>2
<1>6. ASSUME NEW p \in Both PROVE \E i \in DOMAIN each : p \in Range(each[i])
  <2>1. PICK i \in DOMAIN refs : p[1] = refs[i]
    BY DEF Range
  <2> QED BY <1>1, <1>2, <2>1
<1>7. UNION {Range(each[i]) : i \in DOMAIN each} = Both
  <2> HIDE DEF Both
  <2> QED BY <1>5, <1>6
<1>8. AllPairs(refs, others) = FlattenSeq(each)
  BY Zenon DEF AllPairs, each
<1> QED BY <1>4, <1>7, <1>8, Zenon

LEMMA BuildPairsHolds ==
  ASSUME NEW S, NEW rs \in Seq(S), Len(rs) >= 2
  PROVE  /\ BuildPairs(rs) \in Seq(S \X S)
         /\ Range(BuildPairs(rs)) \in SUBSET (Range(rs) \X Range(rs))
         /\ (\E r \in Range(rs) : IsAdminResponse(r)) =>
              Range(BuildPairs(rs)) =
                {p \in Range(rs) \X Range(rs) : IsAdminResponse(p[1]) /\ ~IsAdminResponse(p[2])}
<1> DEFINE admins == Admins(rs)
           refs   == IF admins = << >> THEN <<Head(rs)>> ELSE admins
           others == IF admins = << >> THEN Tail(rs) ELSE Others(rs)
<1>1. /\ admins \in Seq(S) /\ Range(admins) = {r \in Range(rs) : r.role = "admin"}
      /\ Others(rs) \in Seq(S) /\ Range(Others(rs)) = {r \in Range(rs) : r.role # "admin"}
  BY AdminsHolds
<1>2. BuildPairs(rs) = AllPairs(refs, others)
  BY Zenon DEF BuildPairs, AllPairs
<1>3. /\ <<Head(rs)>> \in Seq(S) /\ Tail(rs) \in Seq(S)
      /\ Range(<<Head(rs)>>) \subseteq Range(rs) /\ Range(Tail(rs)) \subseteq Range(rs)
  <2>1. Head(rs) = rs[1] /\ 1 \in DOMAIN rs
    OBVIOUS
  <2>2. \A i \in DOMAIN Tail(rs) : i + 1 \in DOMAIN rs /\ Tail(rs)[i] = rs[i + 1]
    OBVIOUS
  <2> QED BY <2>1, <2>2 DEF Range
<1> HIDE DEF admins
<1>4. /\ refs \in Seq(S) /\ others \in Seq(S)
      /\ Range(refs) \subseteq Range(rs) /\ Range(others) \subseteq Range(rs)
  BY <1>1, <1>3
<1>5. ASSUME \E r \in Range(rs) : IsAdminResponse(r)
      PROVE  /\ Range(refs) = {r \in Range(rs) : r.role = "admin"}
             /\ Range(others) = {r \in Range(rs) : r.role # "admin"}
  <2>1. admins # << >>
    BY <1>1, <1>5 DEF IsAdminResponse, Range
  <2> QED BY <1>1, <2>1
<1> HIDE DEF refs, others
<1>6. /\ BuildPairs(rs) \in Seq(S \X S)
      /\ Range(BuildPairs(rs)) = {p \in Range(refs) \X Range(others) :
                                    p[1].user # p[2].user \/ p[1].role # p[2].role}
  BY <1>2, <1>4, AllPairsHold
<1> QED BY <1>4, <1>5, <1>6 DEF IsAdminResponse

\* What a report may compare of the responses of X, whatever order they came in
Diff(p) == CompareResponses(p[1], p[2])
IssuesAmong(S) == UNION {IssuesOf(Diff(p)) : p \in S \X S}
Challenges(a, b) == IsAdminResponse(a) /\ ~IsAdminResponse(b) /\ Key(a) = Key(b)

PairedFrom(P, X) ==
  /\ P \in SUBSET (X \X X)
  /\ \A p \in P, r \in X : IsAdminResponse(r) /\ Key(r) = Key(p[1]) => Challenges(p[1], p[2])
  /\ \A a, b \in X : Challenges(a, b) => <<a, b>> \in P

\* The pairs of a group
LEMMA GroupPairs ==
  ASSUME NEW S, NEW X \in SUBSET S, NEW buffer, Grouped(buffer, S, X), NEW g \in DOMAIN buffer,
         Len(buffer[g].responses) >= 2
  PROVE  LET pairs == BuildPairs(buffer[g].responses)
         IN /\ pairs \in Seq(S \X S)
            /\ \A p \in Range(pairs) :
                 /\ p \in X \X X /\ Key(p[1]) = buffer[g].key
                 /\ \A r \in X : IsAdminResponse(r) /\ Key(r) = Key(p[1]) => Challenges(p[1], p[2])
            /\ \A a, b \in X : Challenges(a, b) /\ Key(a) = buffer[g].key => <<a, b>> \in Range(pairs)
<1> PICK rs : rs = buffer[g].responses
  OBVIOUS
<1> PICK key : key = buffer[g].key
  OBVIOUS
<1>1. rs \in Seq(S) /\ Range(rs) = {r \in X : Key(r) = key}
  BY GroupIs DEF Grouped
<1>2. /\ BuildPairs(rs) \in Seq(S \X S)
      /\ Range(BuildPairs(rs)) \in SUBSET (Range(rs) \X Range(rs))
      /\ (\E r \in Range(rs) : IsAdminResponse(r)) =>
           Range(BuildPairs(rs)) =
             {p \in Range(rs) \X Range(rs) : IsAdminResponse(p[1]) /\ ~IsAdminResponse(p[2])}
  BY <1>1, BuildPairsHolds
<1>3. ASSUME NEW p \in Range(BuildPairs(rs))
      PROVE  /\ p \in X \X X /\ Key(p[1]) = key
             /\ \A r \in X : IsAdminResponse(r) /\ Key(r) = Key(p[1]) => Challenges(p[1], p[2])
  <2>1. p \in Range(rs) \X Range(rs)
    BY <1>2
  <2>2. p \in X \X X /\ Key(p[1]) = key /\ Key(p[2]) = key
    BY <1>1, <2>1
  <2>3. ASSUME NEW r \in X, IsAdminResponse(r), Key(r) = Key(p[1]) PROVE Challenges(p[1], p[2])
    <3>1. r \in Range(rs)
      BY <1>1, <2>2, <2>3
    <3> QED BY <1>2, <2>2, <2>3, <3>1 DEF Challenges
  <2> QED BY <2>2, <2>3
<1>4. ASSUME NEW a \in X, NEW b \in X, Challenges(a, b), Key(a) = key
      PROVE  <<a, b>> \in Range(BuildPairs(rs))
  <2>1. a \in Range(rs) /\ b \in Range(rs) /\ IsAdminResponse(a) /\ ~IsAdminResponse(b)
    BY <1>1, <1>4 DEF Challenges
  <2> QED BY <1>2, <2>1
<1> QED BY <1>2, <1>3, <1>4

\* A group that two responses challenge each other in has two responses.
LEMMA TwoResponses ==
  ASSUME NEW S, NEW X \in SUBSET S, NEW buffer, Grouped(buffer, S, X),
         NEW a \in X, NEW b \in X, Challenges(a, b)
  PROVE  \E g \in DOMAIN buffer : buffer[g].key = Key(a) /\ Len(buffer[g].responses) >= 2
<1>1. PICK g \in DOMAIN buffer : buffer[g].key = Key(a)
  BY DEF Grouped
<1> PICK rs : rs = buffer[g].responses
  OBVIOUS
<1>2. rs \in Seq(S) /\ a \in Range(rs) /\ b \in Range(rs) /\ a # b
  <2>1. rs \in Seq(S) /\ Range(rs) = {r \in X : Key(r) = Key(a)}
    <3>1. rs \in Seq(S)
      BY GroupIs, Zenon
    <3>2. Range(rs) = {r \in X : Key(r) = Key(a)}
      BY <1>1, Zenon DEF Grouped
    <3> QED BY <3>1, <3>2
  <2> QED BY <2>1 DEF Challenges
<1>3. PICK i \in DOMAIN rs, j \in DOMAIN rs : i # j
  BY <1>2 DEF Range
<1>4. DOMAIN rs = 1..Len(rs) /\ Len(rs) \in Nat
  BY <1>2
<1>5. Len(rs) >= 2
  BY <1>3, <1>4
<1> QED BY <1>1, <1>5

PairsOf(buffer) ==
  LET groups == Picked(buffer, {g \in DOMAIN buffer : Len(buffer[g].responses) >= 2})
  IN FlattenSeq([g \in DOMAIN groups |-> BuildPairs(groups[g].responses)])

LEMMA PairsHold ==
  ASSUME NEW S, NEW X \in SUBSET S, NEW buffer, Grouped(buffer, S, X)
  PROVE  PairsOf(buffer) \in Seq(S \X S) /\ PairedFrom(Range(PairsOf(buffer)), X)
<1> DEFINE I == {g \in DOMAIN buffer : Len(buffer[g].responses) >= 2}
<1>a. PICK groups : groups = Picked(buffer, I)
  OBVIOUS
<1>b. PICK each : each = [g \in DOMAIN groups |-> BuildPairs(groups[g].responses)]
  OBVIOUS
<1>1. groups \in Seq(GroupsOf(S)) /\ Range(groups) = {buffer[g] : g \in I}
  <2>1. buffer \in Seq(GroupsOf(S)) /\ I \cap DOMAIN buffer = I
    BY DEF Grouped
  <2> HIDE DEF I
  <2> QED BY <1>a, <2>1, PickedHolds
<1>2. PairsOf(buffer) = FlattenSeq(each)
  BY <1>a, <1>b, Zenon DEF PairsOf
<1>3. ASSUME NEW k \in DOMAIN groups PROVE \E g \in I : groups[k] = buffer[g]
  BY <1>1 DEF Range
<1>4. ASSUME NEW g \in I PROVE \E k \in DOMAIN groups : groups[k] = buffer[g]
  BY <1>1 DEF Range
<1>5. DOMAIN each = DOMAIN groups /\ \A k \in DOMAIN groups : each[k] = BuildPairs(groups[k].responses)
  BY <1>b
<1>6. \A g \in I : BuildPairs(buffer[g].responses) \in Seq(S \X S)
  BY GroupPairs
<1>7. each \in Seq(Seq(S \X S))
  <2>1. \A k \in DOMAIN groups : each[k] \in Seq(S \X S)
    BY <1>3, <1>5, <1>6
  <2>2. each = [k \in DOMAIN groups |-> each[k]]
    BY <1>b
  <2> QED BY <1>1, <1>5, <2>1, <2>2, MadeSeq
<1>8. /\ FlattenSeq(each) \in Seq(S \X S)
      /\ Range(FlattenSeq(each)) = UNION {Range(each[i]) : i \in DOMAIN each}
  BY <1>7, FlattenHolds
<1>c. PICK P : P = Range(FlattenSeq(each))
  OBVIOUS
<1>9. ASSUME NEW p \in P
      PROVE  /\ p \in X \X X
             /\ \A r \in X : IsAdminResponse(r) /\ Key(r) = Key(p[1]) => Challenges(p[1], p[2])
  <2>1. PICK k \in DOMAIN each : p \in Range(each[k])
    BY <1>8, <1>c
  <2>2. PICK g \in I : groups[k] = buffer[g]
    BY <1>3, <1>5
  <2>3. p \in Range(BuildPairs(buffer[g].responses))
    BY <1>5, <2>1, <2>2
  <2> QED BY <2>3, GroupPairs
<1>10. ASSUME NEW a \in X, NEW b \in X, Challenges(a, b) PROVE <<a, b>> \in P
  <2>1. PICK g \in I : buffer[g].key = Key(a)
    BY <1>10, TwoResponses
  <2>2. PICK k \in DOMAIN groups : groups[k] = buffer[g]
    BY <1>4
  <2>3. <<a, b>> \in Range(BuildPairs(buffer[g].responses))
    BY <1>10, <2>1, GroupPairs
  <2> QED BY <1>5, <1>8, <1>c, <2>2, <2>3
<1> HIDE DEF I
<1>11. PairedFrom(P, X)
  BY <1>9, <1>10 DEF PairedFrom
<1> QED BY <1>2, <1>8, <1>11, <1>c

DiffsIn(pairs) == [i \in DOMAIN pairs |-> Diff(pairs[i])]
IssuesIn(pairs) == FlattenSeq([i \in DOMAIN pairs |-> ClassifyDiff(Diff(pairs[i]))])

LEMMA ProcessHolds ==
  ASSUME NEW S, NEW X \in SUBSET S, NEW c, Collecting(c, S, X)
  PROVE  /\ ProcessBuffered(c).diffs = DiffsIn(PairsOf(c.buffer))
         /\ ProcessBuffered(c).issues = IssuesIn(PairsOf(c.buffer))
         /\ ProcessBuffered(c).buffer = c.buffer /\ ProcessBuffered(c).requests = c.requests
<1>1. PICK buffer, requests :
        /\ c = [buffer |-> buffer, diffs |-> << >>, issues |-> << >>, requests |-> requests]
        /\ Grouped(buffer, S, X)
  BY DEF Collecting
<1>2. c.buffer = buffer /\ c.diffs = << >> /\ c.requests = requests
  BY <1>1
<1>a. PICK pairs : pairs = PairsOf(buffer)
  OBVIOUS
<1>3. pairs \in Seq(S \X S)
  BY <1>1, <1>a, PairsHold
<1>4. PICK diffs : diffs = DiffsIn(pairs)
  OBVIOUS
<1>5. PICK issues : issues = FlattenSeq([i \in DOMAIN diffs |-> ClassifyDiff(diffs[i])])
  OBVIOUS
<1>6. ProcessBuffered(c) = [c EXCEPT !.diffs = c.diffs \o diffs, !.issues = issues]
  <2>1. pairs = PairsOf(c.buffer)
    BY <1>2, <1>a
  <2>2. \A p : Diff(p) = CompareResponses(p[1], p[2])
    BY DEF Diff
  <2> QED BY <2>1, <1>4, <1>5, Zenon DEF ProcessBuffered, PairsOf, DiffsIn, Diff
<1>7. DOMAIN diffs = DOMAIN pairs /\ \A i \in DOMAIN pairs : diffs[i] = Diff(pairs[i])
  BY <1>4 DEF DiffsIn
<1>8. << >> \o diffs = diffs
  <2> DEFINE T == {Diff(p) : p \in S \X S}
  <2>1. \A i \in DOMAIN pairs : diffs[i] \in T
    BY <1>3, <1>7
  <2>2. diffs = [i \in DOMAIN pairs |-> diffs[i]]
    BY <1>4 DEF DiffsIn
  <2> HIDE DEF T
  <2>3. diffs \in Seq(T)
    BY <1>3, <1>7, <2>1, <2>2, MadeSeq
  <2> QED BY <2>3
<1>9. issues = IssuesIn(pairs)
  <2>1. [i \in DOMAIN diffs |-> ClassifyDiff(diffs[i])] = [i \in DOMAIN pairs |-> ClassifyDiff(Diff(pairs[i]))]
    BY <1>7, Zenon
  <2> QED BY <1>5, <2>1, Zenon DEF IssuesIn
<1>10. ProcessBuffered(c) = [buffer |-> buffer, diffs |-> diffs, issues |-> issues, requests |-> requests]
  BY <1>1, <1>2, <1>6, <1>8
<1>11. pairs = PairsOf(c.buffer)
  BY <1>2, <1>a
<1>12. /\ ProcessBuffered(c).diffs = diffs /\ ProcessBuffered(c).issues = issues
       /\ ProcessBuffered(c).buffer = buffer /\ ProcessBuffered(c).requests = requests
  BY <1>10
<1> QED BY <1>2, <1>4, <1>9, <1>11, <1>12, Zenon

LEMMA IssuesHold ==
  ASSUME NEW S, NEW pairs \in Seq(S \X S)
  PROVE  /\ IssuesIn(pairs) \in Seq(IssuesAmong(S))
         /\ Range(IssuesIn(pairs)) = UNION {Range(ClassifyDiff(Diff(p))) : p \in Range(pairs)}
<1>1. PICK each : each = [i \in DOMAIN pairs |-> ClassifyDiff(Diff(pairs[i]))]
  OBVIOUS
<1>2. DOMAIN each = DOMAIN pairs /\ \A i \in DOMAIN pairs : each[i] = ClassifyDiff(Diff(pairs[i]))
  BY <1>1
<1>3. \A i \in DOMAIN pairs : each[i] \in Seq(IssuesAmong(S))
  <2> SUFFICES ASSUME NEW i \in DOMAIN pairs PROVE each[i] \in Seq(IssuesAmong(S))
    OBVIOUS
  <2>1. pairs[i] \in S \X S
    OBVIOUS
  <2>2. IssuesOf(Diff(pairs[i])) \subseteq IssuesAmong(S)
    BY <2>1, Zenon DEF IssuesAmong
  <2>3. each[i] \in Seq(IssuesOf(Diff(pairs[i])))
    BY <1>2, ClassifyHolds
  <2> QED BY <2>2, <2>3
<1>4. each = [i \in DOMAIN pairs |-> each[i]]
  BY <1>1
<1>5. each \in Seq(Seq(IssuesAmong(S)))
  BY <1>2, <1>3, <1>4, MadeSeq
<1>6. /\ FlattenSeq(each) \in Seq(IssuesAmong(S))
      /\ Range(FlattenSeq(each)) = UNION {Range(each[i]) : i \in DOMAIN each}
  BY <1>5, FlattenHolds
<1>7. UNION {Range(each[i]) : i \in DOMAIN each} = UNION {Range(ClassifyDiff(Diff(p))) : p \in Range(pairs)}
  <2>1. ASSUME NEW i \in DOMAIN each PROVE \E p \in Range(pairs) : each[i] = ClassifyDiff(Diff(p))
    BY <1>2 DEF Range
  <2>2. ASSUME NEW p \in Range(pairs) PROVE \E i \in DOMAIN each : each[i] = ClassifyDiff(Diff(p))
    BY <1>2 DEF Range
  <2> QED BY <2>1, <2>2
<1> QED BY <1>1, <1>6, <1>7, Zenon DEF IssuesIn

\* Sorting loses no issue and adds none.
LEMMA BySeverityHolds ==
  ASSUME NEW S, NEW issues \in Seq(S), \A issue \in S : issue.severity \in Range(Severities)
  PROVE  BySeverity(issues) \in Seq(S) /\ Range(BySeverity(issues)) = Range(issues)
<1>1. PICK each : each = [k \in DOMAIN Severities |-> OfSeverity(issues, Severities[k])]
  OBVIOUS
<1>2. ASSUME NEW severity
      PROVE  /\ OfSeverity(issues, severity) \in Seq(S)
             /\ Range(OfSeverity(issues, severity)) = {issue \in Range(issues) : issue.severity = severity}
  <2>1. PICK I : I = {i \in DOMAIN issues : issues[i].severity = severity}
    OBVIOUS
  <2>2. OfSeverity(issues, severity) = Picked(issues, I)
    BY <2>1, Zenon DEF OfSeverity
  <2>3. Picked(issues, I) \in Seq(S) /\ Range(Picked(issues, I)) = {issues[i] : i \in I \cap DOMAIN issues}
    BY PickedHolds
  <2>4. {issues[i] : i \in I \cap DOMAIN issues} = {issue \in Range(issues) : issue.severity = severity}
    BY <2>1 DEF Range
  <2> QED BY <2>2, <2>3, <2>4, Zenon
<1>3. DOMAIN each = DOMAIN Severities /\ \A k \in DOMAIN Severities : each[k] = OfSeverity(issues, Severities[k])
  BY <1>1
<1>4. each \in Seq(Seq(S))
  <2>1. each = [k \in DOMAIN Severities |-> each[k]]
    BY <1>1
  <2>2. Severities \in Seq(Range(Severities))
    <3>1. Severities \in Seq({"CRITICAL", "HIGH", "MEDIUM", "LOW", "INFO"})
      BY DEF Severities
    <3> QED BY <3>1, SeverityNames
  <2>3. \A k \in DOMAIN Severities : each[k] \in Seq(S)
    BY <1>2, <1>3
  <2> QED BY <1>3, <2>1, <2>2, <2>3, MadeSeq
<1>5. /\ FlattenSeq(each) \in Seq(S)
      /\ Range(FlattenSeq(each)) = UNION {Range(each[i]) : i \in DOMAIN each}
  BY <1>4, FlattenHolds
<1>6. UNION {Range(each[i]) : i \in DOMAIN each} = Range(issues)
  <2>1. \A issue \in Range(issues) : \E k \in DOMAIN Severities : issue.severity = Severities[k]
    BY DEF Range
  <2> QED BY <1>2, <1>3, <2>1
<1> QED BY <1>1, <1>5, <1>6, Zenon DEF BySeverity

\* The issues of a report, whatever the order of the responses
LEMMA FlushHolds ==
  ASSUME NEW S, NEW seq \in Seq(S)
  PROVE  \E P : /\ PairedFrom(P, Range(seq))
                /\ LET issues == Flush(FoldLeft(OnResult, NewCollector, seq)).issues
                   IN /\ issues \in Seq(IssuesAmong(S))
                      /\ Range(issues) = UNION {Range(ClassifyDiff(Diff(p))) : p \in P}
<1>1. PICK c : c = FoldLeft(OnResult, NewCollector, seq)
  OBVIOUS
<1>2. Range(seq) \in SUBSET S
  BY SeqRange
<1>3. Collecting(c, S, Range(seq))
  BY <1>1, CollectHolds
<1>4. PICK pairs : pairs = PairsOf(c.buffer)
  OBVIOUS
<1>5. pairs \in Seq(S \X S) /\ PairedFrom(Range(pairs), Range(seq))
  BY <1>2, <1>3, <1>4, PairsHold DEF Collecting
<1>6. PICK issues : issues = IssuesIn(pairs)
  OBVIOUS
<1>7. c.issues = << >> /\ ProcessBuffered(c).issues = issues
  <2>1. c.issues = << >>
    BY <1>3 DEF Collecting
  <2> QED BY <1>2, <1>3, <1>4, <1>6, <2>1, ProcessHolds
<1>8. Flush(c).issues = BySeverity(issues)
  BY <1>7 DEF Flush, BuildReport
<1>9. /\ issues \in Seq(IssuesAmong(S))
      /\ Range(issues) = UNION {Range(ClassifyDiff(Diff(p))) : p \in Range(pairs)}
  BY <1>5, <1>6, IssuesHold
<1>10. \A issue \in IssuesAmong(S) : issue.severity \in Range(Severities)
  BY SeverityNames DEF IssuesAmong, IssuesOf, NewIssue
<1>11. BySeverity(issues) \in Seq(IssuesAmong(S)) /\ Range(BySeverity(issues)) = Range(issues)
  BY <1>9, <1>10, BySeverityHolds
<1> QED BY <1>1, <1>5, <1>8, <1>9, <1>11

----------------------------------------------------------------------------
(* The findings of a report, from the set of the answered rows alone       *)

Reported(i, j) ==
  {<<issue.type, issue.severity, i, j>> :
     issue \in Range(ClassifyDiff(CompareResponses(ReportResponse(i), ReportResponse(j))))}
Compared(X) == {p \in X \X X : IsAdmin(p[1]) /\ ~IsAdmin(p[2]) /\ SameEndpoint(p[1], p[2])}
FindingsOf(X) == UNION {Reported(p[1], p[2]) : p \in Compared(X)}

LEMMA ResponseIs ==
  ASSUME NEW i
  PROVE  /\ ReportResponse(i).task = i
         /\ Key(ReportResponse(i)) = <<rows[i].method, rows[i].url>>
         /\ ReportResponse(i).status = answers[i].status
         /\ ReportResponse(i).body = answers[i].body
         /\ IsAdmin(i) <=> IsAdminResponse(ReportResponse(i))
BY DEF ReportResponse, Response, Key, IsAdmin, IsAdminResponse

LEMMA ChallengesIs ==
  ASSUME NEW i, NEW j
  PROVE  Challenges(ReportResponse(i), ReportResponse(j)) <=>
           IsAdmin(i) /\ ~IsAdmin(j) /\ SameEndpoint(i, j)
BY ResponseIs DEF Challenges, SameEndpoint

LEMMA IssueIs ==
  ASSUME NEW diff, NEW issue \in Range(ClassifyDiff(diff))
  PROVE  issue.diff = diff
<1>1. PICK k \in DOMAIN ClassifyDiff(diff) : issue = ClassifyDiff(diff)[k]
  BY DEF Range
<1>2. issue \in IssuesOf(diff)
  BY <1>1, ClassifyHolds
<1> QED BY <1>2 DEF IssuesOf, NewIssue

LEMMA DiffIs ==
  ASSUME NEW a, NEW b
  PROVE  Diff(<<a, b>>) = CompareResponses(a, b) /\ CompareResponses(a, b).a = a
           /\ CompareResponses(a, b).b = b
BY DEF Diff, CompareResponses

LEMMA ResponsesIs ==
  ASSUME NEW A, NEW order \in Seq(A)
  PROVE  LET responses == Each(order, ReportResponse)
         IN /\ responses \in Seq({ReportResponse(i) : i \in A})
            /\ Range(responses) = {ReportResponse(i) : i \in Range(order)}
<1>1. PICK responses : responses = [k \in DOMAIN order |-> ReportResponse(order[k])]
  OBVIOUS
<1>2. Each(order, ReportResponse) = responses
  BY <1>1, Zenon DEF Each
<1>3. DOMAIN responses = DOMAIN order /\ \A k \in DOMAIN order : responses[k] = ReportResponse(order[k])
  BY <1>1
<1>4. responses = [k \in DOMAIN order |-> responses[k]]
  BY <1>1
<1>5. PICK T : T = {ReportResponse(i) : i \in A}
  OBVIOUS
<1>6. \A k \in DOMAIN order : responses[k] \in T
  BY <1>3, <1>5
<1>7. responses \in Seq(T)
  BY <1>3, <1>4, <1>6, MadeSeq
<1>8. Range(responses) = {ReportResponse(i) : i \in Range(order)}
  BY <1>3, Zenon DEF Range
<1> QED BY <1>2, <1>5, <1>7, <1>8, Zenon

LEMMA FindingsIs ==
  ASSUME NEW A, NEW order \in Seq(A)
  PROVE  Findings(order) = FindingsOf(Range(order))
<1>1. PICK responses : responses = Each(order, ReportResponse)
  OBVIOUS
<1>2. /\ responses \in Seq({ReportResponse(i) : i \in A})
      /\ Range(responses) = {ReportResponse(i) : i \in Range(order)}
  BY <1>1, ResponsesIs
<1>3. PICK P : /\ PairedFrom(P, Range(responses))
               /\ LET issues == Flush(FoldLeft(OnResult, NewCollector, responses)).issues
                  IN /\ issues \in Seq(IssuesAmong({ReportResponse(i) : i \in A}))
                     /\ Range(issues) = UNION {Range(ClassifyDiff(Diff(p))) : p \in P}
  BY <1>2, FlushHolds
<1>4. PICK issues : issues = GenerateReport(order).issues
  OBVIOUS
<1>5. Range(issues) = UNION {Range(ClassifyDiff(Diff(p))) : p \in P}
  BY <1>1, <1>3, <1>4 DEF GenerateReport
<1>6. PICK Referenced : Referenced =
        {k \in DOMAIN issues : \E j \in Range(order) :
           IsAdmin(j) /\ SameEndpoint(issues[k].diff.a.task, j)}
  OBVIOUS
<1>7. Findings(order) = {<<issues[k].type, issues[k].severity, issues[k].diff.a.task,
                          issues[k].diff.b.task>> : k \in Referenced}
  BY <1>4, <1>6, Zenon DEF Findings
<1>8. ASSUME NEW k \in Referenced
      PROVE  <<issues[k].type, issues[k].severity, issues[k].diff.a.task,
               issues[k].diff.b.task>> \in FindingsOf(Range(order))
  <2>1. k \in DOMAIN issues /\ issues[k] \in Range(issues)
    BY <1>6 DEF Range
  <2>2. PICK p \in P : issues[k] \in Range(ClassifyDiff(Diff(p)))
    BY <1>5, <2>1
  <2>3. p \in Range(responses) \X Range(responses)
    BY <1>3 DEF PairedFrom
  <2>4. PICK i \in Range(order), j \in Range(order) : p = <<ReportResponse(i), ReportResponse(j)>>
    BY <1>2, <2>3
  <2>5. /\ Diff(p) = CompareResponses(ReportResponse(i), ReportResponse(j))
        /\ issues[k].diff = Diff(p)
        /\ issues[k].diff.a.task = i /\ issues[k].diff.b.task = j
    BY <2>2, <2>4, IssueIs, DiffIs, ResponseIs
  <2>6. PICK l \in Range(order) : IsAdmin(l) /\ SameEndpoint(i, l)
    BY <1>6, <2>5
  <2>7. ReportResponse(l) \in Range(responses) /\ IsAdminResponse(ReportResponse(l))
          /\ Key(ReportResponse(l)) = Key(p[1])
    <3>1. p[1] = ReportResponse(i)
      BY <2>4
    <3>2. Key(ReportResponse(l)) = Key(ReportResponse(i))
      BY <2>6, ResponseIs DEF SameEndpoint
    <3>3. ReportResponse(l) \in Range(responses)
      BY <1>2
    <3>4. IsAdminResponse(ReportResponse(l))
      BY <2>6, ResponseIs
    <3> QED BY <3>1, <3>2, <3>3, <3>4, Zenon
  <2>8. Challenges(p[1], p[2])
    BY <1>3, <2>7 DEF PairedFrom
  <2>9. <<i, j>> \in Compared(Range(order))
    BY <2>4, <2>8, ChallengesIs DEF Compared
  <2>10. <<issues[k].type, issues[k].severity, i, j>> \in Reported(i, j)
    BY <2>2, <2>5 DEF Reported
  <2> QED BY <2>5, <2>9, <2>10 DEF FindingsOf
<1>9. ASSUME NEW f \in FindingsOf(Range(order))
      PROVE  \E k \in Referenced : f = <<issues[k].type, issues[k].severity, issues[k].diff.a.task,
                                         issues[k].diff.b.task>>
  <2>1. PICK i \in Range(order), j \in Range(order) :
          IsAdmin(i) /\ ~IsAdmin(j) /\ SameEndpoint(i, j) /\ f \in Reported(i, j)
    BY DEF FindingsOf, Compared
  <2>2. PICK p : p = <<ReportResponse(i), ReportResponse(j)>>
    OBVIOUS
  <2>3. Challenges(ReportResponse(i), ReportResponse(j))
    BY <2>1, ChallengesIs
  <2>4. p \in P
    BY <1>2, <1>3, <2>2, <2>3 DEF PairedFrom
  <2>5. Diff(p) = CompareResponses(ReportResponse(i), ReportResponse(j))
    BY <2>2, DiffIs
  <2>6. PICK issue \in Range(ClassifyDiff(Diff(p))) : f = <<issue.type, issue.severity, i, j>>
    BY <2>1, <2>5 DEF Reported
  <2>7. issue \in Range(issues)
    BY <1>5, <2>4, <2>6
  <2>8. PICK k \in DOMAIN issues : issues[k] = issue
    BY <2>7 DEF Range
  <2>9. issue.diff.a.task = i /\ issue.diff.b.task = j
    <3>1. issue.diff = CompareResponses(ReportResponse(i), ReportResponse(j))
      BY <2>5, <2>6, IssueIs
    <3>2. issue.diff.a = ReportResponse(i) /\ issue.diff.b = ReportResponse(j)
      BY <3>1, DiffIs, ZenonT(60)
    <3> QED BY <3>2, ResponseIs
  <2>10. SameEndpoint(i, i)
    BY DEF SameEndpoint
  <2>11. k \in Referenced
    BY <1>6, <2>1, <2>8, <2>9, <2>10
  <2> QED BY <2>6, <2>8, <2>9, <2>11
<1> QED BY <1>7, <1>8, <1>9

----------------------------------------------------------------------------
(* Every order of a finite set *)

LEMMA OrderHolds ==
  ASSUME NEW A, IsFiniteSet(A), NEW order \in SetToSeqs(A)
  PROVE  order \in Seq(A) /\ Range(order) = A
<1> PICK n \in Nat : n = Cardinality(A)
  BY FS_CardinalityType
<1>1. order \in [1..n -> A] /\ \A i, j \in 1..n : i # j => order[i] # order[j]
  BY DEF SetToSeqs
<1>2. order \in Injection(1..n, A)
  BY <1>1 DEF Injection, IsInjective
<1>3. IsFiniteSet(1..n) /\ Cardinality(1..n) = n
  BY FS_Interval
<1>4. order \in Surjection(1..n, A)
  BY <1>2, <1>3, FS_Injection
<1>5. Range(order) = A
  BY <1>1, <1>4 DEF Surjection, Range
<1> QED BY <1>1, <1>5, SeqDef

LEMMA SetToSeqHolds ==
  ASSUME NEW A, IsFiniteSet(A)
  PROVE  SetToSeq(A) \in SetToSeqs(A) /\ SetToSeq(A) \in Seq(A) /\ Range(SetToSeq(A)) = A
<1> PICK n \in Nat : n = Cardinality(A)
  BY FS_CardinalityType
<1>1. PICK m \in Nat : ExistsBijection(1..m, A)
  BY FS_NatBijection
<1>2. m = n
  BY <1>1, FS_CountingElements
<1>3. \E f \in [1..n -> A] : IsInjective(f)
  BY <1>1, <1>2 DEF ExistsBijection, Bijection, Injection
<1>4. SetToSeq(A) \in [1..n -> A] /\ IsInjective(SetToSeq(A))
  BY <1>3, Zenon DEF SetToSeq
<1>5. SetToSeq(A) \in SetToSeqs(A)
  BY <1>4 DEF SetToSeqs, IsInjective
<1> QED BY <1>5, OrderHolds

----------------------------------------------------------------------------
(* The invariants *)

FiniteAnswers == IsFiniteSet(DOMAIN answers)

\* Only finitely many rows have an answer, so that a report reads a list of them
\* (_save_response, generate_report).
THEOREM FiniteAnswersCorrect == Spec => []FiniteAnswers
<1>1. Init => FiniteAnswers
  <2> SUFFICES ASSUME Init PROVE IsFiniteSet(DOMAIN answers)
    BY DEF FiniteAnswers
  <2>1. DOMAIN answers = {}
    BY DEF Init
  <2> QED BY <2>1, FS_EmptySet
<1>2. FiniteAnswers /\ [Next]_vars => FiniteAnswers'
  <2> SUFFICES ASSUME FiniteAnswers, [Next]_vars PROVE FiniteAnswers'
    OBVIOUS
  <2>1. ASSUME NEW i, NEW response, SaveResponse(i, response) PROVE FiniteAnswers'
    <3>1. DOMAIN answers' = DOMAIN answers \cup {i}
      BY <2>1 DEF SaveResponse
    <3> QED BY <3>1, FS_AddElement DEF FiniteAnswers
  <2>2. CASE Work
    BY <2>1, <2>2 DEF Work, Succeed, Throttle, Fail
  <2>3. CASE Discover
    BY <2>3 DEF Discover, DiscoverRejected, DiscoverFails, DiscoverAccepted, FiniteAnswers
  <2>4. CASE UNCHANGED vars
    BY <2>4 DEF vars, FiniteAnswers
  <2> QED BY <2>2, <2>3, <2>4 DEF Next
<1> QED BY <1>1, <1>2, PTL DEF Spec

LEMMA AnsweredHolds ==
  ASSUME FiniteAnswers
  PROVE  IsFiniteSet(Answered)
<1>1. Answered \subseteq DOMAIN answers
  BY DEF Answered
<1> QED BY <1>1, FS_Subset DEF FiniteAnswers

LEMMA SomeOrderHolds ==
  ASSUME FiniteAnswers
  PROVE  SomeOrder \in Seq(Answered) /\ Range(SomeOrder) = Answered
           /\ Findings(SomeOrder) = FindingsOf(Answered)
<1>1. SomeOrder \in Seq(Answered) /\ Range(SomeOrder) = Answered
  BY AnsweredHolds, SetToSeqHolds DEF SomeOrder
<1> QED BY <1>1, FindingsIs

\* The report does not depend on the order the database returns the rows in,
\* once an administrator has answered: whatever the documents, the targets and
\* the bodies are (ReportService, on_result, _build_pairs).
THEOREM OrderIndependentCorrect == Spec => []OrderIndependent
<1>1. ASSUME FiniteAnswers PROVE OrderIndependent
  <2>1. ASSUME NEW order \in SetToSeqs(Answered) PROVE Findings(order) = Findings(SomeOrder)
    <3>1. order \in Seq(Answered) /\ Range(order) = Answered
      BY <1>1, AnsweredHolds, OrderHolds
    <3>2. Findings(order) = FindingsOf(Answered)
      BY <3>1, FindingsIs
    <3> QED BY <1>1, <3>2, SomeOrderHolds
  <2> QED BY <2>1 DEF OrderIndependent
<1> QED BY <1>1, FiniteAnswersCorrect, PTL

\* What a report of some of the rows finds, the report of all of them finds
\* (on_result, process_buffered, _save_response).
THEOREM FindingsGrowCorrect == Spec => []FindingsGrow
<1>1. ASSUME FiniteAnswers PROVE FindingsGrow
  <2>1. ASSUME NEW some \in SUBSET Answered
        PROVE  Findings(SetToSeq(some)) \subseteq Findings(SomeOrder)
    <3>1. IsFiniteSet(some)
      BY <1>1, AnsweredHolds, FS_Subset
    <3>2. Findings(SetToSeq(some)) = FindingsOf(some)
      BY <3>1, SetToSeqHolds, FindingsIs
    <3>3. FindingsOf(some) \subseteq FindingsOf(Answered)
      BY DEF FindingsOf, Compared
    <3> QED BY <1>1, <3>2, <3>3, SomeOrderHolds
  <2> QED BY <2>1 DEF FindingsGrow
<1> QED BY <1>1, FiniteAnswersCorrect, PTL

\* The differ and the classifier agree on every difference of a report
\* (compare_responses, classify_diff).
THEOREM EveryAnomalyClassifiedCorrect == Spec => []EveryAnomalyClassified
<1>1. ASSUME FiniteAnswers PROVE EveryAnomalyClassified
  <2>1. PICK responses : responses = Each(SomeOrder, ReportResponse)
    OBVIOUS
  <2>2. PICK S : responses \in Seq(S)
    BY <1>1, <2>1, SomeOrderHolds, ResponsesIs
  <2>3. PICK c : c = FoldLeft(OnResult, NewCollector, responses)
    OBVIOUS
  <2>4. Collecting(c, S, Range(responses)) /\ Range(responses) \in SUBSET S
    BY <2>2, <2>3, CollectHolds, SeqRange
  <2>5. PICK pairs : pairs = PairsOf(c.buffer)
    OBVIOUS
  <2>6. PICK diffs : diffs = ProcessBuffered(c).diffs
    OBVIOUS
  <2>7. diffs = DiffsIn(pairs)
    BY <2>4, <2>5, <2>6, ProcessHolds
  <2>8. ASSUME NEW k \in DOMAIN diffs PROVE diffs[k].anomaly <=> ClassifyDiff(diffs[k]) # << >>
    <3>1. diffs[k] = CompareResponses(pairs[k][1], pairs[k][2])
      BY <2>7 DEF DiffsIn, Diff
    <3> QED BY <3>1, AnomalyIsClassified
  <2> QED BY <2>1, <2>3, <2>6, <2>8, Zenon DEF EveryAnomalyClassified
<1> QED BY <1>1, FiniteAnswersCorrect, PTL

TypedAnswers ==
  \A i \in DOMAIN answers : answers[i].status \in Statuses \cup {0, 429}
                              /\ answers[i].body \in Bodies \cup {NoBody}

\* Every answer has a status and a body of the target, or a failure's or a 429's
\* (_save_response).
THEOREM TypedAnswersCorrect == Spec => []TypedAnswers
<1>1. Init => TypedAnswers
  BY DEF Init, TypedAnswers
<1>2. TypedAnswers /\ [Next]_vars => TypedAnswers'
  <2> SUFFICES ASSUME TypedAnswers, [Next]_vars PROVE TypedAnswers'
    OBVIOUS
  <2>1. ASSUME NEW i, NEW response, SaveResponse(i, response),
               response.status \in Statuses \cup {0, 429}, response.body \in Bodies \cup {NoBody}
        PROVE  TypedAnswers'
    <3>1. answers' = [j \in DOMAIN answers \cup {i} |-> IF j = i THEN response ELSE answers[j]]
      BY <2>1 DEF SaveResponse
    <3> QED BY <2>1, <3>1 DEF TypedAnswers
  <2>2. CASE Work
    BY <2>1, <2>2 DEF Work, Succeed, Throttle, Fail
  <2>3. CASE Discover
    BY <2>3 DEF Discover, DiscoverRejected, DiscoverFails, DiscoverAccepted, TypedAnswers
  <2>4. CASE UNCHANGED vars
    BY <2>4 DEF vars, TypedAnswers
  <2> QED BY <2>2, <2>3, <2>4 DEF Next
<1> QED BY <1>1, <1>2, PTL DEF Spec

LEMMA SameBody ==
  ASSUME NEW body \in Bodies \cup {NoBody}
  PROVE  BodySimilarity(body, body) = 100
BY BodiesAssumption, LikenessAssumption DEF BodySimilarity

LEMMA BolaReported ==
  ASSUME NEW diff, diff.anomaly, BothAllowed(diff), diff.similarity >= Threshold,
         diff.a.user # diff.b.user
  PROVE  \E issue \in Range(ClassifyDiff(diff)) : issue.type = "BOLA"
<1>1. PICK jwt, tenant, bola, bfla, escalation, disclosure :
        /\ jwt = CheckJwtBypass(diff) /\ tenant = CheckTenantLeak(diff) /\ bola = CheckBola(diff)
        /\ bfla = CheckBfla(diff) /\ escalation = CheckPrivilegeEscalation(diff)
        /\ disclosure = CheckInfoDisclosure(diff)
  OBVIOUS
<1>2. PICK I : I = IssuesOf(diff)
  OBVIOUS
<1> USE DEF IssueMeta
<1>3. jwt \in Seq(I) /\ tenant \in Seq(I)
  BY <1>1, <1>2, CheckHolds DEF CheckJwtBypass, CheckTenantLeak
<1>4. bola \in Seq(I) /\ bfla \in Seq(I)
  BY <1>1, <1>2, CheckHolds DEF CheckBola, ScoreBola, CheckBfla, ScoreBfla
<1>5. escalation \in Seq(I) /\ disclosure \in Seq(I)
  BY <1>1, <1>2, CheckHolds DEF CheckPrivilegeEscalation, CheckInfoDisclosure
<1>6. bola = <<NewIssue(diff, "BOLA", ScoreBola(diff))>>
  BY <1>1 DEF CheckBola, Check
<1>7. PICK issue \in Range(bola) : issue.type = "BOLA"
  BY <1>6 DEF NewIssue, Range
<1>8. jwt \o tenant \in Seq(I)
  BY <1>3
<1>9. jwt \o tenant \o bola \in Seq(I) /\ issue \in Range(jwt \o tenant \o bola)
  BY <1>4, <1>7, <1>8, InConcat, Zenon
<1>10. PICK three : three = jwt \o tenant \o bola
  OBVIOUS
<1>11. three \o bfla \in Seq(I) /\ issue \in Range(three \o bfla)
  BY <1>4, <1>9, <1>10, InConcat, Zenon
<1>12. PICK four : four = three \o bfla
  OBVIOUS
<1>13. four \o escalation \in Seq(I) /\ issue \in Range(four \o escalation)
  BY <1>5, <1>11, <1>12, InConcat, Zenon
<1>14. PICK five : five = four \o escalation
  OBVIOUS
<1>15. issue \in Range(five \o disclosure)
  BY <1>5, <1>13, <1>14, InConcat, Zenon
<1>16. ClassifyDiff(diff) = five \o disclosure
  BY <1>1, <1>10, <1>12, <1>14, Zenon DEF ClassifyDiff
<1> QED BY <1>7, <1>15, <1>16

\* Whoever gets the administrator's data under another name is reported,
\* whatever else was answered and in whatever order (_build_pairs,
\* compare_responses, _check_bola).
THEOREM SharedDataReportedCorrect == Spec => []SharedDataReported
<1>1. ASSUME FiniteAnswers, TypedAnswers PROVE SharedDataReported
  <2>1. ASSUME NEW i \in Answered, NEW j \in Answered,
               IsAdmin(i), ~IsAdmin(j), SameEndpoint(i, j), answers[i] = answers[j],
               answers[i].status = 200, ReportResponse(i).user # ReportResponse(j).user
        PROVE  \E f \in FindingsOf(Answered) : f[1] = "BOLA" /\ f[3] = i /\ f[4] = j
    <3>1. PICK a, b : a = ReportResponse(i) /\ b = ReportResponse(j)
      OBVIOUS
    <3>2. a.status = 200 /\ b.status = 200 /\ a.body = b.body /\ a.body = answers[i].body
            /\ a.user # b.user
      BY <2>1, <3>1, ResponseIs
    <3>3. BodySimilarity(a.body, b.body) = 100
      BY <1>1, <3>2, SameBody DEF TypedAnswers, Answered
    <3>4. PICK diff : diff = CompareResponses(a, b)
      OBVIOUS
    <3>5. /\ diff.a = a /\ diff.b = b /\ diff.similarity = 100
          /\ diff.anomaly <=> AnomalyReason(a, b, 100, diff.foreign) # "none"
      BY <3>3, <3>4 DEF CompareResponses
    <3>6. diff.anomaly
      BY <3>2, <3>5 DEF AnomalyReason, Threshold
    <3>7. PICK issue \in Range(ClassifyDiff(diff)) : issue.type = "BOLA"
      BY <3>2, <3>5, <3>6, BolaReported DEF BothAllowed, Threshold
    <3>8. <<issue.type, issue.severity, i, j>> \in Reported(i, j)
      BY <3>1, <3>4, <3>7 DEF Reported
    <3>9. <<i, j>> \in Compared(Answered)
      BY <2>1 DEF Compared
    <3>10. <<issue.type, issue.severity, i, j>> \in FindingsOf(Answered)
      BY <3>8, <3>9 DEF FindingsOf
    <3> QED BY <3>7, <3>10
  <2> QED BY <1>1, <2>1, SomeOrderHolds DEF SharedDataReported
<1> QED BY <1>1, FiniteAnswersCorrect, TypedAnswersCorrect, PTL

----------------------------------------------------------------------------
(* The role-swap view *)

\* An administrator's token does not name its user "anonymous".  The view gives
\* that name to whoever sends no token, and then takes the two for one user.
NamedAdmins == \A i \in Answered : IsAdmin(i) => ReportResponse(i).user # "anonymous"

LEMMA SwapsIs ==
  ASSUME NEW A, NEW order \in Seq(A)
  PROVE  LET responses == Each(order, SwapResponse)
         IN /\ responses \in Seq({SwapResponse(i) : i \in A})
            /\ Range(responses) = {SwapResponse(i) : i \in Range(order)}
<1>1. PICK responses : responses = [k \in DOMAIN order |-> SwapResponse(order[k])]
  OBVIOUS
<1>2. Each(order, SwapResponse) = responses
  BY <1>1, Zenon DEF Each
<1>3. DOMAIN responses = DOMAIN order /\ \A k \in DOMAIN order : responses[k] = SwapResponse(order[k])
  BY <1>1
<1>4. responses = [k \in DOMAIN order |-> responses[k]]
  BY <1>1
<1>5. PICK T : T = {SwapResponse(i) : i \in A}
  OBVIOUS
<1>6. \A k \in DOMAIN order : responses[k] \in T
  BY <1>3, <1>5
<1>7. responses \in Seq(T)
  BY <1>3, <1>4, <1>6, MadeSeq
<1>8. Range(responses) = {SwapResponse(i) : i \in Range(order)}
  BY <1>3, Zenon DEF Range
<1> QED BY <1>2, <1>5, <1>7, <1>8, Zenon

\* The view compares whatever the report compares.
LEMMA SwapPairsHold ==
  ASSUME NEW S, NEW responses \in Seq(S),
         NEW a \in Range(responses), NEW b \in Range(responses), Challenges(a, b)
  PROVE  [source |-> a.task, target |-> b.task, bypass |-> CompareResponses(a, b).anomaly]
           \in RoleSwaps(responses)
<1>1. PICK buffer : buffer = FoldLeft(OnResult, NewCollector, responses).buffer
  OBVIOUS
<1>2. Grouped(buffer, S, Range(responses))
  BY <1>1, CollectHolds DEF Collecting
<1>3. PICK g \in DOMAIN buffer : buffer[g].key = Key(a)
  BY <1>2 DEF Grouped
<1>4. PICK rs : rs = buffer[g].responses
  OBVIOUS
<1>5. rs \in Seq(S) /\ Range(rs) = {r \in Range(responses) : Key(r) = Key(a)}
  <2>1. rs \in Seq(S)
    BY <1>2, <1>4, GroupIs, Zenon
  <2>2. Range(rs) = {r \in Range(responses) : Key(r) = Key(a)}
    BY <1>2, <1>3, <1>4, Zenon DEF Grouped
  <2> QED BY <2>1, <2>2
<1>6. a \in Range(Admins(rs)) /\ b \in Range(Others(rs))
  BY <1>5, AdminsHolds DEF Challenges, IsAdminResponse
<1>7. Admins(rs) # << >>
  BY <1>6 DEF Range
<1>8. <<a, b>> \in RoleSwapPairs(rs)
  BY <1>6, <1>7 DEF RoleSwapPairs
<1>9. PICK pairs : pairs = UNION {RoleSwapPairs(buffer[i].responses) : i \in DOMAIN buffer}
  OBVIOUS
<1>10. <<a, b>> \in pairs
  BY <1>4, <1>8, <1>9
<1>11. RoleSwaps(responses) = {[source |-> p[1].task, target |-> p[2].task,
                               bypass |-> CompareResponses(p[1], p[2]).anomaly] : p \in pairs}
  BY <1>1, <1>9, Zenon DEF RoleSwaps
<1>12. PICK p : p = <<a, b>>
  OBVIOUS
<1>13. p \in pairs /\ p[1] = a /\ p[2] = b
  BY <1>10, <1>12
<1> QED BY <1>11, <1>13, Zenon

LEMMA SwapIs ==
  ASSUME NEW i
  PROVE  /\ SwapResponse(i).task = i
         /\ Key(SwapResponse(i)) = <<rows[i].method, UrlPath(rows[i].url)>>
         /\ SwapResponse(i).status = ReportResponse(i).status
         /\ SwapResponse(i).body = ReportResponse(i).body
         /\ IsAdmin(i) => IsAdminResponse(SwapResponse(i))
                            /\ SwapResponse(i).user = ReportResponse(i).user
         /\ ~IsAdmin(i) => ~IsAdminResponse(SwapResponse(i))
                             /\ SwapResponse(i).user \in {ReportResponse(i).user, "anonymous"}
BY DEF SwapResponse, ReportResponse, Response, Identity, Key, IsAdmin, IsAdminResponse

\* The three branches of compare_responses see the users, the status codes and
\* the bodies only.
LEMMA SameAnomaly ==
  ASSUME NEW a, NEW b, NEW c, NEW d, a.user # b.user, c.user # d.user,
         a.status = c.status, b.status = d.status, a.body = c.body, b.body = d.body
  PROVE  CompareResponses(a, b).anomaly = CompareResponses(c, d).anomaly
<1>1. PICK similarity, foreign :
        similarity = BodySimilarity(a.body, b.body) /\ foreign = ExtractIds(a.body) \cap ExtractIds(b.body)
  OBVIOUS
<1>2. CompareResponses(a, b).anomaly = (AnomalyReason(a, b, similarity, foreign) # "none")
  BY <1>1 DEF CompareResponses
<1>3. CompareResponses(c, d).anomaly = (AnomalyReason(c, d, similarity, foreign) # "none")
  BY <1>1 DEF CompareResponses
<1>4. AnomalyReason(a, b, similarity, foreign) = AnomalyReason(c, d, similarity, foreign)
  BY DEF AnomalyReason
<1> QED BY <1>2, <1>3, <1>4

\* As long as no administrator is called "anonymous", every finding of the report
\* is a bypass of the role-swap view (get_scan_role_swaps, generate_report).
THEOREM ReportedIsBypassCorrect == Spec => [](NamedAdmins => ReportedIsBypass)
<1>1. ASSUME FiniteAnswers, NamedAdmins PROVE ReportedIsBypass
  <2>1. PICK responses : responses = Each(SomeOrder, SwapResponse)
    OBVIOUS
  <2>2. /\ responses \in Seq({SwapResponse(i) : i \in Answered})
        /\ Range(responses) = {SwapResponse(i) : i \in Answered}
    BY <1>1, <2>1, SomeOrderHolds, SwapsIs
  <2>3. ASSUME NEW f \in FindingsOf(Answered)
        PROVE  \E s \in RoleSwaps(responses) : s.source = f[3] /\ s.target = f[4] /\ s.bypass
    <3>1. PICK i \in Answered, j \in Answered :
            IsAdmin(i) /\ ~IsAdmin(j) /\ SameEndpoint(i, j) /\ f \in Reported(i, j)
      BY DEF FindingsOf, Compared
    <3>2. f[3] = i /\ f[4] = j
            /\ Range(ClassifyDiff(CompareResponses(ReportResponse(i), ReportResponse(j)))) # {}
      BY <3>1 DEF Reported
    <3>3. PICK diff : diff = CompareResponses(ReportResponse(i), ReportResponse(j))
      OBVIOUS
    <3>4. diff.anomaly /\ ReportResponse(i).user # ReportResponse(j).user
      <4>1. ClassifyDiff(diff) # << >>
        BY <3>2, <3>3 DEF Range
      <4>2. diff.anomaly
        BY <4>1, ClassifyHolds
      <4> QED BY <3>3, <4>2 DEF CompareResponses, AnomalyReason
    <3>5. SwapResponse(i).user # SwapResponse(j).user
      BY <1>1, <3>1, <3>4, SwapIs DEF NamedAdmins
    <3>6. CompareResponses(SwapResponse(i), SwapResponse(j)).anomaly
      <4>1. CompareResponses(SwapResponse(i), SwapResponse(j)).anomaly = diff.anomaly
        <5>1. /\ SwapResponse(i).status = ReportResponse(i).status
              /\ SwapResponse(j).status = ReportResponse(j).status
              /\ SwapResponse(i).body = ReportResponse(i).body
              /\ SwapResponse(j).body = ReportResponse(j).body
          BY SwapIs, Zenon
        <5>2. PICK a, b, c, d : a = SwapResponse(i) /\ b = SwapResponse(j)
                                  /\ c = ReportResponse(i) /\ d = ReportResponse(j)
          OBVIOUS
        <5>3. a.user # b.user /\ c.user # d.user /\ a.status = c.status /\ b.status = d.status
                /\ a.body = c.body /\ b.body = d.body
          BY <3>4, <3>5, <5>1, <5>2
        <5>4. CompareResponses(a, b).anomaly = CompareResponses(c, d).anomaly
          BY <5>3, SameAnomaly
        <5> QED BY <3>3, <5>2, <5>4
      <4> QED BY <3>4, <4>1
    <3>7. Challenges(SwapResponse(i), SwapResponse(j))
      BY <3>1, SwapIs DEF Challenges, SameEndpoint
    <3>8. [source |-> i, target |-> j,
           bypass |-> CompareResponses(SwapResponse(i), SwapResponse(j)).anomaly]
             \in RoleSwaps(responses)
      BY <2>2, <3>1, <3>7, SwapIs, SwapPairsHold
    <3> QED BY <3>2, <3>6, <3>8
  <2>4. GetScanRoleSwaps(SomeOrder) = RoleSwaps(responses)
    BY <2>1 DEF GetScanRoleSwaps
  <2> QED BY <1>1, <2>3, <2>4, SomeOrderHolds DEF ReportedIsBypass
<1>2. FiniteAnswers => (NamedAdmins => ReportedIsBypass)
  BY <1>1
<1> QED BY <1>2, FiniteAnswersCorrect, PTL

=============================================================================
