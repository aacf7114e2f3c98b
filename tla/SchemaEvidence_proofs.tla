------------------------ MODULE SchemaEvidence_proofs ------------------------
(***************************************************************************)
(* Proofs about SchemaEvidence, for any pages, any evidence, any size of a *)
(* batch and any number of threads: the batches cover every page, a merged *)
(* schema has an answer for each of them, no answer is paid for twice.     *)
(***************************************************************************)
EXTENDS SchemaEvidence, FiniteSetTheorems, SequenceTheorems, WellFoundedInduction, TLAPS

(* Induction over the natural numbers, without a predicate as parameter.   *)

\* Every set of natural numbers that is not empty has a least element.
LEMMA LeastElement ==
  ASSUME NEW T \in SUBSET Nat, T # {}
  PROVE  \E x \in T : \A y \in T : x <= y
<1>1. PICK R : R = OpToRel(<, Nat)
  OBVIOUS
<1>2. IsWellFoundedOn(R, Nat)
  BY <1>1, NatLessThanWellFounded
<1>3. \A x, y \in Nat : x < y => <<x, y>> \in R
  BY <1>1 DEF OpToRel
<1>4. PICK x \in T : \A y \in T : <<y, x>> \notin R
  BY <1>2, WFMin
<1>5. \A y \in T : x \in Nat /\ y \in Nat /\ ~(y < x)
  BY <1>3, <1>4
<1> QED BY <1>5

\* A set that holds zero and every successor of its elements holds all numbers.
LEMMA SetInduction ==
  ASSUME NEW S, 0 \in S, \A n \in Nat : n \in S => n + 1 \in S
  PROVE  Nat \subseteq S
<1> SUFFICES ASSUME ~(Nat \subseteq S) PROVE FALSE
  OBVIOUS
<1>1. PICK T : T = Nat \ S
  OBVIOUS
<1>2. T \in SUBSET Nat /\ T # {}
  BY <1>1
<1>3. PICK x \in T : \A y \in T : x <= y
  BY <1>2, LeastElement
<1>4. x \in Nat /\ x # 0 /\ x - 1 \in Nat /\ ~(x <= x - 1) /\ x = (x - 1) + 1
  BY <1>1, <1>3
<1>5. x - 1 \in S
  BY <1>1, <1>3, <1>4
<1> QED BY <1>1, <1>3, <1>4, <1>5

-----------------------------------------------------------------------------
(* Sequences.                                                              *)

\* The elements of a concatenation.
LEMMA RangeOfConcat ==
  ASSUME NEW S, NEW s \in Seq(S), NEW t \in Seq(S)
  PROVE  s \o t \in Seq(S) /\ Range(s \o t) = Range(s) \union Range(t)
<1>1. PICK m \in Nat, n \in Nat : m = Len(s) /\ n = Len(t) /\ DOMAIN s = 1 .. m /\ DOMAIN t = 1 .. n
  OBVIOUS
<1>2. /\ s \o t \in Seq(S) /\ DOMAIN (s \o t) = 1 .. m + n
      /\ \A i \in 1 .. m + n : (s \o t)[i] = IF i <= m THEN s[i] ELSE t[i - m]
  BY <1>1, ConcatProperties
<1>3. ASSUME NEW i \in 1 .. m PROVE i \in 1 .. m + n /\ (s \o t)[i] = s[i]
  BY <1>1, <1>2
<1>4. ASSUME NEW i \in 1 .. n PROVE i + m \in 1 .. m + n /\ (s \o t)[i + m] = t[i]
  <2>1. i + m \in 1 .. m + n /\ ~(i + m <= m) /\ (i + m) - m = i
    BY <1>1
  <2> QED BY <1>2, <2>1
<1>5. ASSUME NEW i \in 1 .. m + n
      PROVE  IF i <= m THEN i \in 1 .. m /\ (s \o t)[i] = s[i] ELSE i - m \in 1 .. n /\ (s \o t)[i] = t[i - m]
  BY <1>1, <1>2
<1>6. ASSUME NEW x \in Range(s) \union Range(t) PROVE x \in Range(s \o t)
  <2>1. CASE \E i \in 1 .. m : x = s[i]
    BY <1>2, <1>3, <2>1 DEF Range
  <2>2. CASE \E i \in 1 .. n : x = t[i]
    BY <1>2, <1>4, <2>2 DEF Range
  <2> QED BY <1>1, <2>1, <2>2 DEF Range
<1>7. ASSUME NEW x \in Range(s \o t) PROVE x \in Range(s) \union Range(t)
  BY <1>1, <1>2, <1>5 DEF Range
<1> QED BY <1>2, <1>6, <1>7

\* What the recursive function inside FlattenSeq computes.
LEMMA FlattenSteps ==
  ASSUME NEW S, NEW ss \in Seq(Seq(S)), NEW n \in Nat, n = Len(ss), NEW f,
         f = [i \in 1 .. n |-> IF i = 1 THEN ss[i] ELSE f[i - 1] \o ss[i]]
  PROVE  \A i \in 1 .. n : f[i] \in Seq(S) /\ \A x : x \in Range(f[i]) <=> \E j \in 1 .. i : x \in Range(ss[j])
<1>1. DOMAIN ss = 1 .. n /\ \A i \in 1 .. n : ss[i] \in Seq(S)
  OBVIOUS
<1>2. \A i \in 1 .. n : f[i] = IF i = 1 THEN ss[i] ELSE f[i - 1] \o ss[i]
  OBVIOUS
<1> DEFINE P(i) == f[i] \in Seq(S) /\ \A x : x \in Range(f[i]) <=> \E j \in 1 .. i : x \in Range(ss[j])
           Q(i) == i \in 1 .. n => P(i)
<1>3. Q(0)
  OBVIOUS
<1>4. ASSUME NEW i \in Nat, Q(i)
      PROVE  Q(i + 1)
  <2> SUFFICES ASSUME i + 1 \in 1 .. n
               PROVE  P(i + 1)
    OBVIOUS
  <2>1. CASE i = 0
    <3>1. f[i + 1] = ss[1] /\ ss[1] \in Seq(S) /\ 1 .. i + 1 = {1}
      BY <1>1, <1>2, <2>1
    <3> QED BY <3>1
  <2>2. CASE i # 0
    <3>1. i \in 1 .. n /\ i + 1 # 1 /\ (i + 1) - 1 = i
      BY <2>2
    <3>2. f[i + 1] = f[i] \o ss[i + 1]
      <4>1. f[i + 1] = f[(i + 1) - 1] \o ss[i + 1]
        BY <1>2, <3>1
      <4> QED BY <3>1, <4>1
    <3>3. /\ f[i] \in Seq(S) /\ ss[i + 1] \in Seq(S)
          /\ \A x : x \in Range(f[i]) <=> \E j \in 1 .. i : x \in Range(ss[j])
      BY <1>1, <1>4, <3>1
    <3>4. f[i + 1] \in Seq(S) /\ Range(f[i + 1]) = Range(f[i]) \union Range(ss[i + 1])
      <4>1. PICK u \in Seq(S), v \in Seq(S) : u = f[i] /\ v = ss[i + 1]
        BY <3>3
      <4>2. u \o v \in Seq(S) /\ Range(u \o v) = Range(u) \union Range(v)
        BY RangeOfConcat
      <4> QED BY <3>2, <4>1, <4>2
    <3>5. \A j : j \in 1 .. i + 1 <=> j \in 1 .. i \/ j = i + 1
      OBVIOUS
    <3>6. \A x : x \in Range(f[i + 1]) <=> x \in Range(f[i]) \/ x \in Range(ss[i + 1])
      BY <3>4
    <3> QED BY <3>3, <3>4, <3>5, <3>6
  <2> QED BY <2>1, <2>2
<1> HIDE DEF Q
<1>5. PICK T : T = {i \in Nat : Q(i)}
  OBVIOUS
<1>6. 0 \in T /\ \A i \in Nat : i \in T => i + 1 \in T
  BY <1>3, <1>4, <1>5
<1>7. Nat \subseteq T
  BY <1>6, SetInduction
<1>8. \A i \in 1 .. n : Q(i)
  BY <1>5, <1>7
<1> QED BY <1>8 DEF Q

\* There is such a function.
LEMMA FlattenExists ==
  ASSUME NEW ss, NEW n \in Nat
  PROVE  \E f : f = [i \in 1 .. n |-> IF i = 1 THEN ss[i] ELSE f[i - 1] \o ss[i]]
<1> DEFINE Q(m) == \E f : f = [i \in 1 .. m |-> IF i = 1 THEN ss[i] ELSE f[i - 1] \o ss[i]]
<1>1. Q(0)
  <2>1. PICK f : f = [i \in 1 .. 0 |-> ss[i]]
    OBVIOUS
  <2>2. f = [i \in 1 .. 0 |-> IF i = 1 THEN ss[i] ELSE f[i - 1] \o ss[i]]
    BY <2>1
  <2> QED BY <2>2
<1>2. ASSUME NEW m \in Nat, Q(m)
      PROVE  Q(m + 1)
  <2>1. PICK f : f = [i \in 1 .. m |-> IF i = 1 THEN ss[i] ELSE f[i - 1] \o ss[i]]
    BY <1>2
  <2>2. PICK g : g = [i \in 1 .. m + 1 |-> IF i = 1 THEN ss[i] ELSE f[i - 1] \o ss[i]]
    OBVIOUS
  <2>3. \A i \in 1 .. m : f[i] = IF i = 1 THEN ss[i] ELSE f[i - 1] \o ss[i]
    BY <2>1
  <2>4. \A i \in 1 .. m + 1 : g[i] = IF i = 1 THEN ss[i] ELSE f[i - 1] \o ss[i]
    BY <2>2
  <2>5. \A i \in 1 .. m : g[i] = f[i]
    BY <2>3, <2>4
  <2>6. \A i \in 1 .. m + 1 : i = 1 \/ i - 1 \in 1 .. m
    OBVIOUS
  <2>7. \A i \in 1 .. m + 1 : g[i] = IF i = 1 THEN ss[i] ELSE g[i - 1] \o ss[i]
    BY <2>4, <2>5, <2>6
  <2>8. g = [i \in 1 .. m + 1 |-> g[i]]
    BY <2>2
  <2>9. g = [i \in 1 .. m + 1 |-> IF i = 1 THEN ss[i] ELSE g[i - 1] \o ss[i]]
    BY <2>7, <2>8
  <2> QED BY <2>9
<1> HIDE DEF Q
<1>3. PICK T : T = {m \in Nat : Q(m)}
  OBVIOUS
<1>4. 0 \in T /\ \A m \in Nat : m \in T => m + 1 \in T
  BY <1>1, <1>2, <1>3
<1>5. Nat \subseteq T
  BY <1>4, SetInduction
<1>6. Q(n)
  BY <1>3, <1>5
<1> QED BY <1>6 DEF Q

\* FlattenSeq concatenates: it keeps every element of every sequence.
LEMMA FlattenIs ==
  ASSUME NEW S, NEW ss \in Seq(Seq(S)), ss # <<>>
  PROVE  FlattenSeq(ss) \in Seq(S) /\ \A x : x \in Range(FlattenSeq(ss)) <=> \E j \in DOMAIN ss : x \in Range(ss[j])
<1>1. PICK n \in Nat : n = Len(ss) /\ DOMAIN ss = 1 .. n /\ n # 0
  OBVIOUS
<1>2. PICK f : /\ f = [i \in 1 .. n |-> IF i = 1 THEN ss[i] ELSE f[i - 1] \o ss[i]]
               /\ FlattenSeq(ss) = f[n]
  <2> DEFINE g == CHOOSE f : f = [i \in 1 .. n |-> IF i = 1 THEN ss[i] ELSE f[i - 1] \o ss[i]]
  <2>1. g = [i \in 1 .. n |-> IF i = 1 THEN ss[i] ELSE g[i - 1] \o ss[i]]
    BY <1>1, FlattenExists
  <2>2. FlattenSeq(ss) = g[n]
    BY <1>1 DEF FlattenSeq
  <2> QED BY <2>1, <2>2
<1>3. \A i \in 1 .. n : f[i] \in Seq(S) /\ \A x : x \in Range(f[i]) <=> \E j \in 1 .. i : x \in Range(ss[j])
  BY <1>1, <1>2, FlattenSteps
<1>4. n \in 1 .. n
  BY <1>1
<1> QED BY <1>1, <1>2, <1>3, <1>4

-----------------------------------------------------------------------------
(* Fragments.                                                              *)

\* A fragment of pages that are among ns.
FragmentsOf(ns) == [pages : SUBSET ns, size : Nat \ {0}]

\* The pages a sequence of fragments or batches is about.
PagesIn(s) == UNION {s[i].pages : i \in DOMAIN s}

\* The smaller of two numbers.
LEMMA MinOfTwo ==
  ASSUME NEW a \in Int, NEW b \in Int
  PROVE  Min({a, b}) = IF a <= b THEN a ELSE b
<1>1. PICK m : m = IF a <= b THEN a ELSE b
  OBVIOUS
<1>2. m \in {a, b} /\ \A y \in {a, b} : m <= y
  BY <1>1
<1>3. \A x \in {a, b} : (\A y \in {a, b} : x <= y) => x = m
  BY <1>1
<1>4. Min({a, b}) \in {a, b} /\ \A y \in {a, b} : Min({a, b}) <= y
  BY <1>2 DEF Min
<1> QED BY <1>1, <1>3, <1>4

\* A label has a length.
LEMMA HeaderTyped ==
  ASSUME NEW ns, IsFiniteSet(ns)
  PROVE  Header(ns) \in Nat
<1>1. Cardinality(ns) \in Nat
  BY FS_CardinalityType
<1> QED BY <1>1, EvidenceAssumption DEF Header

\* A text of any length has at least one piece, each of them a fragment about
\* the pages of the text.
LEMMA PiecesAre ==
  ASSUME NEW ns, NEW pages \in SUBSET ns, IsFiniteSet(pages), NEW size \in Nat \ {0}
  PROVE  /\ Pieces(pages, size) \in Seq(FragmentsOf(ns))
         /\ Range(Pieces(pages, size)) # {} /\ \A f \in Range(Pieces(pages, size)) : f.pages = pages
<1>1. MaxChars \in Nat \ {0} /\ Header(pages) \in Nat
  BY HeaderTyped, EvidenceAssumption
<1>2. PICK q \in Nat : /\ q = (size + MaxChars - 1) \div MaxChars /\ q >= 1
                       /\ \A i \in 1 .. q : size - (i - 1) * MaxChars \in Nat \ {0}
  <2>0. PICK m \in Nat \ {0} : m = MaxChars
    BY <1>1
  <2>1. PICK q \in Int : m = MaxChars /\ q = (size + m - 1) \div m
    <3>1. (size + m - 1) \div m \in Int
      OBVIOUS
    <3> QED BY <2>0, <3>1
  <2>2. q * m <= size + m - 1 /\ size + m - 1 < q * m + m
    BY <2>1
  <2>3. q >= 1
    <3>1. ~(q <= 0)
      <4> SUFFICES ASSUME q <= 0 PROVE FALSE
        OBVIOUS
      <4>1. q * m <= 0
        BY <2>1
      <4> QED BY <2>2, <4>1
    <3> QED BY <3>1
  <2>4. ASSUME NEW i \in 1 .. q PROVE size - (i - 1) * m \in Nat \ {0}
    <3>1. (q - i) * m >= 0
      BY <2>1
    <3>2. (q - i) * m = q * m - i * m /\ (i - 1) * m = i * m - m
      BY <2>1
    <3> QED BY <2>2, <3>1, <3>2
  <2> QED BY <2>1, <2>3, <2>4
<1> DEFINE p == Pieces(pages, size)
<1>3. p = [i \in 1 .. q |-> Fragment(pages, Header(pages) + Min({MaxChars, size - (i - 1) * MaxChars}))]
  BY <1>2 DEF Pieces
<1>4. ASSUME NEW i \in 1 .. q PROVE p[i] \in FragmentsOf(ns) /\ p[i].pages = pages
  <2>1. PICK a \in Nat \ {0} : a = size - (i - 1) * MaxChars
    BY <1>2
  <2>2. Min({MaxChars, a}) \in Nat \ {0}
    BY <1>1, MinOfTwo
  <2>3. p[i] = Fragment(pages, Header(pages) + Min({MaxChars, a}))
    BY <1>3, <2>1
  <2>4. Header(pages) + Min({MaxChars, a}) \in Nat \ {0}
    BY <1>1, <2>2
  <2> QED BY <2>3, <2>4 DEF Fragment, FragmentsOf
<1> HIDE DEF p
<1>5. p \in Seq(FragmentsOf(ns)) /\ DOMAIN p = 1 .. q /\ 1 \in DOMAIN p
  <2>1. DOMAIN p = 1 .. q /\ p = [i \in 1 .. q |-> p[i]]
    BY <1>3
  <2>2. p \in [1 .. q -> FragmentsOf(ns)]
    BY <1>4, <2>1
  <2> QED BY <1>2, <2>1, <2>2
<1>6. Range(p) # {} /\ \A f \in Range(p) : f.pages = pages
  BY <1>4, <1>5 DEF Range
<1> QED BY <1>5, <1>6 DEF p

\* The pages of a sequence of fragments, by its elements.
LEMMA PagesAre ==
  ASSUME NEW s, NEW n
  PROVE  n \in PagesIn(s) <=> \E f \in Range(s) : n \in f.pages
BY DEF PagesIn, Range

\* The texts of a set of pages, each text once, are fragments about these
\* pages, and every page is among those of its text.
LEMMA DistinctIs ==
  ASSUME NEW ps \in Seq(Pages), ps # <<>>
  PROVE  /\ Distinct(ps) \in Seq(Seq(FragmentsOf(DOMAIN ps))) /\ Distinct(ps) # <<>>
         /\ \A n \in DOMAIN ps : \E i \in DOMAIN Distinct(ps) : \E f \in Range(Distinct(ps)[i]) : n \in f.pages
<1> DEFINE d == Distinct(ps)
           F == FragmentsOf(DOMAIN ps)
           c(i) == ContentOf[ps[i]]
           p(i) == Pieces(PagesWith(ps, c(i)), Size[c(i)])
           first(i) == \A j \in 1 .. i - 1 : c(j) # c(i)
<1>1. PICK n \in Nat : n = Len(ps) /\ DOMAIN ps = 1 .. n /\ n # 0 /\ \A i \in 1 .. n : ps[i] \in Pages
  OBVIOUS
<1>2. IsFiniteSet(DOMAIN ps)
  BY <1>1, FS_Interval
<1>3. ASSUME NEW i \in 1 .. n
      PROVE  /\ p(i) \in Seq(F)
             /\ Range(p(i)) # {} /\ \A f \in Range(p(i)) : f.pages = PagesWith(ps, c(i))
  <2>1. Size[c(i)] \in Nat \ {0}
    BY <1>1, EvidenceAssumption
  <2>2. PagesWith(ps, c(i)) \in SUBSET DOMAIN ps
    BY DEF PagesWith
  <2>3. IsFiniteSet(PagesWith(ps, c(i)))
    BY <1>2, <2>2, FS_Subset
  <2>4. PICK pages \in SUBSET DOMAIN ps, size \in Nat \ {0} :
          pages = PagesWith(ps, c(i)) /\ size = Size[c(i)] /\ IsFiniteSet(pages)
    BY <2>1, <2>2, <2>3
  <2>5. /\ Pieces(pages, size) \in Seq(F)
        /\ Range(Pieces(pages, size)) # {} /\ \A f \in Range(Pieces(pages, size)) : f.pages = pages
    BY <2>4, PiecesAre
  <2> QED BY <2>4, <2>5
<1>4. d = [i \in 1 .. n |-> IF first(i) THEN p(i) ELSE <<>>]
  BY <1>1 DEF Distinct
<1>5. \A i \in 1 .. n : d[i] = IF first(i) THEN p(i) ELSE <<>>
  BY <1>4
<1> HIDE DEF p, first
<1>6. d \in Seq(Seq(F)) /\ DOMAIN d = 1 .. n /\ d # <<>>
  <2>1. \A i \in 1 .. n : d[i] \in Seq(F)
    <3>1. <<>> \in Seq(F)
      OBVIOUS
    <3> HIDE DEF d, F
    <3> QED BY <1>3, <1>5, <3>1
  <2>2. DOMAIN d = 1 .. n /\ d = [i \in 1 .. n |-> d[i]]
    BY <1>4
  <2> HIDE DEF d, F
  <2>3. d \in [1 .. n -> Seq(F)]
    BY <2>1, <2>2
  <2> QED BY <1>1, <2>2, <2>3
<1>7. ASSUME NEW m \in 1 .. n
      PROVE  \E i \in DOMAIN d : \E f \in Range(d[i]) : m \in f.pages
  <2>1. PICK T : T = {i \in 1 .. n : c(i) = c(m)}
    OBVIOUS
  <2>2. PICK i \in T : \A j \in T : i <= j
    <3>1. T \in SUBSET Nat /\ T # {}
      BY <2>1
    <3> QED BY <3>1, LeastElement
  <2>3. i \in 1 .. n /\ c(i) = c(m) /\ first(i)
    <3>1. i \in 1 .. n /\ c(i) = c(m)
      BY <2>1
    <3>2. \A j \in 1 .. i - 1 : j \in 1 .. n /\ ~(i <= j)
      BY <3>1
    <3> HIDE DEF c
    <3>3. \A j \in 1 .. i - 1 : c(j) # c(i)
      BY <2>1, <2>2, <3>1, <3>2
    <3> QED BY <3>1, <3>3 DEF first
  <2>4. d[i] = p(i)
    BY <1>5, <2>3
  <2>5. PICK f \in Range(p(i)) : f.pages = PagesWith(ps, c(i))
    BY <1>3, <2>3
  <2>6. m \in PagesWith(ps, c(i))
    BY <1>1, <2>3 DEF PagesWith
  <2> QED BY <1>6, <2>3, <2>4, <2>5, <2>6
<1> QED BY <1>1, <1>6, <1>7

\* The plan of a stage: fragments about the pages it was given, about every one
\* of them.
LEMMA FragmentsAre ==
  ASSUME NEW ps \in Seq(Pages), ps # <<>>
  PROVE  Fragments(ps) \in Seq(FragmentsOf(DOMAIN ps)) /\ PagesIn(Fragments(ps)) = DOMAIN ps
<1> DEFINE F == FragmentsOf(DOMAIN ps)
           a == FlattenSeq(Distinct(ps))
           b == IF SharedSize > 0 /\ Len(ps) > 1 THEN Pieces(DOMAIN ps, SharedSize) ELSE <<>>
           x == [i \in DOMAIN Extra |-> Fragment({}, Extra[i])]
<1>1. /\ a \in Seq(F)
      /\ \A n \in DOMAIN ps : \E f \in Range(a) : n \in f.pages
  <2>1. /\ Distinct(ps) \in Seq(Seq(F)) /\ Distinct(ps) # <<>>
        /\ \A n \in DOMAIN ps : \E i \in DOMAIN Distinct(ps) : \E f \in Range(Distinct(ps)[i]) : n \in f.pages
    BY DistinctIs
  <2>2. /\ a \in Seq(F)
        /\ \A f : f \in Range(a) <=> \E i \in DOMAIN Distinct(ps) : f \in Range(Distinct(ps)[i])
    BY <2>1, FlattenIs
  <2> QED BY <2>1, <2>2
<1>2. b \in Seq(F)
  <2>1. CASE ~(SharedSize > 0 /\ Len(ps) > 1)
    <3>1. <<>> \in Seq(F)
      OBVIOUS
    <3>2. b = <<>>
      BY <2>1
    <3> QED BY <3>1, <3>2
  <2>2. CASE SharedSize > 0 /\ Len(ps) > 1
    <3>1. SharedSize \in Nat \ {0} /\ b = Pieces(DOMAIN ps, SharedSize)
      BY <2>2, EvidenceAssumption
    <3>2. IsFiniteSet(DOMAIN ps) /\ DOMAIN ps \in SUBSET DOMAIN ps
      BY FS_Interval
    <3> QED BY <3>1, <3>2, PiecesAre
  <2> QED BY <2>1, <2>2
<1>3. x \in Seq(F)
  <2>1. PICK n \in Nat : DOMAIN Extra = 1 .. n /\ \A i \in 1 .. n : Extra[i] \in Nat \ {0}
    BY EvidenceAssumption
  <2>2. \A i \in 1 .. n : Fragment({}, Extra[i]) \in F
    BY <2>1 DEF Fragment, FragmentsOf
  <2> QED BY <2>1, <2>2
<1>4. Fragments(ps) = (a \o b) \o x
  BY DEF Fragments
<1> HIDE DEF F, a, b, x
<1>5. a \o b \in Seq(F) /\ Range(a \o b) = Range(a) \union Range(b)
  BY <1>1, <1>2, RangeOfConcat
<1>6. Fragments(ps) \in Seq(F) /\ Range(Fragments(ps)) = Range(a \o b) \union Range(x)
  <2>1. PICK y \in Seq(F) : y = a \o b
    BY <1>5
  <2>2. y \o x \in Seq(F) /\ Range(y \o x) = Range(y) \union Range(x)
    BY <1>3, RangeOfConcat
  <2> QED BY <1>4, <2>1, <2>2
<1>7. \A f \in Range(Fragments(ps)) : f.pages \subseteq DOMAIN ps
  <2>1. \A f \in Range(Fragments(ps)) : f \in F
    BY <1>6 DEF Range
  <2> QED BY <2>1 DEF F, FragmentsOf
<1>8. \A n : n \in PagesIn(Fragments(ps)) <=> n \in DOMAIN ps
  BY <1>1, <1>5, <1>6, <1>7, PagesAre
<1> QED BY <1>6, <1>8 DEF F

-----------------------------------------------------------------------------
(* The inductive invariant.                                                *)

JobStates == {"pending", "asking", "done", "failed", "cancelled"}
JobRecords == [state : JobStates, attempt : 0 .. MaxAttempts]

\* What was not packed yet and what was are about every page of the call.
Planned ==
  /\ todo \in Seq(FragmentsOf(DOMAIN sources))
  /\ batches \in Seq(FragmentsOf(DOMAIN sources))
  /\ PagesIn(todo) \union PagesIn(batches) = DOMAIN sources
  /\ stage # "planning" => todo = <<>>

\* A batch has a job once it is submitted; the providers are asked by the
\* jobs that say so; once a failure was noticed no job starts any more.
Pooled ==
  /\ jobs \in [DOMAIN jobs -> JobRecords] /\ answer \in [DOMAIN jobs -> Int]
  /\ DOMAIN jobs = IF stage \in {"idle", "planning"} THEN {} ELSE DOMAIN batches
  /\ In("asking") = DOMAIN left
  /\ stage \in {"aborting", "failed"} => In("pending") = {}
  /\ \A i \in In("done") : answer[i] = round
  /\ stage = "merged" => In("done") = DOMAIN jobs

EvidenceInv ==
  /\ EvidenceTypeOK
  /\ Planned /\ Pooled
  /\ NothingRunsAfter /\ SavedIsNotAsked

-----------------------------------------------------------------------------
(* The providers.                                                          *)

\* A call that has providers left asks one of them.
LEMMA AskedIs ==
  ASSUME FailoverTypeOK, NEW c \in DOMAIN left, left[c] # {}
  PROVE  Asked(c) \in left[c] /\ Asked(c) \in Providers
<1>1. left[c] \subseteq Providers /\ Providers \subseteq Nat
  BY ProviderAssumption DEF FailoverTypeOK, Providers
<1>2. CASE favourite[c] \in left[c]
  BY <1>1, <1>2 DEF Asked
<1>3. CASE favourite[c] \notin left[c]
  <2>1. PICK p \in left[c] : \A q \in left[c] : p <= q
    BY <1>1, LeastElement
  <2>2. Asked(c) = CHOOSE x \in left[c] : \A q \in left[c] : x <= q
    BY <1>3 DEF Asked
  <2> QED BY <1>1, <2>1, <2>2
<1> QED BY <1>2, <1>3

\* A call begins.
LEMMA CallBegins ==
  ASSUME FailoverTypeOK, NEW c, begin_call(c)
  PROVE  FailoverTypeOK' /\ DOMAIN left' = DOMAIN left \union {c}
<1>1. /\ left' = [x \in DOMAIN left \union {c} |-> IF x = c THEN Providers \ blocked ELSE left[x]]
      /\ favourite' = [x \in DOMAIN favourite \union {c} |-> IF x = c THEN preferred ELSE favourite[x]]
      /\ preferred' = preferred /\ blocked' = blocked
  BY DEF begin_call
<1>2. /\ preferred \in Providers /\ blocked \subseteq Providers
      /\ left \in [DOMAIN left -> SUBSET Providers] /\ favourite \in [DOMAIN left -> Providers]
  BY DEF FailoverTypeOK
<1>3. DOMAIN left' = DOMAIN left \union {c} /\ DOMAIN favourite = DOMAIN left
  BY <1>1, <1>2
<1> QED BY <1>1, <1>2, <1>3 DEF FailoverTypeOK

\* A call ends, whatever became of the providers.
LEMMA CallEnds ==
  ASSUME FailoverTypeOK, NEW c, call_ends(c), preferred' \in Providers, blocked' \subseteq Providers
  PROVE  FailoverTypeOK' /\ DOMAIN left' = DOMAIN left \ {c}
<1>1. /\ left' = [x \in DOMAIN left \ {c} |-> left[x]]
      /\ favourite' = [x \in DOMAIN favourite \ {c} |-> favourite[x]]
  BY DEF call_ends, Restrict
<1>2. left \in [DOMAIN left -> SUBSET Providers] /\ favourite \in [DOMAIN left -> Providers]
  BY DEF FailoverTypeOK
<1>3. DOMAIN left' = DOMAIN left \ {c} /\ DOMAIN favourite = DOMAIN left
  BY <1>1, <1>2
<1> QED BY <1>1, <1>2, <1>3 DEF FailoverTypeOK

\* A provider fails a call.
LEMMA ProviderFails ==
  ASSUME FailoverTypeOK, NEW c \in DOMAIN left, provider_fails(c)
  PROVE  FailoverTypeOK' /\ DOMAIN left' = DOMAIN left
<1>1. Asked(c) \in Providers
  BY AskedIs DEF provider_fails
<1> QED BY <1>1 DEF provider_fails, FailoverTypeOK

\* A provider answers a call.
LEMMA ProviderAnswers ==
  ASSUME FailoverTypeOK, NEW c \in DOMAIN left, provider_answers(c)
  PROVE  FailoverTypeOK' /\ DOMAIN left' = DOMAIN left \ {c}
<1>1. preferred' = Asked(c) /\ blocked' = blocked \ {Asked(c)} /\ call_ends(c) /\ left[c] # {}
  BY DEF provider_answers, Answered
<1>2. Asked(c) \in Providers /\ blocked \subseteq Providers
  BY <1>1, AskedIs DEF FailoverTypeOK
<1> QED BY <1>1, <1>2, CallEnds

\* A call asks again.
LEMMA CallRepeats ==
  ASSUME FailoverTypeOK, NEW c \in DOMAIN left, asked_again(c)
  PROVE  FailoverTypeOK' /\ DOMAIN left' = DOMAIN left
<1>1. /\ preferred' = Asked(c) /\ blocked' = blocked \ {Asked(c)} /\ left[c] # {}
      /\ left' = [left EXCEPT ![c] = Providers \ blocked']
      /\ favourite' = [favourite EXCEPT ![c] = preferred']
  BY DEF asked_again, Answered
<1>2. Asked(c) \in Providers /\ blocked \subseteq Providers
  BY <1>1, AskedIs DEF FailoverTypeOK
<1> QED BY <1>1, <1>2 DEF FailoverTypeOK

\* A back-off ends.
LEMMA BackoffTyped ==
  ASSUME FailoverTypeOK, NEW p, backoff_ends(p)
  PROVE  FailoverTypeOK' /\ left' = left
BY DEF backoff_ends, FailoverTypeOK

\* No call is under way at first, or after the process died.
LEMMA NoCalls ==
  /\ Unasked => FailoverTypeOK /\ DOMAIN left = {}
  /\ failover_lost => FailoverTypeOK' /\ DOMAIN left' = {}
<1>1. 1 \in Providers /\ DOMAIN <<>> = {}
  BY ProviderAssumption DEF Providers
<1>2. <<>> \in [{} -> SUBSET Providers] /\ <<>> \in [{} -> Providers]
  OBVIOUS
<1> QED BY <1>1, <1>2 DEF Unasked, failover_lost, FailoverTypeOK

-----------------------------------------------------------------------------
(* The plan of a stage.                                                    *)

\* A sequence that is not empty: all but its last element, and that one.
LEMMA FrontAndLast ==
  ASSUME NEW S, NEW s \in Seq(S), s # <<>>
  PROVE  /\ Front(s) \in Seq(S) /\ Last(s) \in S /\ Last(s) \in Range(s)
         /\ Range(s) = Range(Front(s)) \union {Last(s)}
<1>1. PICK n \in Nat : n = Len(s) /\ n # 0 /\ DOMAIN s = 1 .. n /\ \A i \in 1 .. n : s[i] \in S
  OBVIOUS
<1>2. /\ Front(s) = SubSeq(s, 1, n - 1) /\ Last(s) = s[n] /\ n \in 1 .. n
      /\ Front(s) = [i \in 1 .. n - 1 |-> s[i]]
  BY <1>1 DEF Front, Last
<1>3. Front(s) \in Seq(S) /\ DOMAIN Front(s) = 1 .. n - 1 /\ \A i \in 1 .. n - 1 : Front(s)[i] = s[i]
  BY <1>1, <1>2
<1>4. \A i : i \in 1 .. n <=> i \in 1 .. n - 1 \/ i = n
  BY <1>1
<1> QED BY <1>1, <1>2, <1>3, <1>4 DEF Range

\* A sequence that is not empty: its first element, and all the others.
LEMMA HeadAndTail ==
  ASSUME NEW S, NEW s \in Seq(S), s # <<>>
  PROVE  /\ Head(s) \in S /\ Tail(s) \in Seq(S)
         /\ Range(s) = {Head(s)} \union Range(Tail(s))
<1>1. PICK n \in Nat : n = Len(s) /\ n # 0 /\ DOMAIN s = 1 .. n /\ \A i \in 1 .. n : s[i] \in S
  OBVIOUS
<1>2. /\ Head(s) = s[1] /\ Tail(s) \in Seq(S) /\ DOMAIN Tail(s) = 1 .. n - 1
      /\ \A i \in 1 .. n - 1 : Tail(s)[i] = s[i + 1]
  BY <1>1
<1>3. /\ \A i \in 1 .. n - 1 : i + 1 \in 1 .. n
      /\ \A i \in 1 .. n : i = 1 \/ (i - 1 \in 1 .. n - 1 /\ (i - 1) + 1 = i)
      /\ 1 \in 1 .. n
  BY <1>1
<1>4. ASSUME NEW x \in Range(s) PROVE x \in {Head(s)} \union Range(Tail(s))
  <2>1. PICK i \in 1 .. n : x = s[i]
    BY <1>1 DEF Range
  <2>2. CASE i = 1
    BY <1>2, <2>1, <2>2
  <2>3. CASE i # 1
    <3>1. i - 1 \in 1 .. n - 1 /\ Tail(s)[i - 1] = s[(i - 1) + 1] /\ (i - 1) + 1 = i
      BY <1>2, <1>3, <2>3
    <3> QED BY <1>2, <2>1, <3>1 DEF Range
  <2> QED BY <2>2, <2>3
<1>5. ASSUME NEW x \in {Head(s)} \union Range(Tail(s)) PROVE x \in Range(s)
  BY <1>1, <1>2, <1>3 DEF Range
<1> QED BY <1>1, <1>2, <1>4, <1>5

\* A batch is put at the end.
LEMMA RangeOfAppend ==
  ASSUME NEW S, NEW s \in Seq(S), NEW x \in S
  PROVE  Append(s, x) \in Seq(S) /\ Range(Append(s, x)) = Range(s) \union {x}
<1>1. PICK n \in Nat : n = Len(s) /\ DOMAIN s = 1 .. n
  OBVIOUS
<1>2. /\ Append(s, x) \in Seq(S) /\ DOMAIN Append(s, x) = 1 .. n + 1
      /\ \A i \in 1 .. n : Append(s, x)[i] = s[i]
      /\ Append(s, x)[n + 1] = x
  BY <1>1
<1>3. \A i : i \in 1 .. n + 1 <=> i \in 1 .. n \/ i = n + 1
  OBVIOUS
<1> QED BY <1>1, <1>2, <1>3 DEF Range

\* A stage that was not called yet has no batches and asks nobody.
LEMMA EvidenceStarts ==
  ASSUME EvidenceInit
  PROVE  EvidenceInv
<1>1. FailoverTypeOK /\ DOMAIN left = {}
  BY NoCalls DEF EvidenceInit
<1>2. /\ stage = "idle" /\ sources = <<>> /\ todo = <<>> /\ batches = <<>>
      /\ jobs = <<>> /\ answer = <<>> /\ round = 0 /\ cache = {} /\ broken = {}
  BY DEF EvidenceInit
<1>3. DOMAIN <<>> = {} /\ \A S : <<>> \in Seq(S) /\ <<>> \in [{} -> S]
  OBVIOUS
<1>4. DOMAIN jobs = {} /\ DOMAIN answer = {} /\ DOMAIN todo = {} /\ DOMAIN batches = {} /\ DOMAIN sources = {}
  BY <1>2, <1>3
<1>5. round \in 0 .. MaxRounds
  BY <1>2, PoolAssumption
<1>6. Planned
  BY <1>2, <1>3, <1>4 DEF Planned, PagesIn
<1>7. Pooled
  BY <1>1, <1>2, <1>3, <1>4 DEF Pooled, In
<1>8. NothingRunsAfter /\ SavedIsNotAsked
  BY <1>4 DEF NothingRunsAfter, SavedIsNotAsked, In
<1>9. EvidenceTypeOK
  BY <1>1, <1>2, <1>3, <1>4, <1>5 DEF EvidenceTypeOK, Stages
<1> QED BY <1>6, <1>7, <1>8, <1>9 DEF EvidenceInv

\* The stage is called.
LEMMA StageStarts ==
  ASSUME EvidenceInv, NEW ps \in Seq(Pages), start_stage(ps)
  PROVE  EvidenceInv'
<1>1. /\ stage \in {"idle", "failed"} /\ ps # <<>>
      /\ stage' = "planning"
      /\ sources' = ps /\ todo' = Fragments(ps) /\ batches' = <<>>
      /\ jobs' = <<>> /\ answer' = <<>>
      /\ round' = round /\ cache' = cache /\ broken' = broken
      /\ preferred' = preferred /\ blocked' = blocked /\ left' = left /\ favourite' = favourite
  BY DEF start_stage, failoverVars
<1>2. Fragments(ps) \in Seq(FragmentsOf(DOMAIN ps)) /\ PagesIn(Fragments(ps)) = DOMAIN ps
  BY <1>1, FragmentsAre
<1>3. DOMAIN <<>> = {} /\ \A S : <<>> \in Seq(S) /\ <<>> \in [{} -> S]
  OBVIOUS
<1>4. DOMAIN jobs' = {} /\ DOMAIN answer' = {} /\ DOMAIN batches' = {}
  BY <1>1, <1>3
<1>5. DOMAIN left' = {}
  BY <1>1 DEF EvidenceInv, NothingRunsAfter, Pooled
<1>6. Planned'
  <2>1. PagesIn(batches') = {}
    BY <1>4 DEF PagesIn
  <2> QED BY <1>1, <1>2, <1>3, <2>1 DEF Planned
<1>7. Pooled'
  BY <1>1, <1>3, <1>4, <1>5 DEF Pooled, In
<1>8. NothingRunsAfter' /\ SavedIsNotAsked'
  BY <1>4 DEF NothingRunsAfter, SavedIsNotAsked, In
<1>9. EvidenceTypeOK'
  <2>1. FailoverTypeOK' /\ round' \in 0 .. MaxRounds /\ broken' \subseteq cache'
    BY <1>1 DEF EvidenceInv, EvidenceTypeOK, FailoverTypeOK
  <2>2. \A i \in DOMAIN todo' : todo'[i] \in FragmentsOf(DOMAIN ps)
    BY <1>1, <1>2
  <2>3. \A i \in DOMAIN todo' : todo'[i].pages \subseteq DOMAIN sources' /\ todo'[i].size \in Nat \ {0}
    BY <1>1, <2>2 DEF FragmentsOf
  <2> QED BY <1>1, <1>4, <2>1, <2>3 DEF EvidenceTypeOK, Stages
<1> QED BY <1>6, <1>7, <1>8, <1>9 DEF EvidenceInv

\* One fragment is packed: no batch grows beyond its size, no page gets lost,
\* and the turn makes progress because a batch that stays open has room.
LEMMA FragmentIsPacked ==
  ASSUME EvidenceInv, pack_fragment
  PROVE  EvidenceInv'
<1>1. PICK F, f, b, prefix, taken :
        /\ F = FragmentsOf(DOMAIN sources) /\ f = Head(todo)
        /\ b = (IF batches # <<>> /\ MaxChars - Last(batches).size >= MinRoom
                THEN Last(batches) ELSE Fragment({}, 0))
        /\ prefix = IF b.size > 0 THEN Gap ELSE 0
        /\ taken = Min({MaxChars - b.size - prefix, f.size})
  OBVIOUS
<1>2. PICK full, rest :
        /\ full = (IF batches # <<>> /\ MaxChars - Last(batches).size >= MinRoom
                   THEN Front(batches) ELSE batches)
        /\ rest = IF taken = f.size THEN <<>>
                  ELSE <<Fragment(f.pages, Header(f.pages) + f.size - taken)>>
  OBVIOUS
<1>3. /\ stage = "planning" /\ todo # <<>>
      /\ batches' = Append(full, Fragment(b.pages \union f.pages, b.size + prefix + taken))
      /\ todo' = rest \o Tail(todo)
      /\ stage' = stage /\ sources' = sources /\ jobs' = jobs /\ answer' = answer
      /\ round' = round /\ cache' = cache /\ broken' = broken
      /\ preferred' = preferred /\ blocked' = blocked /\ left' = left /\ favourite' = favourite
  BY <1>1, <1>2 DEF pack_fragment, poolVars, failoverVars
<1>4. /\ todo \in Seq(F) /\ batches \in Seq(F)
      /\ PagesIn(todo) \union PagesIn(batches) = DOMAIN sources
      /\ \A i \in DOMAIN batches : batches[i].size \in 1 .. MaxChars
  BY <1>1 DEF EvidenceInv, EvidenceTypeOK, Planned
<1>5. /\ f \in F /\ Tail(todo) \in Seq(F) /\ Range(todo) = {f} \union Range(Tail(todo))
  BY <1>1, <1>3, <1>4, HeadAndTail
<1>6. /\ MaxChars \in Nat \ {0} /\ Gap \in Nat /\ MinRoom \in Nat /\ Gap < MinRoom
  BY EvidenceAssumption
<1>7. /\ full \in Seq(F)
      /\ b.pages \subseteq DOMAIN sources
      /\ b.size \in 0 .. MaxChars
      /\ b.size > 0 => MaxChars - b.size >= MinRoom
      /\ \A n : (\E e \in Range(batches) : n \in e.pages)
                  <=> (\E e \in Range(full) : n \in e.pages) \/ n \in b.pages
  <2>1. CASE batches # <<>> /\ MaxChars - Last(batches).size >= MinRoom
    <3>1. b = Last(batches) /\ full = Front(batches)
      BY <1>1, <1>2, <2>1
    <3>2. /\ full \in Seq(F) /\ b \in F /\ b \in Range(batches)
          /\ Range(batches) = Range(full) \union {b}
      BY <1>4, <2>1, <3>1, FrontAndLast
    <3>3. b.size \in 1 .. MaxChars /\ b.pages \subseteq DOMAIN sources
      BY <1>1, <1>4, <3>2 DEF Range, FragmentsOf
    <3> QED BY <1>6, <2>1, <3>1, <3>2, <3>3
  <2>2. CASE ~(batches # <<>> /\ MaxChars - Last(batches).size >= MinRoom)
    <3>1. b = Fragment({}, 0) /\ full = batches
      BY <1>1, <1>2, <2>2
    <3>2. b.pages = {} /\ b.size = 0
      BY <3>1 DEF Fragment
    <3> QED BY <1>4, <1>6, <3>1, <3>2
  <2> QED BY <2>1, <2>2
<1>8. f.pages \subseteq DOMAIN sources /\ f.size \in Nat \ {0}
  BY <1>1, <1>5 DEF FragmentsOf
<1>9. /\ taken \in Nat \ {0} /\ taken <= f.size
      /\ b.size + prefix + taken \in 1 .. MaxChars
  <2>1. PICK x \in Nat, y \in Nat \ {0} : x = b.size /\ y = f.size /\ x <= MaxChars
    BY <1>6, <1>7, <1>8
  <2>2. PICK g \in Nat : g = prefix /\ MaxChars - x - g \in Nat \ {0}
    <3>1. CASE x = 0
      <4>1. prefix = 0
        BY <1>1, <2>1, <3>1
      <4> QED BY <1>6, <2>1, <3>1, <4>1
    <3>2. CASE x # 0
      <4>1. prefix = Gap /\ MaxChars - x >= MinRoom
        BY <1>1, <1>7, <2>1, <3>2
      <4>2. MaxChars - x - Gap \in Nat \ {0}
        BY <1>6, <2>1, <4>1
      <4> QED BY <1>6, <4>1, <4>2
    <3> QED BY <3>1, <3>2
  <2>3. PICK r \in Nat \ {0} : r = MaxChars - x - g
    BY <2>2
  <2>4. taken = IF r <= y THEN r ELSE y
    <3>1. Min({r, y}) = IF r <= y THEN r ELSE y
      BY MinOfTwo
    <3> QED BY <1>1, <2>1, <2>2, <2>3, <3>1
  <2>5. taken \in Nat \ {0} /\ taken <= y /\ taken <= r
    BY <2>4
  <2> QED BY <1>6, <2>1, <2>2, <2>3, <2>5
<1>10. PICK x : x = Fragment(b.pages \union f.pages, b.size + prefix + taken)
  OBVIOUS
<1>11. /\ x \in F /\ x.pages = b.pages \union f.pages /\ x.size \in 1 .. MaxChars
  <2>1. PICK z \in 1 .. MaxChars : z = b.size + prefix + taken
    BY <1>9
  <2>2. x = Fragment(b.pages \union f.pages, z) /\ z \in Nat \ {0}
    BY <1>6, <1>10, <2>1
  <2> QED BY <1>1, <1>7, <1>8, <2>2 DEF Fragment, FragmentsOf
<1>12. /\ batches' \in Seq(F) /\ Range(batches') = Range(full) \union {x}
       /\ Len(batches') = Len(full) + 1
       /\ \A i \in DOMAIN batches' : batches'[i] = x \/ batches'[i] \in Range(full)
  <2>1. Append(full, x) \in Seq(F) /\ Range(Append(full, x)) = Range(full) \union {x}
    BY <1>7, <1>11, RangeOfAppend
  <2>2. batches' = Append(full, x)
    BY <1>3, <1>10
  <2>3. \A i \in DOMAIN batches' : batches'[i] \in Range(batches')
    BY DEF Range
  <2> QED BY <1>7, <2>1, <2>2, <2>3
<1>13. \A e \in Range(full) : e.size \in 1 .. MaxChars
  <2>1. \A e \in Range(batches) : e.size \in 1 .. MaxChars
    BY <1>4 DEF Range
  <2>2. Range(full) \subseteq Range(batches)
    <3>1. CASE batches # <<>> /\ MaxChars - Last(batches).size >= MinRoom
      <4>1. full = Front(batches)
        BY <1>2, <3>1
      <4>2. Range(batches) = Range(full) \union {Last(batches)}
        BY <1>4, <3>1, <4>1, FrontAndLast
      <4> QED BY <4>2
    <3>2. CASE ~(batches # <<>> /\ MaxChars - Last(batches).size >= MinRoom)
      BY <1>2, <3>2
    <3> QED BY <3>1, <3>2
  <2> QED BY <2>1, <2>2
<1>14. rest \in Seq(F) /\ \A e \in Range(rest) : e.pages = f.pages
  <2>1. CASE taken = f.size
    <3>1. rest = <<>> /\ <<>> \in Seq(F) /\ Range(<<>>) = {}
      BY <1>2, <2>1 DEF Range
    <3> QED BY <3>1
  <2>2. CASE taken # f.size
    <3>1. IsFiniteSet(f.pages)
      <4>1. sources \in Seq(Pages)
        BY DEF EvidenceInv, EvidenceTypeOK
      <4>2. IsFiniteSet(DOMAIN sources)
        BY <4>1, FS_Interval
      <4> QED BY <1>8, <4>2, FS_Subset
    <3>2. Header(f.pages) \in Nat
      BY <3>1, HeaderTyped
    <3>3. PICK z \in Nat \ {0} : z = Header(f.pages) + f.size - taken
      BY <1>8, <1>9, <2>2, <3>2
    <3>4. PICK e : e = Fragment(f.pages, z)
      OBVIOUS
    <3>5. e \in F /\ e.pages = f.pages
      BY <1>1, <1>8, <3>4 DEF Fragment, FragmentsOf
    <3>6. rest = <<e>>
      BY <1>2, <2>2, <3>3, <3>4
    <3> QED BY <3>5, <3>6 DEF Range
  <2> QED BY <2>1, <2>2
<1>15. todo' \in Seq(F) /\ Range(todo') = Range(rest) \union Range(Tail(todo))
  <2>1. PICK t \in Seq(F) : t = Tail(todo)
    BY <1>5
  <2>2. rest \o t \in Seq(F) /\ Range(rest \o t) = Range(rest) \union Range(t)
    BY <1>14, RangeOfConcat
  <2> QED BY <1>3, <2>1, <2>2
<1>16. PagesIn(todo') \union PagesIn(batches') = DOMAIN sources
  <2>1. \A n : n \in PagesIn(todo) \/ n \in PagesIn(batches) <=> n \in DOMAIN sources
    BY <1>4
  <2>2. \A n : n \in PagesIn(todo) <=> n \in f.pages \/ \E e \in Range(Tail(todo)) : n \in e.pages
    BY <1>5, PagesAre
  <2>3. \A n : n \in PagesIn(batches) <=> n \in b.pages \/ \E e \in Range(full) : n \in e.pages
    BY <1>7, PagesAre
  <2>4. \A n : n \in PagesIn(batches') <=>
                 n \in b.pages \/ n \in f.pages \/ \E e \in Range(full) : n \in e.pages
    BY <1>11, <1>12, PagesAre
  <2>5. \A n : n \in PagesIn(todo') <=>
                 (\E e \in Range(rest) : n \in e.pages) \/ (\E e \in Range(Tail(todo)) : n \in e.pages)
    BY <1>15, PagesAre
  <2>6. \A n : (\E e \in Range(rest) : n \in e.pages) => n \in f.pages
    BY <1>14
  <2>7. \A n : n \in PagesIn(todo') \/ n \in PagesIn(batches') <=> n \in DOMAIN sources
    BY <2>1, <2>2, <2>3, <2>4, <2>5, <2>6
  <2> QED BY <2>7
<1>17. Planned'
  BY <1>1, <1>3, <1>12, <1>15, <1>16 DEF Planned
<1>18. Pooled'
  <2>1. DOMAIN jobs = {} /\ stage = "planning" /\ stage' = "planning"
    BY <1>3 DEF EvidenceInv, Pooled
  <2> QED BY <1>3, <2>1 DEF EvidenceInv, Pooled, In
<1>19. NothingRunsAfter' /\ SavedIsNotAsked'
  BY <1>3 DEF EvidenceInv, NothingRunsAfter, SavedIsNotAsked, In
<1>20. EvidenceTypeOK'
  <2>1. \A i \in DOMAIN todo' : todo'[i].pages \subseteq DOMAIN sources' /\ todo'[i].size \in Nat \ {0}
    <3>1. \A i \in DOMAIN todo' : todo'[i] \in F
      BY <1>15
    <3> QED BY <1>1, <1>3, <3>1 DEF FragmentsOf
  <2>2. \A i \in DOMAIN batches' :
          batches'[i].pages \subseteq DOMAIN sources' /\ batches'[i].size \in 1 .. MaxChars
    <3>1. \A i \in DOMAIN batches' : batches'[i] \in F /\ batches'[i].size \in 1 .. MaxChars
      BY <1>11, <1>12, <1>13
    <3>2. \A e \in F : e.pages \subseteq DOMAIN sources
      BY <1>1 DEF FragmentsOf
    <3> QED BY <1>3, <3>1, <3>2
  <2>3. FailoverTypeOK'
    BY <1>3 DEF EvidenceInv, EvidenceTypeOK, FailoverTypeOK
  <2>4. /\ stage' \in Stages /\ sources' \in Seq(Pages) /\ round' \in 0 .. MaxRounds
        /\ DOMAIN answer' = DOMAIN jobs' /\ broken' \subseteq cache'
        /\ \A i \in DOMAIN jobs' :
             /\ jobs'[i].state \in {"pending", "asking", "done", "failed", "cancelled"}
             /\ jobs'[i].attempt \in 0 .. MaxAttempts
    BY <1>3 DEF EvidenceInv, EvidenceTypeOK
  <2> QED BY <2>1, <2>2, <2>3, <2>4 DEF EvidenceTypeOK
<1> QED BY <1>17, <1>18, <1>19, <1>20 DEF EvidenceInv

\* Every batch gets a job.
LEMMA BatchesAreSubmitted ==
  ASSUME EvidenceInv, submit_batches
  PROVE  EvidenceInv'
<1>1. /\ stage = "planning" /\ todo = <<>> /\ stage' = "inferring"
      /\ jobs' = [i \in DOMAIN batches |-> [state |-> "pending", attempt |-> 0]]
      /\ answer' = [i \in DOMAIN batches |-> -1]
      /\ sources' = sources /\ todo' = todo /\ batches' = batches
      /\ round' = round /\ cache' = cache /\ broken' = broken
      /\ preferred' = preferred /\ blocked' = blocked /\ left' = left /\ favourite' = favourite
  BY DEF submit_batches, planVars, failoverVars
<1>2. [state |-> "pending", attempt |-> 0] \in JobRecords
  BY PoolAssumption DEF JobRecords, JobStates
<1>3. /\ DOMAIN jobs' = DOMAIN batches /\ DOMAIN answer' = DOMAIN batches
      /\ \A i \in DOMAIN batches : jobs'[i] \in JobRecords /\ jobs'[i].state = "pending"
      /\ jobs' \in [DOMAIN jobs' -> JobRecords] /\ answer' \in [DOMAIN jobs' -> Int]
  BY <1>1, <1>2
<1>4. /\ \A i : i \notin In("asking")' /\ i \notin In("done")'
  BY <1>3 DEF In
<1>5. DOMAIN left' = {}
  BY <1>1 DEF EvidenceInv, Pooled, In
<1>6. Planned'
  BY <1>1 DEF EvidenceInv, Planned, PagesIn
<1>7. Pooled'
  BY <1>1, <1>3, <1>4, <1>5 DEF Pooled
<1>8. NothingRunsAfter' /\ SavedIsNotAsked'
  BY <1>4 DEF NothingRunsAfter, SavedIsNotAsked
<1>9. EvidenceTypeOK'
  BY <1>1, <1>3 DEF EvidenceInv, EvidenceTypeOK, FailoverTypeOK, Stages, JobRecords, JobStates
<1> QED BY <1>6, <1>7, <1>8, <1>9 DEF EvidenceInv

-----------------------------------------------------------------------------
(* The pool.                                                               *)

\* What a batch is doing: only batches of a stage that runs wait or ask.
LEMMA StageOfJob ==
  ASSUME EvidenceInv, NEW i, i \in In("pending") \/ i \in In("asking")
  PROVE  i \in DOMAIN jobs /\ stage \in {"inferring", "aborting"} /\ (i \in In("pending") => stage = "inferring")
<1>1. i \in DOMAIN jobs /\ jobs[i].state \in {"pending", "asking"}
  BY DEF In
<1>2. stage \notin {"idle", "planning"}
  BY <1>1 DEF EvidenceInv, Pooled
<1>3. stage # "merged"
  BY <1>1 DEF EvidenceInv, Pooled, In
<1>4. stage # "failed"
  BY <1>1 DEF EvidenceInv, Pooled, NothingRunsAfter
<1>5. i \in In("pending") => stage # "aborting"
  BY DEF EvidenceInv, Pooled
<1> QED BY <1>1, <1>2, <1>3, <1>4, <1>5 DEF EvidenceInv, EvidenceTypeOK, Stages

\* One job moves on, the others stay as they are.
LEMMA JobMoves ==
  ASSUME jobs \in [DOMAIN jobs -> JobRecords], NEW i \in DOMAIN jobs,
         NEW s \in JobStates, NEW a \in 0 .. MaxAttempts,
         jobs' = [jobs EXCEPT ![i] = [state |-> s, attempt |-> a]]
  PROVE  /\ jobs' \in [DOMAIN jobs -> JobRecords] /\ DOMAIN jobs' = DOMAIN jobs
         /\ \A t, j : j \in In(t)' <=> j \in DOMAIN jobs /\ (IF j = i THEN t = s ELSE j \in In(t))
<1>1. [state |-> s, attempt |-> a] \in JobRecords
  BY DEF JobRecords
<1>2. jobs' \in [DOMAIN jobs -> JobRecords] /\ DOMAIN jobs' = DOMAIN jobs
  BY <1>1
<1>3. jobs'[i].state = s /\ \A j \in DOMAIN jobs : j # i => jobs'[j] = jobs[j]
  OBVIOUS
<1> QED BY <1>2, <1>3 DEF In

\* A step of one batch keeps the invariant: the providers are asked by those
\* who say so, an answer is to the current prompt, and nothing is
\* asked for that the disk holds undamaged.
LEMMA BatchKeeps ==
  ASSUME EvidenceInv, NEW i, i \in In("pending") \/ i \in In("asking"),
         NEW s \in JobStates \ {"pending"}, NEW a \in 0 .. MaxAttempts,
         jobs' = [jobs EXCEPT ![i] = [state |-> s, attempt |-> a]],
         \/ answer' = answer /\ s # "done"
         \/ answer' = [answer EXCEPT ![i] = round],
         \/ cache' = cache /\ broken' = broken
         \/ /\ cache' = cache \union {<<i, round>>}
            /\ \/ broken' = broken \ {<<i, round>>}
               \/ broken' = broken \union {<<i, round>>},
         s = "asking" => (<<i, round>> \in cache' => <<i, round>> \in broken'),
         FailoverTypeOK', DOMAIN left' = IF s = "asking" THEN DOMAIN left \union {i} ELSE DOMAIN left \ {i},
         stage' = stage, sources' = sources, todo' = todo, batches' = batches, round' = round
  PROVE  EvidenceInv'
<1>1. i \in DOMAIN jobs /\ stage \in {"inferring", "aborting"}
  BY StageOfJob
<1>2. jobs \in [DOMAIN jobs -> JobRecords] /\ answer \in [DOMAIN jobs -> Int]
  BY DEF EvidenceInv, Pooled
<1>3. /\ jobs' \in [DOMAIN jobs -> JobRecords] /\ DOMAIN jobs' = DOMAIN jobs
      /\ \A t, j : j \in In(t)' <=> j \in DOMAIN jobs /\ (IF j = i THEN t = s ELSE j \in In(t))
  BY <1>1, <1>2, JobMoves
<1>4. round \in Int
  BY DEF EvidenceInv, EvidenceTypeOK
<1>5. /\ answer' \in [DOMAIN jobs -> Int] /\ \A j \in DOMAIN jobs : j # i => answer'[j] = answer[j]
      /\ s = "done" => answer'[i] = round
  BY <1>1, <1>2, <1>4
<1>6. Planned'
  BY DEF EvidenceInv, Planned, PagesIn
<1>7. \A t, j : j \in In(t) => j \in DOMAIN jobs
  BY DEF In
<1>8. Pooled'
  <2>1. In("asking") = DOMAIN left
    BY DEF EvidenceInv, Pooled
  <2>2. In("asking")' = DOMAIN left'
    <3>1. \A j : j \in In("asking")' <=> j \in DOMAIN left'
      BY <1>1, <1>3, <1>7, <2>1
    <3> QED BY <3>1
  <2>3. \A j \in In("done")' : answer'[j] = round'
    BY <1>3, <1>5 DEF EvidenceInv, Pooled
  <2>4. DOMAIN jobs' = IF stage' \in {"idle", "planning"} THEN {} ELSE DOMAIN batches'
    BY <1>3 DEF EvidenceInv, Pooled
  <2>5. stage' \in {"aborting", "failed"} => In("pending")' = {}
    BY <1>1, <1>3 DEF EvidenceInv, Pooled
  <2>6. stage' # "merged"
    BY <1>1
  <2>7. jobs' \in [DOMAIN jobs' -> JobRecords] /\ answer' \in [DOMAIN jobs' -> Int]
    BY <1>3, <1>5
  <2> QED BY <2>2, <2>3, <2>4, <2>5, <2>6, <2>7 DEF Pooled
<1>9. NothingRunsAfter'
  BY <1>1 DEF NothingRunsAfter
<1>10. SavedIsNotAsked'
  <2>1. ASSUME NEW j \in In("asking")' PROVE <<j, round>> \in cache' => <<j, round>> \in broken'
    <3>1. CASE j = i
      BY <1>3, <3>1
    <3>2. CASE j # i
      <4>1. <<j, round>> # <<i, round>> /\ (<<j, round>> \in cache => <<j, round>> \in broken)
        BY <1>3, <3>2 DEF EvidenceInv, SavedIsNotAsked
      <4> QED BY <4>1
    <3> QED BY <3>1, <3>2
  <2> QED BY <2>1 DEF SavedIsNotAsked
<1>11. EvidenceTypeOK'
  <2>1. \A j \in DOMAIN jobs' :
          /\ jobs'[j].state \in {"pending", "asking", "done", "failed", "cancelled"}
          /\ jobs'[j].attempt \in 0 .. MaxAttempts
    <3>1. \A j \in DOMAIN jobs' : jobs'[j] \in JobRecords
      BY <1>3
    <3> QED BY <3>1 DEF JobRecords, JobStates
  <2>2. DOMAIN answer' = DOMAIN jobs'
    BY <1>3, <1>5
  <2>3. broken' \subseteq cache'
    BY DEF EvidenceInv, EvidenceTypeOK
  <2> QED BY <2>1, <2>2, <2>3 DEF EvidenceInv, EvidenceTypeOK
<1> QED BY <1>6, <1>8, <1>9, <1>10, <1>11 DEF EvidenceInv

\* A thread takes a batch.
LEMMA BatchIsTaken ==
  ASSUME EvidenceInv, NEW i, take_batch(i)
  PROVE  EvidenceInv'
<1>1. /\ i \in In("pending")
      /\ stage' = stage /\ sources' = sources /\ todo' = todo /\ batches' = batches
      /\ round' = round /\ cache' = cache /\ broken' = broken
  BY DEF take_batch, planVars
<1>2. FailoverTypeOK /\ In("asking") = DOMAIN left
  BY DEF EvidenceInv, EvidenceTypeOK, Pooled
<1>3. CASE Cached(i) = {}
  <2>1. /\ jobs' = [jobs EXCEPT ![i] = [state |-> "asking", attempt |-> 1]]
        /\ begin_call(i) /\ answer' = answer
    BY <1>3 DEF take_batch
  <2>2. FailoverTypeOK' /\ DOMAIN left' = DOMAIN left \union {i}
    BY <1>2, <2>1, CallBegins
  <2>3. <<i, round>> \in cache' => <<i, round>> \in broken'
    BY <1>1, <1>3 DEF Cached
  <2>4. "asking" \in JobStates \ {"pending"} /\ 1 \in 0 .. MaxAttempts
    BY PoolAssumption DEF JobStates
  <2>5. PICK s \in JobStates \ {"pending"}, a \in 0 .. MaxAttempts :
          jobs' = [jobs EXCEPT ![i] = [state |-> s, attempt |-> a]] /\ s = "asking"
    BY <2>1, <2>4
  <2> QED BY <1>1, <2>1, <2>2, <2>3, <2>5, BatchKeeps
<1>4. CASE Cached(i) # {}
  <2>1. Completes(i, CHOOSE r \in Cached(i) : TRUE) /\ left' = left /\ FailoverTypeOK'
    BY <1>2, <1>4 DEF take_batch, failoverVars, FailoverTypeOK
  <2>2. (CHOOSE r \in Cached(i) : TRUE) = round
    BY <1>4 DEF Cached
  <2>3. PICK s \in {"done", "failed"} : jobs' = [jobs EXCEPT ![i] = [state |-> s, attempt |-> 0]]
    BY <2>1 DEF Completes, Becomes
  <2>4. answer' = [answer EXCEPT ![i] = round]
    BY <2>1, <2>2 DEF Completes
  <2>5. s \in JobStates \ {"pending"} /\ s # "asking" /\ 0 \in 0 .. MaxAttempts
    BY PoolAssumption DEF JobStates
  <2>6. DOMAIN left' = DOMAIN left \ {i}
    <3>1. i \notin In("asking")
      BY <1>1 DEF In
    <3> QED BY <1>2, <2>1, <3>1
  <2> QED BY <1>1, <2>1, <2>3, <2>4, <2>5, <2>6, BatchKeeps
<1> QED BY <1>3, <1>4

\* A batch that asks has a call under way.
LEMMA AskingCalls ==
  ASSUME EvidenceInv, NEW i \in In("asking")
  PROVE  FailoverTypeOK /\ i \in DOMAIN left /\ i \in DOMAIN jobs /\ jobs[i] \in JobRecords /\ jobs[i].state = "asking"
<1>1. i \in DOMAIN jobs /\ jobs[i].state = "asking"
  BY DEF In
<1> QED BY <1>1 DEF EvidenceInv, EvidenceTypeOK, Pooled

\* Only the memory of the providers changes.
LEMMA FailoverMoves ==
  ASSUME EvidenceInv, FailoverTypeOK', DOMAIN left' = DOMAIN left,
         UNCHANGED <<stage, planVars, poolVars, round, cache, broken>>
  PROVE  EvidenceInv'
<1>1. /\ stage' = stage /\ sources' = sources /\ todo' = todo /\ batches' = batches
      /\ jobs' = jobs /\ answer' = answer /\ round' = round /\ cache' = cache /\ broken' = broken
  BY DEF planVars, poolVars
<1>2. \A s : In(s)' = In(s)
  BY <1>1 DEF In
<1>3. EvidenceTypeOK'
  BY <1>1 DEF EvidenceInv, EvidenceTypeOK
<1>4. Planned'
  BY <1>1 DEF EvidenceInv, Planned, PagesIn
<1>5. Pooled'
  BY <1>1, <1>2 DEF EvidenceInv, Pooled
<1> QED BY <1>1, <1>2, <1>3, <1>4, <1>5 DEF EvidenceInv, NothingRunsAfter, SavedIsNotAsked

\* A batch that is done, or has failed, is at no attempt.
LEMMA BatchBecomes ==
  ASSUME NEW i, NEW r \in {"done", "failed"}, Becomes(i, r)
  PROVE  \E s \in JobStates \ {"pending"}, a \in 0 .. MaxAttempts :
           s = r /\ jobs' = [jobs EXCEPT ![i] = [state |-> s, attempt |-> a]]
<1>1. r \in JobStates \ {"pending"} /\ 0 \in 0 .. MaxAttempts
  BY PoolAssumption DEF JobStates
<1>2. jobs' = [jobs EXCEPT ![i] = [state |-> r, attempt |-> 0]]
  BY DEF Becomes
<1> QED BY <1>1, <1>2

\* The answer was no schema: the batch asks again, a few times.
LEMMA BatchIsAskedAgain ==
  ASSUME EvidenceInv, NEW i, invalid_answer(i)
  PROVE  EvidenceInv'
<1>1. /\ i \in In("asking")
      /\ stage' = stage /\ sources' = sources /\ todo' = todo /\ batches' = batches
      /\ answer' = answer /\ round' = round /\ cache' = cache /\ broken' = broken
  BY DEF invalid_answer, planVars
<1>2. FailoverTypeOK /\ i \in DOMAIN left /\ i \in DOMAIN jobs /\ jobs[i] \in JobRecords /\ jobs[i].state = "asking"
  BY <1>1, AskingCalls
<1>3. CASE jobs[i].attempt < MaxAttempts
  <2>1. asked_again(i) /\ jobs' = [jobs EXCEPT ![i].attempt = @ + 1]
    BY <1>3 DEF invalid_answer
  <2>2. PICK a \in 0 .. MaxAttempts : a = jobs[i].attempt + 1
    BY <1>2, <1>3, PoolAssumption DEF JobRecords
  <2>3. [jobs[i] EXCEPT !.attempt = @ + 1] = [state |-> "asking", attempt |-> a]
    BY <1>2, <2>2 DEF JobRecords
  <2>4. jobs' = [jobs EXCEPT ![i] = [jobs[i] EXCEPT !.attempt = @ + 1]]
    BY <2>1
  <2>5. PICK s \in JobStates \ {"pending"} :
          s = "asking" /\ jobs' = [jobs EXCEPT ![i] = [state |-> s, attempt |-> a]]
    BY <2>3, <2>4 DEF JobStates
  <2>6. FailoverTypeOK' /\ DOMAIN left' = DOMAIN left \union {i}
    BY <1>2, <2>1, CallRepeats
  <2>7. <<i, round>> \in cache' => <<i, round>> \in broken'
    BY <1>1 DEF EvidenceInv, SavedIsNotAsked
  <2> QED BY <1>1, <2>5, <2>6, <2>7, BatchKeeps
<1>4. CASE ~(jobs[i].attempt < MaxAttempts)
  <2>1. provider_answers(i) /\ Becomes(i, "failed")
    BY <1>4 DEF invalid_answer
  <2>2. FailoverTypeOK' /\ DOMAIN left' = DOMAIN left \ {i}
    BY <1>2, <2>1, ProviderAnswers
  <2>3. PICK s \in JobStates \ {"pending"}, a \in 0 .. MaxAttempts :
          s = "failed" /\ jobs' = [jobs EXCEPT ![i] = [state |-> s, attempt |-> a]]
    BY <2>1, BatchBecomes
  <2> QED BY <1>1, <2>2, <2>3, BatchKeeps
<1> QED BY <1>3, <1>4

\* A valid answer is saved and completes the batch.
LEMMA BatchIsAnswered ==
  ASSUME EvidenceInv, NEW i, valid_answer(i)
  PROVE  EvidenceInv'
<1>1. /\ i \in In("asking") /\ provider_answers(i) /\ Completes(i, round)
      /\ cache' = cache \union {<<i, round>>}
      /\ \/ broken' = broken \ {<<i, round>>}
         \/ broken' = broken \union {<<i, round>>}
      /\ stage' = stage /\ sources' = sources /\ todo' = todo /\ batches' = batches /\ round' = round
  BY DEF valid_answer, planVars
<1>2. FailoverTypeOK /\ i \in DOMAIN left
  BY <1>1, AskingCalls
<1>3. FailoverTypeOK' /\ DOMAIN left' = DOMAIN left \ {i}
  BY <1>1, <1>2, ProviderAnswers
<1>4. answer' = [answer EXCEPT ![i] = round]
  BY <1>1 DEF Completes
<1>5. PICK s \in JobStates \ {"pending"}, a \in 0 .. MaxAttempts :
        s # "asking" /\ jobs' = [jobs EXCEPT ![i] = [state |-> s, attempt |-> a]]
  <2>1. PICK r \in {"done", "failed"} : Becomes(i, r)
    BY <1>1 DEF Completes
  <2> QED BY <2>1, BatchBecomes
<1> QED BY <1>1, <1>3, <1>4, <1>5, BatchKeeps

\* A batch raises.
LEMMA BatchFails ==
  ASSUME EvidenceInv, NEW i, batch_raises(i)
  PROVE  EvidenceInv'
<1>1. /\ i \in In("asking") /\ Becomes(i, "failed") /\ call_ends(i)
      /\ preferred' = preferred /\ blocked' = blocked
      /\ stage' = stage /\ sources' = sources /\ todo' = todo /\ batches' = batches
      /\ answer' = answer /\ round' = round /\ cache' = cache /\ broken' = broken
  BY DEF batch_raises, planVars
<1>2. FailoverTypeOK
  BY <1>1, AskingCalls
<1>3. FailoverTypeOK' /\ DOMAIN left' = DOMAIN left \ {i}
  <2>1. preferred' \in Providers /\ blocked' \subseteq Providers
    BY <1>1, <1>2 DEF FailoverTypeOK
  <2> QED BY <1>1, <1>2, <2>1, CallEnds
<1>4. PICK s \in JobStates \ {"pending"}, a \in 0 .. MaxAttempts :
        s = "failed" /\ jobs' = [jobs EXCEPT ![i] = [state |-> s, attempt |-> a]]
  BY <1>1, BatchBecomes
<1> QED BY <1>1, <1>3, <1>4, BatchKeeps

\* Any step of a batch.
LEMMA BatchSteps ==
  ASSUME EvidenceInv, NEW i, BatchStep(i)
  PROVE  EvidenceInv'
<1>1. CASE take_batch(i)
  BY <1>1, BatchIsTaken
<1>2. CASE ask_fails(i)
  <2>1. i \in In("asking") /\ provider_fails(i) /\ UNCHANGED <<stage, planVars, poolVars, round, cache, broken>>
    BY <1>2 DEF ask_fails
  <2>2. FailoverTypeOK /\ i \in DOMAIN left
    BY <2>1, AskingCalls
  <2>3. FailoverTypeOK' /\ DOMAIN left' = DOMAIN left
    BY <2>1, <2>2, ProviderFails
  <2> QED BY <2>1, <2>3, FailoverMoves
<1>3. CASE batch_raises(i)
  BY <1>3, BatchFails
<1>4. CASE invalid_answer(i)
  BY <1>4, BatchIsAskedAgain
<1>5. CASE valid_answer(i)
  BY <1>5, BatchIsAnswered
<1> QED BY <1>1, <1>2, <1>3, <1>4, <1>5 DEF BatchStep

\* A failure is noticed: what has not started will not start.
LEMMA FailureIsNoticed ==
  ASSUME EvidenceInv, notice_failure
  PROVE  EvidenceInv'
<1>1. /\ stage = "inferring" /\ stage' = "aborting"
      /\ jobs' = [i \in DOMAIN jobs |->
                    IF i \in In("pending") THEN [jobs[i] EXCEPT !.state = "cancelled"] ELSE jobs[i]]
      /\ sources' = sources /\ todo' = todo /\ batches' = batches
      /\ answer' = answer /\ round' = round /\ cache' = cache /\ broken' = broken
      /\ preferred' = preferred /\ blocked' = blocked /\ left' = left /\ favourite' = favourite
  BY DEF notice_failure, planVars, failoverVars
<1>2. \A i \in DOMAIN jobs : jobs[i] \in JobRecords
  BY DEF EvidenceInv, Pooled
<1>3. \A i \in DOMAIN jobs :
        /\ jobs'[i] \in JobRecords
        /\ i \in In("pending") => jobs'[i].state = "cancelled"
        /\ i \notin In("pending") => jobs'[i] = jobs[i]
  BY <1>1, <1>2 DEF JobRecords, JobStates
<1>4. DOMAIN jobs' = DOMAIN jobs /\ jobs' \in [DOMAIN jobs' -> JobRecords]
  <2>1. DOMAIN jobs' = DOMAIN jobs /\ jobs' = [i \in DOMAIN jobs |-> jobs'[i]]
    BY <1>1
  <2> QED BY <1>3, <2>1
<1>5. In("pending")' = {} /\ In("asking")' = In("asking") /\ In("done")' = In("done")
  BY <1>3, <1>4 DEF In
<1>6. FailoverTypeOK'
  BY <1>1 DEF EvidenceInv, EvidenceTypeOK, FailoverTypeOK
<1>7. EvidenceTypeOK'
  <2>1. \A j \in DOMAIN jobs' :
          /\ jobs'[j].state \in {"pending", "asking", "done", "failed", "cancelled"}
          /\ jobs'[j].attempt \in 0 .. MaxAttempts
    BY <1>3, <1>4 DEF JobRecords, JobStates
  <2> QED BY <1>1, <1>4, <1>6, <2>1 DEF EvidenceInv, EvidenceTypeOK, Stages
<1>8. Planned'
  BY <1>1 DEF EvidenceInv, Planned, PagesIn
<1>9. Pooled'
  BY <1>1, <1>4, <1>5 DEF EvidenceInv, Pooled
<1>10. NothingRunsAfter' /\ SavedIsNotAsked'
  BY <1>1, <1>5 DEF EvidenceInv, NothingRunsAfter, SavedIsNotAsked
<1> QED BY <1>7, <1>8, <1>9, <1>10 DEF EvidenceInv

\* The stage ends: with every answer, or with a failure when nobody asks any more.
LEMMA StageEnds ==
  ASSUME EvidenceInv, raise_failure \/ merge_answers
  PROVE  EvidenceInv'
<1>1. /\ \/ stage = "aborting" /\ stage' = "failed" /\ In("asking") = {}
         \/ stage = "inferring" /\ stage' = "merged" /\ In("done") = DOMAIN jobs
      /\ sources' = sources /\ todo' = todo /\ batches' = batches /\ jobs' = jobs
      /\ answer' = answer /\ round' = round /\ cache' = cache /\ broken' = broken
      /\ preferred' = preferred /\ blocked' = blocked /\ left' = left /\ favourite' = favourite
  BY DEF raise_failure, merge_answers, planVars, poolVars, failoverVars
<1>2. \A s : In(s)' = In(s)
  BY <1>1 DEF In
<1>3. In("done") = DOMAIN jobs => In("asking") = {}
  BY DEF In
<1>4. FailoverTypeOK'
  BY <1>1 DEF EvidenceInv, EvidenceTypeOK, FailoverTypeOK
<1>5. EvidenceTypeOK'
  BY <1>1, <1>4 DEF EvidenceInv, EvidenceTypeOK, Stages
<1>6. Planned'
  BY <1>1 DEF EvidenceInv, Planned, PagesIn
<1>7. Pooled'
  BY <1>1, <1>2 DEF EvidenceInv, Pooled
<1>8. NothingRunsAfter' /\ SavedIsNotAsked'
  BY <1>1, <1>2, <1>3 DEF EvidenceInv, NothingRunsAfter, SavedIsNotAsked
<1> QED BY <1>5, <1>6, <1>7, <1>8 DEF EvidenceInv

\* The stage is left, for another round or because the process dies: nothing
\* but the cache is kept of it.
LEMMA StageIsLeft ==
  ASSUME EvidenceInv, reject_schema \/ evidence_lost
  PROVE  EvidenceInv'
<1>1. /\ stage' = "idle"
      /\ sources' = <<>> /\ batches' = <<>> /\ jobs' = <<>> /\ answer' = <<>>
      /\ cache' = cache /\ broken' = broken /\ round' \in 0 .. MaxRounds
  <2>1. round \in 0 .. MaxRounds
    BY DEF EvidenceInv, EvidenceTypeOK
  <2> QED BY <2>1 DEF reject_schema, evidence_lost
<1>2. todo' = <<>>
  BY DEF reject_schema, evidence_lost, EvidenceInv, Planned
<1>3. DOMAIN <<>> = {} /\ \A S : <<>> \in Seq(S) /\ <<>> \in [{} -> S]
  OBVIOUS
<1>4. DOMAIN jobs' = {} /\ DOMAIN answer' = {} /\ DOMAIN todo' = {} /\ DOMAIN batches' = {} /\ DOMAIN sources' = {}
  BY <1>1, <1>2, <1>3
<1>5. FailoverTypeOK' /\ DOMAIN left' = {}
  <2>1. CASE evidence_lost
    BY <2>1, NoCalls DEF evidence_lost
  <2>2. CASE reject_schema
    <3>1. In("asking") = {} /\ In("asking") = DOMAIN left /\ FailoverTypeOK
      BY <2>2 DEF reject_schema, EvidenceInv, EvidenceTypeOK, NothingRunsAfter, Pooled
    <3>2. preferred' = preferred /\ blocked' = blocked /\ left' = left /\ favourite' = favourite
      BY <2>2 DEF reject_schema, failoverVars
    <3> QED BY <3>1, <3>2 DEF FailoverTypeOK
  <2> QED BY <2>1, <2>2
<1>6. Planned'
  BY <1>1, <1>2, <1>3, <1>4 DEF Planned, PagesIn
<1>7. Pooled'
  BY <1>1, <1>3, <1>4, <1>5 DEF Pooled, In
<1>8. NothingRunsAfter' /\ SavedIsNotAsked'
  BY <1>4 DEF NothingRunsAfter, SavedIsNotAsked, In
<1>9. EvidenceTypeOK'
  BY <1>1, <1>3, <1>4, <1>5 DEF EvidenceInv, EvidenceTypeOK, Stages
<1> QED BY <1>6, <1>7, <1>8, <1>9 DEF EvidenceInv

\* Any step of the stage.
LEMMA StageSteps ==
  ASSUME EvidenceInv, StageStep
  PROVE  EvidenceInv'
BY FragmentIsPacked, BatchesAreSubmitted, FailureIsNoticed, StageEnds, BatchSteps DEF StageStep

\* A back-off ends.
LEMMA BackoffSteps ==
  ASSUME EvidenceInv, BackoffEnds
  PROVE  EvidenceInv'
<1>1. PICK p : backoff_ends(p) /\ UNCHANGED <<stage, planVars, poolVars, round, cache, broken>>
  BY DEF BackoffEnds
<1>2. FailoverTypeOK
  BY DEF EvidenceInv, EvidenceTypeOK
<1>3. FailoverTypeOK' /\ left' = left
  BY <1>1, <1>2, BackoffTyped
<1> QED BY <1>1, <1>3, FailoverMoves

\* A saved answer is damaged: it may be asked for, and nothing else changes.
LEMMA DamageKeeps ==
  ASSUME EvidenceInv, NEW i, damage_answer(i)
  PROVE  EvidenceInv'
<1>1. /\ <<i, round>> \in cache /\ broken' = broken \union {<<i, round>>}
      /\ UNCHANGED <<stage, planVars, poolVars, round, cache, failoverVars>>
  BY DEF damage_answer
<1>2. /\ stage' = stage /\ sources' = sources /\ todo' = todo /\ batches' = batches
      /\ jobs' = jobs /\ answer' = answer /\ round' = round /\ cache' = cache
      /\ preferred' = preferred /\ blocked' = blocked /\ left' = left /\ favourite' = favourite
  BY <1>1 DEF planVars, poolVars, failoverVars
<1>3. \A s : In(s)' = In(s)
  BY <1>2 DEF In
<1>4. FailoverTypeOK'
  BY <1>2 DEF EvidenceInv, EvidenceTypeOK, FailoverTypeOK
<1>5. EvidenceTypeOK'
  BY <1>1, <1>2, <1>4 DEF EvidenceInv, EvidenceTypeOK
<1>6. Planned' /\ Pooled'
  BY <1>2, <1>3 DEF EvidenceInv, Planned, PagesIn, Pooled
<1>7. NothingRunsAfter' /\ SavedIsNotAsked'
  BY <1>1, <1>2, <1>3 DEF EvidenceInv, NothingRunsAfter, SavedIsNotAsked
<1> QED BY <1>5, <1>6, <1>7 DEF EvidenceInv

\* The stage rests.
LEMMA StageRests ==
  ASSUME EvidenceInv, UNCHANGED evidenceVars
  PROVE  EvidenceInv'
<1>1. /\ UNCHANGED <<stage, planVars, poolVars, round, cache, broken>>
      /\ preferred' = preferred /\ blocked' = blocked /\ left' = left /\ favourite' = favourite
  BY DEF evidenceVars, failoverVars
<1>2. FailoverTypeOK'
  BY <1>1 DEF EvidenceInv, EvidenceTypeOK, FailoverTypeOK
<1> QED BY <1>1, <1>2, FailoverMoves

\* What the invariant says of a merged schema.
LEMMA WholeWhenMerged ==
  ASSUME EvidenceInv
  PROVE  MergedIsWhole
<1> SUFFICES ASSUME stage = "merged" PROVE MergedIsWhole
  BY DEF MergedIsWhole
<1>1. todo = <<>> /\ PagesIn(todo) \union PagesIn(batches) = DOMAIN sources
  BY DEF EvidenceInv, Planned
<1>2. DOMAIN <<>> = {}
  OBVIOUS
<1>3. PagesIn(batches) = DOMAIN sources
  BY <1>1, <1>2 DEF PagesIn
<1>4. In("done") = DOMAIN batches /\ \A i \in DOMAIN batches : answer[i] = round
  BY DEF EvidenceInv, Pooled
<1> QED BY <1>3, <1>4 DEF MergedIsWhole, PagesIn

=============================================================================
