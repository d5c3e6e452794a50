----------------------------- MODULE ConfigProofs -----------------------------
(***************************************************************************)
(* Proofs about Config: what a configuration file says is what the client  *)
(* is configured with, for every file.                                     *)
(***************************************************************************)
EXTENDS Config, FiniteSetTheorems, WellFoundedInduction, TLAPS

-----------------------------------------------------------------------------
(* The smallest and the largest number of a set.                           *)

\* A set of numbers that is not empty and has a bound has a largest number:
\* of the intervals from a member to the bound, one contains no other.
LEMMA MaxOfSet ==
    ASSUME NEW n \in Nat, NEW S \in SUBSET (0 .. n), S # {}
    PROVE  Max(S) \in S /\ \A x \in S : x <= Max(S)
<1> DEFINE T == {x .. n : x \in S}
           R == StrictSubsetOrdering(0 .. n)
<1>1. IsFiniteSet(0 .. n)
    BY FS_Interval
<1>2. T \subseteq FiniteSubsetsOf(0 .. n)
    BY <1>1, FS_FiniteSubsetsOfFinite
<1>3. T # {}
    OBVIOUS
<1>4. IsWellFoundedOn(R, FiniteSubsetsOf(0 .. n))
    BY FS_StrictSubsetOrderingWellFounded
<1>5. PICK t \in T : \A u \in T : <<u, t>> \notin R
    <2> HIDE DEF T, R
    <2> QED
        BY <1>2, <1>3, <1>4, WFMin
<1>6. PICK x \in S : t = x .. n
    OBVIOUS
<1>7. ASSUME NEW y \in S PROVE y <= x
    <2>1. y .. n \in T /\ y .. n \subseteq 0 .. n /\ t \subseteq 0 .. n
        BY <1>6
    <2>2. ~(y .. n \subseteq t /\ y .. n # t)
        BY <2>1, <1>5 DEF StrictSubsetOrdering
    <2>3. CASE y > x
        <3>1. y .. n \subseteq x .. n /\ x \in x .. n /\ x \notin y .. n
            BY <2>3
        <3> QED
            BY <3>1, <2>2, <1>6
    <2> QED
        BY <2>3
<1> QED
    BY <1>7 DEF Max

\* The same of the smallest.
LEMMA MinOfSet ==
    ASSUME NEW n \in Nat, NEW S \in SUBSET (0 .. n), S # {}
    PROVE  Min(S) \in S /\ \A x \in S : Min(S) <= x
<1> DEFINE T == {n - x : x \in S}
<1>1. T \in SUBSET (0 .. n) /\ T # {}
    OBVIOUS
<1>2. Max(T) \in T /\ \A y \in T : y <= Max(T)
    BY <1>1, MaxOfSet
<1>3. PICK x \in S : Max(T) = n - x
    BY <1>2
<1>4. \A y \in S : x <= y
    <2> SUFFICES ASSUME NEW y \in S PROVE x <= y
        OBVIOUS
    <2>1. n - y \in T
        OBVIOUS
    <2>2. n - y <= n - x
        BY <2>1, <1>2, <1>3
    <2> QED
        BY <2>2
<1> QED
    BY <1>4 DEF Min

\* A number is the largest of a set if it is one of it and no other is larger.
LEMMA MaxIs ==
    ASSUME NEW S \in SUBSET Nat, NEW x \in S, \A y \in S : y <= x
    PROVE  Max(S) = x
<1>1. \A z \in S : (\A y \in S : z >= y) => z = x
    OBVIOUS
<1> QED
    BY <1>1 DEF Max

LEMMA MinIs ==
    ASSUME NEW S \in SUBSET Nat, NEW x \in S, \A y \in S : x <= y
    PROVE  Min(S) = x
<1>1. \A z \in S : (\A y \in S : z =< y) => z = x
    OBVIOUS
<1> QED
    BY <1>1 DEF Min

-----------------------------------------------------------------------------
(* Strings.                                                                *)

String == Seq(Tokens)

LEMMA PartOf ==
    ASSUME NEW s \in String, NEW i \in Nat \ {0}, NEW j \in 0 .. Len(s)
    PROVE  /\ SubSeq(s, i, j) \in String
           /\ i <= j => SubSeq(s, i, j) # <<>> /\ SubSeq(s, i, j)[1] = s[i]
           /\ i > j => SubSeq(s, i, j) = <<>>
BY DEF String

\* trim takes away exactly the blanks around a string.
LEMMA Trimmed ==
    ASSUME NEW s \in String
    PROVE  trim(s) = Strip(s) /\ Strip(s) \in String
<1> DEFINE inner == {p \in DOMAIN s : s[p] \notin Blank}
           n == Len(s)
<1>1. n \in Nat /\ DOMAIN s = 1 .. n /\ s # NULL
    BY NullAssumption DEF String
<1>2. CASE inner = {}
    <2>1. {Len(s) + 1} \cup inner = {n + 1}
        BY <1>2
    <2>2. frontp(s) = n + 1
        BY <2>1, <1>1, MinIs DEF frontp
    <2>3. {0} \cup {p \in DOMAIN s : s[p] \notin Blank \/ p = frontp(s)} = {0}
        BY <2>2, <1>1, <1>2
    <2>4. endp(s) = 0
        BY <2>3, MaxIs DEF endp
    <2>5. SubSeq(s, n + 1, 0) = <<>>
        BY <1>1, PartOf
    <2> QED
        BY <2>2, <2>4, <2>5, <1>1, <1>2 DEF trim, Strip, String
<1>3. CASE inner # {}
    <2> HIDE DEF n
    <2>1. inner \in SUBSET (0 .. n)
        BY <1>1
    <2>2. /\ Min(inner) \in inner /\ \A p \in inner : Min(inner) <= p
          /\ Max(inner) \in inner /\ \A p \in inner : p <= Max(inner)
        <3> HIDE DEF inner
        <3> QED
            BY <1>1, <2>1, <1>3, MinOfSet, MaxOfSet
    <2>3. frontp(s) = Min(inner)
        <3> DEFINE S == {Len(s) + 1} \cup inner
        <3>1. \A p \in inner : p \in Nat /\ p <= Len(s)
            BY <2>1, <1>1 DEF n
        <3> HIDE DEF inner
        <3>2. \A p \in S : p \in Nat /\ Min(inner) <= p
            BY <3>1, <2>2, <1>1 DEF n
        <3>3. S \in SUBSET Nat /\ Min(inner) \in S
            BY <3>2, <2>2
        <3>4. Min(S) = Min(inner)
            <4> HIDE DEF S
            <4> QED
                BY <3>2, <3>3, MinIs
        <3> QED
            BY <3>4 DEF frontp, inner
    <2>4. endp(s) = Max(inner)
        <3>1. {0} \cup {p \in DOMAIN s : s[p] \notin Blank \/ p = frontp(s)} = {0} \cup inner
            BY <2>2, <2>3, <1>1
        <3> DEFINE S == {0} \cup inner
        <3>2. \A p \in inner : p \in Nat
            BY <2>1, <1>1
        <3> HIDE DEF inner
        <3>3. \A p \in S : p \in Nat /\ p <= Max(inner)
            BY <3>2, <2>2
        <3>4. S \in SUBSET Nat /\ Max(inner) \in S
            BY <3>3, <2>2
        <3>5. Max(S) = Max(inner)
            <4> HIDE DEF S
            <4> QED
                BY <3>3, <3>4, MaxIs
        <3> QED
            BY <3>1, <3>5 DEF endp
    <2>5. s # <<>>
        BY <1>3, <1>1
    <2>6. Strip(s) = SubSeq(s, Min(inner), Max(inner))
        BY <1>3 DEF Strip
    <2>7. Strip(s) \in String
        BY <2>6, <2>2, <1>1, PartOf DEF n
    <2> QED
        BY <2>3, <2>4, <2>5, <2>6, <2>7, <1>1 DEF trim
<1> QED
    BY <1>2, <1>3

\* The first place of a string that is in a set, or the one after its end.
LEMMA FirstOf ==
    ASSUME NEW n \in Nat, NEW S \in SUBSET (1 .. n)
    PROVE  /\ Min({n + 1} \cup S) \in 1 .. n + 1
           /\ Min({n + 1} \cup S) # n + 1 => Min({n + 1} \cup S) \in S
           /\ \A p \in S : Min({n + 1} \cup S) <= p
<1> DEFINE T == {n + 1} \cup S
<1>1. T \in SUBSET (0 .. n + 1) /\ T # {} /\ n + 1 \in Nat
    OBVIOUS
<1>2. Min(T) \in T /\ \A p \in T : Min(T) <= p
    <2> HIDE DEF T
    <2> QED
        BY <1>1, MinOfSet
<1>3. \A x \in T : x \in 1 .. n + 1 /\ (x # n + 1 => x \in S)
    OBVIOUS
<1>4. S \subseteq T
    OBVIOUS
<1> HIDE DEF T
<1>5. /\ Min(T) \in 1 .. n + 1 /\ (Min(T) # n + 1 => Min(T) \in S)
      /\ \A p \in S : Min(T) <= p
    BY <1>2, <1>3, <1>4
<1> QED
    BY <1>5 DEF T

\* Where the name of a line begins and where it ends.
LEMMA NameIsBetween ==
    ASSUME NEW s \in String
    PROVE  /\ Begin(s) \in 1 .. Len(s) + 1 /\ Equals(s) \in 1 .. Len(s) + 1
           /\ \A p \in 1 .. Begin(s) - 1 : s[p] = "="
           /\ \A p \in Begin(s) .. Equals(s) - 1 : s[p] # "="
           /\ Equals(s) <= Len(s) => s[Equals(s)] = "=" /\ Begin(s) < Equals(s)
           /\ Begin(s) <= Len(s) => s[Begin(s)] # "=" /\ Begin(s) < Equals(s)
           /\ Begin(s) <= Equals(s)
<1> DEFINE n == Len(s)
           B == {p \in DOMAIN s : s[p] # "="}
           E == {p \in DOMAIN s : p > Begin(s) /\ s[p] = "="}
<1>1. n \in Nat /\ DOMAIN s = 1 .. n
    BY DEF String
<1>2. B \in SUBSET (1 .. n) /\ E \in SUBSET (1 .. n)
    BY <1>1
<1>3. /\ Begin(s) \in 1 .. n + 1 /\ (Begin(s) # n + 1 => Begin(s) \in B)
      /\ \A p \in B : Begin(s) <= p
    <2>1. Begin(s) = Min({n + 1} \cup B)
        BY DEF Begin
    <2>2. n \in Nat /\ B \in SUBSET (1 .. n)
        BY <1>1, <1>2
    <2> HIDE DEF n, B, E
    <2>3. /\ Min({n + 1} \cup B) \in 1 .. n + 1
          /\ Min({n + 1} \cup B) # n + 1 => Min({n + 1} \cup B) \in B
          /\ \A p \in B : Min({n + 1} \cup B) <= p
        BY ONLY <2>2, FirstOf
    <2> QED
        BY <2>1, <2>3
<1>4. /\ Equals(s) \in 1 .. n + 1 /\ (Equals(s) # n + 1 => Equals(s) \in E)
      /\ \A p \in E : Equals(s) <= p
    <2>1. Equals(s) = Min({n + 1} \cup E)
        BY DEF Equals
    <2>2. n \in Nat /\ E \in SUBSET (1 .. n)
        BY <1>1, <1>2
    <2> HIDE DEF n, B, E
    <2>3. /\ Min({n + 1} \cup E) \in 1 .. n + 1
          /\ Min({n + 1} \cup E) # n + 1 => Min({n + 1} \cup E) \in E
          /\ \A p \in E : Min({n + 1} \cup E) <= p
        BY ONLY <2>2, FirstOf
    <2> QED
        BY <2>1, <2>3
<1>5. ASSUME NEW p \in 1 .. Begin(s) - 1 PROVE s[p] = "="
    BY <1>1, <1>3
<1>6. ASSUME NEW p \in Begin(s) .. Equals(s) - 1 PROVE s[p] # "="
    <2>1. p \in 1 .. n /\ p \notin E
        BY <1>1, <1>3, <1>4
    <2>2. CASE p = Begin(s)
        BY <2>1, <2>2, <1>3
    <2>3. CASE p > Begin(s)
        BY <2>1, <2>3, <1>1
    <2> QED
        BY <2>1, <2>2, <2>3, <1>3
<1>7. Equals(s) <= n => s[Equals(s)] = "=" /\ Begin(s) < Equals(s)
    BY <1>1, <1>3, <1>4
<1>8. Begin(s) <= n => s[Begin(s)] # "=" /\ Begin(s) < Equals(s)
    BY <1>1, <1>3, <1>4
<1> QED
    BY <1>1, <1>3, <1>4, <1>5, <1>6, <1>7, <1>8

\* What strtok makes of a run that begins at first.
Run(s, first) ==
    SubSeq(s, first, Max({p \in DOMAIN s : p >= first /\ \A q \in first .. p : s[q] # "="}))

\* A run ends before the next delimiter.
LEMMA RunEnds ==
    ASSUME NEW s \in String, NEW i \in Nat, NEW j \in Nat,
           1 <= i, i <= j, j <= Len(s),
           \A p \in i .. j : s[p] # "=", j < Len(s) => s[j + 1] = "="
    PROVE  Run(s, i) = SubSeq(s, i, j)
<1> DEFINE S == {p \in DOMAIN s : p >= i /\ \A q \in i .. p : s[q] # "="}
<1>1. Len(s) \in Nat /\ DOMAIN s = 1 .. Len(s)
    BY DEF String
<1>2. S \in SUBSET Nat
    BY <1>1
<1>3. j \in DOMAIN s
    BY <1>1
<1>4. j \in S
    BY <1>3
<1>5. ASSUME NEW p \in S, p > j PROVE FALSE
    <2>1. p \in 1 .. Len(s) /\ \A q \in i .. p : s[q] # "="
        BY <1>1
    <2>2. j < Len(s) /\ j + 1 \in i .. p
        <3> HIDE DEF S
        <3>1. p \in Int /\ p <= Len(s) /\ p > j
            BY <2>1, <1>1, <1>5
        <3> QED
            BY <3>1, <1>1
    <2> QED
        BY <2>1, <2>2
<1>6. \A p \in S : p <= j
    BY <1>2, <1>3, <1>5
<1>7. Max(S) = j
    <2> HIDE DEF S
    <2> QED
        BY <1>2, <1>4, <1>6, MaxIs
<1> QED
    BY <1>7 DEF Run

\* The places where runs start are finitely many.
LEMMA StartsFinite ==
    ASSUME NEW s \in String
    PROVE  /\ Starts(s) \subseteq 1 .. Len(s)
           /\ IsFiniteSet(Starts(s)) /\ Cardinality(Starts(s)) \in Nat
<1>1. Len(s) \in Nat /\ DOMAIN s = 1 .. Len(s)
    BY DEF String
<1>2. IsFiniteSet(1 .. Len(s))
    BY <1>1, FS_Interval
<1>3. Starts(s) \in SUBSET (1 .. Len(s))
    BY <1>1 DEF Starts
<1> QED
    BY <1>2, <1>3, FS_Subset, FS_CardinalityType

\* The first token: the text between the delimiters before it and the next,
\* or none if there are only delimiters.
LEMMA FirstToken ==
    ASSUME NEW s \in String
    PROVE  strtok(s, 1) = IF Begin(s) <= Len(s) THEN SubSeq(s, Begin(s), Equals(s) - 1) ELSE NULL
<1> DEFINE b == Begin(s)
<1>1. Len(s) \in Nat /\ DOMAIN s = 1 .. Len(s)
    BY DEF String
<1>2. CASE b > Len(s)
    <2>1. Starts(s) = {}
        BY <1>1, <1>2, NameIsBetween DEF Starts
    <2>2. Cardinality(Starts(s)) = 0
        BY <2>1, FS_EmptySet
    <2> QED
        BY <2>2, <1>1, <1>2, NameIsBetween DEF strtok
<1>3. CASE b <= Len(s)
    <2>1. b \in Starts(s)
        BY <1>1, <1>3, NameIsBetween DEF Starts
    <2>2. \A q \in Starts(s) : b <= q
        BY <1>1, NameIsBetween DEF Starts
    <2>3. {q \in Starts(s) : q < b} = {}
        <3>1. \A q \in Starts(s) : q \in Int
            BY <1>1, StartsFinite
        <3>2. b \in Int
            BY <1>1, NameIsBetween
        <3> QED
            BY <3>1, <3>2, <2>2
    <2>4. Cardinality({q \in Starts(s) : q < b}) = 1 - 1
        BY <2>3, FS_EmptySet
    <2>5. ASSUME NEW p \in Starts(s), Cardinality({q \in Starts(s) : q < p}) = 1 - 1
          PROVE  p = b
        <3> DEFINE before == {q \in Starts(s) : q < p}
        <3>1. before = {}
            <4>1. Cardinality(before) = 0
                BY <2>5
            <4>2. IsFiniteSet(before)
                BY StartsFinite, FS_Subset
            <4> HIDE DEF before
            <4> QED
                BY <4>1, <4>2, FS_EmptySet
        <3>2. ~(b < p)
            BY <3>1, <2>1
        <3>3. b <= p /\ b \in Int /\ p \in Int
            BY <2>2, <1>1, NameIsBetween, StartsFinite
        <3> QED
            BY <3>2, <3>3
    <2>6. (CHOOSE p \in Starts(s) : Cardinality({q \in Starts(s) : q < p}) = 1 - 1) = b
        BY <2>1, <2>4, <2>5
    <2>7. ~(Cardinality(Starts(s)) < 1)
        <3>1. IsFiniteSet(Starts(s)) /\ Starts(s) # {} /\ Cardinality(Starts(s)) \in Nat
            BY <2>1, StartsFinite
        <3>2. Cardinality(Starts(s)) # 0
            BY <3>1, FS_EmptySet
        <3> QED
            BY <3>1, <3>2
    <2>8. strtok(s, 1) = Run(s, b)
        BY <2>6, <2>7 DEF strtok, Run
    <2>9. Run(s, b) = SubSeq(s, b, Equals(s) - 1)
        <3>1. /\ b \in Nat /\ Equals(s) - 1 \in Nat /\ 1 <= b /\ b <= Equals(s) - 1 /\ Equals(s) - 1 <= Len(s)
              /\ \A p \in b .. Equals(s) - 1 : s[p] # "="
              /\ Equals(s) - 1 < Len(s) => s[(Equals(s) - 1) + 1] = "="
            BY <1>1, <1>3, NameIsBetween
        <3> QED
            BY <3>1, RunEnds
    <2> QED
        BY <2>8, <2>9, <1>3
<1> QED
    BY <1>1, <1>2, <1>3, NameIsBetween

\* The second token of a line with one "=" and something on either side: the
\* text after it.
LEMMA SecondToken ==
    ASSUME NEW s \in String, Cardinality({p \in DOMAIN s : s[p] = "="}) = 1,
           Equals(s) < Len(s)
    PROVE  strtok(s, 2) = SubSeq(s, Equals(s) + 1, Len(s))
<1> DEFINE e == Equals(s)
           D == {p \in DOMAIN s : s[p] = "="}
<1>1. Len(s) \in Nat /\ DOMAIN s = 1 .. Len(s)
    BY DEF String
<1>2. e \in 1 .. Len(s) /\ s[e] = "=" /\ Begin(s) < e /\ Begin(s) \in 1 .. Len(s)
    BY <1>1, NameIsBetween
<1>3. D = {e}
    <2>1. IsFiniteSet(D)
        <3>1. IsFiniteSet(1 .. Len(s)) /\ D \in SUBSET (1 .. Len(s))
            BY <1>1, FS_Interval
        <3> QED
            BY <3>1, FS_Subset
    <2>2. PICK x : D = {x}
        BY <2>1, FS_Singleton
    <2>3. e \in D
        BY <1>1, <1>2
    <2> QED
        BY <2>2, <2>3
<1>4. \A p \in 1 .. Len(s) : s[p] = "=" <=> p = e
    BY <1>1, <1>3
<1>5. e # 1
    BY <1>2
<1>6. Starts(s) = {1, e + 1}
    BY <1>1, <1>2, <1>4, <1>5 DEF Starts
<1>7. {q \in Starts(s) : q < e + 1} = {1} /\ {q \in Starts(s) : q < 1} = {}
    BY <1>2, <1>6
<1>8. Cardinality({q \in Starts(s) : q < e + 1}) = 1 /\ Cardinality({q \in Starts(s) : q < 1}) = 0
    BY <1>7, FS_Singleton, FS_EmptySet
<1>9. Cardinality(Starts(s)) = 2
    <2>1. IsFiniteSet({1}) /\ Cardinality({1}) = 1
        BY FS_Singleton
    <2>2. e + 1 \notin {1} /\ Starts(s) = {1} \cup {e + 1}
        BY <1>2, <1>6
    <2>3. Cardinality({1} \cup {e + 1}) = Cardinality({1}) + 1
        BY <2>1, <2>2, FS_AddElement
    <2>4. Cardinality(Starts(s)) = 1 + 1
        BY <2>1, <2>2, <2>3
    <2> QED
        BY <2>4
<1>10. (CHOOSE p \in Starts(s) : Cardinality({q \in Starts(s) : q < p}) = 2 - 1) = e + 1
    BY <1>6, <1>8
<1>11. strtok(s, 2) = Run(s, e + 1)
    <2>1. ~(Cardinality(Starts(s)) < 2)
        BY <1>9
    <2> QED
        BY <2>1, <1>10 DEF strtok, Run
<1>12. /\ e + 1 \in Nat /\ Len(s) \in Nat /\ 1 <= e + 1 /\ e + 1 <= Len(s) /\ Len(s) <= Len(s)
       /\ \A p \in e + 1 .. Len(s) : s[p] # "="
    BY <1>1, <1>2, <1>4
<1>13. Len(s) < Len(s) => s[Len(s) + 1] = "="
    BY <1>1
<1>14. Run(s, e + 1) = SubSeq(s, e + 1, Len(s))
    <2> HIDE DEF e
    <2> QED
        BY <1>12, <1>13, RunEnds
<1> QED
    BY <1>11, <1>14

\* The text from a start of a run to its end is a string.
LEMMA RunTyped ==
    ASSUME NEW s \in String, NEW i \in Starts(s)
    PROVE  Run(s, i) \in String
<1> DEFINE S == {p \in DOMAIN s : p >= i /\ \A q \in i .. p : s[q] # "="}
<1>1. Len(s) \in Nat /\ DOMAIN s = 1 .. Len(s)
    BY DEF String
<1>2. i \in 1 .. Len(s) /\ s[i] # "="
    BY <1>1 DEF Starts
<1>3. \A q \in i .. i : s[q] # "="
    BY <1>2
<1>4. i \in S /\ S \in SUBSET (0 .. Len(s)) /\ \A p \in S : p \in 1 .. Len(s)
    BY <1>1, <1>2, <1>3
<1>5. Max(S) \in 1 .. Len(s)
    <2> HIDE DEF S
    <2>1. S # {}
        BY <1>4
    <2> QED
        BY <1>1, <1>4, <2>1, MaxOfSet
<1>6. SubSeq(s, i, Max(S)) \in String
    <2> HIDE DEF S
    <2> QED
        BY <1>1, <1>2, <1>5, PartOf
<1> QED
    BY <1>6 DEF Run

\* What the second call of strtok returns is a string or NULL.
LEMMA TokenTyped ==
    ASSUME NEW s \in String
    PROVE  strtok(s, 2) \in {NULL} \cup String
<1>1. CASE Cardinality(Starts(s)) < 2
    BY <1>1 DEF strtok
<1>2. CASE ~(Cardinality(Starts(s)) < 2)
    <2> DEFINE S == Starts(s)
               n == Len(s)
               m == Min(S)
               T == S \ {m}
    <2>1. n \in Nat /\ S \in SUBSET (0 .. n) /\ IsFiniteSet(S) /\ Cardinality(S) \in Nat
        BY StartsFinite DEF String
    <2>2. S # {}
        BY <1>2, FS_EmptySet
    <2>3. m \in S /\ \A q \in S : m <= q
        <3> HIDE DEF S, n
        <3> QED
            BY <2>1, <2>2, MinOfSet
    <2>4. T # {}
        <3> SUFFICES ASSUME S = {m} PROVE FALSE
            BY <2>3
        <3> HIDE DEF m
        <3> QED
            BY <1>2, FS_Singleton
    <2>5. T \in SUBSET (0 .. n)
        BY <2>1
    <2>6. Min(T) \in T /\ \A q \in T : Min(T) <= q
        <3> HIDE DEF T, n
        <3> QED
            BY <2>1, <2>4, <2>5, MinOfSet
    <2>7. {q \in S : q < Min(T)} = {m}
        <3> DEFINE t == Min(T)
        <3>1. t \in S /\ t # m /\ \A q \in S : q = m \/ t <= q
            BY <2>6
        <3>2. \A q \in S : q \in Int
            BY <2>1
        <3> HIDE DEF S, m, t
        <3> QED
            BY <3>1, <3>2, <2>3 DEF t
    <2>8. \E p \in S : Cardinality({q \in S : q < p}) = 2 - 1
        <3>1. Cardinality({m}) = 2 - 1
            BY FS_Singleton
        <3>2. Cardinality({q \in S : q < Min(T)}) = 2 - 1
            BY <3>1, <2>7
        <3>3. Min(T) \in S
            BY <2>6
        <3> HIDE DEF T, S
        <3> QED
            BY <3>2, <3>3
    <2>9. PICK p \in S : p = CHOOSE x \in S : Cardinality({q \in S : q < x}) = 2 - 1
        BY <2>8
    <2>10. strtok(s, 2) = Run(s, p)
        BY <1>2, <2>9 DEF strtok, Run
    <2> QED
        BY <2>10, RunTyped
<1> QED
    BY <1>1, <1>2

-----------------------------------------------------------------------------
(* Lines.                                                                  *)

\* What get_config takes for a line's name is the name it has for a reader, if
\* there is anything but "=" on the line.
LEMMA LineName ==
    ASSUME NEW line \in String
    PROVE  /\ Name(line) \in String
           /\ trim(strtok(line, 1)) = IF Begin(line) <= Len(line) THEN Name(line) ELSE NULL
<1> DEFINE part == SubSeq(line, Begin(line), Equals(line) - 1)
<1>1. part \in String
    BY NameIsBetween, PartOf DEF String
<1>2. Name(line) = trim(part) /\ Name(line) \in String
    <2> HIDE DEF part
    <2>1. trim(part) = Strip(part) /\ Strip(part) \in String
        BY <1>1, Trimmed
    <2> QED
        BY <2>1 DEF Name, part
<1>3. trim(NULL) = NULL
    BY DEF trim
<1> QED
    BY <1>2, <1>3, FirstToken

\* What it takes for the value is a string or NULL.
LEMMA ValueTyped ==
    ASSUME NEW line \in String
    PROVE  /\ trim(strtok(line, 2)) \in {NULL} \cup String
           /\ Value(line) \in String
<1>1. trim(NULL) = NULL
    BY DEF trim
<1>2. SubSeq(line, Equals(line) + 1, Len(line)) \in String
    <2>1. Len(line) \in 0 .. Len(line) /\ Equals(line) \in 1 .. Len(line) + 1
        BY NameIsBetween DEF String
    <2>2. Equals(line) + 1 \in Nat \ {0}
        BY <2>1
    <2> QED
        BY <2>1, <2>2, PartOf
<1> QED
    BY <1>1, <1>2, TokenTyped, Trimmed DEF Value

\* A blank line has an empty name, and says nothing.
LEMMA EmptyLine ==
    ASSUME NEW line \in String, Empty(line)
    PROVE  /\ Begin(line) <= Len(line) /\ Name(line) = <<>>
           /\ \A k : ~Says(line, k)
<1> DEFINE part == SubSeq(line, Begin(line), Equals(line) - 1)
<1>1. Len(line) \in Nat /\ DOMAIN line = 1 .. Len(line) /\ Len(line) >= 1
    BY DEF Empty, String
<1>2. \A p \in 1 .. Len(line) : line[p] \in Blank /\ line[p] # "="
    BY <1>1 DEF Empty, Blank
<1>3. Begin(line) = 1
    <2>1. 1 \in 1 .. Len(line) /\ line[1] # "="
        BY <1>1, <1>2
    <2> QED
        BY <2>1, <1>1, NameIsBetween
<1>4. \A p \in DOMAIN part : part[p] \in Blank
    BY <1>1, <1>2, <1>3, NameIsBetween DEF String
<1>5. {p \in DOMAIN part : part[p] \notin Blank} = {}
    <2> HIDE DEF part
    <2> QED
        BY <1>4
<1>6. Name(line) = <<>>
    BY <1>5 DEF Name, Strip
<1> QED
    BY <1>1, <1>3, <1>6 DEF Says

\* Of a readable line, name and value are read as they are written.
THEOREM ReadableLine ==
    ASSUME NEW line \in String, Readable(line), ~Comment(line), ~Empty(line)
    PROVE  /\ trim(strtok(line, 1)) = Name(line) /\ Name(line) # <<>> /\ Name(line) \in String
           /\ trim(strtok(line, 2)) = Value(line) /\ Value(line) \in String
           /\ Says(line, "org") => Value(line) # <<>> /\ Value(line)[1] \notin Characters
<1>1. /\ Cardinality({p \in DOMAIN line : line[p] = "="}) = 1
      /\ Equals(line) < Len(line) /\ Name(line) # <<>>
      /\ Says(line, "org") => Value(line) # <<>> /\ Value(line)[1] \notin Characters
    BY DEF Readable
<1>2. Begin(line) <= Len(line)
    BY <1>1, NameIsBetween DEF String
<1>3. strtok(line, 2) = SubSeq(line, Equals(line) + 1, Len(line))
    BY <1>1, SecondToken
<1>4. SubSeq(line, Equals(line) + 1, Len(line)) \in String
    BY <1>1, NameIsBetween, PartOf DEF String
<1>5. trim(strtok(line, 2)) = Value(line)
    BY <1>3, <1>4, Trimmed DEF Value
<1> QED
    BY <1>1, <1>2, <1>5, LineName, ValueTyped

\* A string with more than one character is not empty; one that starts with a
\* word has more than one.
LEMMA Length ==
    ASSUME NEW s \in String
    PROVE  /\ strlen(s) > 1 => s # <<>>
           /\ s # <<>> /\ s[1] \notin Characters => strlen(s) > 1
<1> DEFINE W == {p \in DOMAIN s : s[p] \notin Characters}
<1>1. Len(s) \in Nat /\ DOMAIN s = 1 .. Len(s)
    BY DEF String
<1>2. IsFiniteSet(W) /\ Cardinality(W) \in Nat
    <2>1. IsFiniteSet(1 .. Len(s)) /\ W \in SUBSET (1 .. Len(s))
        BY <1>1, FS_Interval
    <2> QED
        BY <2>1, FS_Subset, FS_CardinalityType
<1>3. strlen(s) = Len(s) + Cardinality(W)
    BY DEF strlen
<1>4. CASE s = <<>>
    <2>1. W = {} /\ Len(s) = 0
        BY <1>4
    <2> QED
        BY <2>1, <1>3, <1>4, FS_EmptySet
<1>5. CASE s # <<>> /\ s[1] \notin Characters
    <2>1. Len(s) >= 1 /\ W # {}
        BY <1>1, <1>5 DEF String
    <2>2. Cardinality(W) # 0
        <3> HIDE DEF W
        <3> QED
            BY <2>1, <1>2, FS_EmptySet
    <2> HIDE DEF W
    <2> QED
        BY <2>1, <2>2, <1>1, <1>2, <1>3
<1> QED
    BY <1>4, <1>5

-----------------------------------------------------------------------------
(* The invariant.                                                          *)

Keys    == Texts \cup Flags \cup {"port"}
Values  == {NULL} \cup String \cup BOOLEAN \cup {1883, 8883}
Configs == {cfg \in [Keys -> Values] : IsConfig(cfg)}

\* TypeOK, with the client as a record and the configurations as functions.
TypeInv ==
    /\ client \in [mem : {"unset", "live", "freed"}, cfg : Configs,
                   isQuickstart : BOOLEAN, isGateway : BOOLEAN]
    /\ pc \in {"idle", "open", "read", "validate"} /\ gateway \in BOOLEAN
    /\ file \in Files \cup {NULL} /\ linenum \in Nat
    /\ file # NULL => linenum <= Len(file)
    /\ column \in Nat /\ calls \in 0 .. MaxCalls
    /\ configstr \in Configs /\ crash \in {"none", "null", "underrun"}
    /\ rc \in {0, CONFIG_FILE_ERROR, MISSING_INPUT_PARAM, QUICKSTART_NOT_SUPPORTED}
    /\ lost \subseteq Texts \cup {"FILE", "Config"}

\* Inside a call there is a file; if its lines fit the buffer, they are read
\* one by one.
CallInv ==
    /\ pc # "idle" => file # NULL /\ (Fits(file) => column = 0)
    /\ pc = "open" => linenum = 0 /\ configstr = NoConfig
    /\ pc = "validate" => linenum = Len(file)

\* The organisation that a file named last, whenever, has set the port.
PortInv ==
    pc \in {"read", "validate"} /\ configstr["org"] \notin {NULL, Quickstart} =>
        configstr["port"] = 8883

\* What the first n lines of a file say.
SaysTo(f, k, n)  == {i \in 1 .. n : Says(f[i], k)}
WordsTo(f, k, n) == {i \in SaysTo(f, k, n) : strlen(Value(f[i])) > 1}

TextsWritten(cfg, f, n) ==
    \A k \in Texts \ {"domain", "serverCertPath"} :
        cfg[k] = IF WordsTo(f, k, n) = {} THEN NULL ELSE Value(f[Max(WordsTo(f, k, n))])
DomainWritten(cfg, f, n) ==
    cfg["domain"] = IF \/ SaysTo(f, "domain", n) = {}
                       \/ Max(SaysTo(f, "domain", n)) \notin WordsTo(f, "domain", n)
                    THEN DefaultDomain ELSE Value(f[Max(SaysTo(f, "domain", n))])
FlagsWritten(cfg, f, n) ==
    \A k \in Flags : cfg[k] = (SaysTo(f, k, n) # {} /\ Flag(Value(f[Max(SaysTo(f, k, n))])))
Written(cfg, f, n) == TextsWritten(cfg, f, n) /\ DomainWritten(cfg, f, n) /\ FlagsWritten(cfg, f, n)

\* If the lines that were read are readable, they are what is configured.
ReadInv ==
    pc \in {"read", "validate"} /\ Fits(file) /\ (\A i \in 1 .. linenum : Readable(file[i])) =>
        Written(configstr, file, linenum)

\* A text that is set, was set by a line; a second one makes two.
SetInv ==
    pc \in {"read", "validate"} /\ Fits(file) =>
        \A k \in Texts \ {"domain", "serverCertPath"} :
            configstr[k] # NULL => \E i \in 1 .. linenum : Says(file[i], k)

ConfigInv == /\ TypeInv /\ CallInv /\ PortInv /\ ReadInv /\ SetInv
             /\ QuickstartAgrees /\ NoClearText /\ AsWritten /\ CrashOnlyMalformed /\ LostOnly

-----------------------------------------------------------------------------
(* Configurations.                                                         *)

\* The texts of the program itself.
LEMMA Literals ==
    /\ DefaultDomain \in String \ {<<>>} /\ Quickstart \in String \ {<<>>}
    /\ CustomPem \in String \ {<<>>} /\ getServerCertPath \in String
    /\ NULL \notin String
<1>1. NULL \notin String
    BY NullAssumption DEF String
<1>2. DefaultDomain \in String \ {<<>>} /\ Quickstart \in String \ {<<>>}
    BY TokensAssumption DEF DefaultDomain, Quickstart, String
<1>3. CustomPem \in String \ {<<>>}
    BY TokensAssumption DEF CustomPem, String
<1>4. getServerCertPath \in String
    <2> DEFINE path == <<"/IoTFoundation.pe", "m">>
               whole == <<".">> \o path
    <2>1. path \in String /\ <<".">> \in String /\ Len(path) = 2
        BY TokensAssumption DEF String
    <2>2. whole \in String /\ Len(whole) = 3
        <3> HIDE DEF path
        <3> QED
            BY <2>1 DEF String
    <2>3. SubSeq(whole, 1, 2) \in String
        <3> HIDE DEF whole
        <3> QED
            BY <2>2, PartOf
    <2> QED
        BY <2>1, <2>3 DEF getServerCertPath, buildPath
<1> QED
    BY <1>1, <1>2, <1>3, <1>4

\* The kinds of properties are apart.
LEMMA Kinds ==
    /\ Texts \subseteq Keys /\ Flags \subseteq Keys /\ "port" \in Keys
    /\ "port" \notin Texts /\ "port" \notin Flags /\ Texts \cap Flags = {}
    /\ {"org", "domain", "type", "id", "auth-token", "auth-method", "serverCertPath"} \subseteq Texts
BY DEF Keys, Texts, Flags

LEMMA ConfigParts ==
    ASSUME NEW cfg \in Configs
    PROVE  /\ \A k \in Texts : cfg[k] \in {NULL} \cup (String \ {<<>>})
           /\ \A k \in Flags : cfg[k] \in BOOLEAN
           /\ cfg["port"] \in {1883, 8883}
BY DEF Configs, IsConfig, Text, String

\* A function with the right values is a configuration.
LEMMA IsConfiguration ==
    ASSUME NEW cfg \in [Keys -> Values],
           \A k \in Texts : cfg[k] \in {NULL} \cup (String \ {<<>>}),
           \A k \in Flags : cfg[k] \in BOOLEAN,
           cfg["port"] \in {1883, 8883}
    PROVE  cfg \in Configs
<1>1. DOMAIN cfg = Texts \cup Flags \cup {"port"}
    BY DEF Keys
<1>2. IsConfig(cfg)
    BY <1>1 DEF IsConfig, Text, String
<1> QED
    BY <1>2 DEF Configs

Preset(k) == IF k \in Texts THEN NULL ELSE IF k \in Flags THEN FALSE ELSE 1883

LEMMA NoConfigTyped ==
    /\ NoConfig \in Configs
    /\ \A k \in Texts : NoConfig[k] = NULL
    /\ \A k \in Flags : NoConfig[k] = FALSE
<1>1. \A k \in Texts : NoConfig[k] = NULL
    BY DEF NoConfig
<1>2. \A k \in Flags : NoConfig[k] = FALSE
    BY Kinds DEF NoConfig
<1>3. NoConfig["port"] = 1883
    BY Kinds DEF NoConfig
<1>4. NoConfig \in [Keys -> Values]
    <2>1. NoConfig = [k \in Keys |-> Preset(k)]
        BY Zenon DEF NoConfig, Keys, Preset
    <2>2. NULL \in Values /\ BOOLEAN \subseteq Values /\ 1883 \in Values
        BY DEF Values
    <2>3. ASSUME NEW k \in Keys PROVE Preset(k) \in Values
        <3>1. CASE k \in Texts
            <4>1. Preset(k) = NULL
                BY <3>1 DEF Preset
            <4> QED
                BY <4>1, <2>2
        <3>2. CASE k \notin Texts /\ k \in Flags
            <4>1. Preset(k) \in BOOLEAN
                BY <3>2 DEF Preset
            <4> QED
                BY <4>1, <2>2
        <3>3. CASE k \notin Texts /\ k \notin Flags
            <4>1. Preset(k) = 1883
                BY <3>3 DEF Preset
            <4> QED
                BY <4>1, <2>2
        <3> QED
            BY <3>1, <3>2, <3>3
    <2>4. [k \in Keys |-> Preset(k)] \in [Keys -> Values]
        BY <2>3, Zenon
    <2> QED
        BY <2>1, <2>4, Zenon
<1>5. \A k \in Texts : NoConfig[k] \in {NULL} \cup (String \ {<<>>})
    BY <1>1
<1>6. \A k \in Flags : NoConfig[k] \in BOOLEAN
    BY <1>2, Zenon
<1>7. NoConfig["port"] \in {1883, 8883}
    BY <1>3
<1>8. NoConfig \in Configs
    BY ONLY <1>4, <1>5, <1>6, <1>7, IsConfiguration
<1> QED
    BY <1>1, <1>2, <1>8

\* strCopy leaves no empty string behind.
LEMMA CopyTyped ==
    ASSUME NEW dest \in {NULL} \cup (String \ {<<>>}), NEW s \in String
    PROVE  strCopy(dest, s) \in {NULL} \cup (String \ {<<>>})
BY DEF strCopy

\* Set and Port change one property.
LEMMA SetEffect ==
    ASSUME NEW cfg \in Configs, NEW k \in Texts, NEW v \in String
    PROVE  /\ Set(cfg, k, v) \in Configs
           /\ \A j \in Keys : Set(cfg, k, v)[j] = IF j = k THEN strCopy(cfg[k], v) ELSE cfg[j]
<1> DEFINE new == Set(cfg, k, v)
<1>1. cfg = [j \in Keys |-> cfg[j]] /\ k \in Keys
    BY Kinds DEF Configs
<1>2. new = [j \in Keys |-> IF j = k THEN strCopy(cfg[k], v) ELSE cfg[j]]
    BY <1>1 DEF Set
<1>3. new \in [Keys -> Values]
    BY <1>2, CopyTyped, ConfigParts DEF Configs, Values
<1>4. \A j \in Keys : new[j] = IF j = k THEN strCopy(cfg[k], v) ELSE cfg[j]
    BY <1>2
<1>5. new \in Configs
    <2> HIDE DEF new
    <2>1. \A j \in Texts : new[j] \in {NULL} \cup (String \ {<<>>})
        BY <1>4, Kinds, ConfigParts, CopyTyped
    <2>2. (\A j \in Flags : new[j] \in BOOLEAN) /\ new["port"] \in {1883, 8883}
        BY <1>4, Kinds, ConfigParts
    <2> QED
        BY <1>3, <2>1, <2>2, IsConfiguration
<1> QED
    BY <1>4, <1>5

LEMMA PortEffect ==
    ASSUME NEW cfg \in Configs
    PROVE  /\ Port(cfg) \in Configs
           /\ \A j \in Texts \cup Flags : Port(cfg)[j] = cfg[j]
           /\ cfg["org"] # Quickstart => Port(cfg)["port"] = 8883
<1> DEFINE new == Port(cfg)
<1>1. cfg = [j \in Keys |-> cfg[j]]
    BY DEF Configs
<1>2. new = IF cfg["org"] = Quickstart THEN cfg
            ELSE [j \in Keys |-> IF j = "port" THEN 8883 ELSE cfg[j]]
    BY <1>1, Kinds DEF Port
<1>3. new \in [Keys -> Values]
    BY <1>2 DEF Configs, Values
<1>4. \A j \in Texts \cup Flags : new[j] = cfg[j]
    BY <1>2, Kinds
<1>5. new["port"] \in {1883, 8883} /\ (cfg["org"] # Quickstart => new["port"] = 8883)
    BY <1>2, Kinds, ConfigParts
<1>6. new \in Configs
    <2> HIDE DEF new
    <2>1. \A j \in Texts : new[j] \in {NULL} \cup (String \ {<<>>})
        BY <1>4, ConfigParts
    <2>2. \A j \in Flags : new[j] \in BOOLEAN
        BY <1>4, ConfigParts
    <2> QED
        BY <1>3, <1>5, <2>1, <2>2, IsConfiguration
<1> QED
    BY <1>4, <1>5, <1>6

SetFlag(cfg, k, b) == [cfg EXCEPT ![k] = b]

LEMMA FlagEffect ==
    ASSUME NEW cfg \in Configs, NEW k \in Flags, NEW b \in BOOLEAN
    PROVE  /\ SetFlag(cfg, k, b) \in Configs
           /\ \A j \in Keys : SetFlag(cfg, k, b)[j] = IF j = k THEN b ELSE cfg[j]
<1> DEFINE new == SetFlag(cfg, k, b)
<1>1. cfg = [j \in Keys |-> cfg[j]] /\ k \in Keys
    BY Kinds DEF Configs
<1>2. new = [j \in Keys |-> IF j = k THEN b ELSE cfg[j]]
    BY <1>1 DEF SetFlag
<1>3. new \in [Keys -> Values]
    BY <1>2, ConfigParts DEF Configs, Values
<1>4. \A j \in Keys : new[j] = IF j = k THEN b ELSE cfg[j]
    BY <1>2
<1>5. new \in Configs
    <2> HIDE DEF new
    <2>1. \A j \in Texts : new[j] \in {NULL} \cup (String \ {<<>>})
        BY <1>4, Kinds, ConfigParts
    <2>2. \A j \in Flags : new[j] \in BOOLEAN
        BY <1>4, Kinds, ConfigParts
    <2>3. new["port"] \in {1883, 8883}
        BY <1>4, Kinds, ConfigParts
    <2> QED
        BY ONLY <1>3, <2>1, <2>2, <2>3, IsConfiguration
<1> QED
    BY <1>4, <1>5

-----------------------------------------------------------------------------
(* What a line does.                                                       *)

\* What a property's value becomes is a string.
LEMMA DefaultTyped ==
    ASSUME NEW k, NEW v \in String
    PROVE  Default(k, v) \in String
<1>1. <<>> \in String
    BY DEF String
<1> QED
    BY <1>1, Literals DEF Default

\* A name that is known is that of one property.
LEMMA KnownName ==
    ASSUME NEW prop \in String, Known(prop)
    PROVE  prop[1] \in Texts \cup Flags /\ prop = <<prop[1]>>
BY DEF Known, String

LEMMA NameKnown ==
    ASSUME NEW k \in Texts \cup Flags
    PROVE  Known(<<k>>)
BY DEF Known

\* A line sets a text, or a flag, or nothing, or makes the process crash.
SetsText(line, k, v) ==
    /\ crash' = "none" /\ Says(line, k) /\ (Readable(line) => v = Value(line))
    /\ lost' = lost \cup Overwritten(configstr, k, Default(k, v))
    /\ configstr' = IF k = "org" THEN Port(Set(configstr, k, Default(k, v)))
                    ELSE Set(configstr, k, Default(k, v))
SetsFlag(line, k, v) ==
    /\ crash' = "none" /\ Says(line, k) /\ (Readable(line) => v = Value(line))
    /\ lost' = lost /\ configstr' = SetFlag(configstr, k, Flag(v))
SetsNothing(line) ==
    /\ crash' = "none" /\ lost' = lost /\ configstr' = configstr
    /\ \A k \in Texts \cup Flags : ~Says(line, k)
Crashes(line) ==
    /\ lost' = lost /\ configstr' = configstr
    /\ \/ crash' = "null" /\ ~Readable(line)
       \/ crash' = "underrun" /\ (Readable(line) => Empty(line))

LEMMA ParseLineEffect ==
    ASSUME NEW line \in String, ParseLine(line), crash = "none"
    PROVE  \/ \E k \in Texts, v \in String : SetsText(line, k, v)
           \/ \E k \in Flags, v \in String : SetsFlag(line, k, v)
           \/ SetsNothing(line) \/ Crashes(line)
<1> DEFINE prop  == trim(strtok(line, 1))
           value == trim(strtok(line, 2))
           k     == prop[1]
           Bad   == \/ prop = NULL
                    \/ Known(prop) /\ value = NULL
                    \/ Known(prop) /\ k = "org" /\ strCopy(configstr[k], Default(k, value)) = NULL
<1>1. CASE Comment(line)
    <2>1. UNCHANGED <<configstr, lost, crash>>
        BY <1>1 DEF ParseLine, Comment
    <2> QED
        BY <2>1, <1>1 DEF SetsNothing, Says
<1>2. CASE ~Comment(line)
    <2>1. IF Bad THEN crash' = "null" /\ UNCHANGED <<configstr, lost>>
          ELSE IF Known(prop)
          THEN /\ IF k \in Texts THEN SetText(k, value)
                  ELSE configstr' = SetFlag(configstr, k, Flag(value)) /\ UNCHANGED lost
               /\ UNCHANGED crash
          ELSE /\ UNCHANGED crash \/ (Underrun(line) /\ crash' = "underrun")
               /\ UNCHANGED <<configstr, lost>>
        BY <1>2 DEF ParseLine, Comment, SetFlag
    <2>2. prop = NULL \/ (prop = Name(line) /\ prop \in String)
        BY LineName
    <2>3. value \in {NULL} \cup String
        BY ValueTyped
    <2>4. Readable(line) /\ ~Empty(line) =>
                            /\ prop = Name(line) /\ prop # <<>> /\ prop \in String
                            /\ value = Value(line) /\ value \in String
                            /\ Says(line, "org") => value # <<>> /\ value[1] \notin Characters
        BY <1>2, ReadableLine
    <2>5. \A j : Says(line, j) <=> Name(line) = <<j>>
        BY <1>2 DEF Says
    <2>6. Underrun(line) => prop = <<>>
        BY DEF Underrun
    <2>11. Empty(line) => prop = <<>> /\ \A j : ~Says(line, j)
        BY EmptyLine, LineName
    <2>12. prop = <<>> => prop # NULL /\ ~Known(prop)
        <3>1. <<>> \in String /\ Len(<<>>) = 0
            BY DEF String
        <3> QED
            BY <3>1, Literals DEF Known
    <2> HIDE DEF prop, value
    <2>7. ASSUME Known(prop), prop # NULL
          PROVE  k \in Texts \cup Flags /\ Says(line, k)
        BY <2>2, <2>5, <2>7, KnownName
    <2>8. CASE Bad
        <3>1. ~Readable(line)
            <4> SUFFICES ASSUME Readable(line) PROVE FALSE
                OBVIOUS
            <4>0. ~Empty(line)
                BY <2>8, <2>11, <2>12
            <4>1. prop # NULL /\ value # NULL /\ value \in String
                BY <2>4, <4>0, Literals
            <4>2. Known(prop) /\ k = "org" /\ strCopy(configstr[k], Default(k, value)) = NULL
                BY <2>8, <4>1
            <4>3. Says(line, "org")
                BY <2>7, <4>1, <4>2
            <4>4. strlen(value) > 1 /\ value # <<>>
                BY <2>4, <4>0, <4>1, <4>3, Length
            <4>5. strCopy(configstr[k], Default(k, value)) = value
                BY <4>4 DEF Default, strCopy
            <4> QED
                BY <4>1, <4>2, <4>5
        <3> QED
            BY <3>1, <2>1, <2>8 DEF Crashes
    <2>9. CASE ~Bad /\ Known(prop)
        <3>1. prop # NULL /\ value \in String
            BY <2>3, <2>9
        <3>2. k \in Texts \cup Flags /\ Says(line, k) /\ ~Empty(line)
            BY <2>7, <2>9, <2>11, <3>1
        <3>3. crash' = "none"
            BY <2>1, <2>9
        <3>4. CASE k \in Texts
            <4>1. SetText(k, value)
                BY <2>1, <2>9, <3>4
            <4>2. SetsText(line, k, value)
                BY <2>4, <3>2, <3>3, <4>1 DEF SetsText, SetText
            <4> QED
                BY <3>1, <3>4, <4>2
        <3>5. CASE k \notin Texts
            <4>1. configstr' = SetFlag(configstr, k, Flag(value)) /\ lost' = lost
                BY <2>1, <2>9, <3>5
            <4>2. SetsFlag(line, k, value)
                BY <2>4, <3>2, <3>3, <4>1 DEF SetsFlag
            <4> QED
                BY <3>1, <3>2, <3>5, <4>2
        <3> QED
            BY <3>4, <3>5
    <2>10. CASE ~Bad /\ ~Known(prop)
        <3>1. /\ crash' = "none" \/ (Underrun(line) /\ crash' = "underrun")
              /\ lost' = lost /\ configstr' = configstr
            BY <2>1, <2>10
        <3>2. prop = Name(line)
            BY <2>2, <2>10
        <3>3. \A j \in Texts \cup Flags : ~Says(line, j)
            BY <2>5, <2>10, <3>2, NameKnown
        <3>4. CASE crash' = "none"
            BY <3>1, <3>3, <3>4 DEF SetsNothing
        <3>5. CASE Underrun(line) /\ crash' = "underrun"
            <4>1. Underrun(line) /\ crash' = "underrun"
                BY <3>5
            <4>2. Readable(line) => Empty(line)
                BY <2>4, <2>6, <4>1
            <4> QED
                BY <3>1, <4>1, <4>2 DEF Crashes
        <3> QED
            BY <3>1, <3>4, <3>5
    <2> QED
        BY <2>8, <2>9, <2>10
<1> QED
    BY <1>1, <1>2

-----------------------------------------------------------------------------
(* What a file says, line by line.                                         *)

LEMMA OneName ==
    ASSUME NEW line, NEW k, NEW j, Says(line, k), Says(line, j)
    PROVE  k = j
BY DEF Says

\* One more line adds itself to the lines on its property, and is the last.
LEMMA OneMore ==
    ASSUME NEW f, NEW n \in Nat, NEW k
    PROVE  /\ Says(f[n + 1], k) => /\ n + 1 \in SaysTo(f, k, n + 1)
                                   /\ Max(SaysTo(f, k, n + 1)) = n + 1
           /\ ~Says(f[n + 1], k) => SaysTo(f, k, n + 1) = SaysTo(f, k, n)
           /\ Says(f[n + 1], k) /\ strlen(Value(f[n + 1])) > 1 =>
                  /\ n + 1 \in WordsTo(f, k, n + 1)
                  /\ Max(WordsTo(f, k, n + 1)) = n + 1
           /\ ~Says(f[n + 1], k) \/ ~(strlen(Value(f[n + 1])) > 1) =>
                  WordsTo(f, k, n + 1) = WordsTo(f, k, n)
<1>1. /\ SaysTo(f, k, n) \in SUBSET (1 .. n) /\ SaysTo(f, k, n + 1) \in SUBSET (1 .. n + 1)
      /\ WordsTo(f, k, n) \in SUBSET (1 .. n) /\ WordsTo(f, k, n + 1) \in SUBSET (1 .. n + 1)
    BY DEF SaysTo, WordsTo
<1>2. \A i \in 1 .. n + 1 : i \in 1 .. n \/ i = n + 1
    OBVIOUS
<1>3. 1 .. n \subseteq 1 .. n + 1 /\ n + 1 \in 1 .. n + 1
    OBVIOUS
<1>4. ASSUME Says(f[n + 1], k)
      PROVE  /\ SaysTo(f, k, n + 1) = SaysTo(f, k, n) \cup {n + 1}
             /\ n + 1 \in SaysTo(f, k, n + 1)
    BY <1>2, <1>3, <1>4 DEF SaysTo
<1>5. ASSUME ~Says(f[n + 1], k)
      PROVE  SaysTo(f, k, n + 1) = SaysTo(f, k, n)
    BY <1>2, <1>3, <1>5 DEF SaysTo
<1>6. ASSUME Says(f[n + 1], k), strlen(Value(f[n + 1])) > 1
      PROVE  n + 1 \in WordsTo(f, k, n + 1)
    BY <1>4, <1>6 DEF WordsTo
<1>7. ASSUME ~Says(f[n + 1], k) \/ ~(strlen(Value(f[n + 1])) > 1)
      PROVE  WordsTo(f, k, n + 1) = WordsTo(f, k, n)
    BY <1>4, <1>5, <1>7 DEF WordsTo
<1>8. ASSUME NEW S \in SUBSET (1 .. n + 1), n + 1 \in S
      PROVE  Max(S) = n + 1
    BY <1>8, MaxIs
<1>9. ASSUME Says(f[n + 1], k)
      PROVE  Max(SaysTo(f, k, n + 1)) = n + 1
    <2>1. n + 1 \in SaysTo(f, k, n + 1)
        BY <1>4, <1>9
    <2> QED
        BY <2>1, <1>1, <1>8
<1>10. ASSUME Says(f[n + 1], k), strlen(Value(f[n + 1])) > 1
       PROVE  Max(WordsTo(f, k, n + 1)) = n + 1
    <2>1. n + 1 \in WordsTo(f, k, n + 1)
        BY <1>6, <1>10
    <2> QED
        BY <2>1, <1>1, <1>8
<1> QED
    BY <1>4, <1>5, <1>6, <1>7, <1>9, <1>10

\* Before the first line, all is as it was set.
LEMMA WrittenFirst ==
    ASSUME NEW cfg, NEW f, cfg["domain"] = DefaultDomain,
           \A k \in Texts \ {"domain"} : cfg[k] = NULL, \A k \in Flags : cfg[k] = FALSE
    PROVE  Written(cfg, f, 0)
<1>1. \A k : SaysTo(f, k, 0) = {} /\ WordsTo(f, k, 0) = {}
    BY DEF SaysTo, WordsTo
<1>2. TextsWritten(cfg, f, 0)
    BY <1>1 DEF TextsWritten
<1>3. DomainWritten(cfg, f, 0)
    BY <1>1 DEF DomainWritten
<1>4. FlagsWritten(cfg, f, 0)
    BY <1>1 DEF FlagsWritten
<1> QED
    BY <1>2, <1>3, <1>4 DEF Written

\* A line on no property leaves everything as it is written.
LEMMA WrittenNothing ==
    ASSUME NEW cfg, NEW f, NEW n \in Nat, Written(cfg, f, n),
           \A k \in Texts \cup Flags : ~Says(f[n + 1], k)
    PROVE  Written(cfg, f, n + 1)
<1>1. \A k \in Texts \cup Flags : /\ SaysTo(f, k, n + 1) = SaysTo(f, k, n)
                                  /\ WordsTo(f, k, n + 1) = WordsTo(f, k, n)
    BY OneMore
<1>2. TextsWritten(cfg, f, n + 1)
    BY <1>1 DEF Written, TextsWritten
<1>3. DomainWritten(cfg, f, n + 1)
    BY <1>1, Kinds DEF Written, DomainWritten
<1>4. FlagsWritten(cfg, f, n + 1)
    BY <1>1 DEF Written, FlagsWritten
<1> QED
    BY <1>2, <1>3, <1>4 DEF Written

\* A line on a text counts if it is a word; on the domain, in any case.
LEMMA WrittenText ==
    ASSUME NEW cfg, NEW f, NEW n \in Nat, NEW new, NEW k \in Texts,
           Written(cfg, f, n), Says(f[n + 1], k), Value(f[n + 1]) \in String,
           \A j \in Texts : new[j] = IF j = k THEN strCopy(cfg[k], Default(k, Value(f[n + 1])))
                                     ELSE cfg[j],
           \A j \in Flags : new[j] = cfg[j]
    PROVE  Written(new, f, n + 1)
<1> DEFINE v == Value(f[n + 1])
<1>1. \A j \in Texts \cup Flags : j # k => /\ SaysTo(f, j, n + 1) = SaysTo(f, j, n)
                                           /\ WordsTo(f, j, n + 1) = WordsTo(f, j, n)
    BY OneMore, OneName
<1>2. strlen(v) > 1 => strCopy(cfg[k], Default(k, v)) = v
    BY Length DEF Default, strCopy
<1>3. TextsWritten(new, f, n + 1)
    <2> SUFFICES ASSUME NEW j \in Texts \ {"domain", "serverCertPath"}
                 PROVE  new[j] = IF WordsTo(f, j, n + 1) = {} THEN NULL
                                 ELSE Value(f[Max(WordsTo(f, j, n + 1))])
        BY DEF TextsWritten
    <2>1. cfg[j] = IF WordsTo(f, j, n) = {} THEN NULL ELSE Value(f[Max(WordsTo(f, j, n))])
        BY DEF Written, TextsWritten
    <2>2. CASE j # k
        BY <2>1, <2>2, <1>1
    <2>3. CASE j = k /\ strlen(v) > 1
        <3>1. WordsTo(f, j, n + 1) # {} /\ Max(WordsTo(f, j, n + 1)) = n + 1
            BY <2>3, OneMore
        <3> QED
            BY <3>1, <2>3, <1>2
    <2>4. CASE j = k /\ ~(strlen(v) > 1)
        <3>1. WordsTo(f, j, n + 1) = WordsTo(f, j, n)
            BY <2>4, OneMore
        <3>2. Default(k, v) = <<>>
            BY <2>4 DEF Default
        <3>3. new[j] = cfg[j]
            BY <2>4, <3>2 DEF strCopy
        <3> QED
            BY <3>1, <3>3, <2>1
    <2> QED
        BY <2>2, <2>3, <2>4
<1>4. DomainWritten(new, f, n + 1)
    <2>1. CASE k # "domain"
        BY <2>1, <1>1, Kinds DEF Written, DomainWritten
    <2>2. CASE k = "domain"
        <3>1. SaysTo(f, k, n + 1) # {} /\ Max(SaysTo(f, k, n + 1)) = n + 1
            BY OneMore
        <3>2. CASE strlen(v) > 1
            <4>1. n + 1 \in WordsTo(f, k, n + 1)
                BY <3>2, OneMore
            <4> QED
                BY <4>1, <3>1, <3>2, <2>2, <1>2 DEF DomainWritten
        <3>3. CASE ~(strlen(v) > 1)
            <4>1. n + 1 \notin WordsTo(f, k, n + 1)
                BY <3>3 DEF WordsTo
            <4>2. strCopy(cfg[k], Default(k, v)) = DefaultDomain
                BY <3>3, <2>2, Literals DEF Default, strCopy
            <4> QED
                BY <4>1, <4>2, <3>1, <2>2 DEF DomainWritten
        <3> QED
            BY <3>2, <3>3
    <2> QED
        BY <2>1, <2>2
<1>5. FlagsWritten(new, f, n + 1)
    <2>1. \A j \in Flags : j # k
        BY Kinds
    <2> QED
        BY <2>1, <1>1 DEF Written, FlagsWritten
<1> QED
    BY <1>3, <1>4, <1>5 DEF Written

\* A line on a flag counts.
LEMMA WrittenFlag ==
    ASSUME NEW cfg, NEW f, NEW n \in Nat, NEW new, NEW k \in Flags,
           Written(cfg, f, n), Says(f[n + 1], k),
           new[k] = Flag(Value(f[n + 1])),
           \A j \in Texts \cup Flags : j # k => new[j] = cfg[j]
    PROVE  Written(new, f, n + 1)
<1>1. \A j \in Texts \cup Flags : j # k => /\ SaysTo(f, j, n + 1) = SaysTo(f, j, n)
                                           /\ WordsTo(f, j, n + 1) = WordsTo(f, j, n)
    BY OneMore, OneName
<1>2. \A j \in Texts : j # k
    BY Kinds
<1>3. TextsWritten(new, f, n + 1)
    BY <1>1, <1>2 DEF Written, TextsWritten
<1>4. DomainWritten(new, f, n + 1)
    BY <1>1, <1>2, Kinds DEF Written, DomainWritten
<1>5. FlagsWritten(new, f, n + 1)
    <2> SUFFICES ASSUME NEW j \in Flags
                 PROVE  new[j] = (SaysTo(f, j, n + 1) # {} /\ Flag(Value(f[Max(SaysTo(f, j, n + 1))])))
        BY DEF FlagsWritten
    <2>1. CASE j # k
        BY <2>1, <1>1 DEF Written, FlagsWritten
    <2>2. CASE j = k
        <3>1. SaysTo(f, j, n + 1) # {} /\ Max(SaysTo(f, j, n + 1)) = n + 1
            BY <2>2, OneMore
        <3> QED
            BY <3>1, <2>2 DEF Flag
    <2> QED
        BY <2>1, <2>2
<1> QED
    BY <1>3, <1>4, <1>5 DEF Written

-----------------------------------------------------------------------------
(* The steps.                                                              *)

LEMMA FileTyped ==
    ASSUME TypeInv, file # NULL
    PROVE  file \in Files /\ Len(file) \in Nat /\ \A n \in 1 .. Len(file) : file[n] \in String
<1>1. file \in Seq(Seq(Tokens))
    BY FilesAssumption DEF TypeInv
<1> QED
    BY <1>1 DEF TypeInv, String

LEMMA TypeImplied == TypeInv => TypeOK
<1> SUFFICES ASSUME TypeInv PROVE TypeOK
    OBVIOUS
<1>1. IsConfig(client.cfg) /\ IsConfig(configstr)
    BY DEF TypeInv, Configs
<1>2. file # NULL => linenum \in 0 .. Len(file)
    BY FileTyped DEF TypeInv
<1> QED
    BY <1>1, <1>2 DEF TypeInv, TypeOK

\* What is freed is not lost, but for one path.
LEMMA LostByFree ==
    ASSUME NEW cfg
    PROVE  freeConfig(cfg) \subseteq {"serverCertPath"}
BY DEF freeConfig

LEMMA EngineCodes ==
    ASSUME NEW cfg, NEW quickstart
    PROVE  EngineRefused(cfg, quickstart) \in {0, CONFIG_FILE_ERROR, QUICKSTART_NOT_SUPPORTED}
BY DEF EngineRefused

LEMMA InitInv == Init => ConfigInv
<1> SUFFICES ASSUME Init PROVE ConfigInv
    OBVIOUS
<1>1. TypeInv
    <2>1. client \in [mem : {"unset", "live", "freed"}, cfg : Configs,
                      isQuickstart : BOOLEAN, isGateway : BOOLEAN]
        BY NoConfigTyped DEF Init
    <2>2. /\ pc = "idle" /\ gateway = FALSE /\ file = NULL /\ linenum = 0 /\ column = 0
          /\ configstr = NoConfig /\ rc = 0 /\ lost = {} /\ calls = 0 /\ crash = "none"
        BY DEF Init
    <2>3. gateway \in BOOLEAN /\ crash \in {"none", "null", "underrun"} /\ column \in Nat
        BY <2>2
    <2>4. linenum \in Nat /\ calls \in 0 .. MaxCalls /\ configstr \in Configs /\ lost \subseteq Texts \cup {"FILE", "Config"}
        BY <2>2, NoConfigTyped, MaxCallsAssumption
    <2>5. rc \in {0, CONFIG_FILE_ERROR, MISSING_INPUT_PARAM, QUICKSTART_NOT_SUPPORTED}
        BY <2>2
    <2> QED
        BY <2>1, <2>2, <2>3, <2>4, <2>5 DEF TypeInv
<1>2. CallInv /\ PortInv /\ ReadInv /\ SetInv
    BY DEF Init, CallInv, PortInv, ReadInv, SetInv
<1>3. client.mem = "unset" /\ crash = "none" /\ lost = {}
    BY DEF Init
<1>4. QuickstartAgrees /\ NoClearText /\ AsWritten /\ CrashOnlyMalformed /\ LostOnly
    BY <1>3 DEF QuickstartAgrees, NoClearText, AsWritten, CrashOnlyMalformed, LostOnly
<1> QED
    BY <1>1, <1>2, <1>4 DEF ConfigInv

LEMMA StartKeeps ==
    ASSUME ConfigInv, crash = "none", initialize_configfile
    PROVE  ConfigInv'
<1>1. /\ pc = "idle" /\ calls < MaxCalls
      /\ calls' = calls + 1 /\ gateway' \in BOOLEAN /\ file' \in Files \cup {NULL}
      /\ linenum' = 0 /\ column' = 0 /\ configstr' = NoConfig /\ lost' = {}
      /\ client' = client /\ crash' = crash
    BY DEF initialize_configfile
<1>2. \/ rc' = CONFIG_FILE_ERROR /\ pc' = "idle"
      \/ file' # NULL /\ rc' = 0 /\ pc' = "open"
    BY <1>1 DEF initialize_configfile
<1>3. TypeInv'
    <2>1. calls' \in 0 .. MaxCalls
        BY <1>1, MaxCallsAssumption DEF ConfigInv, TypeInv
    <2>2. file' # NULL => 0 <= Len(file')
        BY <1>1, FilesAssumption
    <2> QED
        BY <1>1, <1>2, <2>1, <2>2, NoConfigTyped DEF ConfigInv, TypeInv
<1>4. CallInv' /\ PortInv' /\ ReadInv' /\ SetInv'
    BY <1>1, <1>2 DEF CallInv, PortInv, ReadInv, SetInv
<1>5. NoClearText' /\ CrashOnlyMalformed' /\ LostOnly'
    BY <1>1 DEF ConfigInv, NoClearText, CrashOnlyMalformed, LostOnly
<1>6. ~(pc' = "idle" /\ rc' = 0)
    BY <1>2 DEF CONFIG_FILE_ERROR
<1>7. QuickstartAgrees' /\ AsWritten'
    BY <1>6 DEF QuickstartAgrees, AsWritten
<1> QED
    BY <1>3, <1>4, <1>5, <1>7 DEF ConfigInv

LEMMA OpenKeeps ==
    ASSUME ConfigInv, crash = "none", OpenFile
    PROVE  ConfigInv'
<1>1. /\ pc = "open" /\ pc' = "read" /\ configstr' = Set(NoConfig, "domain", DefaultDomain)
      /\ client' = client /\ gateway' = gateway /\ file' = file /\ linenum' = linenum
      /\ column' = column /\ rc' = rc /\ lost' = lost /\ calls' = calls /\ crash' = crash
      /\ linenum = 0 /\ file # NULL
    BY DEF OpenFile, input, ConfigInv, CallInv
<1>2. /\ configstr' \in Configs
      /\ \A j \in Keys : configstr'[j] = IF j = "domain" THEN strCopy(NULL, DefaultDomain) ELSE NoConfig[j]
    <2>1. /\ NoConfig \in Configs /\ "domain" \in Texts /\ DefaultDomain \in String
          /\ NoConfig["domain"] = NULL
        BY NoConfigTyped, Kinds, Literals
    <2>2. /\ Set(NoConfig, "domain", DefaultDomain) \in Configs
          /\ \A j \in Keys : Set(NoConfig, "domain", DefaultDomain)[j] =
                IF j = "domain" THEN strCopy(NoConfig["domain"], DefaultDomain) ELSE NoConfig[j]
        BY <2>1, SetEffect
    <2> QED
        BY <1>1, <2>1, <2>2
<1>3. /\ configstr'["domain"] = DefaultDomain
      /\ \A k \in Texts \ {"domain"} : configstr'[k] = NULL
      /\ \A k \in Flags : configstr'[k] = FALSE
    <2>1. configstr'["domain"] = DefaultDomain
        BY <1>2, Kinds, Literals DEF strCopy
    <2>2. \A k \in Texts \ {"domain"} : configstr'[k] = NULL
        BY <1>2, Kinds, NoConfigTyped
    <2>3. \A k \in Flags : configstr'[k] = NoConfig[k]
        BY <1>2, Kinds
    <2>4. \A k \in Flags : configstr'[k] = FALSE
        BY <2>3, NoConfigTyped
    <2> QED
        BY <2>1, <2>2, <2>4
<1>4. TypeInv'
    BY <1>1, <1>2 DEF ConfigInv, TypeInv
<1>5. CallInv'
    BY <1>1 DEF ConfigInv, CallInv
<1>6. PortInv' /\ SetInv'
    <2>1. configstr'["org"] = NULL
        BY <1>3, Kinds
    <2> QED
        BY <1>1, <1>3, <2>1 DEF PortInv, SetInv
<1>7. ReadInv'
    <2>1. Written(configstr', file, 0)
        BY <1>3, WrittenFirst
    <2> QED
        BY <2>1, <1>1 DEF ReadInv
<1>8. QuickstartAgrees' /\ NoClearText' /\ AsWritten' /\ CrashOnlyMalformed' /\ LostOnly'
    BY <1>1 DEF ConfigInv, QuickstartAgrees, NoClearText, AsWritten, CrashOnlyMalformed, LostOnly
<1> QED
    BY <1>4, <1>5, <1>6, <1>7, <1>8 DEF ConfigInv

\* Two lines on a property are more than one.
LEMMA TwoLines ==
    ASSUME NEW f, NEW k, Len(f) \in Nat, NEW i \in 1 .. Len(f), NEW j \in 1 .. Len(f),
           i # j, Says(f[i], k), Says(f[j], k)
    PROVE  Cardinality(LinesOf(f, k)) > 1
<1> DEFINE S == LinesOf(f, k)
<1>1. IsFiniteSet(S)
    <2>1. IsFiniteSet(1 .. Len(f)) /\ S \in SUBSET (1 .. Len(f))
        BY FS_Interval DEF LinesOf
    <2> QED
        BY <2>1, FS_Subset
<1>2. {i} \cup {j} \in SUBSET S
    BY DEF LinesOf
<1>3. Cardinality({i} \cup {j}) = 2
    <2>1. IsFiniteSet({i}) /\ Cardinality({i}) = 1
        BY FS_Singleton
    <2>2. j \notin {i}
        OBVIOUS
    <2>3. Cardinality({i} \cup {j}) = 1 + 1
        BY <2>1, <2>2, FS_AddElement
    <2>4. 1 + 1 = 2
        OBVIOUS
    <2> QED
        BY ONLY <2>3, <2>4, Zenon
<1>4. Cardinality({i} \cup {j}) <= Cardinality(S) /\ Cardinality(S) \in Nat
    <2> HIDE DEF S
    <2> QED
        BY <1>1, <1>2, FS_Subset, FS_CardinalityType
<1>5. 2 <= Cardinality(S) /\ Cardinality(S) \in Nat
    <2> HIDE DEF S
    <2> QED
        BY ONLY <1>3, <1>4
<1> QED
    BY <1>5

\* What every ReadLine has in common.
Reads(line) ==
    /\ pc = "read" /\ pc' = "read" /\ linenum < Len(file) /\ column' \in Nat
    /\ linenum' \in {linenum, linenum + 1}
    /\ client' = client /\ gateway' = gateway /\ file' = file /\ rc' = rc /\ calls' = calls
    /\ Fits(file) => line = file[linenum + 1] /\ linenum' = linenum + 1 /\ column' = 0

LEMMA ReadingKeeps ==
    ASSUME ConfigInv, NEW line, Reads(line), configstr' \in Configs,
           crash' \in {"none", "null", "underrun"},
           lost' \subseteq Texts \cup {"FILE", "Config"},
           PortInv', ReadInv', SetInv', CrashOnlyMalformed', LostOnly'
    PROVE  ConfigInv'
<1>1. file # NULL
    BY DEF ConfigInv, CallInv, Reads
<1>2. linenum' \in Nat /\ linenum' <= Len(file)
    BY <1>1, FileTyped DEF ConfigInv, TypeInv, Reads
<1>3. TypeInv'
    BY <1>2 DEF ConfigInv, TypeInv, Reads
<1>4. CallInv'
    BY <1>1 DEF CallInv, Reads
<1>5. QuickstartAgrees' /\ NoClearText' /\ AsWritten'
    BY DEF ConfigInv, Reads, QuickstartAgrees, NoClearText, AsWritten
<1> QED
    BY <1>3, <1>4, <1>5 DEF ConfigInv

LEMMA ReadText ==
    ASSUME ConfigInv, crash = "none", NEW line \in String, Reads(line),
           NEW k \in Texts, NEW v \in String, SetsText(line, k, v)
    PROVE  ConfigInv'
<1> DEFINE d   == Default(k, v)
           set == Set(configstr, k, d)
<1>1. /\ file # NULL /\ configstr \in Configs /\ linenum \in Nat
      /\ Len(file) \in Nat
    BY FileTyped DEF ConfigInv, CallInv, TypeInv, Reads
<1>2. d \in String
    BY DefaultTyped
<1>3. /\ set \in Configs
      /\ \A j \in Keys : set[j] = IF j = k THEN strCopy(configstr[k], d) ELSE configstr[j]
    <2> HIDE DEF d
    <2> QED
        BY <1>1, <1>2, SetEffect
<1>4. configstr' = IF k = "org" THEN Port(set) ELSE set
    BY DEF SetsText
<1>5. /\ Port(set) \in Configs /\ \A j \in Texts \cup Flags : Port(set)[j] = set[j]
      /\ set["org"] # Quickstart => Port(set)["port"] = 8883
    <2> HIDE DEF set
    <2> QED
        BY <1>3, PortEffect
<1> HIDE DEF set, d
<1>6. configstr' \in Configs
    BY <1>3, <1>4, <1>5
<1>7. /\ \A j \in Texts : configstr'[j] = IF j = k THEN strCopy(configstr[k], d) ELSE configstr[j]
      /\ \A j \in Flags : configstr'[j] = configstr[j]
    <2>1. \A j \in Texts \cup Flags : configstr'[j] = set[j]
        BY <1>4, <1>5
    <2> QED
        BY <2>1, <1>3, Kinds
<1>8. PortInv'
    <2> SUFFICES ASSUME configstr'["org"] \notin {NULL, Quickstart}
                 PROVE  configstr'["port"] = 8883
        BY DEF PortInv
    <2>1. CASE k = "org"
        <3>1. set["org"] # Quickstart
            BY <2>1, <1>4, <1>5, Kinds
        <3> QED
            BY <3>1, <2>1, <1>4, <1>5
    <2>2. CASE k # "org"
        <3>1. configstr'["org"] = configstr["org"] /\ configstr'["port"] = configstr["port"]
            BY <2>2, <1>3, <1>4, Kinds
        <3> QED
            BY <3>1 DEF ConfigInv, PortInv, Reads
    <2> QED
        BY <2>1, <2>2
<1>9. linenum + 1 \in 1 .. Len(file) /\ (Fits(file) => Says(file[linenum + 1], k) /\ linenum' = linenum + 1)
    BY <1>1 DEF SetsText, Reads
<1>10. SetInv'
    <2> SUFFICES ASSUME Fits(file), NEW j \in Texts \ {"domain", "serverCertPath"},
                        configstr'[j] # NULL
                 PROVE  \E i \in 1 .. linenum + 1 : Says(file[i], j)
        BY <1>9 DEF SetInv, Reads
    <2>1. CASE j = k
        BY <2>1, <1>1, <1>9
    <2>2. CASE j # k
        <3>1. configstr[j] # NULL
            BY <2>2, <1>7
        <3>2. PICK i \in 1 .. linenum : Says(file[i], j)
            BY <3>1 DEF ConfigInv, SetInv, Reads
        <3>3. i \in 1 .. linenum + 1
            BY <1>1
        <3> QED
            BY <3>2, <3>3
    <2> QED
        BY <2>1, <2>2
<1>11. ReadInv'
    <2> SUFFICES ASSUME Fits(file), \A i \in 1 .. linenum + 1 : Readable(file[i])
                 PROVE  Written(configstr', file, linenum + 1)
        BY <1>9 DEF ReadInv, Reads
    <2>1. Readable(file[linenum + 1]) /\ \A i \in 1 .. linenum : Readable(file[i])
        BY <1>1
    <2>2. v = Value(file[linenum + 1])
        BY <2>1 DEF SetsText, Reads
    <2>3. Written(configstr, file, linenum)
        BY <2>1 DEF ConfigInv, ReadInv, Reads
    <2>4. \A j \in Texts : configstr'[j] =
              IF j = k THEN strCopy(configstr[k], Default(k, Value(file[linenum + 1])))
              ELSE configstr[j]
        BY <1>7, <2>2 DEF d
    <2> QED
        BY <1>1, <1>7, <1>9, <2>2, <2>3, <2>4, WrittenText
<1>12. CrashOnlyMalformed' /\ crash' \in {"none", "null", "underrun"}
    BY DEF SetsText, CrashOnlyMalformed
<1>13. lost' = lost \cup Overwritten(configstr, k, d)
    BY DEF SetsText, d
<1>14. lost' \subseteq Texts \cup {"FILE", "Config"}
    BY <1>13 DEF Overwritten, ConfigInv, TypeInv
<1>15. LostOnly'
    <2>1. \A j \in Overwritten(configstr, k, d) \ {"domain", "serverCertPath"} :
              Fits(file) => Cardinality(LinesOf(file, j)) > 1
        <3> SUFFICES ASSUME configstr[k] # NULL, k \notin {"domain", "serverCertPath"}, Fits(file)
                     PROVE  Cardinality(LinesOf(file, k)) > 1
            BY DEF Overwritten
        <3>1. PICK i \in 1 .. linenum : Says(file[i], k)
            BY DEF ConfigInv, SetInv, Reads
        <3>2. i \in 1 .. Len(file) /\ i # linenum + 1
            BY <1>1, <1>9
        <3> QED
            BY <1>1, <1>9, <3>1, <3>2, TwoLines
    <2> QED
        BY <2>1, <1>1, <1>13 DEF ConfigInv, LostOnly, Reads
<1> QED
    BY <1>6, <1>8, <1>10, <1>11, <1>12, <1>14, <1>15, ReadingKeeps

LEMMA ReadFlag ==
    ASSUME ConfigInv, crash = "none", NEW line \in String, Reads(line),
           NEW k \in Flags, NEW v \in String, SetsFlag(line, k, v)
    PROVE  ConfigInv'
<1>1. /\ file # NULL /\ configstr \in Configs /\ linenum \in Nat
      /\ Len(file) \in Nat
    BY FileTyped DEF ConfigInv, CallInv, TypeInv, Reads
<1>2. Flag(v) \in BOOLEAN
    BY DEF Flag
<1>3. configstr' = SetFlag(configstr, k, Flag(v)) /\ lost' = lost /\ crash' = "none"
    BY DEF SetsFlag
<1>4. /\ configstr' \in Configs
      /\ \A j \in Keys : configstr'[j] = IF j = k THEN Flag(v) ELSE configstr[j]
    BY <1>1, <1>2, <1>3, FlagEffect
<1>5. /\ \A j \in Texts \cup Flags : j # k => configstr'[j] = configstr[j]
      /\ \A j \in Texts : configstr'[j] = configstr[j]
      /\ configstr'["port"] = configstr["port"] /\ configstr'[k] = Flag(v)
    BY <1>4, Kinds
<1>6. linenum + 1 \in 1 .. Len(file) /\ (Fits(file) => Says(file[linenum + 1], k) /\ linenum' = linenum + 1)
    BY <1>1 DEF SetsFlag, Reads
<1>7. PortInv'
    BY <1>5, Kinds DEF ConfigInv, PortInv, Reads
<1>8. SetInv'
    <2> SUFFICES ASSUME Fits(file), NEW j \in Texts \ {"domain", "serverCertPath"},
                        configstr'[j] # NULL
                 PROVE  \E i \in 1 .. linenum + 1 : Says(file[i], j)
        BY <1>6 DEF SetInv, Reads
    <2>1. configstr[j] # NULL
        BY <1>5
    <2>2. PICK i \in 1 .. linenum : Says(file[i], j)
        BY <2>1 DEF ConfigInv, SetInv, Reads
    <2>3. i \in 1 .. linenum + 1
        BY <1>1
    <2> QED
        BY <2>2, <2>3
<1>9. ReadInv'
    <2> SUFFICES ASSUME Fits(file), \A i \in 1 .. linenum + 1 : Readable(file[i])
                 PROVE  Written(configstr', file, linenum + 1)
        BY <1>6 DEF ReadInv, Reads
    <2>1. Readable(file[linenum + 1]) /\ \A i \in 1 .. linenum : Readable(file[i])
        BY <1>1
    <2>2. v = Value(file[linenum + 1])
        BY <2>1 DEF SetsFlag, Reads
    <2>3. Written(configstr, file, linenum)
        BY <2>1 DEF ConfigInv, ReadInv, Reads
    <2>4. configstr'[k] = Flag(Value(file[linenum + 1]))
        BY <1>5, <2>2
    <2> QED
        BY <1>1, <1>5, <1>6, <2>3, <2>4, WrittenFlag
<1>10. CrashOnlyMalformed' /\ crash' \in {"none", "null", "underrun"}
    BY <1>3 DEF CrashOnlyMalformed
<1>11. LostOnly' /\ lost' \subseteq Texts \cup {"FILE", "Config"}
    BY <1>3 DEF ConfigInv, LostOnly, Reads, TypeInv
<1> QED
    BY <1>4, <1>7, <1>8, <1>9, <1>10, <1>11, ReadingKeeps

LEMMA ReadNothing ==
    ASSUME ConfigInv, crash = "none", NEW line \in String, Reads(line),
           SetsNothing(line) \/ Crashes(line)
    PROVE  ConfigInv'
<1>1. file # NULL /\ configstr \in Configs /\ linenum \in Nat /\ Len(file) \in Nat
    BY FileTyped DEF ConfigInv, CallInv, TypeInv, Reads
<1>2. configstr' = configstr /\ lost' = lost /\ crash' \in {"none", "null", "underrun"}
    BY DEF SetsNothing, Crashes
<1>3. /\ linenum + 1 \in 1 .. Len(file)
      /\ Fits(file) => linenum' = linenum + 1 /\ line = file[linenum + 1]
    BY <1>1 DEF Reads
<1>4. PortInv'
    BY <1>2 DEF ConfigInv, PortInv, Reads
<1>5. SetInv'
    <2>1. 1 .. linenum \subseteq 1 .. linenum + 1
        BY <1>1
    <2> QED
        BY <2>1, <1>2, <1>3 DEF ConfigInv, SetInv, Reads
<1>6. ReadInv'
    <2> SUFFICES ASSUME Fits(file), \A i \in 1 .. linenum + 1 : Readable(file[i])
                 PROVE  Written(configstr, file, linenum + 1)
        BY <1>2, <1>3 DEF ReadInv, Reads
    <2>1. Readable(file[linenum + 1]) /\ \A i \in 1 .. linenum : Readable(file[i])
        BY <1>1
    <2>2. \A k \in Texts \cup Flags : ~Says(file[linenum + 1], k)
        BY <2>1, <1>3, EmptyLine DEF SetsNothing, Crashes
    <2>3. Written(configstr, file, linenum)
        BY <2>1 DEF ConfigInv, ReadInv, Reads
    <2> QED
        BY <1>1, <2>2, <2>3, WrittenNothing
<1>7. CrashOnlyMalformed'
    <2>1. CASE crash' = "none"
        BY <2>1 DEF CrashOnlyMalformed
    <2>2. CASE crash' # "none"
        <3> SUFFICES ASSUME WellFormed(file)
                     PROVE  crash' = "underrun" /\ \E n \in 1 .. Len(file) : Empty(file[n])
            BY DEF CrashOnlyMalformed, Reads
        <3>1. Fits(file) /\ Readable(file[linenum + 1]) /\ line = file[linenum + 1]
            BY <1>3 DEF WellFormed
        <3>2. crash' = "underrun" /\ Empty(line)
            BY <2>2, <3>1 DEF SetsNothing, Crashes
        <3> QED
            BY <3>1, <3>2, <1>3
    <2> QED
        BY <2>1, <2>2
<1>8. LostOnly' /\ lost' \subseteq Texts \cup {"FILE", "Config"}
    BY <1>2 DEF ConfigInv, LostOnly, Reads, TypeInv
<1> QED
    BY <1>1, <1>2, <1>4, <1>5, <1>6, <1>7, <1>8, ReadingKeeps

\* fgets gives a string; of a line that fits the buffer, the line.
LEMMA LineRead ==
    ASSUME TypeInv, CallInv, pc = "read", linenum < Len(file)
    PROVE  /\ fgets \in String /\ Upto \in Nat
           /\ Fits(file) => fgets = file[linenum + 1] /\ Upto = Len(file[linenum + 1])
<1> DEFINE line == file[linenum + 1]
           S == {column + LineSize, Len(line)}
<1>1. linenum + 1 \in 1 .. Len(file) /\ line \in String
    BY FileTyped DEF TypeInv, CallInv
<1>2. Len(line) \in Nat /\ column \in Nat /\ LineSize \in Nat \ {0}
    BY <1>1, FilesAssumption DEF TypeInv, String
<1> HIDE DEF line
<1>3. Min(S) \in S /\ \A x \in S : Min(S) <= x
    <2>1. S \in SUBSET (0 .. column + LineSize + Len(line)) /\ S # {}
        BY <1>2
    <2>2. column + LineSize + Len(line) \in Nat
        BY <1>2
    <2> HIDE DEF S
    <2> QED
        BY <2>1, <2>2, MinOfSet
<1>4. Upto = Min(S)
    BY DEF Upto, line
<1>5. Upto \in 0 .. Len(line)
    BY <1>2, <1>3, <1>4
<1>6. fgets = SubSeq(line, column + 1, Upto)
    BY DEF fgets, line
<1>7. fgets \in String
    BY <1>1, <1>2, <1>5, <1>6, PartOf
<1>8. ASSUME Fits(file) PROVE fgets = line /\ Upto = Len(line)
    <2>1. column = 0 /\ Len(line) <= LineSize
        BY <1>1, <1>8 DEF CallInv, Fits, line
    <2>2. Upto = Len(line)
        BY <2>1, <1>2, <1>3, <1>4
    <2>3. SubSeq(line, 1, Len(line)) = line
        BY <1>1 DEF String
    <2> QED
        BY <2>1, <2>2, <2>3, <1>6
<1> QED
    BY <1>5, <1>7, <1>8 DEF line

LEMMA ReadKeeps ==
    ASSUME ConfigInv, crash = "none", ReadLine
    PROVE  ConfigInv'
<1>1. /\ pc = "read" /\ linenum < Len(file) /\ ParseLine(fgets) /\ RestOfLine
      /\ client' = client /\ pc' = pc /\ gateway' = gateway /\ file' = file /\ rc' = rc
      /\ calls' = calls
    BY DEF ReadLine, input
<1>2. /\ fgets \in String /\ Upto \in Nat
      /\ Fits(file) => fgets = file[linenum + 1] /\ Upto = Len(file[linenum + 1])
    BY <1>1, LineRead DEF ConfigInv
<1>3. PICK line \in String : line = fgets
    BY <1>2
<1>4. ParseLine(line)
    BY <1>1, <1>3
<1>5. Reads(line)
    BY <1>1, <1>2, <1>3 DEF Reads, RestOfLine
<1> QED
    BY <1>4, <1>5, ParseLineEffect, ReadText, ReadFlag, ReadNothing

LEMMA EndKeeps ==
    ASSUME ConfigInv, crash = "none", EndOfFile
    PROVE  ConfigInv'
<1>1. /\ pc = "read" /\ linenum = Len(file) /\ pc' = "validate" /\ lost' = lost \cup {"FILE"}
      /\ client' = client /\ gateway' = gateway /\ file' = file /\ linenum' = linenum
      /\ configstr' = configstr /\ rc' = rc /\ calls' = calls /\ crash' = crash
      /\ column' = column /\ file # NULL
    BY DEF EndOfFile, input, ConfigInv, CallInv
<1>2. TypeInv'
    BY <1>1 DEF ConfigInv, TypeInv
<1>3. CallInv' /\ PortInv' /\ ReadInv' /\ SetInv'
    BY <1>1 DEF ConfigInv, CallInv, PortInv, ReadInv, SetInv
<1>4. QuickstartAgrees' /\ NoClearText' /\ AsWritten' /\ CrashOnlyMalformed' /\ LostOnly'
    BY <1>1 DEF ConfigInv, QuickstartAgrees, NoClearText, AsWritten, CrashOnlyMalformed, LostOnly
<1> QED
    BY <1>2, <1>3, <1>4 DEF ConfigInv

\* At the end of a file whose lines are readable, its configuration is the
\* one that the lines give.
LEMMA WholeFile ==
    ASSUME ConfigInv, pc = "validate", WellFormed(file)
    PROVE  Written(configstr, file, Len(file)) /\ configstr["org"] # NULL
<1>1. file # NULL /\ linenum = Len(file) /\ Len(file) \in Nat
    BY FileTyped DEF ConfigInv, CallInv
<1>2. Written(configstr, file, Len(file))
    BY <1>1 DEF ConfigInv, ReadInv, WellFormed
<1>3. PICK n \in 1 .. Len(file) : Says(file[n], "org")
    BY DEF WellFormed
<1>4. file[n] \in String /\ Readable(file[n]) /\ ~Comment(file[n]) /\ ~Empty(file[n])
    BY <1>1, <1>3, FileTyped, EmptyLine DEF ConfigInv, WellFormed, Says
<1>5. strlen(Value(file[n])) > 1
    BY <1>3, <1>4, ReadableLine, Length
<1> DEFINE W == WordsTo(file, "org", Len(file))
<1>6. n \in W
    BY <1>3, <1>5 DEF WordsTo, SaysTo
<1>7. Max(W) \in 1 .. Len(file)
    <2>1. W \in SUBSET (0 .. Len(file)) /\ \A i \in W : i \in 1 .. Len(file)
        BY DEF WordsTo, SaysTo
    <2> HIDE DEF W
    <2>2. W # {}
        BY <1>6
    <2> QED
        BY <2>1, <2>2, <1>1, MaxOfSet
<1>8. configstr["org"] = Value(file[Max(W)])
    <2>1. "org" \in Texts \ {"domain", "serverCertPath"} /\ W # {}
        BY <1>6, Kinds
    <2> QED
        BY <2>1, <1>2 DEF Written, TextsWritten
<1>9. Value(file[Max(W)]) \in String
    <2> HIDE DEF W
    <2> QED
        BY <1>1, <1>7, FileTyped, ValueTyped DEF ConfigInv
<1> QED
    BY <1>2, <1>8, <1>9, Literals

LEMMA CompareKeeps ==
    ASSUME ConfigInv, crash = "none", CompareNull
    PROVE  ConfigInv'
<1>1. /\ pc = "validate" /\ configstr["org"] = NULL /\ crash' = "null"
      /\ client' = client /\ pc' = pc /\ gateway' = gateway /\ file' = file /\ linenum' = linenum
      /\ column' = column /\ configstr' = configstr /\ rc' = rc /\ lost' = lost /\ calls' = calls
    BY DEF CompareNull, input
<1>2. TypeInv'
    BY <1>1 DEF ConfigInv, TypeInv
<1>3. CallInv' /\ PortInv' /\ ReadInv' /\ SetInv'
    BY <1>1 DEF ConfigInv, CallInv, PortInv, ReadInv, SetInv
<1>4. CrashOnlyMalformed'
    BY <1>1, WholeFile DEF CrashOnlyMalformed
<1>5. QuickstartAgrees' /\ NoClearText' /\ AsWritten' /\ LostOnly'
    BY <1>1 DEF ConfigInv, QuickstartAgrees, NoClearText, AsWritten, LostOnly
<1> QED
    BY <1>2, <1>3, <1>4, <1>5 DEF ConfigInv

\* What the lines give is what the file says to its reader.
LEMMA WrittenWhole ==
    ASSUME NEW cfg, NEW f, Written(cfg, f, Len(f))
    PROVE  /\ \A k \in Texts \ {"domain", "serverCertPath"} :
                 cfg[k] = IF Words(f, k) = {} THEN NULL ELSE Value(f[Max(Words(f, k))])
           /\ cfg["domain"] =
                 IF LinesOf(f, "domain") = {} \/ Max(LinesOf(f, "domain")) \notin Words(f, "domain")
                 THEN DefaultDomain ELSE Value(f[Max(LinesOf(f, "domain"))])
           /\ \A k \in Flags : cfg[k] =
                 (LinesOf(f, k) # {} /\ Flag(Value(f[Max(LinesOf(f, k))])))
<1>1. \A k : LinesOf(f, k) = SaysTo(f, k, Len(f)) /\ Words(f, k) = WordsTo(f, k, Len(f))
    BY DEF LinesOf, Words, SaysTo, WordsTo
<1> QED
    BY <1>1 DEF Written, TextsWritten, DomainWritten, FlagsWritten

LEMMA ValidateKeeps ==
    ASSUME ConfigInv, crash = "none", Validate
    PROVE  ConfigInv'
<1> DEFINE quickstart == IsQuickstart(configstr)
<1>1. /\ pc = "validate" /\ configstr["org"] # NULL /\ pc' = "idle" /\ rc' = RefusedFile(quickstart)
      /\ linenum' = 0 /\ configstr' = NoConfig
      /\ gateway' = gateway /\ file' = file /\ calls' = calls /\ crash' = crash
      /\ column' = column
      /\ \/ /\ rc' = 0 /\ lost' = lost \cup Replaced
            /\ client' = [mem |-> "live", cfg |-> configstr, isQuickstart |-> quickstart,
                          isGateway |-> gateway]
         \/ /\ rc' # 0 /\ lost' = lost \cup freeConfig(configstr)
            /\ client' = [client EXCEPT !.isQuickstart = quickstart]
    BY DEF Validate, input
<1>2. /\ file # NULL /\ configstr \in Configs /\ quickstart \in BOOLEAN
      /\ gateway \in BOOLEAN
    BY <1>1 DEF ConfigInv, CallInv, TypeInv, IsQuickstart
<1>3. rc' \in {0, CONFIG_FILE_ERROR, MISSING_INPUT_PARAM, QUICKSTART_NOT_SUPPORTED}
    BY <1>1, EngineCodes DEF RefusedFile
<1>4. rc' = 0 => ~(gateway /\ quickstart)
    BY <1>1 DEF RefusedFile, MISSING_INPUT_PARAM, QUICKSTART_NOT_SUPPORTED
<1>5. \/ rc' # 0 /\ client'.mem = client.mem /\ client'.cfg = client.cfg
      \/ /\ rc' = 0 /\ client'.cfg = configstr /\ client'.isQuickstart = quickstart
         /\ client'.isGateway = gateway
    BY <1>1 DEF ConfigInv, TypeInv
<1>6. client' \in [mem : {"unset", "live", "freed"}, cfg : Configs,
                   isQuickstart : BOOLEAN, isGateway : BOOLEAN]
    BY <1>1, <1>2 DEF ConfigInv, TypeInv
<1>7. lost' \subseteq lost \cup {"serverCertPath", "Config"}
    BY <1>1, LostByFree DEF Replaced
<1>8. TypeInv'
    <2>1. lost' \subseteq Texts \cup {"FILE", "Config"}
        BY <1>7, Kinds DEF ConfigInv, TypeInv
    <2>2. 0 <= Len(file)
        BY <1>2, FileTyped DEF ConfigInv
    <2> QED
        BY <1>1, <1>3, <1>6, <2>1, <2>2, NoConfigTyped DEF ConfigInv, TypeInv
<1>9. CallInv' /\ PortInv' /\ ReadInv' /\ SetInv'
    BY <1>1 DEF CallInv, PortInv, ReadInv, SetInv
<1>10. QuickstartAgrees'
    BY <1>2, <1>4, <1>5 DEF QuickstartAgrees, IsQuickstart
<1>11. NoClearText'
    BY <1>1, <1>2, <1>5 DEF NoClearText, ConfigInv, PortInv
<1>12. AsWritten'
    <2> SUFFICES ASSUME rc' = 0, WellFormed(file)
                 PROVE  AsWritten'
        BY <1>1 DEF AsWritten
    <2>1. client'.cfg = configstr
        BY <1>2, <1>5
    <2>2. Written(configstr, file, Len(file))
        BY <1>1, WholeFile
    <2> QED
        BY <1>1, <2>1, <2>2, WrittenWhole DEF AsWritten, Flag
<1>13. CrashOnlyMalformed' /\ LostOnly'
    BY <1>1, <1>7 DEF ConfigInv, CrashOnlyMalformed, LostOnly
<1> QED
    BY <1>8, <1>9, <1>10, <1>11, <1>12, <1>13 DEF ConfigInv

LEMMA ArgumentsTyped ==
    ASSUME NEW a \in Arguments
    PROVE  /\ \A k \in Texts : a[k] \in {NULL} \cup String
           /\ \A k \in Flags : a[k] \in BOOLEAN
BY ArgumentsAssumption DEF String

\* What initialize builds is a configuration; of an organisation that is not
\* quickstart, one for the port with TLS.
LEMMA BuiltTyped ==
    ASSUME NEW a \in Arguments
    PROVE  /\ Built(a) \in Configs
           /\ a["org"] # NULL => (Built(a)["org"] = Quickstart <=> a["org"] = Quickstart)
           /\ a["org"] # Quickstart => Built(a)["port"] = 8883
<1> DEFINE new == Built(a)
           value(k) == IF k = "domain" THEN strCopy(DefaultDomain, Given(a, k))
                       ELSE IF k \in Copied(a) THEN strCopy(NULL, Given(a, k)) ELSE NULL
           port == IF a["org"] = Quickstart THEN 1883 ELSE 8883
           flag(k) == IF k = "useClientCertificates" THEN a[k] /\ a["org"] # Quickstart ELSE a[k]
<1>1. Copied(a) \subseteq Texts /\ "org" \in Copied(a)
    BY DEF Copied, Texts
<1>2. new = [k \in Keys |-> IF k \in Texts THEN value(k) ELSE IF k = "port" THEN port ELSE flag(k)]
    BY <1>1, Kinds DEF Built, Keys
<1>3. ASSUME NEW k \in Texts PROVE value(k) \in {NULL} \cup (String \ {<<>>})
    <2>1. Given(a, k) \in String
        BY ArgumentsTyped, Literals DEF Given
    <2> QED
        BY <2>1, Literals, CopyTyped
<1>4. ASSUME NEW k \in Flags PROVE flag(k) \in BOOLEAN
    BY ArgumentsTyped
<1>5. \A k \in Texts : new[k] = value(k)
    BY <1>2, Kinds
<1>6. \A k \in Flags : new[k] = flag(k)
    BY <1>2, Kinds
<1>7. new["port"] = port
    BY <1>2, Kinds
<1>8. new["org"] = strCopy(NULL, Given(a, "org"))
    BY <1>1, <1>5, Kinds
<1>9. a["org"] # NULL => (new["org"] = Quickstart <=> a["org"] = Quickstart)
    BY <1>8, Literals DEF Given, strCopy
<1>10. new \in Configs
    <2> HIDE DEF new, value, flag, port
    <2>1. \A k \in Texts : new[k] \in {NULL} \cup (String \ {<<>>})
        BY <1>3, <1>5
    <2>2. \A k \in Flags : new[k] \in BOOLEAN
        BY <1>4, <1>6
    <2>3. new["port"] \in {1883, 8883}
        BY <1>7 DEF port
    <2>4. \A k \in Keys : new[k] \in Values
        BY <2>1, <2>2, <2>3 DEF Keys, Values
    <2>5. new \in [Keys -> Values]
        BY <1>2, <2>4
    <2> QED
        BY <2>1, <2>2, <2>3, <2>5, IsConfiguration
<1> QED
    BY <1>7, <1>9, <1>10

LEMMA InitializeKeeps ==
    ASSUME ConfigInv, crash = "none", initialize
    PROVE  ConfigInv'
<1>1. PICK a \in Arguments :
         LET quickstart == a["org"] = Quickstart IN
         /\ rc' = Refused(a, gateway')
         /\ \/ /\ rc' = 0 /\ lost' = LostDomain(a) \cup Replaced
               /\ client' = [mem |-> "live", cfg |-> Built(a), isQuickstart |-> quickstart,
                             isGateway |-> gateway']
            \/ rc' = MISSING_INPUT_PARAM /\ lost' = LostDomain(a) /\ UNCHANGED client
            \/ /\ rc' \in {QUICKSTART_NOT_SUPPORTED, CONFIG_FILE_ERROR}
               /\ lost' = LostDomain(a) \cup freeConfig(Built(a))
               /\ client' = [client EXCEPT
                    !.isQuickstart = quickstart,
                    !.isGateway = IF quickstart /\ gateway' THEN @ ELSE gateway']
    BY DEF initialize
<1> DEFINE quickstart == a["org"] = Quickstart
<1> DEFINE Accepts == /\ rc' = 0 /\ lost' = LostDomain(a) \cup Replaced
                      /\ client' = [mem |-> "live", cfg |-> Built(a), isQuickstart |-> quickstart,
                                    isGateway |-> gateway']
           Misses  == rc' = MISSING_INPUT_PARAM /\ lost' = LostDomain(a) /\ client' = client
           Refuses == /\ rc' \in {QUICKSTART_NOT_SUPPORTED, CONFIG_FILE_ERROR}
                      /\ lost' = LostDomain(a) \cup freeConfig(Built(a))
                      /\ client' = [client EXCEPT
                           !.isQuickstart = quickstart,
                           !.isGateway = IF quickstart /\ gateway' THEN client.isGateway ELSE gateway']
<1>0. Accepts \/ Misses \/ Refuses
    BY <1>1
<1>2. /\ pc = "idle" /\ calls < MaxCalls /\ calls' = calls + 1
      /\ gateway' \in BOOLEAN /\ file' = NULL
      /\ pc' = pc /\ linenum' = linenum /\ column' = column /\ configstr' = configstr
      /\ crash' = crash
    BY DEF initialize
<1>3. /\ Built(a) \in Configs
      /\ a["org"] # NULL => (Built(a)["org"] = Quickstart <=> quickstart)
      /\ ~quickstart => Built(a)["port"] = 8883
    BY BuiltTyped
<1>4. rc' \in {0, CONFIG_FILE_ERROR, MISSING_INPUT_PARAM, QUICKSTART_NOT_SUPPORTED}
    BY <1>1, EngineCodes DEF Refused
<1>5. rc' = 0 => a["org"] # NULL /\ ~(gateway' /\ quickstart)
    <2>1. Refused(a, gateway') = 0 => ~Absent(a, Needed(a)) /\ ~(gateway' /\ quickstart)
        BY DEF Refused, MISSING_INPUT_PARAM, QUICKSTART_NOT_SUPPORTED
    <2>2. "org" \in Needed(a)
        BY DEF Needed, Unchecked
    <2> QED
        BY <1>1, <2>1, <2>2 DEF Absent
<1>6. lost' \subseteq {"domain", "serverCertPath", "Config"}
    <2>1. LostDomain(a) \subseteq {"domain"} /\ freeConfig(Built(a)) \subseteq {"serverCertPath"}
        BY LostByFree DEF LostDomain
    <2>2. Replaced \subseteq {"Config"}
        BY DEF Replaced
    <2> QED
        BY <1>1, <2>1, <2>2
<1>7. quickstart \in BOOLEAN /\ gateway' \in BOOLEAN
    BY <1>2
<1>8. /\ client' \in [mem : {"unset", "live", "freed"}, cfg : Configs,
                      isQuickstart : BOOLEAN, isGateway : BOOLEAN]
      /\ \/ rc' # 0 /\ client'.mem = client.mem /\ client'.cfg = client.cfg
         \/ /\ rc' = 0 /\ client'.cfg = Built(a) /\ client'.isQuickstart = quickstart
            /\ client'.isGateway = gateway'
    <2> HIDE DEF quickstart
    <2>1. client \in [mem : {"unset", "live", "freed"}, cfg : Configs,
                      isQuickstart : BOOLEAN, isGateway : BOOLEAN]
        BY DEF ConfigInv, TypeInv
    <2>2. CASE Accepts
        BY <2>2, <1>3, <1>7
    <2>3. CASE Misses
        BY <2>3, <2>1 DEF MISSING_INPUT_PARAM
    <2>4. CASE Refuses
        <3>1. client.isGateway \in BOOLEAN
            BY <2>1
        <3>2. (IF quickstart /\ gateway' THEN client.isGateway ELSE gateway') \in BOOLEAN
            BY <3>1, <1>7
        <3>3. rc' # 0
            BY <2>4 DEF CONFIG_FILE_ERROR, QUICKSTART_NOT_SUPPORTED
        <3> QED
            BY <2>4, <2>1, <3>2, <3>3, <1>7
    <2> QED
        BY <1>0, <2>2, <2>3, <2>4
<1>9. TypeInv'
    <2>1. calls' \in 0 .. MaxCalls
        BY <1>2, MaxCallsAssumption DEF ConfigInv, TypeInv
    <2>2. lost' \subseteq Texts \cup {"FILE", "Config"}
        BY <1>6, Kinds
    <2> QED
        BY <1>2, <1>4, <1>8, <2>1, <2>2 DEF ConfigInv, TypeInv
<1>10. CallInv' /\ PortInv' /\ ReadInv' /\ SetInv'
    BY <1>2 DEF CallInv, PortInv, ReadInv, SetInv
<1>11. QuickstartAgrees'
    <2> SUFFICES ASSUME rc' = 0
                 PROVE  /\ client'.isQuickstart = (client'.cfg["org"] = Quickstart)
                        /\ ~(client'.isQuickstart /\ client'.isGateway)
        BY DEF QuickstartAgrees
    <2>1. /\ rc' = 0 /\ client'.cfg = Built(a) /\ client'.isQuickstart = quickstart
          /\ client'.isGateway = gateway'
        BY <1>2, <1>8
    <2>2. a["org"] # NULL /\ ~(gateway' /\ quickstart)
        BY <1>5, <2>1
    <2>3. client'.cfg["org"] = Quickstart <=> quickstart
        BY <1>3, <2>1, <2>2
    <2> QED
        BY <2>1, <2>2, <2>3
<1>12. NoClearText'
    BY <1>2, <1>3, <1>5, <1>8 DEF ConfigInv, NoClearText
<1>13. AsWritten' /\ CrashOnlyMalformed' /\ LostOnly'
    BY <1>2, <1>6 DEF AsWritten, CrashOnlyMalformed, LostOnly
<1> QED
    BY <1>9, <1>10, <1>11, <1>12, <1>13 DEF ConfigInv

LEMMA DisconnectKeeps ==
    ASSUME ConfigInv, crash = "none", disconnect
    PROVE  ConfigInv'
<1>1. /\ pc = "idle" /\ client' = [client EXCEPT !.mem = "freed", !.cfg = NoConfig]
      /\ lost' = freeConfig(client.cfg)
      /\ pc' = pc /\ gateway' = gateway /\ file' = file /\ linenum' = linenum
      /\ column' = column /\ configstr' = configstr /\ rc' = rc /\ calls' = calls /\ crash' = crash
    BY DEF disconnect, input
<1>2. lost' \subseteq {"serverCertPath"}
    BY <1>1, LostByFree
<1>3. client' \in [mem : {"unset", "live", "freed"}, cfg : Configs,
                   isQuickstart : BOOLEAN, isGateway : BOOLEAN] /\ client'.mem = "freed"
    BY <1>1, NoConfigTyped DEF ConfigInv, TypeInv
<1>4. TypeInv'
    <2>1. lost' \subseteq Texts \cup {"FILE", "Config"}
        BY <1>2, Kinds
    <2> QED
        BY <1>1, <1>3, <2>1 DEF ConfigInv, TypeInv
<1>5. CallInv' /\ PortInv' /\ ReadInv' /\ SetInv'
    BY <1>1 DEF CallInv, PortInv, ReadInv, SetInv
<1>6. QuickstartAgrees' /\ NoClearText' /\ AsWritten' /\ CrashOnlyMalformed' /\ LostOnly'
    BY <1>1, <1>2, <1>3
       DEF ConfigInv, QuickstartAgrees, NoClearText, AsWritten, CrashOnlyMalformed, LostOnly
<1> QED
    BY <1>4, <1>5, <1>6 DEF ConfigInv

LEMMA NextInv == ConfigInv /\ [Next]_vars => ConfigInv'
<1> SUFFICES ASSUME ConfigInv, [Next]_vars PROVE ConfigInv'
    OBVIOUS
<1>1. CASE UNCHANGED vars
    <2>1. /\ client' = client /\ pc' = pc /\ gateway' = gateway /\ file' = file
          /\ linenum' = linenum /\ column' = column /\ configstr' = configstr /\ rc' = rc
          /\ lost' = lost
          /\ calls' = calls /\ crash' = crash
        BY <1>1 DEF vars, input
    <2>2. TypeInv' /\ CallInv' /\ PortInv' /\ ReadInv' /\ SetInv'
        BY <2>1 DEF ConfigInv, TypeInv, CallInv, PortInv, ReadInv, SetInv
    <2>3. QuickstartAgrees' /\ NoClearText' /\ AsWritten' /\ CrashOnlyMalformed' /\ LostOnly'
        BY <2>1 DEF ConfigInv, QuickstartAgrees, NoClearText, AsWritten, CrashOnlyMalformed, LostOnly
    <2> QED
        BY <2>2, <2>3 DEF ConfigInv
<1>2. CASE Next
    <2>1. crash = "none"
        BY <1>2 DEF Next
    <2> QED
        BY <1>2, <2>1, StartKeeps, OpenKeeps, ReadKeeps, EndKeeps, CompareKeeps, ValidateKeeps,
           InitializeKeeps, DisconnectKeeps DEF Next
<1> QED
    BY <1>1, <1>2

LEMMA ConfigSafe == Spec => []ConfigInv
BY InitInv, NextInv, PTL DEF Spec

-----------------------------------------------------------------------------
(* The theorems.                                                           *)

\* Types, and that no text of a configuration is an empty string: for all files
\* and all arguments.
THEOREM TypeCorrect == Spec => []TypeOK
<1>1. ConfigInv => TypeOK
    BY TypeImplied DEF ConfigInv
<1> QED
    BY <1>1, ConfigSafe, PTL

\* After a call that succeeded a client is in quickstart mode exactly if its
\* organisation is quickstart, and then no gateway, whatever calls came before
\* and whether they succeeded or were refused.
THEOREM Quickstarts == Spec => []QuickstartAgrees
<1>1. ConfigInv => QuickstartAgrees
    BY DEF ConfigInv
<1> QED
    BY <1>1, ConfigSafe, PTL

\* Only quickstart gets the port without TLS, whatever is in the file.
THEOREM OthersUseTLS == Spec => []NoClearText
<1>1. ConfigInv => NoClearText
    BY DEF ConfigInv
<1> QED
    BY <1>1, ConfigSafe, PTL

\* A client that is initialised from a well-formed file is configured as the
\* file says: for every buffer, and every file of any number of lines that fit
\* it, blank ones among them.
THEOREM ConfiguredAsWritten == Spec => []AsWritten
<1>1. ConfigInv => AsWritten
    BY DEF ConfigInv
<1> QED
    BY <1>1, ConfigSafe, PTL

\* Reading a well-formed file uses no NULL pointer, and if it has no blank line,
\* nothing below the buffer is written either.
THEOREM WellFormedIsSafe == Spec => []CrashOnlyMalformed
<1>1. ConfigInv => CrashOnlyMalformed
    BY DEF ConfigInv
<1> QED
    BY <1>1, ConfigSafe, PTL

\* What is allocated and let go is of the kinds that LostOnly names, for every
\* file, well-formed or not.
THEOREM NothingElseLost == Spec => []LostOnly
<1>1. ConfigInv => LostOnly
    BY DEF ConfigInv
<1> QED
    BY <1>1, ConfigSafe, PTL
=============================================================================
