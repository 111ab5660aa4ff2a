----------------------------- MODULE KeysProofs -----------------------------
(***************************************************************************)
(* Proofs about API keys and the names of models, for every set of names,  *)
(* prefixes, dates, versions and aliases, and any number of rows and       *)
(* patterns.                                                               *)
(***************************************************************************)
EXTENDS Keys, FiniteSetTheorems, SequenceTheorems, WellFoundedInduction, TLAPS

-----------------------------------------------------------------------------
(***************************************************************************)
(* Induction and recursion over data, without an operator as a parameter:  *)
(* a predicate is the set of what has it, and what a definition makes of   *)
(* a function is a function itself.                                        *)
(***************************************************************************)

\* A set of numbers has a least one: what is below it is the least of such
\* intervals, and no chain of finite sets goes down for ever.
LEMMA LeastNatural ==
  ASSUME NEW S \in SUBSET Nat, S # {}
  PROVE  \E n \in S : \A k \in S : n <= k
<1> DEFINE Below == {0..(n - 1) : n \in S}
<1>1. Below \subseteq FiniteSubsetsOf(Nat)
  <2>1. ASSUME NEW n \in Nat PROVE IsFiniteSet(0..(n - 1))
    BY FS_Interval
  <2> QED BY <2>1 DEF FiniteSubsetsOf
<1>2. Below # {}
  OBVIOUS
<1>3. IsWellFoundedOn(StrictSubsetOrdering(Nat), FiniteSubsetsOf(Nat))
  BY FS_StrictSubsetOrderingWellFounded
<1> HIDE DEF Below
<1>4. PICK B \in Below : \A C \in Below : ~ (<<C, B>> \in StrictSubsetOrdering(Nat))
  BY <1>1, <1>2, <1>3, WFMin
<1>5. PICK n \in S : B = 0..(n - 1)
  BY <1>4 DEF Below
<1>6. ASSUME NEW k \in S, k < n PROVE FALSE
  <2>1. 0..(k - 1) \in Below
    BY DEF Below
  <2>2. 0..(k-1) \subseteq B /\ k \in B /\ k \notin 0..(k-1) /\ B \subseteq Nat
    BY <1>5, <1>6
  <2>3. <<0..(k - 1), B>> \in StrictSubsetOrdering(Nat)
    BY <2>2 DEF StrictSubsetOrdering
  <2> QED BY <1>4, <2>1, <2>3
<1> QED BY <1>6

\* Whatever passes from everything of a lower rank to what is above it, all have.
LEMMA RankedInduction ==
  ASSUME NEW D, NEW rank \in [D -> Nat], NEW G,
         \A i \in D : (\A j \in D : rank[j] < rank[i] => j \in G) => i \in G
  PROVE  \A i \in D : i \in G
<1> SUFFICES ASSUME NEW i \in D, i \notin G PROVE FALSE
  OBVIOUS
<1> DEFINE Bad == {rank[j] : j \in D \ G}
<1>1. Bad \in SUBSET Nat /\ Bad # {}
  OBVIOUS
<1> HIDE DEF Bad
<1>2. PICK n \in Bad : \A k \in Bad : n <= k
  BY <1>1, LeastNatural
<1>3. PICK j \in D \ G : n = rank[j]
  BY <1>2 DEF Bad
<1>4. ASSUME NEW k \in D, rank[k] < rank[j], k \notin G
      PROVE  FALSE
  <2>1. rank[k] \in Bad
    BY <1>4 DEF Bad
  <2>2. n <= rank[k] /\ rank[k] \in Nat /\ rank[j] \in Nat
    BY <1>2, <2>1
  <2> QED BY <1>3, <1>4, <2>2
<1> QED BY <1>3, <1>4

\* What step says of a place depends on the places of a lower rank alone.
Causal(D, rank, T, step) ==
  \A i \in D : \A f, g \in [D -> T] :
    (\A j \in D : rank[j] < rank[i] => f[j] = g[j]) => step[<<i, f>>] = step[<<i, g>>]

\* A function is what its own definition says it is.
Solves(f, D, step) == \A i \in D : f[i] = step[<<i, f>>]

\* A definition that goes down in rank has a solution: there is one up to each rank.
LEMMA RankedRecursion ==
  ASSUME NEW D, NEW N \in Nat, NEW rank \in [D -> 0..N], NEW T, T # {},
         NEW step \in [D \X [D -> T] -> T], Causal(D, rank, T, step)
  PROVE  \E f \in [D -> T] : Solves(f, D, step)
<1> DEFINE Upto(k) == \E f \in [D -> T] : \A i \in D : rank[i] < k => f[i] = step[<<i, f>>]
           G == {k \in 0..N + 1 : Upto(k)}
           idx == [k \in 0..N + 1 |-> k]
<1>1. Upto(0)
  <2>1. PICK t \in T : TRUE
    OBVIOUS
  <2>2. [i \in D |-> t] \in [D -> T]
    OBVIOUS
  <2>3. \A i \in D : ~(rank[i] < 0)
    OBVIOUS
  <2> QED BY <2>2, <2>3
<1>2. ASSUME NEW k \in 0..N, Upto(k)
      PROVE  Upto(k + 1)
  <2>1. PICK f \in [D -> T] : \A i \in D : rank[i] < k => f[i] = step[<<i, f>>]
    BY <1>2
  <2> DEFINE g == [i \in D |-> IF rank[i] = k THEN step[<<i, f>>] ELSE f[i]]
  <2>2. g \in [D -> T]
    OBVIOUS
  <2>3. ASSUME NEW i \in D, rank[i] < k + 1
        PROVE  g[i] = step[<<i, g>>]
    <3>1. \A j \in D : rank[j] < rank[i] => f[j] = g[j]
      BY <2>3
    <3>2. step[<<i, f>>] = step[<<i, g>>]
      BY <2>2, <3>1 DEF Causal
    <3>3. g[i] = step[<<i, f>>]
      BY <2>1, <2>3
    <3> QED BY <3>2, <3>3
  <2> QED BY <2>2, <2>3
<1> HIDE DEF Upto
<1>3. \A k \in 0..N + 1 : (\A j \in 0..N + 1 : idx[j] < idx[k] => j \in G) => k \in G
  <2> SUFFICES ASSUME NEW k \in 0..N + 1, \A j \in 0..N + 1 : idx[j] < idx[k] => j \in G
               PROVE  Upto(k)
    OBVIOUS
  <2>1. CASE k = 0
    BY <1>1, <2>1
  <2>2. CASE k # 0
    <3>1. k - 1 \in 0..N + 1 /\ k - 1 \in 0..N /\ idx[k - 1] < idx[k] /\ (k - 1) + 1 = k
      BY <2>2
    <3>2. Upto(k - 1)
      BY <3>1
    <3>3. Upto((k - 1) + 1)
      BY <1>2, <3>1, <3>2
    <3> QED BY <3>1, <3>3
  <2> QED BY <2>1, <2>2
<1>4. idx \in [0..N + 1 -> Nat]
  OBVIOUS
<1> HIDE DEF idx, G
<1>5. \A k \in 0..N + 1 : k \in G
  <2> DEFINE D0 == 0..N + 1
  <2>1. idx \in [D0 -> Nat] /\ \A k \in D0 : (\A j \in D0 : idx[j] < idx[k] => j \in G) => k \in G
    BY <1>3, <1>4
  <2> HIDE DEF D0
  <2>2. \A k \in D0 : k \in G
    BY <2>1, RankedInduction
  <2> QED BY <2>2 DEF D0
<1>6. Upto(N + 1)
  <2>1. N + 1 \in G
    BY <1>5
  <2> QED BY <2>1 DEF G
<1> QED BY <1>6 DEF Upto, Solves

-----------------------------------------------------------------------------
(***************************************************************************)
(* What the functions on names make of a name is a name.                   *)
(***************************************************************************)

\* What is left of a name from its i-th part on, given what is left from later ones.
WithoutDates(m, f, i) ==
  IF i > Len(m) THEN <<>>
  ELSE IF IsDate(m, i) /\ i + 1 = Len(m) THEN <<>>
  ELSE IF IsDate(m, i) /\ m[i + 2] = "-" THEN <<"-">> \o f[i + 3]
  ELSE <<m[i]>> \o f[i + 1]

\* Dates, each with the hyphen before it, go out of a name; the rest stays.
LEMMA StripDatesUnfolds ==
  ASSUME NEW S, "-" \in S, NEW m \in Seq(S)
  PROVE  \E rest \in [1..Len(m) + 3 -> Seq(S)] :
           /\ StripDates(m) = rest[1]
           /\ \A i \in 1..Len(m) + 3 : rest[i] = WithoutDates(m, rest, i)
<1> DEFINE D == 1..Len(m) + 3
           rank == [i \in D |-> Len(m) + 3 - i]
           Def(f, i) == WithoutDates(m, f, i)
           rest == CHOOSE f : f = [i \in D |-> Def(f, i)]
           step == [x \in D \X [D -> Seq(S)] |-> Def(x[2], x[1])]
<1>1. StripDates(m) = rest[1]
  BY DEF StripDates, WithoutDates
<1>2. Len(m) \in Nat /\ DOMAIN m = 1..Len(m) /\ \A i \in 1..Len(m) : m[i] \in S
  OBVIOUS
<1>3. rank \in [D -> 0..Len(m) + 3] /\ rank \in [D -> Nat]
  BY <1>2
<1>4. ASSUME NEW f, NEW i \in D, \A j \in D : rank[j] < rank[i] => f[j] \in Seq(S)
      PROVE  Def(f, i) \in Seq(S)
  <2>1. CASE i > Len(m)
    BY <2>1 DEF WithoutDates
  <2>2. CASE i <= Len(m)
    <3>1. i + 1 \in D /\ i + 3 \in D /\ rank[i + 1] < rank[i] /\ rank[i + 3] < rank[i]
      BY <1>2, <2>2
    <3>2. f[i + 1] \in Seq(S) /\ f[i + 3] \in Seq(S) /\ <<m[i]>> \in Seq(S) /\ <<"-">> \in Seq(S)
      BY <1>2, <1>4, <2>2, <3>1
    <3>3. <<m[i]>> \o f[i + 1] \in Seq(S) /\ <<"-">> \o f[i + 3] \in Seq(S)
      BY <3>2, ConcatProperties
    <3> QED BY <3>3 DEF WithoutDates
  <2>3. i > Len(m) \/ i <= Len(m)
    BY <1>2
  <2> HIDE DEF Def
  <2> QED BY <2>1, <2>2, <2>3
<1>5. ASSUME NEW i \in D, NEW f \in [D -> Seq(S)], NEW g \in [D -> Seq(S)],
             \A j \in D : rank[j] < rank[i] => f[j] = g[j]
      PROVE  Def(f, i) = Def(g, i)
  <2>1. CASE i > Len(m)
    BY <2>1 DEF WithoutDates
  <2>2. CASE i <= Len(m)
    <3>1. i + 1 \in D /\ i + 3 \in D /\ rank[i + 1] < rank[i] /\ rank[i + 3] < rank[i]
      BY <1>2, <2>2
    <3>2. f[i + 1] = g[i + 1] /\ f[i + 3] = g[i + 3]
      BY <1>5, <3>1
    <3> QED BY <3>2 DEF WithoutDates
  <2>3. i > Len(m) \/ i <= Len(m)
    BY <1>2
  <2> HIDE DEF Def
  <2> QED BY <2>1, <2>2, <2>3
<1> HIDE DEF rank, D, Def
<1>6. step \in [D \X [D -> Seq(S)] -> Seq(S)]
  BY <1>4
<1>7. \E f : f = [i \in D |-> Def(f, i)]
  <2>1. \A i \in D : \A f, g \in [D -> Seq(S)] :
          (\A j \in D : rank[j] < rank[i] => f[j] = g[j]) => step[<<i, f>>] = step[<<i, g>>]
    BY <1>5
  <2> DEFINE T == Seq(S)
             N == Len(m) + 3
  <2>2. T # {} /\ N \in Nat /\ rank \in [D -> 0..N] /\ step \in [D \X [D -> T] -> T]
    BY <1>2, <1>3, <1>6
  <2>3. Causal(D, rank, T, step)
    BY <2>1 DEF Causal
  <2> HIDE DEF step, N, T
  <2>4. \E f \in [D -> T] : Solves(f, D, step)
    BY <2>2, <2>3, RankedRecursion
  <2> USE DEF step, T
  <2> QED BY <2>4 DEF Solves
<1>8. rest = [i \in D |-> Def(rest, i)]
  BY <1>7
<1> HIDE DEF rest
<1>9. \A i \in D : rest[i] \in Seq(S)
  <2> DEFINE G == {i \in D : rest[i] \in Seq(S)}
  <2>1. \A i \in D : (\A j \in D : rank[j] < rank[i] => j \in G) => i \in G
    BY <1>4, <1>8
  <2> HIDE DEF G
  <2>2. \A i \in D : i \in G
    BY <1>3, <2>1, RankedInduction
  <2> QED BY <2>2 DEF G
<1>10. rest \in [D -> Seq(S)] /\ \A i \in D : rest[i] = Def(rest, i)
  BY <1>8, <1>9
<1> QED BY <1>1, <1>10 DEF D, Def

\* What the first i parts of a name become, given what fewer of them do.
WithHyphens(m, f, i) ==
  IF i = 0 THEN <<>>
  ELSE IF Kept(Hyphens(m), i) THEN Append(f[i - 1], Hyphens(m)[i]) ELSE f[i - 1]

\* A separator between words becomes a hyphen or goes.
LEMMA NormalizeSeparatorsUnfolds ==
  ASSUME NEW S, "-" \in S, NEW m \in Seq(S)
  PROVE  \E upto \in [0..Len(m) -> Seq(S)] :
           /\ NormalizeSeparators(m) = upto[Len(m)]
           /\ \A i \in 0..Len(m) : upto[i] = WithHyphens(m, upto, i)
<1> DEFINE D == 0..Len(m)
           rank == [i \in D |-> i]
           Def(f, i) == WithHyphens(m, f, i)
           upto == CHOOSE f : f = [i \in D |-> Def(f, i)]
           step == [x \in D \X [D -> Seq(S)] |-> Def(x[2], x[1])]
<1>1. NormalizeSeparators(m) = upto[Len(m)]
  <2>1. Len(Hyphens(m)) = Len(m)
    BY DEF Hyphens
  <2> QED BY <2>1 DEF NormalizeSeparators, WithoutRuns, WithHyphens
<1>2. Len(m) \in Nat /\ DOMAIN m = 1..Len(m) /\ \A i \in 1..Len(m) : Hyphens(m)[i] \in S
  BY DEF Hyphens
<1>3. rank \in [D -> 0..Len(m)] /\ rank \in [D -> Nat]
  BY <1>2
<1>11. ASSUME NEW i \in D, i # 0
      PROVE  i - 1 \in D /\ rank[i - 1] < rank[i] /\ i \in 1..Len(m)
  BY <1>2, <1>11
<1>4. ASSUME NEW f, NEW i \in D, \A j \in D : rank[j] < rank[i] => f[j] \in Seq(S)
      PROVE  Def(f, i) \in Seq(S)
  <2>1. i # 0 => f[i - 1] \in Seq(S) /\ Hyphens(m)[i] \in S
    BY <1>2, <1>4, <1>11
  <2>2. i # 0 => Append(f[i - 1], Hyphens(m)[i]) \in Seq(S)
    BY <2>1, AppendProperties
  <2> QED BY <2>1, <2>2 DEF WithHyphens
<1>5. ASSUME NEW i \in D, NEW f \in [D -> Seq(S)], NEW g \in [D -> Seq(S)],
             \A j \in D : rank[j] < rank[i] => f[j] = g[j]
      PROVE  Def(f, i) = Def(g, i)
  <2>1. i # 0 => f[i - 1] = g[i - 1]
    BY <1>5, <1>11
  <2> QED BY <2>1 DEF WithHyphens
<1> HIDE DEF rank, D, Def
<1>6. step \in [D \X [D -> Seq(S)] -> Seq(S)]
  BY <1>4
<1>7. \E f : f = [i \in D |-> Def(f, i)]
  <2>1. Causal(D, rank, Seq(S), step)
    BY <1>5 DEF Causal
  <2> DEFINE T == Seq(S)
             N == Len(m)
  <2>2. T # {} /\ N \in Nat /\ rank \in [D -> 0..N] /\ step \in [D \X [D -> T] -> T]
        /\ Causal(D, rank, T, step)
    BY <1>2, <1>3, <1>6, <2>1
  <2> HIDE DEF step, N, T
  <2>3. \E f \in [D -> T] : Solves(f, D, step)
    BY <2>2, RankedRecursion
  <2> USE DEF step, T
  <2> QED BY <2>3 DEF Solves
<1>8. upto = [i \in D |-> Def(upto, i)]
  BY <1>7
<1> HIDE DEF upto
<1>9. \A i \in D : upto[i] \in Seq(S)
  <2> DEFINE G == {i \in D : upto[i] \in Seq(S)}
  <2>1. \A i \in D : (\A j \in D : rank[j] < rank[i] => j \in G) => i \in G
    BY <1>4, <1>8
  <2> HIDE DEF G
  <2>2. \A i \in D : i \in G
    BY <1>3, <2>1, RankedInduction
  <2> QED BY <2>2 DEF G
<1>10. upto \in [D -> Seq(S)] /\ \A i \in D : upto[i] = Def(upto, i)
  BY <1>8, <1>9
<1> QED BY <1>1, <1>10 DEF D, Def

\* Where the name goes on behind all prefixes from its i-th part on, given where it
\* does from later parts on.
From(m, f, i) == IF Behind(m, i) = {} THEN i ELSE f[CHOOSE j \in Behind(m, i) : TRUE]

\* The prefixes go, one after the other; what is behind them stays.
LEMMA StripProviderPrefixUnfolds ==
  ASSUME NEW S, NEW m \in Seq(S)
  PROVE  \E from \in [1..Len(m) + 1 -> 1..Len(m) + 1] :
           /\ StripProviderPrefix(m) = SubSeq(m, from[1], Len(m))
           /\ \A i \in 1..Len(m) + 1 : from[i] = From(m, from, i)
<1> DEFINE D == 1..Len(m) + 1
           rank == [i \in D |-> Len(m) + 1 - i]
           Def(f, i) == From(m, f, i)
           from == CHOOSE f : f = [i \in D |-> Def(f, i)]
           step == [x \in D \X [D -> D] |-> Def(x[2], x[1])]
<1>1. StripProviderPrefix(m) = SubSeq(m, from[1], Len(m))
  BY DEF StripProviderPrefix, From
<1>2. Len(m) \in Nat /\ DOMAIN m = 1..Len(m) /\ \A i \in 1..Len(m) : m[i] \in S
  OBVIOUS
<1>3. rank \in [D -> 0..Len(m) + 1] /\ rank \in [D -> Nat]
  BY <1>2
<1>11. ASSUME NEW i \in D, NEW j \in Behind(m, i)
      PROVE  j \in D /\ rank[j] < rank[i]
  <2>1. PICK p \in ProviderPrefixes : StartsWith(SubSeq(m, i, Len(m)), p) /\ j = i + Len(p)
    BY DEF Behind
  <2>2. Len(p) \in Nat /\ Len(p) # 0
    BY PrefixAssumption, EmptySeq DEF Name
  <2>3. Len(p) <= Len(SubSeq(m, i, Len(m)))
    BY <2>1 DEF StartsWith, IsPrefix
  <2>4. Len(SubSeq(m, i, Len(m))) = Len(m) + 1 - i
    BY <1>2, SubSeqProperties
  <2> QED BY <1>2, <2>1, <2>2, <2>3, <2>4
<1>4. ASSUME NEW f, NEW i \in D, \A j \in D : rank[j] < rank[i] => f[j] \in D
      PROVE  Def(f, i) \in D
  BY <1>4, <1>11 DEF From
<1>5. ASSUME NEW i \in D, NEW f \in [D -> D], NEW g \in [D -> D],
             \A j \in D : rank[j] < rank[i] => f[j] = g[j]
      PROVE  Def(f, i) = Def(g, i)
  BY <1>5, <1>11 DEF From
<1>12. D # {}
  <2>1. 1 \in D
    BY <1>2
  <2> QED BY <2>1, Zenon
<1> HIDE DEF rank, D, Def
<1>6. step \in [D \X [D -> D] -> D]
  BY <1>4
<1>7. \E f : f = [i \in D |-> Def(f, i)]
  <2>1. Causal(D, rank, D, step)
    BY <1>5 DEF Causal
  <2> DEFINE N == Len(m) + 1
  <2>2. N \in Nat /\ rank \in [D -> 0..N]
    BY <1>2, <1>3
  <2> HIDE DEF step, N
  <2>3. \E f \in [D -> D] : Solves(f, D, step)
    BY <1>12, <1>6, <2>1, <2>2, RankedRecursion
  <2> USE DEF step
  <2> QED BY <2>3 DEF Solves
<1>8. from = [i \in D |-> Def(from, i)]
  BY <1>7
<1> HIDE DEF from
<1>9. \A i \in D : from[i] \in D
  <2> DEFINE G == {i \in D : from[i] \in D}
  <2>1. \A i \in D : (\A j \in D : rank[j] < rank[i] => j \in G) => i \in G
    BY <1>4, <1>8
  <2> HIDE DEF G
  <2>2. \A i \in D : i \in G
    BY <1>3, <2>1, RankedInduction
  <2> QED BY <2>2 DEF G
<1>10. from \in [D -> D] /\ \A i \in D : from[i] = Def(from, i)
  BY <1>8, <1>9
<1> QED BY <1>1, <1>10 DEF D, Def

\* What is behind the prefixes of a name is a part of it.
LEMMA StripProviderPrefixType ==
  ASSUME NEW S, NEW m \in Seq(S)
  PROVE  StripProviderPrefix(m) \in Seq(S)
<1>1. PICK from \in [1..Len(m) + 1 -> 1..Len(m) + 1] :
        StripProviderPrefix(m) = SubSeq(m, from[1], Len(m))
  BY StripProviderPrefixUnfolds
<1>2. Len(m) \in Nat /\ 1 \in 1..Len(m) + 1 /\ \A i \in 1..Len(m) : m[i] \in S
  OBVIOUS
<1> QED BY <1>1, <1>2, SubSeqProperties

\* A version at the end goes, with the separator before it.
LEMMA StripVersionType ==
  ASSUME NEW S, NEW m \in Seq(S)
  PROVE  StripVersion(m) \in Seq(S)
<1>1. Len(m) \in Nat /\ \A i \in 1..Len(m) - 2 : m[i] \in S
  OBVIOUS
<1>2. SubSeq(m, 1, Len(m) - 2) \in Seq(S)
  BY <1>1, SubSeqProperties
<1> QED BY <1>2 DEF StripVersion

\* A canonical name is a name.
LEMMA CanonicalType ==
  ASSUME NEW m \in Name
  PROVE  CanonicalModelName(m) \in Name
<1>1. "-" \in STRING \cup Separators
  BY DEF Separators
<1>2. \A n \in Name : NormalizeSeparators(n) \in Name /\ StripDates(n) \in Name
  <2> SUFFICES ASSUME NEW n \in Name
               PROVE  NormalizeSeparators(n) \in Name /\ StripDates(n) \in Name
    OBVIOUS
  <2>1. Len(n) \in 0..Len(n) /\ 1 \in 1..Len(n) + 3
    BY DEF Name
  <2>2. PICK upto \in [0..Len(n) -> Name] : NormalizeSeparators(n) = upto[Len(n)]
    BY <1>1, NormalizeSeparatorsUnfolds DEF Name
  <2>3. PICK rest \in [1..Len(n) + 3 -> Name] : StripDates(n) = rest[1]
    BY <1>1, StripDatesUnfolds DEF Name
  <2> QED BY <2>1, <2>2, <2>3
<1>3. NormalizeModelName(m) \in Name
  BY <1>2, StripProviderPrefixType, StripVersionType DEF NormalizeModelName, Name
<1> QED BY <1>3, AliasAssumption DEF CanonicalModelName

-----------------------------------------------------------------------------
(***************************************************************************)
(* Families. The words that a name begins with stay where they are.        *)
(***************************************************************************)

\* What a family begins with: a word, or two words that are no date and no version
\* with a hyphen between.
IsHead(h) ==
  /\ Len(h) \in {1, 3} /\ h[1] \notin Separators
  /\ Len(h) = 3 => h[2] = "-" /\ h[3] \notin Separators \cup Dates \cup Versions

\* A name with these words in front, and one where nothing or a hyphen comes after.
Leads(m, h) == Len(m) >= Len(h) /\ \A i \in 1..Len(h) : m[i] = h[i]
Ends(m, h) == Len(m) > Len(h) => m[Len(h) + 1] = "-"

\* The same before its separators have become hyphens.
SpellsHead(m, h) ==
  /\ Len(m) >= Len(h)
  /\ \A i \in 1..Len(h) : IF h[i] = "-" THEN m[i] \in Separators ELSE m[i] = h[i]
SpellsEnds(m, h) == Len(m) > Len(h) => m[Len(h) + 1] \in Separators

\* A name starts with another if it has its parts.
LEMMA PrefixParts ==
  ASSUME NEW S, NEW p \in Seq(S), NEW m \in Seq(S)
  PROVE  StartsWith(m, p) <=> Leads(m, p)
<1>1. IsPrefix(p, m) <=> Len(p) <= Len(m) /\ SubSeq(p, 1, Len(p)) = SubSeq(m, 1, Len(p))
  BY DEF IsPrefix
<1>2. Len(p) \in Nat /\ Len(m) \in Nat
  OBVIOUS
<1>3. SubSeq(p, 1, Len(p)) = [t \in 1..Len(p) |-> p[t]]
  BY <1>2
<1>4. SubSeq(m, 1, Len(p)) = [t \in 1..Len(p) |-> m[t]]
  BY <1>2
<1> QED BY <1>1, <1>2, <1>3, <1>4 DEF StartsWith, Leads

\* A name that has a family's words in front is of the family.
LEMMA HeadHasFamily ==
  ASSUME NEW S, "-" \in S, NEW h \in Seq(S), NEW m \in Seq(S), Leads(m, h), Ends(m, h)
  PROVE  HasFamily(m, h)
<1>1. Len(m) \in Nat /\ Len(h) \in Nat /\ Len(m) >= Len(h)
  BY DEF Leads
<1>2. CASE Len(m) = Len(h)
  <2>1. m = h
    BY <1>2, SeqEqual DEF Leads
  <2> QED BY <2>1 DEF HasFamily
<1>3. CASE Len(m) > Len(h)
  <2> DEFINE p == h \o <<"-">>
  <2>1. <<"-">> \in Seq(S) /\ Len(<<"-">>) = 1 /\ <<"-">>[1] = "-"
    OBVIOUS
  <2>2. /\ p \in Seq(S) /\ Len(p) = Len(h) + 1 /\ p[Len(h) + 1] = "-"
        /\ \A i \in 1..Len(h) : p[i] = h[i]
    BY <1>1, <2>1, ConcatProperties
  <2> HIDE DEF p
  <2>3. Leads(m, p)
    BY <1>1, <1>3, <2>2 DEF Leads, Ends
  <2>4. StartsWith(m, p)
    BY <2>2, <2>3, PrefixParts
  <2> QED BY <2>4 DEF HasFamily, p
<1> QED BY <1>1, <1>2, <1>3

\* The converse, as far as the words go.
LEMMA FamilyHasHead ==
  ASSUME NEW S, "-" \in S, NEW h \in Seq(S), NEW m \in Seq(S), HasFamily(m, h)
  PROVE  Leads(m, h)
<1>1. Len(h) \in Nat
  OBVIOUS
<1>2. CASE m = h
  BY <1>1, <1>2 DEF Leads
<1>3. CASE StartsWith(m, h \o <<"-">>)
  <2> DEFINE p == h \o <<"-">>
  <2>1. <<"-">> \in Seq(S) /\ Len(<<"-">>) = 1
    OBVIOUS
  <2>2. p \in Seq(S) /\ Len(p) = Len(h) + 1 /\ \A i \in 1..Len(h) : p[i] = h[i]
    BY <1>1, <2>1, ConcatProperties
  <2> HIDE DEF p
  <2>3. Leads(m, p)
    BY <1>3, <2>2, PrefixParts DEF p
  <2> QED BY <1>1, <2>2, <2>3 DEF Leads
<1> QED BY <1>2, <1>3 DEF HasFamily

\* With whatever separators they came, the words have one hyphen between then.
LEMMA NormalizeSeparatorsHead ==
  ASSUME NEW S, "-" \in S, NEW h \in Seq(S), IsHead(h), NEW m \in Seq(S), SpellsHead(m, h)
  PROVE  /\ Leads(NormalizeSeparators(m), h)
         /\ SpellsEnds(m, h) => Ends(NormalizeSeparators(m), h)
<1> DEFINE y == Hyphens(m)
           k == Len(h)
<1>1. PICK upto \in [0..Len(m) -> Seq(S)] :
        /\ NormalizeSeparators(m) = upto[Len(m)]
        /\ \A i \in 0..Len(m) : upto[i] = WithHyphens(m, upto, i)
  BY NormalizeSeparatorsUnfolds
<1>2. /\ Len(m) \in Nat /\ k \in {1, 3} /\ Len(m) >= k /\ Len(y) = Len(m)
      /\ \A i \in 1..k : y[i] = h[i] /\ (i # 2 => h[i] # "-")
      /\ k = 3 => h[2] = "-"
      /\ SpellsEnds(m, h) /\ Len(m) > k => y[k + 1] = "-"
  <2>1. Len(m) \in Nat /\ k \in {1, 3} /\ Len(m) >= k /\ DOMAIN m = 1..Len(m)
    BY DEF IsHead, SpellsHead
  <2>2. y = [i \in 1..Len(m) |-> IF m[i] \in Separators THEN "-" ELSE m[i]]
    BY <2>1 DEF Hyphens
  <2>3. Len(y) = Len(m) /\ \A i \in 1..Len(m) : y[i] = IF m[i] \in Separators THEN "-" ELSE m[i]
    BY <2>1, <2>2
  <2>4. "-" \in Separators
    BY DEF Separators
  <2>5. h[1] \notin Separators /\ (k = 3 => h[2] = "-" /\ h[3] \notin Separators)
    BY DEF IsHead
  <2> HIDE DEF y
  <2>6. ASSUME NEW i \in 1..k PROVE y[i] = h[i] /\ (i # 2 => h[i] # "-")
    <3>1. i \in 1..Len(m) /\ (i = 1 \/ (i = 2 /\ k = 3) \/ (i = 3 /\ k = 3))
      <4>1. CASE k = 1
        BY <2>1, <4>1
      <4>2. CASE k = 3
        BY <2>1, <4>2
      <4> QED BY <2>1, <4>1, <4>2
    <3>2. IF h[i] = "-" THEN m[i] \in Separators ELSE m[i] = h[i]
      BY DEF SpellsHead
    <3>3. y[i] = IF m[i] \in Separators THEN "-" ELSE m[i]
      BY <2>3, <3>1
    <3> QED BY <2>4, <2>5, <3>1, <3>2, <3>3
  <2>7. SpellsEnds(m, h) /\ Len(m) > k => y[k + 1] = "-"
    <3>1. Len(m) > k => k + 1 \in 1..Len(m)
      BY <2>1
    <3> QED BY <2>3, <3>1 DEF SpellsEnds
  <2> QED BY <2>1, <2>3, <2>5, <2>6, <2>7
<1>3. ASSUME NEW i \in 1..Len(m)
      PROVE  upto[i] = IF Kept(y, i) THEN Append(upto[i - 1], y[i]) ELSE upto[i - 1]
  <2>1. i \in 0..Len(m) /\ i # 0
    BY <1>2
  <2>2. upto[i] = WithHyphens(m, upto, i)
    BY <1>1, <2>1
  <2> QED BY <2>1, <2>2 DEF WithHyphens
<1>4. upto[0] = <<>>
  BY <1>1, <1>2 DEF WithHyphens
<1> HIDE DEF y, k
<1> DEFINE Ended == SpellsEnds(m, h)
           Fine(i) == IF i <= k THEN Len(upto[i]) = i /\ \A t \in 1..i : upto[i][t] = h[t]
                      ELSE /\ Len(upto[i]) >= k /\ \A t \in 1..k : upto[i][t] = h[t]
                           /\ Ended /\ Len(upto[i]) > k => upto[i][k + 1] = "-"
                           /\ Kept(y, i) => Len(upto[i]) > k
           D == 1..Len(m)
           rank == [i \in D |-> i]
           G == {i \in D : Fine(i)}
<1> HIDE DEF Ended
<1>5. \A i \in D : (\A j \in D : rank[j] < rank[i] => j \in G) => i \in G
  <2> SUFFICES ASSUME NEW i \in D, \A j \in D : rank[j] < rank[i] => j \in G
               PROVE  Fine(i)
    OBVIOUS
  <2>0. i \in Nat /\ i >= 1 /\ i <= Len(m) /\ i \in 1..Len(m) /\ i - 1 \in 0..Len(m)
        /\ upto[i - 1] \in Seq(S)
    <3>1. i \in 1..Len(m) /\ Len(m) \in Nat
      BY <1>2
    <3>2. i - 1 \in 0..Len(m)
      BY <3>1
    <3>3. upto[i - 1] \in Seq(S)
      BY <1>1, <3>2
    <3> QED BY <3>1, <3>2, <3>3
  <2>1. CASE i <= k
    <3>1. Len(upto[i - 1]) = i - 1 /\ \A t \in 1..i - 1 : upto[i - 1][t] = h[t]
      <4>1. CASE i = 1
        BY <1>4, <4>1
      <4>2. CASE i # 1
        <5>1. i - 1 \in D /\ rank[i - 1] < rank[i] /\ i - 1 <= k
          BY <1>2, <2>0, <2>1, <4>2
        <5> QED BY <5>1
      <4> QED BY <4>1, <4>2
    <3>2. Kept(y, i)
      <4>1. CASE i # 2
        BY <1>2, <2>0, <2>1, <4>1 DEF Kept
      <4>2. CASE i = 2
        <5>1. k = 3 /\ i < Len(y) /\ i + 1 = 3 /\ 1 \in 1..k /\ 3 \in 1..k /\ 1 \in 1..i
          BY <1>2, <2>1, <4>2
        <5>2. y[3] # "-" /\ y[1] # "-"
          BY <1>2, <5>1
        <5> QED BY <5>1, <5>2 DEF Kept
      <4> QED BY <4>1, <4>2
    <3>3. upto[i] = Append(upto[i - 1], y[i]) /\ y[i] = h[i]
      <4>1. i \in 1..k
        BY <1>2, <2>0, <2>1
      <4> QED BY <1>2, <1>3, <2>0, <3>2, <4>1
    <3>4. Len(upto[i]) = i /\ upto[i][i] = h[i] /\ \A t \in 1..i - 1 : upto[i][t] = upto[i - 1][t]
      BY <2>0, <3>1, <3>3
    <3>5. \A t \in 1..i : upto[i][t] = h[t]
      <4> SUFFICES ASSUME NEW t \in 1..i PROVE upto[i][t] = h[t]
        OBVIOUS
      <4>1. t = i \/ t \in 1..i - 1
        BY <2>0
      <4> QED BY <3>1, <3>4, <4>1
    <3> QED BY <2>1, <3>4, <3>5
  <2>2. CASE ~(i <= k)
    <3>1. i - 1 \in D /\ rank[i - 1] < rank[i] /\ i - 1 >= k
      BY <1>2, <2>0, <2>2
    <3>2. Fine(i - 1)
      BY <3>1
    <3>3. /\ Len(upto[i - 1]) >= k /\ \A t \in 1..k : upto[i - 1][t] = h[t]
          /\ Ended /\ Len(upto[i - 1]) > k => upto[i - 1][k + 1] = "-"
          /\ i - 1 > k /\ Kept(y, i - 1) => Len(upto[i - 1]) > k
      <4>1. CASE i - 1 <= k
        <5>1. i - 1 = k
          BY <1>2, <2>0, <3>1, <4>1
        <5> QED BY <1>2, <3>2, <5>1
      <4>2. CASE ~(i - 1 <= k)
        BY <3>2, <4>2
      <4> QED BY <4>1, <4>2
    <3>4. CASE ~Kept(y, i)
      <4>1. upto[i] = upto[i - 1]
        BY <1>3, <2>0, <3>4
      <4> QED BY <2>2, <3>3, <3>4, <4>1
    <3>5. CASE Kept(y, i)
      <4>1. upto[i] = Append(upto[i - 1], y[i])
        BY <1>3, <2>0, <3>5
      <4>2. /\ Len(upto[i - 1]) \in Nat /\ Len(upto[i]) = Len(upto[i - 1]) + 1
            /\ \A t \in 1..Len(upto[i - 1]) : upto[i][t] = upto[i - 1][t]
            /\ upto[i][Len(upto[i - 1]) + 1] = y[i]
        BY <2>0, <4>1
      <4>3. Len(upto[i]) > k /\ \A t \in 1..k : upto[i][t] = h[t]
        <5>1. Len(upto[i]) > k /\ \A t \in 1..k : t \in 1..Len(upto[i - 1])
          BY <1>2, <3>3, <4>2
        <5> QED BY <3>3, <4>2, <5>1
      <4>4. ASSUME Ended PROVE upto[i][k + 1] = "-"
        <5>1. CASE Len(upto[i - 1]) > k
          <6>1. k + 1 \in 1..Len(upto[i - 1])
            BY <1>2, <4>2, <5>1
          <6> QED BY <3>3, <4>2, <4>4, <5>1, <6>1
        <5>2. CASE ~(Len(upto[i - 1]) > k)
          <6>1. Len(upto[i - 1]) = k
            BY <1>2, <3>3, <4>2, <5>2
          <6>2. y[i] = "-"
            <7>1. CASE i - 1 = k
              <8>1. i = k + 1 /\ Len(m) > k
                BY <1>2, <2>0, <7>1
              <8> QED BY <1>2, <4>4, <8>1 DEF Ended
            <7>2. CASE i - 1 # k
              <8>1. i - 1 > k /\ ~Kept(y, i - 1)
                BY <1>2, <2>0, <3>1, <3>3, <5>2, <7>2
              <8>2. (i - 1) + 1 = i /\ 1 \in 1..i - 1 /\ i - 1 < Len(y) /\ 1 \in 1..k
                BY <1>2, <2>0, <8>1
              <8>3. y[1] # "-"
                BY <1>2, <8>2
              <8> QED BY <8>1, <8>2, <8>3 DEF Kept
            <7> QED BY <7>1, <7>2
          <6> QED BY <4>2, <6>1, <6>2
        <5> QED BY <5>1, <5>2
      <4>5. Len(upto[i]) >= k
        BY <1>2, <4>2, <4>3
      <4> QED BY <2>2, <4>3, <4>4, <4>5
    <3> QED BY <3>4, <3>5
  <2> QED BY <2>1, <2>2
<1>6. Fine(Len(m))
  <2>1. rank \in [D -> Nat] /\ Len(m) \in D
    BY <1>2
  <2> HIDE DEF G, D, rank
  <2>2. Len(m) \in G
    BY <1>5, <2>1, RankedInduction
  <2> QED BY <2>2 DEF G
<1> DEFINE c == upto[Len(m)]
<1>7. /\ Len(c) >= k /\ \A t \in 1..k : c[t] = h[t]
      /\ Ended /\ Len(c) > k => c[k + 1] = "-"
  <2>1. CASE Len(m) <= k
    <3>1. Len(m) = k
      BY <1>2, <2>1
    <3> QED BY <1>2, <1>6, <3>1
  <2>2. CASE ~(Len(m) <= k)
    BY <1>6, <2>2
  <2> QED BY <2>1, <2>2
<1> QED BY <1>1, <1>7 DEF Leads, Ends, Ended, k

\* A name with one more part in front.
GoesOn(m, w, u) ==
  Len(m) = 1 + Len(u) /\ m[1] = w /\ \A t \in 1..Len(u) : m[t + 1] = u[t]

LEMMA GoesOnParts ==
  ASSUME NEW S, NEW w \in S, NEW u \in Seq(S)
  PROVE  <<w>> \o u \in Seq(S) /\ GoesOn(<<w>> \o u, w, u)
<1>1. <<w>> \in Seq(S) /\ Len(<<w>>) = 1 /\ <<w>>[1] = w /\ Len(u) \in Nat
  OBVIOUS
<1> QED BY <1>1, ConcatProperties DEF GoesOn

\* Taking dates out leaves the words, and the hyphen or nothing behind them.
LEMMA StripDatesHead ==
  ASSUME NEW S, "-" \in S, NEW h \in Seq(S), IsHead(h), NEW m \in Seq(S), Leads(m, h)
  PROVE  /\ Leads(StripDates(m), h)
         /\ Ends(m, h) => Ends(StripDates(m), h)
<1> DEFINE k == Len(h)
<1>1. PICK rest \in [1..Len(m) + 3 -> Seq(S)] :
        /\ StripDates(m) = rest[1]
        /\ \A i \in 1..Len(m) + 3 : rest[i] = WithoutDates(m, rest, i)
  BY StripDatesUnfolds
<1>2. /\ Len(m) \in Nat /\ k \in {1, 3} /\ Len(m) >= k
      /\ \A i \in 1..k : m[i] = h[i] /\ h[i] \in S
  BY DEF Leads, IsHead
<1>3. "-" \in Separators
  BY DEF Separators
<1>4. ASSUME NEW i \in 1..k PROVE rest[i] = <<h[i]>> \o rest[i + 1]
  <2>1. i \in 1..Len(m) + 3 /\ ~(i > Len(m)) /\ (i = 1 \/ (i = 2 /\ k = 3) \/ (i = 3 /\ k = 3))
    <3>1. CASE k = 1
      BY <1>2, <3>1
    <3>2. CASE k = 3
      BY <1>2, <3>2
    <3> QED BY <1>2, <3>1, <3>2
  <2>2. ~IsDate(m, i)
    <3>1. CASE i = 2
      <4>0. k = 3
        BY <2>1, <3>1
      <4>1. 2 + 1 = 3 /\ 3 \in 1..k
        BY <4>0
      <4>2. h[3] \notin Dates /\ m[3] = h[3]
        BY <1>2, <4>0, <4>1 DEF IsHead
      <4> QED BY <3>1, <4>1, <4>2 DEF IsDate
    <3>2. CASE i # 2
      <4>1. h[i] \notin Separators
        BY <2>1, <3>2 DEF IsHead
      <4> QED BY <1>2, <1>3, <4>1 DEF IsDate
    <3> QED BY <3>1, <3>2
  <2>3. rest[i] = WithoutDates(m, rest, i)
    BY <1>1, <2>1
  <2>4. m[i] = h[i]
    BY <1>2
  <2> QED BY <2>1, <2>2, <2>3, <2>4 DEF WithoutDates
<1>5. k + 1 \in 1..Len(m) + 3 /\ rest[k + 1] \in Seq(S) /\ Len(rest[k + 1]) \in Nat
  <2>1. k + 1 \in 1..Len(m) + 3
    BY <1>2
  <2> QED BY <1>1, <2>1
<1>6. Ends(m, h) /\ Len(rest[k + 1]) > 0 => rest[k + 1][1] = "-"
  <2> SUFFICES ASSUME Ends(m, h), Len(rest[k + 1]) > 0 PROVE rest[k + 1][1] = "-"
    OBVIOUS
  <2>1. rest[k + 1] = WithoutDates(m, rest, k + 1)
    BY <1>1, <1>5
  <2>2. CASE Len(m) = k
    BY <1>2, <2>1, <2>2 DEF WithoutDates
  <2>3. CASE Len(m) # k
    <3>1. Len(m) > k /\ k + 2 \in 1..Len(m) + 3 /\ ~(k + 1 > Len(m)) /\ m[k + 1] = "-"
          /\ (k + 1) + 1 = k + 2 /\ (k + 1) + 3 = k + 4 /\ (k + 1) + 2 = k + 3
      BY <1>2, <2>3 DEF Ends
    <3>2. k + 1 + 1 # Len(m) => k + 4 \in 1..Len(m) + 3
      BY <1>2, <3>1
    <3>3. CASE IsDate(m, k + 1) /\ (k + 1) + 1 = Len(m)
      BY <2>1, <3>1, <3>3 DEF WithoutDates
    <3>4. CASE IsDate(m, k + 1) /\ (k + 1) + 1 # Len(m) /\ m[(k + 1) + 2] = "-"
      <4>1. rest[k + 1] = <<"-">> \o rest[k + 4] /\ rest[k + 4] \in Seq(S)
        BY <1>1, <2>1, <3>1, <3>2, <3>4 DEF WithoutDates
      <4>2. <<"-">> \in Seq(S) /\ Len(<<"-">>) = 1 /\ <<"-">>[1] = "-"
        OBVIOUS
      <4> QED BY <4>1, <4>2, ConcatProperties
    <3>5. CASE ~IsDate(m, k + 1) \/ ((k + 1) + 1 # Len(m) /\ m[(k + 1) + 2] # "-")
      <4>1. rest[k + 1] = <<m[k + 1]>> \o rest[k + 2] /\ rest[k + 2] \in Seq(S)
        BY <1>1, <2>1, <3>1, <3>5 DEF WithoutDates
      <4>2. <<"-">> \in Seq(S) /\ Len(<<"-">>) = 1 /\ <<"-">>[1] = "-"
        OBVIOUS
      <4> QED BY <3>1, <4>1, <4>2, ConcatProperties
    <3> QED BY <3>3, <3>4, <3>5
  <2> QED BY <2>2, <2>3
<1>7. CASE k = 1
  <2>1. 1 \in 1..k /\ 1 + 1 = 2 /\ h[1] \in S /\ rest[2] \in Seq(S) /\ Len(rest[2]) \in Nat
    BY <1>2, <1>5, <1>7
  <2>2. rest[1] = <<h[1]>> \o rest[2]
    BY <1>4, <2>1
  <2>3. GoesOn(rest[1], h[1], rest[2])
    BY <2>1, <2>2, GoesOnParts
  <2>4. Leads(rest[1], h)
    BY <1>7, <2>1, <2>3 DEF Leads, GoesOn
  <2>5. Len(rest[1]) > 1 => 1 \in 1..Len(rest[2]) /\ Len(rest[2]) > 0
    BY <2>1, <2>3 DEF GoesOn
  <2>6. Ends(m, h) => Ends(rest[1], h)
    BY <1>6, <1>7, <2>1, <2>3, <2>5 DEF Ends, GoesOn
  <2> QED BY <1>1, <2>4, <2>6
<1>8. CASE k = 3
  <2>1. /\ 1 \in 1..k /\ 2 \in 1..k /\ 3 \in 1..k /\ h[1] \in S /\ h[2] \in S /\ h[3] \in S
        /\ rest[4] \in Seq(S) /\ Len(rest[4]) \in Nat
    BY <1>2, <1>5, <1>8
  <2>2. /\ rest[1] = <<h[1]>> \o rest[2] /\ rest[2] = <<h[2]>> \o rest[3]
        /\ rest[3] = <<h[3]>> \o rest[4]
    <3>1. 1 + 1 = 2 /\ 2 + 1 = 3 /\ 3 + 1 = 4
      OBVIOUS
    <3> QED BY <1>4, <2>1, <3>1
  <2>3. rest[3] \in Seq(S) /\ GoesOn(rest[3], h[3], rest[4])
    BY <2>1, <2>2, GoesOnParts
  <2>4. rest[2] \in Seq(S) /\ GoesOn(rest[2], h[2], rest[3])
    BY <2>1, <2>2, <2>3, GoesOnParts
  <2>5. GoesOn(rest[1], h[1], rest[2])
    BY <2>1, <2>2, <2>4, GoesOnParts
  <2>6. /\ Len(rest[3]) = 1 + Len(rest[4]) /\ Len(rest[2]) = 2 + Len(rest[4])
        /\ Len(rest[1]) = 3 + Len(rest[4])
    BY <2>1, <2>3, <2>4, <2>5 DEF GoesOn
  <2>7. rest[1][1] = h[1] /\ rest[1][2] = h[2] /\ rest[1][3] = h[3]
    <3>1. 1 \in 1..Len(rest[2]) /\ 2 \in 1..Len(rest[2]) /\ 1 \in 1..Len(rest[3])
          /\ 1 + 1 = 2 /\ 2 + 1 = 3
      BY <2>1, <2>6
    <3>2. rest[1][2] = rest[2][1] /\ rest[1][3] = rest[2][2] /\ rest[2][2] = rest[3][1]
      BY <2>4, <2>5, <3>1 DEF GoesOn
    <3> QED BY <2>3, <2>4, <2>5, <3>2 DEF GoesOn
  <2>8. Leads(rest[1], h)
    BY <1>8, <2>1, <2>6, <2>7 DEF Leads
  <2>9. Len(rest[4]) > 0 => rest[1][4] = rest[4][1]
    <3> SUFFICES ASSUME Len(rest[4]) > 0 PROVE rest[1][4] = rest[4][1]
      OBVIOUS
    <3>0. /\ \A n \in Nat : n > 0 => 1 \in 1..n /\ 2 \in 1..1 + n /\ 3 \in 1..2 + n
          /\ 1 + 1 = 2 /\ 2 + 1 = 3 /\ 3 + 1 = 4
      OBVIOUS
    <3>1. 1 \in 1..Len(rest[4]) /\ 2 \in 1..Len(rest[3]) /\ 3 \in 1..Len(rest[2])
          /\ 1 + 1 = 2 /\ 2 + 1 = 3 /\ 3 + 1 = 4
      BY <2>1, <2>6, <3>0, Zenon
    <3>2. rest[1][4] = rest[2][3] /\ rest[2][3] = rest[3][2] /\ rest[3][2] = rest[4][1]
      BY <2>3, <2>4, <2>5, <3>1 DEF GoesOn
    <3> QED BY <3>2
  <2>10. Ends(m, h) => Ends(rest[1], h)
    BY <1>6, <1>8, <2>1, <2>6, <2>9 DEF Ends
  <2> QED BY <1>1, <2>8, <2>10
<1> QED BY <1>2, <1>7, <1>8

\* So does taking off a version.
LEMMA StripVersionHead ==
  ASSUME NEW S, NEW h \in Seq(S), IsHead(h), NEW m \in Seq(S), Leads(m, h)
  PROVE  /\ Leads(StripVersion(m), h)
         /\ Ends(m, h) => Ends(StripVersion(m), h)
<1> DEFINE k == Len(h)
<1>1. /\ Len(m) \in Nat /\ k \in {1, 3} /\ Len(m) >= k /\ k \in 1..k
      /\ \A i \in 1..k : m[i] = h[i]
      /\ h[k] \notin Separators /\ (k = 3 => h[3] \notin Versions)
  BY DEF Leads, IsHead
<1>2. "-" \in Separators
  BY DEF Separators
<1>3. CASE Len(m) >= 2 /\ m[Len(m) - 1] = "-" /\ Last(m) \in Versions
  <2>1. Len(m) # k
    <3> SUFFICES ASSUME Len(m) = k PROVE FALSE
      OBVIOUS
    <3>1. k = 3 /\ m[3] = h[3] /\ Last(m) = m[3]
      BY <1>1, <1>3 DEF Last
    <3> QED BY <1>1, <1>3, <3>1
  <2>2. Len(m) # k + 1
    <3> SUFFICES ASSUME Len(m) = k + 1 PROVE FALSE
      OBVIOUS
    <3>1. m[k] = "-"
      BY <1>1, <1>3
    <3> QED BY <1>1, <1>2, <3>1
  <2> DEFINE n == SubSeq(m, 1, Len(m) - 2)
  <2>3. Len(m) - 2 \in 1..Len(m) /\ Len(m) - 2 >= k
    BY <1>1, <2>1, <2>2
  <2>4. Len(n) = Len(m) - 2 /\ \A i \in 1..Len(m) - 2 : n[i] = m[i]
    <3>1. \A i \in 1..Len(m) - 2 : m[i] \in S
      BY <1>1, <2>3
    <3> QED BY <2>3, <3>1, SubSeqProperties
  <2> HIDE DEF n
  <2>5. Leads(n, h)
    BY <1>1, <2>3, <2>4 DEF Leads
  <2>6. Ends(m, h) => Ends(n, h)
    BY <1>1, <2>3, <2>4 DEF Ends
  <2>7. StripVersion(m) = n
    BY <1>3 DEF StripVersion, n
  <2> QED BY <2>5, <2>6, <2>7
<1>4. CASE ~(Len(m) >= 2 /\ m[Len(m) - 1] = "-" /\ Last(m) \in Versions)
  BY <1>4 DEF StripVersion
<1> QED BY <1>3, <1>4

\* The words a name begins with behind the prefixes, whatever comes after, are those
\* that what it is normalised to begins with.
LEMMA NormalizedHead ==
  ASSUME NEW S, "-" \in S, NEW h \in Seq(S), IsHead(h), NEW m \in Seq(S), NEW n \in Seq(S),
         n = StripProviderPrefix(m), SpellsHead(n, h)
  PROVE  /\ NormalizeModelName(m) \in Seq(S) /\ Leads(NormalizeModelName(m), h)
         /\ SpellsEnds(n, h) => Ends(NormalizeModelName(m), h)
<1> DEFINE d == NormalizeSeparators(n)
           e == StripDates(d)
<1>1. d \in Seq(S) /\ Leads(d, h) /\ (SpellsEnds(n, h) => Ends(d, h))
  <2>1. PICK upto \in [0..Len(n) -> Seq(S)] : d = upto[Len(n)]
    BY NormalizeSeparatorsUnfolds
  <2>2. Len(n) \in 0..Len(n)
    OBVIOUS
  <2> QED BY <2>1, <2>2, NormalizeSeparatorsHead
<1> HIDE DEF d
<1>2. e \in Seq(S) /\ Leads(e, h) /\ (Ends(d, h) => Ends(e, h))
  <2>1. PICK rest \in [1..Len(d) + 3 -> Seq(S)] : e = rest[1]
    BY <1>1, StripDatesUnfolds
  <2>2. 1 \in 1..Len(d) + 3
    BY <1>1
  <2> QED BY <1>1, <2>1, <2>2, StripDatesHead
<1> HIDE DEF e
<1>3. StripVersion(e) \in Seq(S) /\ Leads(StripVersion(e), h) /\ (Ends(e, h) => Ends(StripVersion(e), h))
  BY <1>2, StripVersionHead, StripVersionType
<1>4. NormalizeModelName(m) = StripVersion(e)
  BY DEF NormalizeModelName, d, e
<1> QED BY <1>1, <1>2, <1>3, <1>4

-----------------------------------------------------------------------------
(***************************************************************************)
(* Spellings. A prefix before a name, a date in it and other separators    *)
(* make no difference to what it becomes.                                  *)
(***************************************************************************)

\* A prefix begins at the i-th part of a name if the name has its parts from there on.
LEMMA PrefixAt ==
  ASSUME NEW S, NEW m \in Seq(S), NEW i \in 1..Len(m) + 1, NEW p \in ProviderPrefixes
  PROVE  /\ Len(p) \in Nat /\ Len(p) >= 1
         /\ StartsWith(SubSeq(m, i, Len(m)), p) <=>
              /\ i + Len(p) <= Len(m) + 1
              /\ \A t \in 1..Len(p) : m[i + t - 1] = p[t]
<1> DEFINE u == SubSeq(m, i, Len(m))
<1>1. p \in Seq(STRING \cup Separators) /\ p # <<>>
  BY PrefixAssumption DEF Name
<1>2. Len(p) \in Nat /\ Len(p) >= 1
  BY <1>1, EmptySeq
<1>3. Len(m) \in Nat /\ \A t \in 1..Len(m) : m[t] \in S
  OBVIOUS
<1>4. Len(u) = Len(m) + 1 - i /\ \A t \in 1..Len(u) : u[t] = m[i + t - 1]
  <2>1. \A t \in i..Len(m) : m[t] \in S
    BY <1>3
  <2>2. /\ Len(u) = IF i <= Len(m) THEN Len(m) - i + 1 ELSE 0
        /\ \A t \in 1..Len(m) - i + 1 : u[t] = m[i + t - 1]
    BY <1>3, <2>1, SubSeqProperties
  <2>3. Len(u) = Len(m) + 1 - i
    BY <1>3, <2>2
  <2> QED BY <1>3, <2>2, <2>3
<1> HIDE DEF u
<1>5. IsPrefix(p, u) <=> Len(p) <= Len(u) /\ \A t \in 1..Len(p) : u[t] = p[t]
  <2>1. IsPrefix(p, u) <=> Len(p) <= Len(u) /\ SubSeq(p, 1, Len(p)) = SubSeq(u, 1, Len(p))
    BY DEF IsPrefix
  <2>2. SubSeq(p, 1, Len(p)) = [t \in 1..Len(p) |-> p[t]]
    BY <1>2
  <2>3. SubSeq(u, 1, Len(p)) = [t \in 1..Len(p) |-> u[t]]
    BY <1>2
  <2> QED BY <2>1, <2>2, <2>3
<1>6. Len(p) <= Len(u) <=> i + Len(p) <= Len(m) + 1
  BY <1>2, <1>3, <1>4
<1>7. Len(p) <= Len(u) => \A t \in 1..Len(p) : u[t] = m[i + t - 1]
  BY <1>2, <1>3, <1>4
<1> QED BY <1>2, <1>5, <1>6, <1>7 DEF StartsWith, u

\* The prefix that begins at a part ends at the first slash from there on.
LEMMA BehindSlash ==
  ASSUME NEW S, NEW m \in Seq(S), NEW i \in 1..Len(m) + 1, NEW j \in Behind(m, i)
  PROVE  /\ j \in i + 1..Len(m) + 1 /\ m[j - 1] = "/"
         /\ \A t \in i..j - 2 : m[t] # "/"
<1>1. PICK p \in ProviderPrefixes : j = i + Len(p) /\ StartsWith(SubSeq(m, i, Len(m)), p)
  BY DEF Behind
<1>2. /\ Len(p) \in Nat /\ Len(p) >= 1 /\ i + Len(p) <= Len(m) + 1
      /\ \A t \in 1..Len(p) : m[i + t - 1] = p[t]
  BY <1>1, PrefixAt
<1>3. \A t \in 1..Len(p) : p[t] = "/" <=> t = Len(p)
  <2>1. p \in Seq(STRING \cup Separators) /\ \A t \in DOMAIN p : p[t] = "/" <=> t = Len(p)
    BY PrefixAssumption DEF Name
  <2> QED BY <2>1
<1>4. Len(m) \in Nat
  OBVIOUS
<1>5. m[j - 1] = "/"
  <2>1. Len(p) \in 1..Len(p) /\ i + Len(p) - 1 = j - 1
    BY <1>1, <1>2
  <2> QED BY <1>2, <1>3, <2>1
<1>6. ASSUME NEW t \in i..j - 2 PROVE m[t] # "/"
  <2> DEFINE k == t - i + 1
  <2>1. k \in 1..Len(p) /\ k # Len(p) /\ i + k - 1 = t
    BY <1>1, <1>2
  <2> QED BY <1>2, <1>3, <2>1
<1> QED BY <1>1, <1>2, <1>4, <1>5, <1>6

\* So of the places behind a prefix there is one.
LEMMA BehindOnce ==
  ASSUME NEW S, NEW m \in Seq(S), NEW i \in 1..Len(m) + 1,
         NEW j \in Behind(m, i), NEW k \in Behind(m, i)
  PROVE  j = k
<1>1. Len(m) \in Nat /\ j \in i + 1..Len(m) + 1 /\ k \in i + 1..Len(m) + 1
  BY BehindSlash
<1>2. ~(j < k) /\ ~(k < j)
  <2>1. m[j - 1] = "/" /\ m[k - 1] = "/"
    BY BehindSlash
  <2>2. (\A t \in i..j - 2 : m[t] # "/") /\ (\A t \in i..k - 2 : m[t] # "/")
    BY BehindSlash
  <2> QED BY <1>1, <2>1, <2>2
<1> QED BY <1>1, <1>2

\* One more prefix before a name goes like the others.
LEMMA PrefixGoes ==
  ASSUME NEW S, ProviderPrefixes \subseteq Seq(S), NEW m \in Seq(S), NEW p \in ProviderPrefixes
  PROVE  StripProviderPrefix(p \o m) = StripProviderPrefix(m)
<1> DEFINE w == p \o m
           L == Len(p)
<1>1. /\ w \in Seq(S) /\ L \in Nat /\ L >= 1 /\ Len(m) \in Nat /\ Len(w) = L + Len(m)
      /\ \A t \in 1..L : w[t] = p[t]
      /\ \A t \in 1..Len(m) : w[L + t] = m[t]
  <2>1. p \in Seq(S) /\ Len(m) \in Nat
    OBVIOUS
  <2>2. /\ w \in Seq(S) /\ Len(w) = L + Len(m)
        /\ \A t \in 1..L + Len(m) : w[t] = IF t <= L THEN p[t] ELSE m[t - L]
    BY <2>1, ConcatProperties
  <2>3. L \in Nat /\ L >= 1
    <3>1. 1 \in 1..Len(m) + 1
      BY <2>1
    <3> QED BY <3>1, PrefixAt
  <2>4. \A t \in 1..L : w[t] = p[t]
    BY <2>1, <2>2, <2>3
  <2>5. ASSUME NEW t \in 1..Len(m) PROVE w[L + t] = m[t]
    <3>1. L + t \in 1..L + Len(m) /\ ~(L + t <= L) /\ (L + t) - L = t
      BY <2>1, <2>3
    <3> QED BY <2>2, <3>1
  <2> QED BY <2>1, <2>2, <2>3, <2>4, <2>5
<1> HIDE DEF w, L
<1>2. PICK from \in [1..Len(m) + 1 -> 1..Len(m) + 1] :
        /\ StripProviderPrefix(m) = SubSeq(m, from[1], Len(m))
        /\ \A i \in 1..Len(m) + 1 : from[i] = From(m, from, i)
  BY StripProviderPrefixUnfolds
<1>3. PICK after \in [1..Len(w) + 1 -> 1..Len(w) + 1] :
        /\ StripProviderPrefix(w) = SubSeq(w, after[1], Len(w))
        /\ \A i \in 1..Len(w) + 1 : after[i] = From(w, after, i)
  BY <1>1, StripProviderPrefixUnfolds
<1>4. ASSUME NEW i \in 1..Len(m) + 1
      PROVE  Behind(w, L + i) = {L + j : j \in Behind(m, i)}
  <2>1. L + i \in 1..Len(w) + 1
    BY <1>1
  <2>2. ASSUME NEW q \in ProviderPrefixes
        PROVE  StartsWith(SubSeq(w, L + i, Len(w)), q) <=> StartsWith(SubSeq(m, i, Len(m)), q)
    <3>1. /\ Len(q) \in Nat /\ Len(q) >= 1
          /\ StartsWith(SubSeq(m, i, Len(m)), q) <=>
               /\ i + Len(q) <= Len(m) + 1
               /\ \A t \in 1..Len(q) : m[i + t - 1] = q[t]
      BY PrefixAt
    <3>2. StartsWith(SubSeq(w, L + i, Len(w)), q) <=>
               /\ L + i + Len(q) <= Len(w) + 1
               /\ \A t \in 1..Len(q) : w[L + i + t - 1] = q[t]
      BY <1>1, <2>1, PrefixAt
    <3>3. i + Len(q) <= Len(m) + 1 <=> L + i + Len(q) <= Len(w) + 1
      BY <1>1, <3>1
    <3>4. ASSUME i + Len(q) <= Len(m) + 1, NEW t \in 1..Len(q)
          PROVE  w[L + i + t - 1] = m[i + t - 1]
      <4>1. i + t - 1 \in 1..Len(m) /\ L + (i + t - 1) = L + i + t - 1
        BY <1>1, <3>1, <3>4
      <4>2. w[L + (i + t - 1)] = m[i + t - 1]
        BY <1>1, <4>1
      <4> QED BY <4>1, <4>2
    <3> QED BY <3>1, <3>2, <3>3, <3>4
  <2>3. \A q \in ProviderPrefixes : L + i + Len(q) = L + (i + Len(q))
    BY <1>1, PrefixAt
  <2> QED BY <2>2, <2>3 DEF Behind
<1>5. \A i \in 1..Len(m) + 1 : after[L + i] = L + from[i]
  <2> DEFINE D == 1..Len(m) + 1
             rank == [i \in D |-> Len(m) + 1 - i]
             G == {i \in D : after[L + i] = L + from[i]}
  <2>1. \A i \in D : (\A j \in D : rank[j] < rank[i] => j \in G) => i \in G
    <3> SUFFICES ASSUME NEW i \in D, \A j \in D : rank[j] < rank[i] => j \in G
                 PROVE  after[L + i] = L + from[i]
      OBVIOUS
    <3>1. L + i \in 1..Len(w) + 1
      BY <1>1
    <3>2. from[i] = From(m, from, i) /\ after[L + i] = From(w, after, L + i)
      BY <1>2, <1>3, <3>1
    <3>3. CASE Behind(m, i) = {}
      BY <1>4, <3>2, <3>3 DEF From
    <3>4. CASE Behind(m, i) # {}
      <4>1. PICK j : j \in Behind(m, i)
        BY <3>4
      <4>2. Behind(m, i) = {j}
        BY <4>1, BehindOnce
      <4>3. Behind(w, L + i) = {L + j}
        BY <1>4, <4>2
      <4>4. from[i] = from[j]
        BY <3>2, <4>2 DEF From
      <4>5. after[L + i] = after[L + j]
        BY <3>2, <4>3 DEF From
      <4>6. j \in D /\ rank[j] < rank[i]
        <5>1. j \in i + 1..Len(m) + 1
          BY <4>1, BehindSlash
        <5> QED BY <1>1, <5>1
      <4> QED BY <4>4, <4>5, <4>6
    <3> QED BY <3>3, <3>4
  <2>2. rank \in [D -> Nat]
    BY <1>1
  <2> HIDE DEF G, D, rank
  <2>3. \A i \in D : i \in G
    BY <2>1, <2>2, RankedInduction
  <2> QED BY <2>3 DEF G, D
<1>6. after[1] = L + from[1]
  <2>1. 1 \in 1..Len(w) + 1 /\ 1 \in 1..Len(m) + 1
    BY <1>1
  <2>2. StartsWith(SubSeq(w, 1, Len(w)), p)
    <3>1. 1 + L <= Len(w) + 1 /\ \A t \in 1..L : w[1 + t - 1] = p[t]
      BY <1>1
    <3> QED BY <1>1, <2>1, <3>1, PrefixAt DEF L
  <2>3. L + 1 \in Behind(w, 1)
    <3>1. L + 1 = 1 + Len(p)
      BY <1>1 DEF L
    <3> QED BY <2>2, <3>1 DEF Behind
  <2>4. Behind(w, 1) = {L + 1}
    BY <1>1, <2>1, <2>3, BehindOnce
  <2>5. after[1] = after[L + 1]
    BY <1>3, <2>1, <2>4 DEF From
  <2> QED BY <1>5, <2>1, <2>5
<1>7. SubSeq(w, L + from[1], L + Len(m)) = SubSeq(m, from[1], Len(m))
  <2> DEFINE f == from[1]
             s == SubSeq(w, L + f, L + Len(m))
             r == SubSeq(m, f, Len(m))
  <2>1. f \in 1..Len(m) + 1
    BY <1>1, <1>2
  <2>2. (\A t \in f..Len(m) : m[t] \in S) /\ (\A t \in L + f..L + Len(m) : w[t] \in S)
    <3>1. L + f \in Nat /\ L + f >= 1
      BY <1>1, <2>1
    <3>2. \A t \in 1..L + Len(m) : w[t] \in S
      BY <1>1
    <3> QED BY <1>1, <2>1, <3>1, <3>2
  <2> HIDE DEF f
  <2>3. /\ r \in Seq(S) /\ Len(r) = IF f <= Len(m) THEN Len(m) - f + 1 ELSE 0
        /\ \A t \in 1..Len(m) - f + 1 : r[t] = m[f + t - 1]
    BY <1>1, <2>1, <2>2, SubSeqProperties
  <2>4. /\ s \in Seq(S)
        /\ Len(s) = IF L + f <= L + Len(m) THEN (L + Len(m)) - (L + f) + 1 ELSE 0
        /\ \A t \in 1..(L + Len(m)) - (L + f) + 1 : s[t] = w[(L + f) + t - 1]
    BY <1>1, <2>1, <2>2, SubSeqProperties
  <2> HIDE DEF s, r
  <2>5. Len(s) = Len(r)
    BY <1>1, <2>1, <2>3, <2>4
  <2>6. ASSUME NEW t \in 1..Len(r) PROVE s[t] = r[t]
    <3>1. t \in 1..Len(m) - f + 1 /\ t \in 1..(L + Len(m)) - (L + f) + 1
      BY <1>1, <2>1, <2>3
    <3>2. f + t - 1 \in 1..Len(m) /\ (L + f) + t - 1 = L + (f + t - 1)
      BY <1>1, <2>1, <3>1
    <3> QED BY <1>1, <2>3, <2>4, <3>1, <3>2
  <2>7. s = r
    BY <2>3, <2>4, <2>5, <2>6, SeqEqual
  <2> QED BY <2>7 DEF s, r, f
<1> QED BY <1>1, <1>2, <1>3, <1>6, <1>7 DEF w

\* The parts of a name with two more behind its k-th.
HasBoth(w, m, k, a, b) ==
  /\ Len(w) = Len(m) + 2
  /\ \A t \in 1..k : w[t] = m[t]
  /\ w[k + 1] = a /\ w[k + 2] = b
  /\ \A t \in k + 1..Len(m) : w[t + 2] = m[t]

\* A date put into a name, with a separator before it, makes such a name.
LEMMA WithDateParts ==
  ASSUME NEW S, NEW m \in Seq(S), NEW k \in 1..Len(m), NEW a \in S, NEW b \in S
  PROVE  WithDate(m, k, a, b) \in Seq(S) /\ HasBoth(WithDate(m, k, a, b), m, k, a, b)
<1> DEFINE w == WithDate(m, k, a, b)
           u == SubSeq(m, 1, k)
           v == SubSeq(m, k + 1, Len(m))
           x == u \o <<a, b>>
<1>1. Len(m) \in Nat /\ k \in Nat /\ k >= 1 /\ k <= Len(m) /\ \A t \in 1..Len(m) : m[t] \in S
  OBVIOUS
<1>2. u \in Seq(S) /\ Len(u) = k /\ \A t \in 1..k : u[t] = m[t]
  <2>1. \A t \in 1..k : m[t] \in S
    BY <1>1
  <2>2. /\ u \in Seq(S) /\ Len(u) = IF 1 <= k THEN k - 1 + 1 ELSE 0
        /\ \A t \in 1..k - 1 + 1 : u[t] = m[1 + t - 1]
    BY <1>1, <2>1, SubSeqProperties
  <2> QED BY <1>1, <2>2
<1>3. v \in Seq(S) /\ Len(v) = Len(m) - k /\ \A t \in 1..Len(m) - k : v[t] = m[k + t]
  <2>1. \A t \in k + 1..Len(m) : m[t] \in S
    BY <1>1
  <2>2. /\ v \in Seq(S) /\ Len(v) = IF k + 1 <= Len(m) THEN Len(m) - (k + 1) + 1 ELSE 0
        /\ \A t \in 1..Len(m) - (k + 1) + 1 : v[t] = m[(k + 1) + t - 1]
    BY <1>1, <2>1, SubSeqProperties
  <2> QED BY <1>1, <2>2
<1> HIDE DEF u, v
<1>4. /\ x \in Seq(S) /\ Len(x) = k + 2
      /\ \A t \in 1..k : x[t] = m[t]
      /\ x[k + 1] = a /\ x[k + 2] = b
  <2> DEFINE y == <<a, b>>
  <2>1. y \in Seq(S) /\ Len(y) = 2 /\ y[1] = a /\ y[2] = b
    OBVIOUS
  <2> HIDE DEF y
  <2>2. /\ u \o y \in Seq(S) /\ Len(u \o y) = k + 2
        /\ \A t \in 1..k + 2 : (u \o y)[t] = IF t <= k THEN u[t] ELSE y[t - k]
    <3>1. /\ u \o y \in Seq(S) /\ Len(u \o y) = Len(u) + Len(y)
          /\ \A t \in 1..Len(u) + Len(y) :
               (u \o y)[t] = IF t <= Len(u) THEN u[t] ELSE y[t - Len(u)]
      BY <1>2, <2>1, ConcatProperties
    <3>2. Len(u) = k /\ Len(y) = 2
      BY <1>2, <2>1
    <3> QED BY <3>1, <3>2
  <2>3. /\ k + 1 \in 1..k + 2 /\ ~(k + 1 <= k) /\ (k + 1) - k = 1
        /\ k + 2 \in 1..k + 2 /\ ~(k + 2 <= k) /\ (k + 2) - k = 2
    BY <1>1
  <2>4. \A t \in 1..k : t \in 1..k + 2 /\ t <= k
    BY <1>1
  <2> QED BY <1>2, <2>1, <2>2, <2>3, <2>4 DEF y
<1> HIDE DEF x
<1>5. /\ x \o v \in Seq(S) /\ Len(x \o v) = Len(m) + 2
      /\ \A t \in 1..Len(m) + 2 :
           (x \o v)[t] = IF t <= k + 2 THEN x[t] ELSE v[t - (k + 2)]
  <2>1. /\ x \o v \in Seq(S) /\ Len(x \o v) = Len(x) + Len(v)
        /\ \A t \in 1..Len(x) + Len(v) :
             (x \o v)[t] = IF t <= Len(x) THEN x[t] ELSE v[t - Len(x)]
    BY <1>3, <1>4, ConcatProperties
  <2>2. Len(x) = k + 2 /\ Len(x) + Len(v) = Len(m) + 2
    BY <1>1, <1>3, <1>4
  <2> QED BY <2>1, <2>2
<1>6. w = x \o v
  BY DEF WithDate, x, u, v
<1> HIDE DEF w
<1>7. w \in Seq(S) /\ Len(w) = Len(m) + 2
  BY <1>1, <1>5, <1>6
<1>8. \A t \in 1..k + 2 : w[t] = x[t]
  BY <1>1, <1>5, <1>6
<1>9. ASSUME NEW t \in k + 1..Len(m) PROVE w[t + 2] = m[t]
  <2>1. /\ t + 2 \in 1..Len(m) + 2 /\ ~(t + 2 <= k + 2)
        /\ (t + 2) - (k + 2) = t - k /\ t - k \in 1..Len(m) - k /\ k + (t - k) = t
    BY <1>1
  <2> QED BY <1>3, <1>5, <1>6, <2>1
<1>10. k + 1 \in 1..k + 2 /\ k + 2 \in 1..k + 2 /\ \A t \in 1..k : t \in 1..k + 2
  BY <1>1
<1>11. HasBoth(w, m, k, a, b)
  BY <1>4, <1>7, <1>8, <1>9, <1>10 DEF HasBoth
<1> QED BY <1>7, <1>11 DEF w

\* The prefixes go, and what is put in behind the i-th part stays where it is.
OnlyPrefixesGo(m, i, a, b) ==
  \E f \in 1..i :
    /\ StripProviderPrefix(m) = SubSeq(m, f, Len(m))
    /\ StripProviderPrefix(WithDate(m, i, a, b))
         = WithDate(SubSeq(m, f, Len(m)), i - f + 1, a, b)

\* So it is behind the last slash of a name.
LEMMA DateStays ==
  ASSUME NEW S, NEW m \in Seq(S), NEW i \in 1..Len(m), \A j \in i..Len(m) : m[j] # "/",
         NEW a \in S, NEW b \in S, a # "/", b # "/"
  PROVE  OnlyPrefixesGo(m, i, a, b)
<1> DEFINE w == WithDate(m, i, a, b)
<1>10. w \in Seq(S) /\ HasBoth(w, m, i, a, b)
  BY WithDateParts
<1> HIDE DEF w
<1>1. /\ w \in Seq(S) /\ Len(w) = Len(m) + 2
      /\ \A t \in 1..i : w[t] = m[t]
      /\ w[i + 1] = a /\ w[i + 2] = b
      /\ \A t \in i + 1..Len(m) : w[t + 2] = m[t]
  BY <1>10 DEF HasBoth
<1>2. Len(m) \in Nat /\ i \in Nat /\ i >= 1 /\ i <= Len(m) /\ \A t \in 1..Len(m) : m[t] \in S
  OBVIOUS
<1>3. \A t \in i..Len(w) : w[t] # "/"
  <2> SUFFICES ASSUME NEW t \in i..Len(w) PROVE w[t] # "/"
    OBVIOUS
  <2>1. CASE t = i
    BY <1>1, <1>2, <2>1
  <2>2. CASE t = i + 1 \/ t = i + 2
    BY <1>1, <2>2
  <2>3. CASE t > i + 2
    <3>1. t - 2 \in i + 1..Len(m) /\ (t - 2) + 2 = t /\ t - 2 \in i..Len(m)
      BY <1>1, <1>2, <2>3
    <3> QED BY <1>1, <3>1
  <2> QED BY <1>2, <2>1, <2>2, <2>3
<1>4. PICK from \in [1..Len(m) + 1 -> 1..Len(m) + 1] :
        /\ StripProviderPrefix(m) = SubSeq(m, from[1], Len(m))
        /\ \A k \in 1..Len(m) + 1 : from[k] = From(m, from, k)
  BY StripProviderPrefixUnfolds
<1>5. PICK after \in [1..Len(w) + 1 -> 1..Len(w) + 1] :
        /\ StripProviderPrefix(w) = SubSeq(w, after[1], Len(w))
        /\ \A k \in 1..Len(w) + 1 : after[k] = From(w, after, k)
  BY <1>1, StripProviderPrefixUnfolds
<1>6. ASSUME NEW k \in 1..i
      PROVE  Behind(w, k) = Behind(m, k) /\ \A j \in Behind(m, k) : j \in k + 1..i
  <2>1. k \in 1..Len(m) + 1 /\ k \in 1..Len(w) + 1
    BY <1>1, <1>2
  <2>2. ASSUME NEW p \in ProviderPrefixes
        PROVE  /\ Len(p) \in Nat
               /\ StartsWith(SubSeq(m, k, Len(m)), p) =>
                    k + Len(p) <= i /\ StartsWith(SubSeq(w, k, Len(w)), p)
               /\ StartsWith(SubSeq(w, k, Len(w)), p) =>
                    k + Len(p) <= i /\ StartsWith(SubSeq(m, k, Len(m)), p)
    <3>1. /\ Len(p) \in Nat /\ Len(p) >= 1
          /\ StartsWith(SubSeq(m, k, Len(m)), p) <=>
               /\ k + Len(p) <= Len(m) + 1
               /\ \A t \in 1..Len(p) : m[k + t - 1] = p[t]
      BY <2>1, PrefixAt
    <3>2. StartsWith(SubSeq(w, k, Len(w)), p) <=>
               /\ k + Len(p) <= Len(w) + 1
               /\ \A t \in 1..Len(p) : w[k + t - 1] = p[t]
      BY <1>1, <2>1, PrefixAt
    <3>3. p[Len(p)] = "/" /\ Len(p) \in 1..Len(p)
      <4>1. \A t \in DOMAIN p : p[t] = "/" <=> t = Len(p)
        BY PrefixAssumption
      <4>2. p \in Seq(STRING \cup Separators)
        BY PrefixAssumption DEF Name
      <4> QED BY <3>1, <4>1, <4>2
    <3>4. ASSUME k + Len(p) - 1 < i, NEW t \in 1..Len(p)
          PROVE  w[k + t - 1] = m[k + t - 1]
      <4>1. k + t - 1 \in 1..i
        BY <1>2, <3>1, <3>4
      <4> QED BY <1>1, <4>1
    <3>5. StartsWith(SubSeq(m, k, Len(m)), p) => k + Len(p) - 1 < i
      <4> SUFFICES ASSUME StartsWith(SubSeq(m, k, Len(m)), p), ~(k + Len(p) - 1 < i) PROVE FALSE
        OBVIOUS
      <4>1. m[k + Len(p) - 1] = "/" /\ k + Len(p) - 1 \in i..Len(m)
        <5>1. k + Len(p) <= Len(m) + 1 /\ m[k + Len(p) - 1] = p[Len(p)]
          BY <3>1, <3>3
        <5> QED BY <1>2, <3>1, <3>3, <5>1
      <4> QED BY <4>1
    <3>6. StartsWith(SubSeq(w, k, Len(w)), p) => k + Len(p) - 1 < i
      <4> SUFFICES ASSUME StartsWith(SubSeq(w, k, Len(w)), p), ~(k + Len(p) - 1 < i) PROVE FALSE
        OBVIOUS
      <4>1. w[k + Len(p) - 1] = "/" /\ k + Len(p) - 1 \in i..Len(w)
        <5>1. k + Len(p) <= Len(w) + 1 /\ w[k + Len(p) - 1] = p[Len(p)]
          BY <3>2, <3>3
        <5> QED BY <1>1, <1>2, <3>1, <3>3, <5>1
      <4> QED BY <1>3, <4>1
    <3>7. k + Len(p) - 1 < i => k + Len(p) <= i /\ k + Len(p) <= Len(m) + 1 /\ k + Len(p) <= Len(w) + 1
      BY <1>1, <1>2, <3>1
    <3> QED BY <3>1, <3>2, <3>4, <3>5, <3>6, <3>7
  <2>3. Behind(w, k) = Behind(m, k)
    BY <2>2 DEF Behind
  <2>4. \A j \in Behind(m, k) : j \in k + 1..i
    <3> SUFFICES ASSUME NEW j \in Behind(m, k) PROVE j \in k + 1..i
      OBVIOUS
    <3>1. PICK p \in ProviderPrefixes : j = k + Len(p) /\ StartsWith(SubSeq(m, k, Len(m)), p)
      BY DEF Behind
    <3>2. k + Len(p) <= i
      BY <2>2, <3>1
    <3>3. j \in k + 1..Len(m) + 1
      BY <2>1, BehindSlash
    <3> QED BY <1>2, <3>1, <3>2, <3>3
  <2> QED BY <2>3, <2>4
<1>7. \A k \in 1..i : after[k] = from[k] /\ from[k] \in 1..i
  <2> DEFINE D == 1..i
             rank == [k \in D |-> i - k]
             G == {k \in D : after[k] = from[k] /\ from[k] \in D}
  <2>1. \A k \in D : (\A j \in D : rank[j] < rank[k] => j \in G) => k \in G
    <3> SUFFICES ASSUME NEW k \in D, \A j \in D : rank[j] < rank[k] => j \in G
                 PROVE  after[k] = from[k] /\ from[k] \in D
      OBVIOUS
    <3>1. from[k] = From(m, from, k) /\ after[k] = From(w, after, k)
      <4>1. k \in 1..Len(m) + 1 /\ k \in 1..Len(w) + 1
        BY <1>1, <1>2
      <4> QED BY <1>4, <1>5, <4>1
    <3>2. CASE Behind(m, k) = {}
      BY <1>6, <3>1, <3>2 DEF From
    <3>3. CASE Behind(m, k) # {}
      <4> DEFINE j == CHOOSE x \in Behind(m, k) : TRUE
      <4>1. j \in Behind(m, k)
        BY <3>3
      <4>2. from[k] = from[j] /\ after[k] = after[j]
        BY <1>6, <3>1, <3>3 DEF From
      <4> HIDE DEF j
      <4>3. j \in D /\ rank[j] < rank[k]
        BY <1>2, <1>6, <4>1
      <4> QED BY <4>2, <4>3
    <3> QED BY <3>2, <3>3
  <2>2. rank \in [D -> Nat]
    BY <1>2
  <2> HIDE DEF G, D, rank
  <2>3. \A k \in D : k \in G
    BY <2>1, <2>2, RankedInduction
  <2> QED BY <2>3 DEF G, D
<1> DEFINE f == from[1]
<1>8. f \in 1..i /\ StripProviderPrefix(m) = SubSeq(m, f, Len(m))
      /\ StripProviderPrefix(w) = SubSeq(w, f, Len(w))
  <2>1. 1 \in 1..i
    BY <1>2
  <2> QED BY <1>4, <1>5, <1>7, <2>1
<1> HIDE DEF f
<1>9. SubSeq(w, f, Len(w)) = WithDate(SubSeq(m, f, Len(m)), i - f + 1, a, b)
  <2> DEFINE s == SubSeq(w, f, Len(w))
             r == SubSeq(m, f, Len(m))
             k == i - f + 1
             v == WithDate(r, k, a, b)
  <2>1. /\ r \in Seq(S) /\ Len(r) = Len(m) - f + 1
        /\ \A t \in 1..Len(m) - f + 1 : r[t] = m[f + t - 1]
    <3>1. f \in Int /\ f <= Len(m) /\ \A t \in f..Len(m) : m[t] \in S
      BY <1>2, <1>8
    <3> QED BY <1>2, <3>1, SubSeqProperties
  <2>2. /\ s \in Seq(S) /\ Len(s) = Len(w) - f + 1
        /\ \A t \in 1..Len(w) - f + 1 : s[t] = w[f + t - 1]
    <3>1. Len(w) \in Nat /\ \A t \in 1..Len(w) : w[t] \in S
      BY <1>1
    <3>2. f \in Int /\ f <= Len(w) /\ \A t \in f..Len(w) : w[t] \in S
      BY <1>1, <1>2, <1>8, <3>1
    <3> QED BY <3>1, <3>2, SubSeqProperties
  <2> HIDE DEF s, r
  <2>3. k \in 1..Len(r) /\ f \in Nat /\ f >= 1 /\ f + k - 1 = i
    BY <1>2, <1>8, <2>1
  <2> HIDE DEF k
  <2>8. v \in Seq(S) /\ HasBoth(v, r, k, a, b)
    BY <2>1, <2>3, WithDateParts
  <2> HIDE DEF v
  <2>4. /\ v \in Seq(S) /\ Len(v) = Len(r) + 2
        /\ \A t \in 1..k : v[t] = r[t]
        /\ v[k + 1] = a /\ v[k + 2] = b
        /\ \A t \in k + 1..Len(r) : v[t + 2] = r[t]
    BY <2>8 DEF HasBoth
  <2>5. Len(s) = Len(v)
    BY <1>1, <1>2, <2>1, <2>2, <2>3, <2>4
  <2>6. ASSUME NEW t \in 1..Len(s) PROVE s[t] = v[t]
    <3>1. s[t] = w[f + t - 1]
      BY <2>2
    <3>2. CASE t <= k
      <4>1. t \in 1..k /\ t \in 1..Len(m) - f + 1 /\ f + t - 1 \in 1..i
        BY <1>2, <2>1, <2>3, <3>2
      <4> QED BY <1>1, <2>1, <2>4, <3>1, <4>1
    <3>3. CASE t = k + 1 \/ t = k + 2
      <4>1. t = k + 1 => f + t - 1 = i + 1
        BY <2>3
      <4>2. t = k + 2 => f + t - 1 = i + 2
        BY <2>3
      <4> QED BY <1>1, <2>4, <3>1, <3>3, <4>1, <4>2
    <3>4. CASE t > k + 2
      <4>1. /\ t - 2 \in k + 1..Len(r) /\ (t - 2) + 2 = t /\ t - 2 \in 1..Len(m) - f + 1
            /\ f + (t - 2) - 1 \in i + 1..Len(m) /\ (f + (t - 2) - 1) + 2 = f + t - 1
        BY <1>1, <1>2, <2>1, <2>2, <2>3, <3>4
      <4>2. v[t] = r[t - 2] /\ r[t - 2] = m[f + (t - 2) - 1]
        BY <2>1, <2>4, <4>1
      <4>3. w[(f + (t - 2) - 1) + 2] = m[f + (t - 2) - 1]
        BY <1>1, <4>1
      <4> QED BY <3>1, <4>1, <4>2, <4>3
    <3> QED BY <2>3, <3>2, <3>3, <3>4
  <2>7. s = v
    BY <2>2, <2>4, <2>5, <2>6, SeqEqual
  <2> QED BY <2>7 DEF s, v, r, k
<1> QED BY <1>8, <1>9 DEF OnlyPrefixesGo, w

\* There is only one such name.
LEMMA WithDateOnce ==
  ASSUME NEW S, NEW m \in Seq(S), NEW k \in 1..Len(m), NEW a \in S, NEW b \in S,
         NEW w \in Seq(S), HasBoth(w, m, k, a, b)
  PROVE  w = WithDate(m, k, a, b)
<1> DEFINE v == WithDate(m, k, a, b)
<1>1. v \in Seq(S) /\ HasBoth(v, m, k, a, b)
  BY WithDateParts
<1> HIDE DEF v
<1>2. Len(m) \in Nat /\ k \in Nat /\ k >= 1 /\ k <= Len(m) /\ Len(w) = Len(m) + 2 /\ Len(v) = Len(m) + 2
  BY <1>1 DEF HasBoth
<1>3. ASSUME NEW t \in 1..Len(w) PROVE w[t] = v[t]
  <2>1. CASE t <= k
    <3>1. t \in 1..k
      BY <2>1
    <3> QED BY <1>1, <3>1 DEF HasBoth
  <2>2. CASE t = k + 1 \/ t = k + 2
    BY <1>1, <2>2 DEF HasBoth
  <2>3. CASE t > k + 2
    <3>1. t - 2 \in k + 1..Len(m) /\ (t - 2) + 2 = t
      BY <1>2, <2>3
    <3>2. w[(t - 2) + 2] = m[t - 2] /\ v[(t - 2) + 2] = m[t - 2]
      BY <1>1, <3>1 DEF HasBoth
    <3> QED BY <3>1, <3>2
  <2> QED BY <1>2, <2>1, <2>2, <2>3
<1>4. w = v
  BY <1>1, <1>2, <1>3, SeqEqual
<1> QED BY <1>4 DEF v

\* A part may come to the end of a name before or after the date does.
LEMMA WithDateAppend ==
  ASSUME NEW S, "-" \in S, NEW m \in Seq(S), NEW k \in 1..Len(m), NEW d \in S, NEW x \in S
  PROVE  Append(WithDate(m, k, "-", d), x) = WithDate(Append(m, x), k, "-", d)
<1> DEFINE v == WithDate(m, k, "-", d)
           n == Append(m, x)
           w == Append(v, x)
<1>1. v \in Seq(S) /\ HasBoth(v, m, k, "-", d)
  BY WithDateParts
<1> HIDE DEF v
<1>2. Len(m) \in Nat /\ k \in Nat /\ k >= 1 /\ k <= Len(m) /\ Len(v) = Len(m) + 2
  BY <1>1 DEF HasBoth
<1>3. /\ n \in Seq(S) /\ Len(n) = Len(m) + 1 /\ n[Len(m) + 1] = x
      /\ \A t \in 1..Len(m) : n[t] = m[t]
  BY <1>2, AppendProperties
<1>4. /\ w \in Seq(S) /\ Len(w) = Len(v) + 1 /\ w[Len(v) + 1] = x
      /\ \A t \in 1..Len(v) : w[t] = v[t]
  BY <1>1, AppendProperties
<1> HIDE DEF n, w
<1>5. Len(w) = Len(n) + 2 /\ k \in 1..Len(n)
  BY <1>2, <1>3, <1>4
<1>6. \A t \in 1..k : w[t] = n[t]
  <2> SUFFICES ASSUME NEW t \in 1..k PROVE w[t] = n[t]
    OBVIOUS
  <2>1. t \in 1..Len(m) /\ t \in 1..Len(v)
    BY <1>2
  <2> QED BY <1>1, <1>3, <1>4, <2>1 DEF HasBoth
<1>7. w[k + 1] = "-" /\ w[k + 2] = d
  <2>1. k + 1 \in 1..Len(v) /\ k + 2 \in 1..Len(v)
    BY <1>2
  <2> QED BY <1>1, <1>4, <2>1 DEF HasBoth
<1>8. \A t \in k + 1..Len(n) : w[t + 2] = n[t]
  <2> SUFFICES ASSUME NEW t \in k + 1..Len(n) PROVE w[t + 2] = n[t]
    OBVIOUS
  <2>1. CASE t = Len(m) + 1
    <3>1. t + 2 = Len(v) + 1
      BY <1>2, <2>1
    <3> QED BY <1>3, <1>4, <2>1, <3>1
  <2>2. CASE t <= Len(m)
    <3>1. t \in k + 1..Len(m) /\ t \in 1..Len(m) /\ t + 2 \in 1..Len(v)
      BY <1>2, <2>2
    <3> QED BY <1>1, <1>3, <1>4, <3>1 DEF HasBoth
  <2> QED BY <1>2, <1>3, <2>1, <2>2
<1>9. HasBoth(w, n, k, "-", d)
  BY <1>5, <1>6, <1>7, <1>8 DEF HasBoth
<1>10. w = WithDate(n, k, "-", d)
  BY <1>3, <1>4, <1>5, <1>9, WithDateOnce
<1> QED BY <1>10 DEF w, v, n

\* A date at the end of a name is two more parts of it.
LEMMA WithDateAtEnd ==
  ASSUME NEW S, NEW m \in Seq(S), Len(m) >= 1, NEW a \in S, NEW b \in S
  PROVE  Append(Append(m, a), b) = WithDate(m, Len(m), a, b)
<1> DEFINE u == Append(m, a)
           w == Append(u, b)
<1>1. Len(m) \in Nat /\ Len(m) \in 1..Len(m)
  OBVIOUS
<1>2. /\ u \in Seq(S) /\ Len(u) = Len(m) + 1 /\ u[Len(m) + 1] = a
      /\ \A t \in 1..Len(m) : u[t] = m[t]
  BY AppendProperties
<1> HIDE DEF u
<1>3. /\ w \in Seq(S) /\ Len(w) = Len(u) + 1 /\ w[Len(u) + 1] = b
      /\ \A t \in 1..Len(u) : w[t] = u[t]
  BY <1>2, AppendProperties
<1> HIDE DEF w
<1>4. HasBoth(w, m, Len(m), a, b)
  <2>1. /\ Len(u) + 1 = Len(m) + 2 /\ Len(m) + 1 \in 1..Len(u)
        /\ \A t \in 1..Len(m) : t \in 1..Len(u)
        /\ Len(m) + 1..Len(m) = {}
    BY <1>1, <1>2
  <2>2. \A t \in 1..Len(m) : w[t] = m[t]
    BY <1>2, <1>3, <2>1
  <2> QED BY <1>2, <1>3, <2>1, <2>2 DEF HasBoth
<1>5. w = WithDate(m, Len(m), a, b)
  BY <1>1, <1>3, <1>4, WithDateOnce
<1> QED BY <1>5 DEF w, u

\* What is left of a name from one part on is what is there up to another, and
\* what is left from that one on.
Stays(m, rest, i, hi) ==
  /\ Len(rest[i]) = (hi - i) + Len(rest[hi])
  /\ \A t \in 1..hi - i : rest[i][t] = m[i + t - 1]
  /\ \A t \in 1..Len(rest[hi]) : rest[i][(hi - i) + t] = rest[hi][t]

\* Such a stretch is one without dates.
LEMMA StretchStays ==
  ASSUME NEW S, "-" \in S, NEW m \in Seq(S), NEW rest \in [1..Len(m) + 3 -> Seq(S)],
         \A i \in 1..Len(m) + 3 : rest[i] = WithoutDates(m, rest, i),
         NEW from \in 1..Len(m) + 1, NEW hi \in from..Len(m) + 1,
         \A i \in from..hi - 1 : ~IsDate(m, i)
  PROVE  Stays(m, rest, from, hi)
<1>1. Len(m) \in Nat /\ from \in Nat /\ hi \in Nat /\ from <= hi /\ hi <= Len(m) + 1 /\ from >= 1
  OBVIOUS
<1>2. \A i \in 1..Len(m) : m[i] \in S
  OBVIOUS
<1> DEFINE D == from..hi
           rank == [i \in D |-> hi - i]
           G == {i \in D : Stays(m, rest, i, hi)}
<1>3. rest[hi] \in Seq(S) /\ Len(rest[hi]) \in Nat
  <2>1. hi \in 1..Len(m) + 3
    BY <1>1
  <2>2. rest[hi] \in Seq(S)
    BY <2>1
  <2> QED BY <2>2
<1>4. \A i \in D : (\A j \in D : rank[j] < rank[i] => j \in G) => i \in G
  <2> SUFFICES ASSUME NEW i \in D, \A j \in D : rank[j] < rank[i] => j \in G
               PROVE  Stays(m, rest, i, hi)
    OBVIOUS
  <2>1. CASE i = hi
    BY <1>1, <1>3, <2>1 DEF Stays
  <2>2. CASE i # hi
    <3>1. /\ i + 1 \in D /\ rank[i + 1] < rank[i] /\ i \in 1..Len(m) + 3 /\ i \in 1..Len(m)
          /\ i \in from..hi - 1 /\ i + 1 \in 1..Len(m) + 3
      BY <1>1, <2>2
    <3>2. i + 1 \in G
      BY <3>1
    <3>3. Stays(m, rest, i + 1, hi)
      BY <3>2
    <3>4. ~IsDate(m, i) /\ ~(i > Len(m)) /\ rest[i] = WithoutDates(m, rest, i)
      BY <1>1, <3>1
    <3>5. rest[i] = <<m[i]>> \o rest[i + 1]
      BY <3>4 DEF WithoutDates
    <3> DEFINE r == rest[i + 1]
               x == <<m[i]>>
    <3>6. /\ x \in Seq(S) /\ Len(x) = 1 /\ x[1] = m[i] /\ r \in Seq(S) /\ Len(r) \in Nat
      <4>1. m[i] \in S /\ r \in Seq(S)
        BY <1>2, <3>1
      <4> QED BY <4>1
    <3>7. /\ Len(r) = (hi - (i + 1)) + Len(rest[hi])
          /\ \A t \in 1..hi - (i + 1) : r[t] = m[(i + 1) + t - 1]
          /\ \A t \in 1..Len(rest[hi]) : r[(hi - (i + 1)) + t] = rest[hi][t]
      BY <3>3 DEF Stays
    <3> HIDE DEF r, x
    <3>8. /\ Len(x \o r) = Len(x) + Len(r)
          /\ \A t \in 1..Len(x) + Len(r) :
               (x \o r)[t] = IF t <= Len(x) THEN x[t] ELSE r[t - Len(x)]
      BY <3>6, ConcatProperties
    <3>9. /\ rest[i] = x \o r /\ Len(x \o r) = 1 + Len(r) /\ (x \o r)[1] = m[i]
          /\ \A t \in 2..1 + Len(r) : (x \o r)[t] = r[t - 1]
      BY <3>5, <3>6, <3>8 DEF x, r
    <3>10. Len(rest[i]) = (hi - i) + Len(rest[hi])
      BY <1>1, <1>3, <3>1, <3>7, <3>9
    <3>11. ASSUME NEW t \in 1..hi - i PROVE rest[i][t] = m[i + t - 1]
      <4>1. CASE t = 1
        BY <3>1, <3>9, <4>1
      <4>2. CASE t # 1
        <5>1. t - 1 \in 1..hi - (i + 1) /\ t \in 2..1 + Len(r) /\ (i + 1) + (t - 1) - 1 = i + t - 1
          BY <1>1, <1>3, <3>1, <3>7, <4>2
        <5>2. r[t - 1] = m[(i + 1) + (t - 1) - 1]
          BY <3>7, <5>1
        <5> QED BY <3>9, <5>1, <5>2
      <4> QED BY <4>1, <4>2
    <3>12. ASSUME NEW t \in 1..Len(rest[hi]) PROVE rest[i][(hi - i) + t] = rest[hi][t]
      <4>1. /\ (hi - i) + t \in 2..1 + Len(r)
            /\ ((hi - i) + t) - 1 = (hi - (i + 1)) + t
        BY <1>1, <1>3, <3>1, <3>7
      <4>2. r[(hi - (i + 1)) + t] = rest[hi][t]
        BY <3>7
      <4> QED BY <3>9, <4>1, <4>2
    <3> QED BY <3>10, <3>11, <3>12 DEF Stays
  <2> QED BY <2>1, <2>2
<1>5. from \in D
  BY <1>1
<1>7. rank \in [D -> Nat]
  BY <1>1
<1> HIDE DEF G, D, rank
<1>6. \A i \in D : i \in G
  BY <1>4, <1>7, RankedInduction
<1> QED BY <1>5, <1>6 DEF G

\* A name without dates stays.
LEMMA NoDates ==
  ASSUME NEW S, "-" \in S, S \cap Dates = {}, NEW m \in Seq(S)
  PROVE  StripDates(m) = m
<1>1. PICK rest \in [1..Len(m) + 3 -> Seq(S)] :
        /\ StripDates(m) = rest[1]
        /\ \A i \in 1..Len(m) + 3 : rest[i] = WithoutDates(m, rest, i)
  BY StripDatesUnfolds
<1> DEFINE hi == Len(m) + 1
<1>2. /\ Len(m) \in Nat /\ \A i \in 1..Len(m) : m[i] \in S
  OBVIOUS
<1>3. \A i \in 1..hi - 1 : ~IsDate(m, i)
  BY <1>2 DEF IsDate
<1>4. 1 \in 1..Len(m) + 1 /\ hi \in 1..Len(m) + 1 /\ hi \in 1..Len(m) + 3 /\ hi - 1 = Len(m)
  BY <1>2
<1>5. rest[hi] = <<>>
  <2>1. hi > Len(m) /\ rest[hi] = WithoutDates(m, rest, hi)
    BY <1>1, <1>2, <1>4
  <2> QED BY <2>1 DEF WithoutDates
<1> HIDE DEF hi
<1>6. /\ Len(rest[1]) = (hi - 1) + Len(rest[hi])
      /\ \A t \in 1..hi - 1 : rest[1][t] = m[1 + t - 1]
  <2>1. Stays(m, rest, 1, hi)
    BY <1>1, <1>3, <1>4, StretchStays
  <2> QED BY <2>1 DEF Stays
<1>7. Len(rest[1]) = Len(m) /\ \A t \in 1..Len(m) : rest[1][t] = m[t]
  BY <1>2, <1>4, <1>5, <1>6
<1>8. rest[1] \in Seq(S)
  <2>1. 1 \in 1..Len(m) + 3
    BY <1>2
  <2> QED BY <2>1
<1> QED BY <1>1, <1>7, <1>8, SeqEqual

\* A date between a word and a hyphen, or at the end, goes with the hyphen before it.
LEMMA DateGoes ==
  ASSUME NEW S, "-" \in S, S \cap Dates = {}, NEW m \in Seq(S), NEW d \in Dates,
         NEW q \in 1..Len(m), q < Len(m) => m[q + 1] = "-"
  PROVE  StripDates(WithDate(m, q, "-", d)) = m
<1> DEFINE w == WithDate(m, q, "-", d)
           T == S \cup {d}
<1>1. w \in Seq(T) /\ HasBoth(w, m, q, "-", d)
  <2>1. m \in Seq(T) /\ "-" \in T /\ d \in T
    <3>1. \A t \in 1..Len(m) : m[t] \in T
      OBVIOUS
    <3> QED BY <3>1
  <2> HIDE DEF T
  <2> QED BY <2>1, WithDateParts
<1> HIDE DEF w
<1>2. "-" \in T /\ "-" \notin Dates /\ Len(m) \in Nat /\ \A t \in 1..Len(m) : m[t] \in S
  OBVIOUS
<1> HIDE DEF T
<1>3. /\ Len(w) = Len(m) + 2
      /\ \A t \in 1..q : w[t] = m[t]
      /\ w[q + 1] = "-" /\ w[q + 2] = d
      /\ \A t \in q + 1..Len(m) : w[t + 2] = m[t]
  BY <1>1 DEF HasBoth
<1>4. PICK rest \in [1..Len(w) + 3 -> Seq(T)] :
        /\ StripDates(w) = rest[1]
        /\ \A i \in 1..Len(w) + 3 : rest[i] = WithoutDates(w, rest, i)
  BY <1>1, <1>2, StripDatesUnfolds
<1>5. ASSUME NEW t \in 1..Len(w), t # q + 2 PROVE w[t] \notin Dates
  <2>1. CASE t <= q
    <3>1. t \in 1..q /\ t \in 1..Len(m)
      BY <2>1
    <3> QED BY <1>2, <1>3, <3>1
  <2>2. CASE t = q + 1
    BY <1>2, <1>3, <2>2
  <2>3. CASE t > q + 2
    <3>1. t - 2 \in q + 1..Len(m) /\ t - 2 \in 1..Len(m) /\ (t - 2) + 2 = t
      BY <1>2, <1>3, <2>3
    <3>2. w[(t - 2) + 2] = m[t - 2]
      BY <1>3, <3>1
    <3> QED BY <1>2, <3>1, <3>2
  <2> QED BY <1>2, <1>5, <2>1, <2>2, <2>3
<1>6. Stays(w, rest, 1, q + 1)
  <2>1. 1 \in 1..Len(w) + 1 /\ q + 1 \in 1..Len(w) + 1
    BY <1>2, <1>3
  <2>2. \A i \in 1..(q + 1) - 1 : ~IsDate(w, i)
    <3>1. \A i \in 1..(q + 1) - 1 : i + 1 \in 1..Len(w) /\ i + 1 # q + 2
      BY <1>2, <1>3
    <3> QED BY <1>5, <3>1 DEF IsDate
  <2> QED BY <1>1, <1>2, <1>4, <2>1, <2>2, StretchStays
<1>7. IsDate(w, q + 1) /\ q + 1 \in 1..Len(w) + 3 /\ ~(q + 1 > Len(w)) /\ (q + 1) + 1 = q + 2
  BY <1>2, <1>3 DEF IsDate
<1>8. rest[q + 1] = WithoutDates(w, rest, q + 1)
  BY <1>4, <1>7
<1>9. rest[1] \in Seq(T) /\ m \in Seq(T)
  <2>1. 1 \in 1..Len(w) + 3
    BY <1>2, <1>3
  <2>2. \A t \in 1..Len(m) : m[t] \in T
    BY <1>2 DEF T
  <2> QED BY <2>1, <2>2
<1>10. CASE q = Len(m)
  <2>1. (q + 1) + 1 = Len(w)
    BY <1>2, <1>3, <1>10
  <2>2. rest[q + 1] = <<>>
    BY <1>7, <1>8, <2>1 DEF WithoutDates
  <2>3. /\ Len(rest[1]) = ((q + 1) - 1) + Len(rest[q + 1])
        /\ \A t \in 1..(q + 1) - 1 : rest[1][t] = w[1 + t - 1]
    BY <1>6 DEF Stays
  <2>4. Len(rest[1]) = Len(m) /\ \A t \in 1..Len(m) : rest[1][t] = m[t]
    BY <1>2, <1>3, <1>10, <2>2, <2>3
  <2>5. rest[1] = m
    BY <1>9, <2>4, SeqEqual
  <2> QED BY <1>4, <2>5 DEF w
<1>11. CASE q # Len(m)
  <2>1. q < Len(m) /\ q + 1 \in q + 1..Len(m) /\ (q + 1) + 2 = q + 3
    BY <1>2, <1>11
  <2>2. w[(q + 1) + 2] = "-" /\ ~((q + 1) + 1 = Len(w))
    BY <1>2, <1>3, <2>1
  <2>3. rest[q + 1] = <<"-">> \o rest[(q + 1) + 3]
    BY <1>7, <1>8, <2>2 DEF WithoutDates
  <2> DEFINE z == q + 4
             hi == Len(w) + 1
             r == rest[z]
  <2>4. rest[q + 1] = <<"-">> \o r
    <3>1. (q + 1) + 3 = z
      BY <1>2
    <3> QED BY <2>3, <3>1
  <2>5. /\ z \in 1..Len(w) + 1 /\ hi \in z..Len(w) + 1 /\ hi \in 1..Len(w) + 3 /\ z \in 1..Len(w) + 3
        /\ hi - z = Len(m) - (q + 1)
    BY <1>2, <1>3, <2>1
  <2>6. \A i \in z..hi - 1 : ~IsDate(w, i)
    <3>1. \A i \in z..hi - 1 : i < Len(w) => i + 1 \in 1..Len(w) /\ i + 1 # q + 2
      BY <1>2, <1>3
    <3> QED BY <1>5, <3>1 DEF IsDate
  <2>7. rest[hi] = <<>>
    <3>1. hi > Len(w) /\ rest[hi] = WithoutDates(w, rest, hi)
      BY <1>2, <1>3, <1>4, <2>5
    <3> QED BY <3>1 DEF WithoutDates
  <2> HIDE DEF z, hi
  <2>8. Stays(w, rest, z, hi)
    BY <1>1, <1>2, <1>4, <2>5, <2>6, StretchStays
  <2>9. /\ Len(r) = Len(m) - (q + 1)
        /\ \A t \in 1..Len(m) - (q + 1) : r[t] = w[z + t - 1]
    BY <1>2, <2>5, <2>7, <2>8 DEF Stays
  <2>10. r \in Seq(T) /\ Len(r) \in Nat
    <3>1. r \in Seq(T)
      BY <2>5
    <3> HIDE DEF r
    <3> QED BY <3>1
  <2> HIDE DEF r
  <2>11. /\ Len(rest[q + 1]) = 1 + Len(r) /\ rest[q + 1][1] = "-"
         /\ \A t \in 2..1 + Len(r) : rest[q + 1][t] = r[t - 1]
    <3> DEFINE x == <<"-">>
    <3>1. x \in Seq(T) /\ Len(x) = 1 /\ x[1] = "-"
      BY <1>2
    <3> HIDE DEF x
    <3>2. /\ Len(x \o r) = Len(x) + Len(r)
          /\ \A t \in 1..Len(x) + Len(r) :
               (x \o r)[t] = IF t <= Len(x) THEN x[t] ELSE r[t - Len(x)]
      BY <2>10, <3>1, ConcatProperties
    <3>3. rest[q + 1] = x \o r
      BY <2>4 DEF x
    <3> QED BY <2>10, <3>1, <3>2, <3>3
  <2>12. /\ Len(rest[1]) = ((q + 1) - 1) + Len(rest[q + 1])
         /\ \A t \in 1..(q + 1) - 1 : rest[1][t] = w[1 + t - 1]
         /\ \A t \in 1..Len(rest[q + 1]) : rest[1][((q + 1) - 1) + t] = rest[q + 1][t]
    BY <1>6 DEF Stays
  <2>13. Len(rest[1]) = Len(m)
    BY <1>2, <2>1, <2>9, <2>11, <2>12
  <2>14. ASSUME NEW t \in 1..Len(m) PROVE rest[1][t] = m[t]
    <3>1. CASE t <= q
      <4>1. t \in 1..(q + 1) - 1 /\ 1 + t - 1 = t /\ t \in 1..q
        BY <3>1
      <4> QED BY <1>3, <2>12, <4>1
    <3>2. CASE t = q + 1
      <4>1. 1 \in 1..Len(rest[q + 1]) /\ ((q + 1) - 1) + 1 = q + 1
        BY <2>10, <2>11
      <4> QED BY <2>1, <2>11, <2>12, <3>2, <4>1
    <3>3. CASE t > q + 1
      <4> DEFINE u == t - q
      <4>1. /\ u \in 1..Len(rest[q + 1]) /\ ((q + 1) - 1) + u = t
            /\ u \in 2..1 + Len(r) /\ u - 1 \in 1..Len(m) - (q + 1)
            /\ t \in q + 1..Len(m)
        BY <1>2, <2>9, <2>10, <2>11, <3>3
      <4>2. z + (u - 1) - 1 = t + 2
        BY <1>2 DEF z
      <4> HIDE DEF u
      <4>3. rest[1][((q + 1) - 1) + u] = rest[q + 1][u]
        BY <2>12, <4>1
      <4>4. rest[q + 1][u] = r[u - 1]
        BY <2>11, <4>1
      <4>5. r[u - 1] = w[z + (u - 1) - 1]
        BY <2>9, <4>1
      <4>6. w[t + 2] = m[t]
        BY <1>3, <4>1
      <4> QED BY <4>1, <4>2, <4>3, <4>4, <4>5, <4>6
    <3> QED BY <1>2, <3>1, <3>2, <3>3
  <2>15. rest[1] = m
    BY <1>9, <2>13, <2>14, SeqEqual
  <2> QED BY <1>4, <2>15 DEF w
<1> QED BY <1>10, <1>11

\* A date behind a word keeps its hyphen, and the other separators become what they
\* would without it: where more is left behind the word, a hyphen is left before it.
LEMMA DateBetweenSeparators ==
  ASSUME NEW S, "-" \in S, NEW m \in Seq(S), NEW k \in 1..Len(m), m[k] \notin Separators,
         k < Len(m) => m[k + 1] \in Separators,
         NEW sep \in S, sep \in Separators, NEW d \in S, d \notin Separators
  PROVE  LET n == NormalizeSeparators(m) IN
         \E q \in 1..Len(n) :
           /\ NormalizeSeparators(WithDate(m, k, sep, d)) = WithDate(n, q, "-", d)
           /\ q < Len(n) => n[q + 1] = "-"
<1>20. ASSUME NEW v \in Seq(S), NEW q \in 1..Len(v), NEW x \in S
      PROVE  Append(WithDate(v, q, "-", d), x) = WithDate(Append(v, x), q, "-", d)
  BY WithDateAppend
<1> DEFINE w == WithDate(m, k, sep, d)
           h == Hyphens(m)
           g == Hyphens(w)
<1>1. w \in Seq(S) /\ HasBoth(w, m, k, sep, d)
  BY WithDateParts
<1> HIDE DEF w
<1>2. Len(m) \in Nat /\ k \in Nat /\ k >= 1 /\ k <= Len(m) /\ Len(w) = Len(m) + 2
  BY <1>1 DEF HasBoth
<1>3. /\ Len(h) = Len(m) /\ \A t \in 1..Len(m) : h[t] \in S
      /\ h[k] = m[k] /\ h[k] # "-" /\ (k < Len(m) => h[k + 1] = "-")
  <2>1. h = [t \in 1..Len(m) |-> IF m[t] \in Separators THEN "-" ELSE m[t]]
    BY DEF Hyphens
  <2>2. "-" \in Separators
    BY DEF Separators
  <2>3. \A t \in 1..Len(m) : m[t] \in S
    OBVIOUS
  <2> QED BY <1>2, <2>1, <2>2, <2>3
<1>4. /\ Len(g) = Len(m) + 2
      /\ \A t \in 1..k : g[t] = h[t]
      /\ g[k + 1] = "-" /\ g[k + 2] = d /\ d # "-"
      /\ \A t \in k + 1..Len(m) : g[t + 2] = h[t]
  <2>1. h = [t \in 1..Len(m) |-> IF m[t] \in Separators THEN "-" ELSE m[t]]
    BY DEF Hyphens
  <2>2. g = [t \in 1..Len(m) + 2 |-> IF w[t] \in Separators THEN "-" ELSE w[t]]
    <3>1. DOMAIN w = 1..Len(m) + 2
      BY <1>1, <1>2
    <3> QED BY <3>1 DEF Hyphens
  <2>3. "-" \in Separators
    BY DEF Separators
  <2>4. ASSUME NEW t \in 1..k PROVE g[t] = h[t]
    <3>1. w[t] = m[t] /\ t \in 1..Len(m) /\ t \in 1..Len(m) + 2
      BY <1>1, <1>2 DEF HasBoth
    <3> QED BY <2>1, <2>2, <3>1
  <2>5. ASSUME NEW t \in k + 1..Len(m) PROVE g[t + 2] = h[t]
    <3>1. w[t + 2] = m[t] /\ t \in 1..Len(m) /\ t + 2 \in 1..Len(m) + 2
      BY <1>1, <1>2 DEF HasBoth
    <3> QED BY <2>1, <2>2, <3>1
  <2>6. g[k + 1] = "-" /\ g[k + 2] = d
    <3>1. w[k + 1] = sep /\ w[k + 2] = d /\ k + 1 \in 1..Len(m) + 2 /\ k + 2 \in 1..Len(m) + 2
      BY <1>1, <1>2 DEF HasBoth
    <3> QED BY <2>2, <3>1
  <2>7. Len(g) = Len(m) + 2
    BY <1>2, <2>2
  <2> QED BY <2>3, <2>4, <2>5, <2>6, <2>7
<1>5. PICK upto \in [0..Len(m) -> Seq(S)] :
        /\ NormalizeSeparators(m) = upto[Len(m)]
        /\ \A i \in 0..Len(m) : upto[i] = WithHyphens(m, upto, i)
  BY NormalizeSeparatorsUnfolds
<1>6. PICK with \in [0..Len(w) -> Seq(S)] :
        /\ NormalizeSeparators(w) = with[Len(w)]
        /\ \A i \in 0..Len(w) : with[i] = WithHyphens(w, with, i)
  BY <1>1, NormalizeSeparatorsUnfolds
<1>7. ASSUME NEW i \in 1..Len(m)
      PROVE  upto[i] = IF Kept(h, i) THEN Append(upto[i - 1], h[i]) ELSE upto[i - 1]
  <2>1. i \in 0..Len(m) /\ i # 0
    BY <1>2
  <2>2. upto[i] = WithHyphens(m, upto, i)
    BY <1>5, <2>1
  <2> QED BY <2>1, <2>2 DEF WithHyphens
<1>8. ASSUME NEW i \in 1..Len(w)
      PROVE  with[i] = IF Kept(g, i) THEN Append(with[i - 1], g[i]) ELSE with[i - 1]
  <2>1. i \in 0..Len(w) /\ i # 0
    BY <1>2
  <2>2. with[i] = WithHyphens(w, with, i)
    BY <1>6, <2>1
  <2> QED BY <2>1, <2>2 DEF WithHyphens
<1>9. upto[0] = <<>> /\ with[0] = <<>>
  BY <1>2, <1>5, <1>6 DEF WithHyphens
<1> HIDE DEF h, g
<1>10. Kept(h, k) /\ Kept(g, k) /\ Kept(g, k + 1) /\ Kept(g, k + 2)
  <2>1. k \in 1..k /\ k \in 1..k + 1 /\ (k + 1) + 1 = k + 2 /\ k + 1 < Len(g)
    BY <1>2, <1>4
  <2>2. g[k] = h[k] /\ g[k] # "-"
    BY <1>3, <1>4, <2>1
  <2> QED BY <1>3, <1>4, <2>1, <2>2 DEF Kept
<1>11. ASSUME NEW i \in 1..k - 1 PROVE Kept(g, i) <=> Kept(h, i)
  <2>1. /\ i \in 1..k /\ i + 1 \in 1..k /\ i < Len(h) /\ i < Len(g)
        /\ \A j \in 1..i : j \in 1..k
    BY <1>2, <1>3, <1>4
  <2>2. g[i] = h[i] /\ g[i + 1] = h[i + 1] /\ \A j \in 1..i : g[j] = h[j]
    BY <1>4, <2>1
  <2> QED BY <2>1, <2>2 DEF Kept
<1>12. ASSUME NEW i \in k + 1..Len(m) PROVE Kept(g, i + 2) <=> Kept(h, i)
  <2>1. /\ k \in 1..i /\ k \in 1..i + 2 /\ (i < Len(h) <=> i + 2 < Len(g))
        /\ (i < Len(h) => i + 1 \in k + 1..Len(m)) /\ (i + 1) + 2 = (i + 2) + 1
        /\ k \in 1..k
    BY <1>2, <1>3, <1>4
  <2>2. g[i + 2] = h[i] /\ (i < Len(h) => g[(i + 2) + 1] = h[i + 1])
    BY <1>4, <2>1
  <2>3. (\E j \in 1..i : h[j] # "-") /\ (\E j \in 1..i + 2 : g[j] # "-")
    BY <1>3, <1>4, <2>1
  <2> QED BY <2>1, <2>2, <2>3 DEF Kept
\* Before the date.
<1>13. \A i \in 0..k - 1 : with[i] = upto[i]
  <2> DEFINE D == 0..k - 1
             rank == [i \in D |-> i]
             G == {i \in D : with[i] = upto[i]}
  <2>1. \A i \in D : (\A j \in D : rank[j] < rank[i] => j \in G) => i \in G
    <3> SUFFICES ASSUME NEW i \in D, \A j \in D : rank[j] < rank[i] => j \in G
                 PROVE  with[i] = upto[i]
      OBVIOUS
    <3>1. CASE i = 0
      BY <1>9, <3>1
    <3>2. CASE i # 0
      <4>1. /\ i \in 1..k - 1 /\ i \in 1..k /\ i \in 1..Len(m) /\ i \in 1..Len(w)
            /\ i - 1 \in D /\ rank[i - 1] < rank[i]
        BY <1>2, <3>2
      <4>2. with[i - 1] = upto[i - 1] /\ g[i] = h[i] /\ (Kept(g, i) <=> Kept(h, i))
        BY <1>4, <1>11, <4>1
      <4> QED BY <1>7, <1>8, <4>1, <4>2
    <3> QED BY <3>1, <3>2
  <2>2. rank \in [D -> Nat]
    BY <1>2
  <2> HIDE DEF D, G, rank
  <2>3. \A i \in D : i \in G
    BY <2>1, <2>2, RankedInduction
  <2> QED BY <2>3 DEF D, G
<1> DEFINE u == upto[k]
           q == Len(u)
\* The word before the date, and the date.
<1>14. /\ u \in Seq(S) /\ q \in Nat /\ q >= 1 /\ with[k] = u
       /\ with[k + 2] = WithDate(u, q, "-", d)
  <2>1. /\ k \in 1..k /\ k \in 1..Len(m) /\ k \in 1..Len(w) /\ k + 1 \in 1..Len(w) /\ k + 2 \in 1..Len(w)
        /\ k - 1 \in 0..k - 1 /\ k - 1 \in 0..Len(m) /\ k \in 0..Len(m)
        /\ (k + 1) - 1 = k /\ (k + 2) - 1 = k + 1
    BY <1>2
  <2>2. u = Append(upto[k - 1], h[k]) /\ with[k] = Append(with[k - 1], g[k])
    BY <1>7, <1>8, <1>10, <2>1
  <2>3. with[k] = u
    BY <1>4, <1>13, <2>1, <2>2
  <2>4. upto[k - 1] \in Seq(S) /\ h[k] \in S /\ u \in Seq(S)
    BY <1>3, <2>1
  <2>5. with[k + 1] = Append(with[(k + 1) - 1], "-")
    BY <1>4, <1>8, <1>10, <2>1
  <2>6. with[k + 2] = Append(with[(k + 2) - 1], d)
    BY <1>4, <1>8, <1>10, <2>1
  <2> HIDE DEF u, q
  <2>7. Len(u) >= 1 /\ Len(u) \in Nat
    <3>1. Len(u) = Len(upto[k - 1]) + 1 /\ Len(upto[k - 1]) \in Nat
      BY <2>2, <2>4, AppendProperties
    <3> QED BY <3>1
  <2>8. with[k + 2] = Append(Append(u, "-"), d)
    BY <2>1, <2>3, <2>5, <2>6
  <2>9. Append(Append(u, "-"), d) = WithDate(u, Len(u), "-", d)
    BY <2>4, <2>7, WithDateAtEnd
  <2> QED BY <2>3, <2>4, <2>7, <2>8, <2>9 DEF q
<1> HIDE DEF u, q
\* What is behind the date.
<1> DEFINE After(i) ==
             /\ Len(upto[i]) >= q
             /\ with[i + 2] = WithDate(upto[i], q, "-", d)
             /\ Len(upto[i]) > q => upto[i][q + 1] = "-"
             /\ Len(upto[i]) = q /\ i > k => ~Kept(h, i)
<1>15. \A i \in k..Len(m) : After(i)
  <2> DEFINE D == k..Len(m)
             rank == [i \in D |-> i - k]
             G == {i \in D : After(i)}
  <2>1. \A i \in D : (\A j \in D : rank[j] < rank[i] => j \in G) => i \in G
    <3> SUFFICES ASSUME NEW i \in D, \A j \in D : rank[j] < rank[i] => j \in G
                 PROVE  After(i)
      OBVIOUS
    <3>1. CASE i = k
      <4>1. upto[k] = u /\ Len(u) = q
        BY DEF u, q
      <4> QED BY <1>14, <3>1, <4>1
    <3>2. CASE i # k
      <4> DEFINE v == upto[i - 1]
      <4>1. /\ i \in k + 1..Len(m) /\ i \in 1..Len(m) /\ i + 2 \in 1..Len(w)
            /\ i - 1 \in D /\ rank[i - 1] < rank[i] /\ i - 1 \in 0..Len(m)
            /\ (i + 2) - 1 = (i - 1) + 2 /\ (i - 1) + 1 = i /\ i - 1 >= k /\ i - 1 < Len(h)
        BY <1>2, <1>3, <3>2
      <4>2. After(i - 1)
        BY <4>1
      <4>3. /\ Len(v) >= q
            /\ with[(i + 2) - 1] = WithDate(v, q, "-", d)
            /\ Len(v) > q => v[q + 1] = "-"
            /\ Len(v) = q /\ i - 1 > k => ~Kept(h, i - 1)
        BY <4>1, <4>2
      <4>4. v \in Seq(S) /\ h[i] \in S /\ g[i + 2] = h[i] /\ (Kept(g, i + 2) <=> Kept(h, i))
        BY <1>3, <1>4, <1>12, <4>1
      <4>5. /\ upto[i] = IF Kept(h, i) THEN Append(v, h[i]) ELSE v
            /\ with[i + 2] = IF Kept(h, i) THEN Append(WithDate(v, q, "-", d), h[i])
                             ELSE WithDate(v, q, "-", d)
        BY <1>7, <1>8, <4>1, <4>3, <4>4
      <4> HIDE DEF v
      <4>6. Len(v) \in Nat /\ q \in 1..Len(v)
        <5>1. Len(v) \in Nat
          BY <4>4
        <5> QED BY <1>14, <4>3, <5>1
      <4>7. CASE ~Kept(h, i)
        BY <4>3, <4>5, <4>7
      <4>8. CASE Kept(h, i)
        <5>1. upto[i] = Append(v, h[i]) /\ with[i + 2] = WithDate(upto[i], q, "-", d)
          <6>1. Append(WithDate(v, q, "-", d), h[i]) = WithDate(Append(v, h[i]), q, "-", d)
            BY <1>20, <4>4, <4>6
          <6> QED BY <4>5, <4>8, <6>1
        <5>2. /\ Len(upto[i]) = Len(v) + 1 /\ upto[i][Len(v) + 1] = h[i]
              /\ \A t \in 1..Len(v) : upto[i][t] = v[t]
          BY <4>4, <5>1, AppendProperties
        <5>3. Len(upto[i]) > q /\ Len(upto[i]) >= q /\ ~(Len(upto[i]) = q)
          BY <4>6, <5>2
        <5>4. CASE Len(v) = q
          <6>1. h[i] = "-"
            <7>1. CASE i - 1 = k
              BY <1>2, <1>3, <4>1, <7>1
            <7>2. CASE i - 1 # k
              <8>1. ~Kept(h, i - 1) /\ k \in 1..i - 1
                BY <1>2, <4>1, <4>3, <5>4, <7>2
              <8> QED BY <1>3, <4>1, <8>1 DEF Kept
            <7> QED BY <7>1, <7>2
          <6> QED BY <5>1, <5>2, <5>3, <5>4, <6>1
        <5>5. CASE Len(v) # q
          <6>1. Len(v) > q /\ q + 1 \in 1..Len(v)
            BY <4>6, <5>5
          <6> QED BY <4>3, <5>1, <5>2, <5>3, <6>1
        <5> QED BY <5>4, <5>5
      <4> QED BY <4>7, <4>8
    <3> QED BY <3>1, <3>2
  <2>2. rank \in [D -> Nat]
    BY <1>2
  <2> HIDE DEF D, G, rank, After
  <2>3. \A i \in D : i \in G
    BY <2>1, <2>2, RankedInduction
  <2> QED BY <2>3 DEF D, G
<1>16. After(Len(m)) /\ Len(w) = Len(m) + 2 /\ upto[Len(m)] \in Seq(S)
  <2>1. Len(m) \in k..Len(m) /\ Len(m) \in 0..Len(m)
    BY <1>2
  <2> HIDE DEF After
  <2> QED BY <1>2, <1>15, <2>1
<1> DEFINE n == NormalizeSeparators(m)
<1>17. /\ n \in Seq(S) /\ Len(n) >= q /\ NormalizeSeparators(w) = WithDate(n, q, "-", d)
       /\ Len(n) > q => n[q + 1] = "-"
  BY <1>5, <1>6, <1>16
<1> HIDE DEF n
<1>18. q \in 1..Len(n) /\ (q < Len(n) => Len(n) > q)
  <2>1. Len(n) \in Nat
    BY <1>17
  <2> QED BY <1>14, <1>17, <2>1
<1>19. \E x \in 1..Len(n) : /\ NormalizeSeparators(w) = WithDate(n, x, "-", d)
                            /\ x < Len(n) => n[x + 1] = "-"
  BY <1>17, <1>18
<1> QED BY <1>19 DEF n, w

\* A name without slashes has no prefix.
LEMMA NoPrefix ==
  ASSUME NEW S, NEW m \in Seq(S), \A i \in 1..Len(m) : m[i] # "/"
  PROVE  StripProviderPrefix(m) = m
<1>1. PICK from \in [1..Len(m) + 1 -> 1..Len(m) + 1] :
        /\ StripProviderPrefix(m) = SubSeq(m, from[1], Len(m))
        /\ \A i \in 1..Len(m) + 1 : from[i] = From(m, from, i)
  BY StripProviderPrefixUnfolds
<1>2. Len(m) \in Nat /\ 1 \in 1..Len(m) + 1 /\ \A i \in 1..Len(m) : m[i] \in S
  OBVIOUS
<1>3. Behind(m, 1) = {}
  <2> SUFFICES ASSUME NEW j \in Behind(m, 1) PROVE FALSE
    OBVIOUS
  <2>1. j \in 1 + 1..Len(m) + 1 /\ m[j - 1] = "/"
    BY <1>2, BehindSlash
  <2>2. j - 1 \in 1..Len(m)
    BY <1>2, <2>1
  <2> QED BY <2>1, <2>2
<1>4. from[1] = 1
  BY <1>1, <1>2, <1>3 DEF From
<1>5. /\ SubSeq(m, 1, Len(m)) \in Seq(S) /\ Len(SubSeq(m, 1, Len(m))) = Len(m)
      /\ \A i \in 1..Len(m) : SubSeq(m, 1, Len(m))[i] = m[i]
  BY <1>2
<1>6. SubSeq(m, 1, Len(m)) = m
  BY <1>5, SeqEqual
<1> QED BY <1>1, <1>4, <1>6

\* The other separators of a name become the same hyphens.
LEMMA SeparatedCanonical ==
  ASSUME NEW m \in Name, NEW r \in Separated(m)
  PROVE  NormalizeModelName(r) = NormalizeModelName(m)
<1> DEFINE S == STRING \cup Separators
<1>1. m \in Seq(S) /\ Len(m) \in Nat /\ DOMAIN m = 1..Len(m) /\ \A i \in 1..Len(m) : m[i] \in S
  BY DEF Name
<1>2. PICK sep \in Separators : r = [i \in 1..Len(m) |-> IF m[i] \in Separators THEN sep ELSE m[i]]
  BY <1>1 DEF Separated
<1>3. \A i \in 1..Len(m) : m[i] # "/"
  BY <1>1 DEF Separated, Range
<1>4. r \in Seq(S) /\ Len(r) = Len(m) /\ \A i \in 1..Len(r) : r[i] # "/"
  <2>1. sep # "/" /\ sep \in S
    BY DEF Separators
  <2>2. r \in [1..Len(m) -> S]
    BY <1>1, <1>2, <2>1
  <2>3. r \in Seq(S) /\ Len(r) = Len(m)
    BY <1>1, <2>2
  <2> HIDE DEF S
  <2> QED BY <1>2, <1>3, <2>1, <2>3
<1>5. Hyphens(r) = Hyphens(m)
  <2>1. Hyphens(m) = [i \in 1..Len(m) |-> IF m[i] \in Separators THEN "-" ELSE m[i]]
    BY <1>1 DEF Hyphens
  <2>2. Hyphens(r) = [i \in 1..Len(m) |-> IF r[i] \in Separators THEN "-" ELSE r[i]]
    BY <1>2 DEF Hyphens
  <2> QED BY <1>2, <2>1, <2>2
<1> HIDE DEF S
<1>6. StripProviderPrefix(r) = r /\ StripProviderPrefix(m) = m
  BY <1>1, <1>3, <1>4, NoPrefix
<1> QED BY <1>5, <1>6 DEF NormalizeModelName, NormalizeSeparators

\* A date behind a word goes.
LEMMA DatedCanonical ==
  ASSUME NEW m \in Name, NEW r \in Dated(m)
  PROVE  NormalizeModelName(r) = NormalizeModelName(m)
<1> DEFINE S == STRING \cup Separators
           W == S \ Dates
<1>1. m \in Seq(S) /\ Len(m) \in Nat /\ DOMAIN m = 1..Len(m)
  BY DEF Name
<1>2. PICK i \in WordEnds(m), sep \in Dashes, d \in Dates : r = WithDate(m, i, sep, d)
  BY DEF Dated
<1>3. /\ i \in 1..Len(m) /\ m[i] \notin Separators /\ \A j \in i..Len(m) : m[j] # "/"
      /\ i < Len(m) => m[i + 1] \in Separators
  BY <1>1 DEF WordEnds
<1>4. /\ sep \in S /\ sep \in Separators /\ sep # "/" /\ d \in S /\ d \notin Separators /\ d # "/"
      /\ "-" \in S /\ "-" \in W
  BY WordAssumption DEF Dashes, Separators
<1>5. \A t \in 1..Len(m) : m[t] \in W
  <2>1. \A t \in 1..Len(m) : m[t] \in S
    BY <1>1
  <2>2. \A t \in 1..Len(m) : m[t] \notin Dates
    <3>1. Range(m) \cap Dates = {}
      BY DEF Dated
    <3> QED BY <1>1, <3>1 DEF Range
  <2> QED BY <2>1, <2>2
<1>6. W \cap Dates = {}
  OBVIOUS
<1> HIDE DEF S, W
<1>7. PICK f \in 1..i :
        /\ StripProviderPrefix(m) = SubSeq(m, f, Len(m))
        /\ StripProviderPrefix(r) = WithDate(SubSeq(m, f, Len(m)), i - f + 1, sep, d)
  <2>1. /\ m \in Seq(S) /\ i \in 1..Len(m) /\ (\A j \in i..Len(m) : m[j] # "/")
        /\ sep \in S /\ d \in S /\ sep # "/" /\ d # "/"
    BY <1>1, <1>3, <1>4
  <2>2. OnlyPrefixesGo(m, i, sep, d)
    BY <2>1, DateStays
  <2> QED BY <1>2, <2>2 DEF OnlyPrefixesGo
<1> DEFINE n == SubSeq(m, f, Len(m))
           k == i - f + 1
           c == NormalizeSeparators(n)
<1>8. /\ n \in Seq(W) /\ Len(n) = Len(m) - f + 1
      /\ \A t \in 1..Len(m) - f + 1 : n[t] = m[f + t - 1]
  <2>1. f \in Int /\ f <= Len(m) /\ \A t \in f..Len(m) : m[t] \in W
    BY <1>1, <1>3, <1>5, <1>7
  <2> QED BY <1>1, <2>1, SubSeqProperties
<1>9. n \in Seq(S)
  <2>1. f \in Int /\ f <= Len(m) /\ \A t \in f..Len(m) : m[t] \in S
    BY <1>1, <1>3, <1>7
  <2> QED BY <1>1, <2>1, SubSeqProperties
<1>10. StripProviderPrefix(m) = n /\ StripProviderPrefix(r) = WithDate(n, k, sep, d)
  BY <1>7
<1> HIDE DEF n
<1>11. /\ k \in 1..Len(n) /\ n[k] \notin Separators
       /\ k < Len(n) => n[k + 1] \in Separators
  <2>1. k \in 1..Len(m) - f + 1 /\ f + k - 1 = i
    BY <1>1, <1>3, <1>7
  <2>2. k < Len(n) => k + 1 \in 1..Len(m) - f + 1 /\ f + (k + 1) - 1 = i + 1 /\ i < Len(m)
    BY <1>1, <1>3, <1>7, <1>8
  <2> HIDE DEF k
  <2> QED BY <1>3, <1>8, <2>1, <2>2
<1> HIDE DEF k
<1>12. PICK q \in 1..Len(c) :
         /\ NormalizeSeparators(WithDate(n, k, sep, d)) = WithDate(c, q, "-", d)
         /\ q < Len(c) => c[q + 1] = "-"
  BY <1>4, <1>9, <1>11, DateBetweenSeparators
<1>13. c \in Seq(W)
  <2>1. PICK upto \in [0..Len(n) -> Seq(W)] : c = upto[Len(n)]
    BY <1>4, <1>8, NormalizeSeparatorsUnfolds
  <2>2. Len(n) \in 0..Len(n)
    BY <1>9
  <2> QED BY <2>1, <2>2
<1> HIDE DEF c
<1>14. StripDates(WithDate(c, q, "-", d)) = c
  BY <1>4, <1>6, <1>12, <1>13, DateGoes
<1>15. StripDates(c) = c
  BY <1>4, <1>6, <1>13, NoDates
<1>16. NormalizeModelName(r) = StripVersion(c)
  BY <1>10, <1>12, <1>14 DEF NormalizeModelName
<1>17. NormalizeModelName(m) = StripVersion(c)
  BY <1>10, <1>15 DEF NormalizeModelName, c
<1> QED BY <1>16, <1>17

\* All other names of a model have its canonical name.
LEMMA RespelledCanonical ==
  ASSUME NEW m \in Name, NEW r \in Respelled(m)
  PROVE  ModelsMatch(m, r)
<1> DEFINE S == STRING \cup Separators
<1>1. CASE r \in Prefixed(m)
  <2>1. PICK p \in ProviderPrefixes : r = p \o m
    BY <1>1 DEF Prefixed
  <2>2. ProviderPrefixes \subseteq Seq(S) /\ m \in Seq(S)
    BY PrefixAssumption DEF Name
  <2> HIDE DEF S
  <2>3. StripProviderPrefix(r) = StripProviderPrefix(m)
    BY <2>1, <2>2, PrefixGoes
  <2> QED BY <2>3 DEF ModelsMatch, CanonicalModelName, NormalizeModelName
<1>2. r \in Dated(m) \cup Separated(m) => NormalizeModelName(r) = NormalizeModelName(m)
  BY DatedCanonical, SeparatedCanonical
<1>3. CASE r \in Dated(m) \cup Separated(m) \cup {m}
  BY <1>2, <1>3 DEF ModelsMatch, CanonicalModelName
<1> QED BY <1>1, <1>3 DEF Respelled

-----------------------------------------------------------------------------
(***************************************************************************)
(* The policy's families. A name that is spelled like one is of it once it *)
(* is canonical, so a row that answers to the name is known as one of it.  *)
(***************************************************************************)

\* The parts of names, with the words that the policy knows.
Words == {"claude", "gemini", "grok", "command", "gpt", "3", "4", "4o", "5", "chatgpt",
          "o1", "o3", "o4", "oss", "openai", "/", "tee", "private"}
Parts == STRING \cup Separators \cup Words

\* Names are made of them.
LEMMA NameParts == Name \subseteq Seq(Parts) /\ "-" \in Parts
<1>1. STRING \cup Separators \subseteq Parts /\ "-" \in Parts
  BY DEF Parts, Separators
<1> HIDE DEF Parts
<1>2. ASSUME NEW m \in Name PROVE m \in Seq(Parts)
  <2>1. m \in Seq(STRING \cup Separators)
    BY DEF Name
  <2> QED BY <1>1, <2>1
<1> QED BY <1>1, <1>2

\* A family is a word, or two.
LEMMA FamilyIsHead ==
  ASSUME NEW family \in Families \cup {GptOss}
  PROVE  family \in Seq(Parts) /\ IsHead(family)
<1>1. /\ \A w \in Words \ {"/"} : w \notin Separators
      /\ "-" \in Parts /\ \A w \in Words : w \in Parts
      /\ \A w \in {"oss", "3", "4", "4o", "5"} : w \in Words \ {"/"} /\ w \notin Dates \cup Versions
      /\ \A w \in {"claude", "gemini", "grok", "command", "gpt", "chatgpt", "o1", "o3", "o4"} :
           w \in Words \ {"/"}
  BY WordAssumption DEF Words, Separators, Parts
<1> HIDE DEF Words, Parts
<1>2. ASSUME NEW w \in {"claude", "gemini", "grok", "command", "chatgpt", "o1", "o3", "o4"}
      PROVE  <<w>> \in Seq(Parts) /\ IsHead(<<w>>)
  <2>1. w \in Parts /\ w \notin Separators
    BY <1>1
  <2>2. <<w>> \in Seq(Parts) /\ Len(<<w>>) = 1 /\ <<w>>[1] = w
    BY <2>1
  <2> QED BY <2>1, <2>2 DEF IsHead
<1>3. ASSUME NEW v \in {"oss", "3", "4", "4o", "5"}
      PROVE  <<"gpt", "-", v>> \in Seq(Parts) /\ IsHead(<<"gpt", "-", v>>)
  <2>1. /\ "gpt" \in Parts /\ "gpt" \notin Separators /\ "-" \in Parts /\ v \in Parts
        /\ v \notin Separators \cup Dates \cup Versions
    BY <1>1
  <2> DEFINE h == <<"gpt", "-", v>>
  <2>2. h \in Seq(Parts) /\ Len(h) = 3 /\ h[1] = "gpt" /\ h[2] = "-" /\ h[3] = v
    BY <2>1
  <2> HIDE DEF h
  <2>3. IsHead(h)
    BY <2>1, <2>2 DEF IsHead
  <2> QED BY <2>2, <2>3 DEF h
<1>4. \/ \E w \in {"claude", "gemini", "grok", "command", "chatgpt", "o1", "o3", "o4"} : family = <<w>>
      \/ \E v \in {"oss", "3", "4", "4o", "5"} : family = <<"gpt", "-", v>>
  BY Zenon DEF Families, RemoteFamilies, OpenAIFamilies, GptOss
<1> QED BY <1>2, <1>3, <1>4

\* The family of a name is read off its first words behind the prefixes.
LEMMA CanonicalFamily ==
  ASSUME NEW m \in Name, NEW family \in Families, IsOf(StripProviderPrefix(m), family)
  PROVE  HasFamily(CanonicalModelName(m), family)
<1> DEFINE n == StripProviderPrefix(m)
           c == NormalizeModelName(m)
<1>1. m \in Seq(Parts) /\ "-" \in Parts /\ family \in Seq(Parts) /\ IsHead(family)
  BY NameParts, FamilyIsHead
<1>2. n \in Seq(Parts) /\ SpellsHead(n, family) /\ SpellsEnds(n, family)
  BY <1>1, StripProviderPrefixType DEF IsOf, SpellsHead, SpellsEnds
<1> HIDE DEF c
<1>3. c \in Seq(Parts) /\ Leads(c, family) /\ Ends(c, family)
  <2> HIDE DEF n
  <2>1. n = StripProviderPrefix(m)
    BY DEF n
  <2> QED BY <1>1, <1>2, <2>1, NormalizedHead DEF c
<1>4. HasFamily(c, family)
  BY <1>1, <1>3, HeadHasFamily
<1>5. c \in DOMAIN Aliases => HasFamily(Aliases[c], family)
  BY <1>4, AliasFamilyAssumption
<1> QED BY <1>4, <1>5 DEF CanonicalModelName, c

\* No prefix is taken off what begins with "gpt".
LEMMA GptHasNoPrefix ==
  ASSUME NEW S, NEW m \in Seq(S), Len(m) > 0, m[1] = "gpt"
  PROVE  StripProviderPrefix(m) = m
<1>1. PICK from \in [1..Len(m) + 1 -> 1..Len(m) + 1] :
        /\ StripProviderPrefix(m) = SubSeq(m, from[1], Len(m))
        /\ \A i \in 1..Len(m) + 1 : from[i] = From(m, from, i)
  BY StripProviderPrefixUnfolds
<1>2. Len(m) \in Nat /\ 1 \in 1..Len(m) + 1 /\ \A i \in 1..Len(m) : m[i] \in S
  OBVIOUS
<1>3. Behind(m, 1) = {}
  <2> SUFFICES ASSUME NEW j \in Behind(m, 1) PROVE FALSE
    OBVIOUS
  <2>1. PICK p \in ProviderPrefixes : StartsWith(SubSeq(m, 1, Len(m)), p)
    BY DEF Behind
  <2>2. Len(p) \in Nat /\ Len(p) >= 1 /\ \A t \in 1..Len(p) : m[1 + t - 1] = p[t]
    BY <1>2, <2>1, PrefixAt
  <2>3. m[1] = p[1]
    <3>1. 1 \in 1..Len(p) /\ 1 + 1 - 1 = 1
      BY <2>2
    <3> QED BY <2>2, <3>1
  <2> QED BY <2>3, PrefixAssumption
<1>4. from[1] = 1
  BY <1>1, <1>2, <1>3 DEF From
<1>5. /\ SubSeq(m, 1, Len(m)) \in Seq(S) /\ Len(SubSeq(m, 1, Len(m))) = Len(m)
      /\ \A i \in 1..Len(m) : SubSeq(m, 1, Len(m))[i] = m[i]
  BY <1>2
<1>6. SubSeq(m, 1, Len(m)) = m
  BY <1>5, SeqEqual
<1> QED BY <1>1, <1>4, <1>6

\* OpenAI's own name for gpt-oss becomes a name of it.
LEMMA GptOssStays ==
  ASSUME NEW m \in Name, StartsWith(m, <<"openai", "/">> \o GptOss)
  PROVE  StartsWith(CanonicalModelName(m), GptOss)
<1> DEFINE p == <<"openai", "/">>
           q == p \o GptOss
           n == SubSeq(m, 3, Len(m))
           c == NormalizeModelName(m)
<1>1. m \in Seq(Parts) /\ "-" \in Parts /\ GptOss \in Seq(Parts) /\ IsHead(GptOss)
  BY NameParts, FamilyIsHead
<1>2. p \in ProviderPrefixes /\ p \in Seq(Parts) /\ Len(p) = 2 /\ ProviderPrefixes \subseteq Seq(Parts)
  BY PrefixAssumption, NameParts
<1>3. /\ Len(GptOss) = 3 /\ GptOss[1] = "gpt" /\ GptOss[2] = "-" /\ GptOss[3] = "oss"
  BY DEF GptOss
<1> HIDE DEF p
<1>4. /\ q \in Seq(Parts) /\ Len(q) = 5 /\ (\A i \in 1..2 : q[i] = p[i])
      /\ q[3] = "gpt" /\ q[4] = "-" /\ q[5] = "oss"
  <2>1. /\ q \in Seq(Parts) /\ Len(q) = Len(p) + Len(GptOss)
        /\ \A i \in 1..Len(p) + Len(GptOss) :
             q[i] = IF i <= Len(p) THEN p[i] ELSE GptOss[i - Len(p)]
    BY <1>1, <1>2, ConcatProperties
  <2> HIDE DEF q
  <2>2. /\ 1 \in 1..Len(p) + Len(GptOss) /\ 2 \in 1..Len(p) + Len(GptOss)
        /\ 3 \in 1..Len(p) + Len(GptOss) /\ 4 \in 1..Len(p) + Len(GptOss)
        /\ 5 \in 1..Len(p) + Len(GptOss) /\ 3 - Len(p) = 1 /\ 4 - Len(p) = 2 /\ 5 - Len(p) = 3
    BY <1>2, <1>3
  <2> QED BY <1>2, <1>3, <2>1, <2>2
<1>5. Leads(m, q)
  <2>1. StartsWith(m, q)
    BY DEF p
  <2> HIDE DEF q
  <2> QED BY <1>1, <1>4, <2>1, PrefixParts
<1> HIDE DEF q
<1>6. /\ Len(m) \in Nat /\ Len(m) >= 5 /\ (\A i \in 1..2 : m[i] = p[i])
      /\ m[3] = "gpt" /\ m[4] = "-" /\ m[5] = "oss"
  BY <1>1, <1>4, <1>5 DEF Leads
<1>7. n \in Seq(Parts) /\ Len(n) = Len(m) - 2 /\ \A i \in 1..Len(m) - 2 : n[i] = m[i + 2]
  <2>1. \A i \in 3..Len(m) : m[i] \in Parts
    BY <1>1, <1>6
  <2>2. /\ n \in Seq(Parts) /\ Len(n) = Len(m) - 3 + 1
        /\ \A i \in 1..Len(m) - 3 + 1 : n[i] = m[3 + i - 1]
    BY <1>6, <2>1, SubSeqProperties
  <2> HIDE DEF n
  <2> QED BY <1>6, <2>2
<1> HIDE DEF n
<1>8. m = p \o n
  <2>1. /\ p \o n \in Seq(Parts) /\ Len(p \o n) = 2 + Len(n)
        /\ \A i \in 1..2 + Len(n) : (p \o n)[i] = IF i <= 2 THEN p[i] ELSE n[i - 2]
    BY <1>2, <1>7, ConcatProperties
  <2>2. ASSUME NEW i \in 1..Len(m) PROVE (p \o n)[i] = m[i]
    BY <1>6, <1>7, <2>1
  <2>3. Len(p \o n) = Len(m)
    BY <1>6, <1>7, <2>1
  <2> QED BY <1>1, <2>1, <2>2, <2>3, SeqEqual
<1>9. n[1] = "gpt" /\ n[2] = "-" /\ n[3] = "oss" /\ Len(n) > 0 /\ Len(n) >= 3
  <2>1. 1 \in 1..Len(m) - 2 /\ 2 \in 1..Len(m) - 2 /\ 3 \in 1..Len(m) - 2
        /\ 1 + 2 = 3 /\ 2 + 2 = 4 /\ 3 + 2 = 5
    BY <1>6
  <2> QED BY <1>6, <1>7, <2>1
<1>10. n = StripProviderPrefix(m)
  <2>1. StripProviderPrefix(p \o n) = StripProviderPrefix(n)
    BY <1>2, <1>7, PrefixGoes
  <2>2. StripProviderPrefix(n) = n
    BY <1>7, <1>9, GptHasNoPrefix
  <2> QED BY <1>8, <2>1, <2>2
<1>11. SpellsHead(n, GptOss)
  <2>1. "-" \in Separators
    BY DEF Separators
  <2>2. \A i \in 1..3 : n[i] = GptOss[i]
    BY <1>3, <1>9
  <2> QED BY <1>3, <1>9, <2>1, <2>2 DEF SpellsHead
<1>12. c \in Seq(Parts) /\ Leads(c, GptOss)
  BY <1>1, <1>7, <1>10, <1>11, NormalizedHead
<1> HIDE DEF c
<1>13. StartsWith(c, GptOss)
  BY <1>1, <1>12, PrefixParts
<1>14. c \in DOMAIN Aliases => StartsWith(Aliases[c], GptOss)
  BY <1>13, AliasFamilyAssumption
<1> QED BY <1>13, <1>14 DEF CanonicalModelName, c

\* A name of a family is known to be hosted elsewhere: what the policy lets pass of
\* OpenAI's is of no such family.
LEMMA FamilyIsRemote ==
  ASSUME NEW m \in Name, NEW family \in Families, HasFamily(CanonicalModelName(m), family)
  PROVE  IsKnownRemoteHostedModel(m)
<1> DEFINE c == CanonicalModelName(m)
<1>1. CASE family \in RemoteFamilies
  BY <1>1 DEF IsKnownRemoteHostedModel
<1>2. CASE family \in OpenAIFamilies
  <2>1. /\ c \in Seq(Parts) /\ "-" \in Parts /\ family \in Seq(Parts) /\ GptOss \in Seq(Parts)
        /\ Len(family) \in {1, 3}
    BY CanonicalType, NameParts, FamilyIsHead DEF IsHead
  <2> HIDE DEF c
  <2>2. Leads(c, family)
    BY <2>1, FamilyHasHead DEF c
  <2>3. ~StartsWith(c, GptOss)
    <3> SUFFICES ASSUME StartsWith(c, GptOss) PROVE FALSE
      OBVIOUS
    <3>1. Leads(c, GptOss)
      BY <2>1, PrefixParts
    <3>2. c[1] = "gpt" /\ c[3] = "oss"
      <4>1. /\ Len(GptOss) = 3 /\ GptOss[1] = "gpt" /\ GptOss[3] = "oss"
            /\ 1 \in 1..3 /\ 3 \in 1..3
        BY DEF GptOss
      <4> QED BY <3>1, <4>1 DEF Leads
    <3>3. family[1] = c[1] /\ (Len(family) = 3 => family[3] = c[3])
      BY <2>1, <2>2 DEF Leads
    <3>4. CASE \E w \in {"chatgpt", "o1", "o3", "o4"} : family = <<w>>
      BY <3>2, <3>3, <3>4
    <3>5. CASE \E v \in {"3", "4", "4o", "5"} : family = <<"gpt", "-", v>>
      BY <3>2, <3>3, <3>5
    <3> QED BY <1>2, <3>4, <3>5 DEF OpenAIFamilies
  <2>4. ~StartsWith(m, <<"openai", "/">> \o GptOss)
    BY <2>3, GptOssStays DEF c
  <2>5. IsOpenAIHostedModel(m, c)
    BY <1>2, <2>3, <2>4 DEF IsOpenAIHostedModel, c
  <2> QED BY <2>5 DEF IsKnownRemoteHostedModel, c
<1> QED BY <1>1, <1>2 DEF Families

\* The words of a name that another starts with, holds or ends with are in it.
LEMMA WordsOfParts ==
  ASSUME NEW m \in Seq(Parts), NEW p \in Seq(Parts), NEW t \in 1..Len(p),
         StartsWith(m, p) \/ HasPart(m, p)
  PROVE  p[t] \in Range(m)
<1>1. /\ DOMAIN m = 1..Len(m) /\ Len(m) \in Nat /\ Len(p) \in Nat
      /\ \A i \in 1..Len(m) : m[i] \in Parts
  OBVIOUS
<1>2. CASE StartsWith(m, p)
  <2>1. Leads(m, p)
    BY <1>2, PrefixParts
  <2>2. t \in 1..Len(m) /\ m[t] = p[t]
    BY <1>1, <2>1 DEF Leads
  <2> QED BY <1>1, <2>2 DEF Range
<1>3. CASE HasPart(m, p)
  <2>1. PICK i \in 1..Len(m) : StartsWith(SubSeq(m, i, Len(m)), p)
    BY <1>1, <1>3 DEF HasPart
  <2> DEFINE s == SubSeq(m, i, Len(m))
  <2>2. /\ s \in Seq(Parts) /\ Len(s) = Len(m) - i + 1
        /\ \A k \in 1..Len(m) - i + 1 : s[k] = m[i + k - 1]
    BY <1>1, SubSeqProperties
  <2> HIDE DEF s
  <2>3. Leads(s, p)
    BY <2>1, <2>2, PrefixParts DEF s
  <2>4. t \in 1..Len(m) - i + 1 /\ i + t - 1 \in 1..Len(m) /\ s[t] = p[t]
    BY <1>1, <2>2, <2>3 DEF Leads
  <2>5. m[i + t - 1] = p[t]
    BY <2>2, <2>4
  <2> QED BY <1>1, <2>4, <2>5 DEF Range
<1> QED BY <1>2, <1>3

\* What the policy lets be served of a family that is hosted elsewhere has a mark.
LEMMA RemoteIsMarked ==
  ASSUME NEW row \in [provider : STRING, model : Name], Eligible(row),
         IsKnownRemoteHostedModel(row.model)
  PROVE  /\ row.provider \in {"nanogpt", "ppq", "ppq-private", "chutes"}
         /\ Range(row.model) \cap {"tee", "private"} # {}
<1> DEFINE m == row.model
<1>1. m \in Name
  OBVIOUS
<1>2. m \in Seq(Parts) /\ {"-", "/", "tee", "private"} \subseteq Parts
  BY <1>1, NameParts DEF Parts, Words
<1>3. /\ row.provider \in {"nanogpt", "ppq", "ppq-private", "chutes"}
      /\ HasTEEMarker(m) \/ StartsWith(m, <<"private", "/">>)
  BY DEF Eligible, IsProviderModelTEEEligible, HasTEEMarker
<1> HIDE DEF m
<1>4. CASE StartsWith(m, <<"private", "/">>)
  <2>1. <<"private", "/">> \in Seq(Parts) /\ 1 \in 1..Len(<<"private", "/">>)
    BY <1>2
  <2>2. <<"private", "/">>[1] \in Range(m)
    BY <1>2, <1>4, <2>1, WordsOfParts
  <2>3. "private" \in Range(m)
    BY <2>2
  <2> QED BY <1>3, <2>3 DEF m
<1>5. CASE HasTEEMarker(m)
  <2>1. ASSUME StartsWith(m, <<"tee", "/">>) PROVE "tee" \in Range(m)
    <3>1. <<"tee", "/">> \in Seq(Parts) /\ 1 \in 1..Len(<<"tee", "/">>)
      BY <1>2
    <3>2. <<"tee", "/">>[1] \in Range(m)
      BY <1>2, <2>1, <3>1, WordsOfParts
    <3> QED BY <3>2
  <2>2. ASSUME HasPart(m, <<"/", "tee", "/">>) PROVE "tee" \in Range(m)
    <3>1. <<"/", "tee", "/">> \in Seq(Parts) /\ 2 \in 1..Len(<<"/", "tee", "/">>)
      BY <1>2
    <3>2. <<"/", "tee", "/">>[2] \in Range(m)
      BY <1>2, <2>2, <3>1, WordsOfParts
    <3> QED BY <3>2
  <2>3. ASSUME HasPart(m, <<"-", "tee", "-">>) PROVE "tee" \in Range(m)
    <3>1. <<"-", "tee", "-">> \in Seq(Parts) /\ 2 \in 1..Len(<<"-", "tee", "-">>)
      BY <1>2
    <3>2. <<"-", "tee", "-">>[2] \in Range(m)
      BY <1>2, <2>3, <3>1, WordsOfParts
    <3> QED BY <3>2
  <2>4. ASSUME IsSuffix(<<"-", "tee">>, m) PROVE "tee" \in Range(m)
    <3> DEFINE r == Reverse(m)
               w == Reverse(<<"-", "tee">>)
    <3>1. /\ r = [i \in 1..Len(m) |-> m[Len(m) - i + 1]]
          /\ w = [i \in 1..2 |-> <<"-", "tee">>[2 - i + 1]]
      BY DEF Reverse
    <3>2. Len(m) \in Nat /\ DOMAIN m = 1..Len(m)
      BY <1>2
    <3>3. Len(w) = 2 /\ w[1] = "tee"
      <4>1. 1 \in 1..2 /\ 2 - 1 + 1 = 2 /\ <<"-", "tee">>[2] = "tee"
        OBVIOUS
      <4> QED BY <3>1, <4>1
    <3>4. Len(r) = Len(m)
      BY <3>1, <3>2
    <3>5. Len(m) >= 2
      BY <2>4, <3>3, <3>4 DEF IsSuffix, IsPrefix
    <3>6. r[1] = m[Len(m)]
      BY <3>1, <3>2, <3>5
    <3> HIDE DEF r, w
    <3>7. SubSeq(w, 1, 2) = SubSeq(r, 1, 2)
      BY <2>4, <3>3 DEF IsSuffix, IsPrefix, r, w
    <3>8. SubSeq(w, 1, 2)[1] = w[1] /\ SubSeq(r, 1, 2)[1] = r[1]
      OBVIOUS
    <3>9. m[Len(m)] = "tee" /\ Len(m) \in 1..Len(m)
      BY <3>2, <3>3, <3>5, <3>6, <3>7, <3>8
    <3> QED BY <3>2, <3>9 DEF Range
  <2>5. "tee" \in Range(m)
    BY <1>5, <2>1, <2>2, <2>3, <2>4 DEF HasTEEMarker, IsNanoGPTTEEModel
  <2> QED BY <1>3, <2>5 DEF m
<1> QED BY <1>3, <1>4, <1>5

-----------------------------------------------------------------------------
(***************************************************************************)
(* What a key lets through.                                                *)
(***************************************************************************)

\* What stands for no key is a set of names as well.
LEMMA NoKeyType == NoKey \subseteq Name
<1>1. <<>> \in Seq(STRING \cup Separators)
  BY EmptySeq
<1> QED BY <1>1 DEF NoKey, Name

\* The other names of a model are names.
LEMMA RespelledType ==
  ASSUME NEW m \in Name
  PROVE  Respelled(m) \subseteq Name
<1> DEFINE S == STRING \cup Separators
<1>1. m \in Seq(S) /\ Len(m) \in Nat /\ DOMAIN m = 1..Len(m) /\ \A i \in 1..Len(m) : m[i] \in S
  BY DEF Name
<1>2. ASSUME NEW p \in ProviderPrefixes PROVE p \o m \in Seq(S)
  <2>1. p \in Seq(S)
    BY PrefixAssumption DEF Name
  <2> HIDE DEF S
  <2> QED BY <1>1, <2>1, ConcatProperties
<1>3. ASSUME NEW i \in WordEnds(m), NEW sep \in Dashes, NEW d \in Dates
      PROVE  WithDate(m, i, sep, d) \in Seq(S)
  <2>1. sep \in S /\ d \in S
    BY WordAssumption DEF Separators, Dashes
  <2>2. i \in 1..Len(m)
    BY <1>1 DEF WordEnds
  <2> HIDE DEF S
  <2> QED BY <1>1, <2>1, <2>2, WithDateParts
<1>4. ASSUME NEW sep \in Separators
      PROVE  [i \in DOMAIN m |-> IF m[i] \in Separators THEN sep ELSE m[i]] \in Seq(S)
  BY <1>1
<1>5. Prefixed(m) \subseteq Seq(S) /\ Dated(m) \subseteq Seq(S) /\ Separated(m) \subseteq Seq(S)
  <2> HIDE DEF S
  <2>1. Prefixed(m) \subseteq Seq(S)
    BY <1>2 DEF Prefixed
  <2>2. Dated(m) \subseteq Seq(S)
    <3>1. \A i \in WordEnds(m), sep \in Dashes, d \in Dates :
            WithDate(m, i, sep, d) \in Seq(S)
      BY <1>3
    <3>2. ASSUME NEW x \in Dated(m) PROVE x \in Seq(S)
      <4>1. PICK i \in WordEnds(m), sep \in Dashes, d \in Dates :
               x = WithDate(m, i, sep, d)
        BY <3>2 DEF Dated
      <4> QED BY <3>1, <4>1, Zenon
    <3> QED BY <3>2, Zenon
  <2>3. Separated(m) \subseteq Seq(S)
    BY <1>4 DEF Separated
  <2> QED BY <2>1, <2>2, <2>3
<1> QED BY <1>1, <1>5 DEF Respelled, Name

\* A pattern without a wildcard is matched by nothing but itself.
LEMMA PlainPattern ==
  ASSUME NEW pattern \in Name, "*" \notin Range(pattern), NEW m, MatchesModel(pattern, m)
  PROVE  pattern = m
<1>1. /\ Len(pattern) \in Nat /\ DOMAIN pattern = 1..Len(pattern)
      /\ pattern \in Seq(STRING \cup Separators)
  BY DEF Name
<1>2. \A i \in 1..Len(pattern) : pattern[i] # "*"
  BY <1>1 DEF Range
<1>3. ~EndsWith(pattern, <<"/", "*">>)
  <2> SUFFICES ASSUME EndsWith(pattern, <<"/", "*">>) PROVE FALSE
    OBVIOUS
  <2> DEFINE r == Reverse(pattern)
             w == Reverse(<<"/", "*">>)
  <2>1. /\ r = [i \in 1..Len(pattern) |-> pattern[Len(pattern) - i + 1]]
        /\ w = [i \in 1..2 |-> <<"/", "*">>[2 - i + 1]]
    BY DEF Reverse
  <2>2. Len(w) = 2 /\ w[1] = "*" /\ Len(r) = Len(pattern) /\ r[1] = pattern[Len(pattern)]
    <3>1. 1 \in 1..2 /\ 2 - 1 + 1 = 2 /\ <<"/", "*">>[2] = "*"
      OBVIOUS
    <3>2. Len(w) = 2 /\ w[1] = "*"
      BY <2>1, <3>1
    <3>3. Len(r) = Len(pattern)
      BY <1>1, <2>1
    <3>4. Len(pattern) >= 2
      BY <3>2, <3>3 DEF EndsWith, IsSuffix, IsPrefix
    <3> QED BY <1>1, <2>1, <3>2, <3>3, <3>4
  <2> HIDE DEF r, w
  <2>3. Len(pattern) >= 2 /\ SubSeq(w, 1, 2) = SubSeq(r, 1, 2)
    BY <2>2 DEF EndsWith, IsSuffix, IsPrefix, r, w
  <2>4. SubSeq(w, 1, 2)[1] = w[1] /\ SubSeq(r, 1, 2)[1] = r[1]
    OBVIOUS
  <2> QED BY <1>1, <1>2, <2>2, <2>3, <2>4
<1>4. ~StartsWith(pattern, <<"*", "/">>)
  <2> SUFFICES ASSUME StartsWith(pattern, <<"*", "/">>) PROVE FALSE
    OBVIOUS
  <2>1. Len(pattern) >= 2 /\ SubSeq(<<"*", "/">>, 1, 2) = SubSeq(pattern, 1, 2)
    BY DEF StartsWith, IsPrefix
  <2>2. SubSeq(<<"*", "/">>, 1, 2)[1] = "*" /\ SubSeq(pattern, 1, 2)[1] = pattern[1]
    OBVIOUS
  <2> QED BY <1>1, <1>2, <2>1, <2>2
<1> QED BY <1>3, <1>4 DEF MatchesModel

\* Keys and rows hold names; a request that is at work has been let through by the
\* key it came with; and what it is routed to has the canonical name it asked for.
GrantInv ==
  /\ rows \subseteq Offered
  /\ key \subseteq Name /\ granted \subseteq Name /\ request \in Name
  /\ request = NoModel => granted = NoKey /\ outcome = ""
  /\ granted # NoKey /\ outcome \in {"", "routed"} => Allows(granted, request)
  /\ outcome = "routed" => /\ granted # NoKey /\ ModelsMatch(route.model, request)
                           /\ route \in Offered /\ Eligible(route)

\* It holds when there are no keys and no rows.
LEMMA GrantInit == Init => GrantInv
<1>1. <<>> \in Name
  BY NoKeyType DEF NoKey
<1> QED BY <1>1, NoKeyType DEF Init, GrantInv, NoModel

\* Every action keeps it.
LEMMA GrantStep == GrantInv /\ [Next]_vars => GrantInv'
<1> SUFFICES ASSUME GrantInv, [Next]_vars PROVE GrantInv'
  OBVIOUS
<1>9. Listed \subseteq Name
  <2>1. \A row \in rows : row.model \in Name
    BY NameAssumption DEF GrantInv
  <2> QED BY <2>1, CanonicalType DEF Listed
<1>1. CASE CreateAPIKey
  <2>1. key' \subseteq Name
    BY <1>1, <1>9, NameAssumption DEF CreateAPIKey, Keys
  <2> QED BY <1>1, <2>1 DEF CreateAPIKey, GrantInv, Allows
<1>2. CASE DeleteAPIKey
  <2>1. key' \subseteq Name
    BY <1>2, NoKeyType DEF DeleteAPIKey
  <2> QED BY <1>2, <2>1 DEF DeleteAPIKey, GrantInv, Allows
<1>3. CASE UpsertProviderModel
  <2>1. rows' \subseteq Offered
    BY <1>3 DEF UpsertProviderModel, GrantInv
  <2> QED BY <1>3, <2>1 DEF UpsertProviderModel, GrantInv, Allows
<1>4. CASE Ask
  <2>1. granted = NoKey /\ outcome = "" /\ UNCHANGED <<key, rows, granted, route, outcome>>
    BY <1>4 DEF Ask, GrantInv
  <2>2. \A row \in rows : row.model \in Name /\ Respelled(row.model) \subseteq Name
    BY NameAssumption, RespelledType DEF GrantInv
  <2>3. request' \in Name
    BY <1>4, <1>9, <2>2, NameAssumption DEF Ask
  <2> QED BY <2>1, <2>3 DEF GrantInv
<1>5. CASE AuthorizeRequest
  <2>1. /\ request # NoModel /\ granted' = key /\ UNCHANGED <<key, rows, request, route>>
        /\ outcome' = IF key = NoKey THEN "invalid_api_key"
                      ELSE IF Allows(key, request) THEN "" ELSE "model_not_allowed"
    BY <1>5 DEF AuthorizeRequest
  <2> QED BY <2>1 DEF GrantInv, Allows
<1>6. CASE SelectProvider
  <2>1. /\ granted # NoKey /\ outcome = "" /\ UNCHANGED <<key, rows, request, granted>>
        /\ \/ outcome' \in {"no_verified_provider", "no_suitable_provider"}
           \/ outcome' = "routed" /\ route' \in VerifiedModels(request) /\ Eligible(route')
    BY <1>6 DEF SelectProvider
  <2>2. request # NoModel /\ Allows(granted, request)
    BY <2>1 DEF GrantInv
  <2>3. outcome' = "routed" => /\ ModelsMatch(route'.model, request)
                                /\ route' \in Offered /\ Eligible(route')
    BY <2>1 DEF VerifiedModels, GrantInv
  <2> QED BY <2>1, <2>2, <2>3 DEF GrantInv, Allows, ModelsMatch, Eligible
<1>7. CASE Answer
  <2>1. /\ granted' = NoKey /\ outcome' = "" /\ granted' \subseteq Name
        /\ request' = NoModel /\ request' \in Name
    BY <1>7, NoKeyType DEF Answer, NoKey, NoModel
  <2> QED BY <1>7, <2>1 DEF Answer, GrantInv
<1>8. CASE UNCHANGED vars
  BY <1>8 DEF vars, GrantInv, Allows, ModelsMatch, Eligible
<1> QED BY <1>1, <1>2, <1>3, <1>4, <1>5, <1>6, <1>7, <1>8 DEF Next

\* A key without wildcards keeps to its models: whatever answers is one that the key
\* names under some spelling, though the handler matches the name as it came, the
\* query goes by canonical names, and the key may be replaced between the two.
THEOREM KeysNameTheirModels == Spec => []KeyKeepsToItsModels
<1>1. Init => GrantInv
  BY GrantInit
<1>2. GrantInv => KeyKeepsToItsModels
  <2> SUFFICES ASSUME GrantInv, outcome = "routed", granted # {},
                      \A pattern \in granted : "*" \notin Range(pattern)
               PROVE  \E pattern \in granted : ModelsMatch(pattern, route.model)
    BY DEF KeyKeepsToItsModels
  <2>1. PICK pattern \in granted : MatchesModel(pattern, request)
    BY DEF GrantInv, Allows
  <2>2. pattern = request
    BY <2>1, PlainPattern DEF GrantInv
  <2> QED BY <2>2 DEF GrantInv, ModelsMatch
<1> QED BY <1>1, <1>2, GrantStep, PTL DEF Spec

\* A request for a family that is hosted elsewhere, under any prefixes, dates,
\* versions, separators and aliases of one family, is served by no provider that
\* serves whatever is not known, whatever rows were stored: the row that answers has
\* the canonical name that was asked for, so the policy knows it.
THEOREM RemoteFamiliesAreNotServed == Spec => []HostedElsewhereIsNotServed
<1>1. GrantInv => HostedElsewhereIsNotServed
  <2> SUFFICES ASSUME GrantInv, outcome = "routed",
                      NEW family \in Families, IsOf(StripProviderPrefix(request), family)
               PROVE  /\ route.provider \in {"nanogpt", "ppq", "ppq-private", "chutes"}
                      /\ Range(route.model) \cap {"tee", "private"} # {}
    BY DEF HostedElsewhereIsNotServed
  <2>1. /\ request \in Name /\ ModelsMatch(route.model, request) /\ Eligible(route)
        /\ route \in [provider : STRING, model : Name]
    BY NameAssumption DEF GrantInv
  <2>2. route.model \in Name
    BY <2>1
  <2>3. HasFamily(CanonicalModelName(request), family)
    BY <2>1, CanonicalFamily
  <2>4. HasFamily(CanonicalModelName(route.model), family)
    BY <2>1, <2>3 DEF ModelsMatch
  <2>5. IsKnownRemoteHostedModel(route.model)
    BY <2>2, <2>4, FamilyIsRemote
  <2> QED BY <2>1, <2>5, RemoteIsMarked
<1> QED BY <1>1, GrantInit, GrantStep, PTL DEF Spec

\* The name of a servable row's model as /v1/models lists it, written into a key and
\* asked for, passes the match, the query and the policy, as long as its canonical
\* form is itself.
THEOREM CopiedNamesAreServed == Spec => CopiedNameIsServed
<1>1. ASSUME NEW row \in rows, Eligible(row), outcome = "",
             request = CanonicalModelName(row.model), CanonicalModelName(request) = request,
             IF granted = NoKey THEN request \in key ELSE request \in granted, [Next]_vars
      PROVE  outcome' \in {"", "routed"}
  <2>1. CASE AuthorizeRequest
    <3>1. request # NoModel /\ granted = NoKey /\ request \in key
      BY <1>1, <2>1 DEF AuthorizeRequest
    <3>2. key # NoKey /\ Allows(key, request)
      BY <3>1 DEF NoKey, NoModel, Allows, MatchesModel
    <3> QED BY <2>1, <3>2 DEF AuthorizeRequest
  <2>2. CASE SelectProvider
    <3>1. row \in VerifiedModels(request)
      BY <1>1 DEF VerifiedModels, ModelsMatch
    <3> QED BY <1>1, <2>2, <3>1 DEF SelectProvider
  <2>3. CASE \/ CreateAPIKey \/ DeleteAPIKey \/ UpsertProviderModel \/ Ask \/ Answer
             \/ UNCHANGED vars
    BY <1>1, <2>3 DEF CreateAPIKey, DeleteAPIKey, UpsertProviderModel, Ask, Answer, vars
  <2> QED BY <1>1, <2>1, <2>2, <2>3 DEF Next
<1> DEFINE Served == \A row \in rows : LET name == CanonicalModelName(row.model) IN
        /\ Eligible(row)
        /\ outcome = "" /\ request = name /\ CanonicalModelName(name) = name
        /\ IF granted = NoKey THEN name \in key ELSE name \in granted
        => outcome' \in {"", "routed"}
<1>2. [Next]_vars => [Served]_vars
  BY <1>1
<1> QED BY <1>2, PTL DEF Spec, CopiedNameIsServed

\* A client finds the servable row of a model under whatever prefix, date or
\* separators it writes it with: each has the canonical name of the row's own, by
\* which the query compares, and a row that the policy refuses does not hide it.
THEOREM SpellingsFindTheRow == Spec => SpellingDoesNotMatter
<1> DEFINE Found == outcome = "" /\ outcome' \in {"no_verified_provider", "no_suitable_provider"} =>
                      \A row \in rows : Eligible(row) => request \notin Respelled(row.model)
<1>1. ASSUME GrantInv, [Next]_vars PROVE Found
  <2> SUFFICES ASSUME outcome = "", outcome' \in {"no_verified_provider", "no_suitable_provider"},
                      NEW row \in rows, Eligible(row), request \in Respelled(row.model)
               PROVE  FALSE
    OBVIOUS
  <2>1. CASE SelectProvider
    <3>1. \A o \in VerifiedModels(request) : ~Eligible(o)
      BY <2>1 DEF SelectProvider
    <3>2. row.model \in Name
      BY <1>1, NameAssumption DEF GrantInv
    <3>3. ModelsMatch(row.model, request)
      BY <3>2, RespelledCanonical
    <3> QED BY <3>1, <3>3 DEF VerifiedModels
  <2>2. CASE AuthorizeRequest
    BY <2>2 DEF AuthorizeRequest
  <2>3. CASE \/ CreateAPIKey \/ DeleteAPIKey \/ UpsertProviderModel \/ Ask \/ Answer
             \/ UNCHANGED vars
    BY <2>3 DEF CreateAPIKey, DeleteAPIKey, UpsertProviderModel, Ask, Answer, vars
  <2> QED BY <1>1, <2>1, <2>2, <2>3 DEF Next
<1>2. GrantInv /\ [Next]_vars => [Found]_vars
  BY <1>1
<1> QED BY <1>2, GrantInit, GrantStep, PTL DEF Spec, SpellingDoesNotMatter

=============================================================================
