----------------------------- MODULE FilterProofs -----------------------------
(***************************************************************************)
(* What Kept leaves of a sequence: a sequence of the elements that are in  *)
(* the set, each of them.                                                  *)
(***************************************************************************)
EXTENDS Filters, SequencesExt, FiniteSetTheorems, TLAPS

(* The ranks of a finite set of places are the numbers up to their count,  *)
(* one for each place.                                                     *)
LEMMA RanksAreCounted ==
  ASSUME NEW P \in SUBSET Nat, IsFiniteSet(P)
  PROVE  /\ Cardinality(P) \in Nat
         /\ \A i \in P : Rank(i, P) \in 1..Cardinality(P)
         /\ \A i, j \in P : Rank(i, P) = Rank(j, P) => i = j
         /\ \A n \in 1..Cardinality(P) : \E i \in P : Rank(i, P) = n
<1> DEFINE Upto(i) == {j \in P : j <= i}
<1>1. Cardinality(P) \in Nat
  BY FS_CardinalityType
<1>2. ASSUME NEW i \in P
      PROVE  /\ IsFiniteSet(Upto(i)) /\ Upto(i) \in SUBSET P /\ i \in Upto(i)
             /\ Rank(i, P) = Cardinality(Upto(i))
             /\ Rank(i, P) \in 1..Cardinality(P)
  <2>1. Upto(i) \in SUBSET P /\ i \in Upto(i)
    OBVIOUS
  <2>2. IsFiniteSet(Upto(i)) /\ Cardinality(Upto(i)) <= Cardinality(P)
    BY <2>1, FS_Subset
  <2>3. Cardinality(Upto(i)) \in Nat /\ Cardinality(Upto(i)) # 0
    BY <2>1, <2>2, FS_CardinalityType, FS_EmptySet
  <2> QED
    BY <1>1, <2>1, <2>2, <2>3 DEF Rank
<1>3. ASSUME NEW i \in P, NEW j \in P, i < j PROVE Rank(i, P) # Rank(j, P)
  <2>1. Upto(i) \in SUBSET Upto(j) /\ j \in Upto(j) /\ j \notin Upto(i)
    <3>1. i \in Nat /\ j \in Nat /\ \A k \in P : k \in Nat /\ (k <= i => k <= j)
      BY <1>3
    <3>2. j <= j /\ ~(j <= i)
      BY <1>3, <3>1
    <3> QED
      BY <3>1, <3>2
  <2>2. Upto(i) # Upto(j)
    BY <2>1
  <2> HIDE DEF Upto
  <2>3. Cardinality(Upto(i)) # Cardinality(Upto(j))
    BY <1>2, <2>1, <2>2, FS_Subset
  <2> QED
    BY <1>2, <2>3
<1>4. \A i, j \in P : Rank(i, P) = Rank(j, P) => i = j
  BY <1>3
<1>5. \A n \in 1..Cardinality(P) : \E i \in P : Rank(i, P) = n
  <2> DEFINE N == 1..Cardinality(P)
             f == [i \in P |-> Rank(i, P)]
  <2>1. f \in Injection(P, N)
    BY <1>2, <1>4 DEF Injection, IsInjective
  <2>2. IsFiniteSet(N) /\ Cardinality(N) = Cardinality(P)
    BY <1>1, FS_Interval
  <2> HIDE DEF f, N
  <2>3. f \in Surjection(P, N)
    BY <2>1, <2>2, FS_Injection
  <2> QED
    BY <2>3 DEF Surjection, f, N
<1> QED
  BY <1>1, <1>2, <1>4, <1>5

(* Kept is a sequence, of elements of the sequence that are in the set, and *)
(* misses none of them.                                                    *)
LEMMA KeptIsWhatIsIn ==
  ASSUME NEW S, NEW s \in Seq(S), NEW T
  PROVE  /\ Kept(s, T) \in Seq(S)
         /\ ToSet(Kept(s, T)) = ToSet(s) \cap T
         /\ Len(Kept(s, T)) <= Len(s)
<1> DEFINE P == Places(s, T)
           At(n) == CHOOSE i \in P : Rank(i, P) = n
<1>1. P \in SUBSET Nat /\ P \in SUBSET (1..Len(s)) /\ Len(s) \in Nat /\ DOMAIN s = 1..Len(s)
  BY DEF Places
<1>2. IsFiniteSet(1..Len(s)) /\ Cardinality(1..Len(s)) = Len(s)
  BY <1>1, FS_Interval
<1>3. IsFiniteSet(P) /\ Cardinality(P) <= Len(s) /\ Cardinality(P) \in Nat
  <2> HIDE DEF P
  <2>1. IsFiniteSet(P) /\ Cardinality(P) <= Cardinality(1..Len(s))
    BY <1>1, <1>2, FS_Subset
  <2> QED
    BY <2>1, <1>2, FS_CardinalityType
<1>4. Kept(s, T) = [n \in 1..Cardinality(P) |-> s[At(n)]]
  BY DEF Kept
<1>5. \A i \in P : s[i] \in S /\ s[i] \in T /\ i \in DOMAIN s
  BY <1>1 DEF Places
<1>6. \A i \in DOMAIN s : s[i] \in T => i \in P
  BY DEF Places
<1> HIDE DEF P
<1>7. \A n \in 1..Cardinality(P) : At(n) \in P /\ Rank(At(n), P) = n
  BY <1>1, <1>3, RanksAreCounted
<1>8. \A i \in P : Rank(i, P) \in 1..Cardinality(P) /\ At(Rank(i, P)) = i
  BY <1>1, <1>3, <1>7, RanksAreCounted
<1> HIDE DEF At
<1>9. /\ Kept(s, T) \in Seq(S) /\ DOMAIN Kept(s, T) = 1..Cardinality(P)
      /\ Len(Kept(s, T)) = Cardinality(P)
  BY <1>3, <1>4, <1>5, <1>7
<1>10. ToSet(Kept(s, T)) = ToSet(s) \cap T
  <2>1. ASSUME NEW x \in ToSet(Kept(s, T)) PROVE x \in ToSet(s) \cap T
    BY <2>1, <1>4, <1>5, <1>7, <1>9 DEF ToSet
  <2>2. ASSUME NEW x \in ToSet(s) \cap T PROVE x \in ToSet(Kept(s, T))
    BY <2>2, <1>4, <1>6, <1>8, <1>9 DEF ToSet
  <2> QED
    BY <2>1, <2>2
<1> QED
  BY <1>3, <1>9, <1>10

(* A sequence has no more elements than places. *)
LEMMA ElementsOfSeq ==
  ASSUME NEW S, NEW s \in Seq(S)
  PROVE  /\ IsFiniteSet(ToSet(s)) /\ Cardinality(ToSet(s)) \in Nat
         /\ Cardinality(ToSet(s)) <= Len(s)
<1>1. IsFiniteSet(1..Len(s)) /\ Cardinality(1..Len(s)) = Len(s)
  <2>1. Len(s) \in Nat
    OBVIOUS
  <2> QED
    BY <2>1, FS_Interval
<1>2. s \in Surjection(1..Len(s), ToSet(s))
  BY DEF Surjection, ToSet
<1> QED
  BY <1>1, <1>2, FS_Surjection, FS_CardinalityType

(* SetToSeqs lists a finite set: sequences of all its elements. *)
LEMMA ListsOfSet ==
  ASSUME NEW S, IsFiniteSet(S), NEW s \in SetToSeqs(S)
  PROVE  s \in Seq(S) /\ ToSet(s) = S
<1> DEFINE N == 1..Cardinality(S)
<1>1. Cardinality(S) \in Nat
  BY FS_CardinalityType
<1>2. s \in [N -> S] /\ \A i, j \in N : i # j => s[i] # s[j]
  BY DEF SetToSeqs
<1>3. s \in Injection(N, S)
  BY <1>2 DEF Injection, IsInjective
<1>4. IsFiniteSet(N) /\ Cardinality(N) = Cardinality(S)
  BY <1>1, FS_Interval
<1>5. s \in Surjection(N, S)
  <2> HIDE DEF N
  <2> QED  BY <1>3, <1>4, FS_Injection
<1> QED
  BY <1>1, <1>2, <1>5 DEF Surjection, ToSet

(* Concatenation, as sets. *)
LEMMA ElementsOfBoth ==
  ASSUME NEW S, NEW s \in Seq(S), NEW t \in Seq(S)
  PROVE  s \o t \in Seq(S) /\ ToSet(s \o t) = ToSet(s) \cup ToSet(t)
<1>1. /\ s \o t \in Seq(S) /\ Len(s \o t) = Len(s) + Len(t)
      /\ Len(s) \in Nat /\ Len(t) \in Nat
      /\ DOMAIN s = 1..Len(s) /\ DOMAIN t = 1..Len(t) /\ DOMAIN (s \o t) = 1..(Len(s) + Len(t))
      /\ \A i \in 1..Len(s) : (s \o t)[i] = s[i]
      /\ \A i \in 1..Len(t) : (s \o t)[Len(s) + i] = t[i] /\ Len(s) + i \in 1..(Len(s) + Len(t))
  OBVIOUS
<1>2. ASSUME NEW i \in 1..(Len(s) + Len(t))
      PROVE  (s \o t)[i] \in ToSet(s) \cup ToSet(t)
  <2>1. CASE i <= Len(s)
    BY <1>1, <2>1 DEF ToSet
  <2>2. CASE i > Len(s)
    <3>1. i - Len(s) \in 1..Len(t) /\ i = Len(s) + (i - Len(s))
      BY <1>1, <2>2
    <3> QED
      BY <1>1, <3>1 DEF ToSet
  <2> QED
    BY <1>1, <2>1, <2>2
<1>3. ToSet(s) \subseteq ToSet(s \o t)
  BY <1>1 DEF ToSet
<1>4. ToSet(t) \subseteq ToSet(s \o t)
  BY <1>1 DEF ToSet
<1>5. ToSet(s \o t) \subseteq ToSet(s) \cup ToSet(t)
  BY <1>1, <1>2 DEF ToSet
<1> QED
  BY <1>1, <1>3, <1>4, <1>5

(* Where an element of a concatenation stands. *)
LEMMA PlacesOfBoth ==
  ASSUME NEW S, NEW s \in Seq(S), NEW t \in Seq(S)
  PROVE  /\ s \o t \in Seq(S)
         /\ \A i \in DOMAIN s : i \in DOMAIN (s \o t) /\ (s \o t)[i] = s[i]
         /\ \A i \in DOMAIN (s \o t) : i \in DOMAIN s \/
              (i > Len(s) /\ i - Len(s) \in DOMAIN t /\ (s \o t)[i] = t[i - Len(s)])
<1>1. /\ s \o t \in Seq(S) /\ Len(s \o t) = Len(s) + Len(t)
      /\ Len(s) \in Nat /\ Len(t) \in Nat
      /\ DOMAIN s = 1..Len(s) /\ DOMAIN t = 1..Len(t) /\ DOMAIN (s \o t) = 1..(Len(s) + Len(t))
      /\ \A i \in 1..Len(s) : (s \o t)[i] = s[i]
      /\ \A i \in 1..Len(t) : (s \o t)[Len(s) + i] = t[i]
  OBVIOUS
<1>2. ASSUME NEW i \in 1..(Len(s) + Len(t)), i \notin 1..Len(s)
      PROVE  i > Len(s) /\ i - Len(s) \in 1..Len(t) /\ (s \o t)[i] = t[i - Len(s)]
  <2>1. i > Len(s) /\ i - Len(s) \in 1..Len(t) /\ i = Len(s) + (i - Len(s))
    BY <1>1, <1>2
  <2> QED
    BY <1>1, <2>1
<1>3. \A i \in 1..Len(s) : i \in 1..(Len(s) + Len(t))
  BY <1>1
<1> QED
  BY <1>1, <1>2, <1>3

(* Concatenation is associative. *)
LEMMA InAnyGrouping ==
  ASSUME NEW S, NEW s \in Seq(S), NEW t \in Seq(S), NEW u \in Seq(S)
  PROVE  (s \o t) \o u = s \o (t \o u)
OBVIOUS
=============================================================================
