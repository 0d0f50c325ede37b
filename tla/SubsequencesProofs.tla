------------------------- MODULE SubsequencesProofs -------------------------
(***************************************************************************)
(* Facts about Keep, FlattenSeq and folds.  Each is an induction over the  *)
(* length of a sequence; the library's induction rules take an operator    *)
(* that no prover here can instantiate, so the rule is stated for sets of  *)
(* numbers and follows from the well-foundedness of < on Nat.  What is     *)
(* folded is a constant for the same reason: who needs it instantiates     *)
(* this module with it.                                                    *)
(***************************************************************************)
EXTENDS Subsequences, SequencesExt, SequenceTheorems, WellFoundedInduction, TLAPS

CONSTANT Op(_, _)   \* the operator of the folds

\* Every nonempty set of natural numbers has a least element.
LEMMA LeastNumber ==
  ASSUME NEW T \in SUBSET Nat, T # {}
  PROVE \E n \in T : \A m \in T : n <= m
  <1> DEFINE R == OpToRel(<, Nat)
  <1>1. IsWellFoundedOn(R, Nat)
    BY NatLessThanWellFounded
  <1>2. \A m, n \in Nat : <<m, n>> \in R <=> m < n
    BY DEF OpToRel
  <1> HIDE DEF R
  <1>3. PICK n \in T : \A m \in T : ~ (<<m, n>> \in R)
    BY <1>1, WFMin
  <1>4. ASSUME NEW m \in T PROVE n <= m
    <2>1. m \in Nat /\ n \in Nat
      OBVIOUS
    <2>2. ~ (m < n)
      BY <1>2, <1>3, <2>1
    <2>3. QED
      BY <2>1, <2>2
  <1>5. QED
    BY <1>4

\* Induction, for a set of numbers.
LEMMA SetInduction ==
  ASSUME NEW T \in SUBSET Nat, 0 \in T, \A n \in T : n + 1 \in T
  PROVE T = Nat
  <1>1. SUFFICES ASSUME Nat \ T # {} PROVE FALSE
    OBVIOUS
  <1>2. PICK n \in Nat \ T : \A m \in Nat \ T : n <= m
    BY <1>1, LeastNumber
  <1>3. n # 0 /\ n - 1 \in Nat /\ n - 1 \in T
    BY <1>2
  <1>4. (n - 1) + 1 \in T
    BY <1>3
  <1>5. QED
    BY <1>2, <1>3, <1>4

\* One step of the loop.
Looped(s, S, kept, n) == IF n = 0 THEN <<>>
                         ELSE IF s[n] \in S THEN Append(kept[n - 1], s[n])
                         ELSE kept[n - 1]

\* The loop has a result for any number of steps.
LEMMA KeptExists ==
  ASSUME NEW s, NEW S, NEW n \in Nat
  PROVE \E F : F = [i \in 0 .. n |-> Looped(s, S, F, i)]
  <1> DEFINE T == {m \in Nat : \E F : F = [i \in 0 .. m |-> Looped(s, S, F, i)]}
  <1>1. 0 \in T
    <2> DEFINE F == [i \in 0 .. 0 |-> <<>>]
    <2>1. F = [i \in 0 .. 0 |-> Looped(s, S, F, i)]
      BY DEF Looped
    <2>2. QED
      BY <2>1
  <1>2. ASSUME NEW m \in T PROVE m + 1 \in T
    <2>1. PICK G : G = [i \in 0 .. m |-> Looped(s, S, G, i)]
      OBVIOUS
    <2> DEFINE H == [i \in 0 .. m + 1 |-> IF i = m + 1 THEN Looped(s, S, G, i) ELSE G[i]]
    <2>2. \A i \in 0 .. m : G[i] = Looped(s, S, G, i)
      BY <2>1, Zenon
    <2>3. ASSUME NEW i \in 0 .. m + 1
          PROVE H[i] = Looped(s, S, H, i)
      <3>1. i # 0 => i - 1 \in 0 .. m /\ H[i - 1] = G[i - 1]
        OBVIOUS
      <3>2. Looped(s, S, H, i) = Looped(s, S, G, i)
        BY <3>1 DEF Looped
      <3>3. i # m + 1 => i \in 0 .. m
        OBVIOUS
      <3>4. QED
        BY <2>2, <3>2, <3>3
    <2>4. H = [i \in 0 .. m + 1 |-> Looped(s, S, H, i)]
      <3>1. H = [i \in 0 .. m + 1 |-> H[i]]
        OBVIOUS
      <3> HIDE DEF H
      <3>2. QED
        BY <2>3, <3>1
    <2> HIDE DEF H
    <2>5. m + 1 \in Nat
      OBVIOUS
    <2>6. QED
      BY <2>4, <2>5
  <1> HIDE DEF T
  <1>3. T \in SUBSET Nat
    BY DEF T
  <1>4. T = Nat
    BY <1>1, <1>2, <1>3, SetInduction
  <1>5. QED
    BY <1>4 DEF T

\* Keep is the result of the loop.
LEMMA KeepLoop ==
  ASSUME NEW A, NEW s \in Seq(A), NEW S
  PROVE \E F : /\ Keep(s, S) = F[Len(s)]
               /\ \A i \in 0 .. Len(s) : F[i] = Looped(s, S, F, i)
  <1> DEFINE F == CHOOSE F : F = [i \in 0 .. Len(s) |-> Looped(s, S, F, i)]
  <1>1. Len(s) \in Nat
    OBVIOUS
  <1>2. F = [i \in 0 .. Len(s) |-> Looped(s, S, F, i)]
    BY <1>1, KeptExists
  <1>3. Keep(s, S) = F[Len(s)]
    BY DEF Keep, Looped
  <1> HIDE DEF F
  <1>4. \A i \in 0 .. Len(s) : F[i] = Looped(s, S, F, i)
    BY <1>2, Zenon
  <1>5. QED
    BY <1>3, <1>4

\* t has the elements of s in S: f says where in s each of them was.
Places(f, t, s, n, S) ==
    /\ f \in [1 .. Len(t) -> 1 .. n]
    /\ \A i, j \in 1 .. Len(t) : i < j => f[i] < f[j]
    /\ \A j \in 1 .. Len(t) : t[j] = s[f[j]]
    /\ \A i \in 1 .. n : s[i] \in S <=> \E j \in 1 .. Len(t) : f[j] = i

LEMMA PlacesGrow ==
  ASSUME NEW A, NEW s \in Seq(A), NEW S, NEW n \in 1 .. Len(s), NEW t \in Seq(A), NEW f,
         Places(f, t, s, n - 1, S), s[n] \in S
  PROVE \E g : Places(g, Append(t, s[n]), s, n, S)
  <1> DEFINE u == Append(t, s[n])
             g == [j \in 1 .. Len(t) + 1 |-> IF j = Len(t) + 1 THEN n ELSE f[j]]
  <1>1. /\ s[n] \in A /\ Len(t) \in Nat /\ Len(u) = Len(t) + 1
        /\ \A j \in 1 .. Len(t) : u[j] = t[j]
        /\ u[Len(t) + 1] = s[n]
    BY ElementOfSeq, AppendProperties
  <1> HIDE DEF u
  <1>2. /\ f \in [1 .. Len(t) -> 1 .. n - 1]
        /\ \A i, j \in 1 .. Len(t) : i < j => f[i] < f[j]
        /\ \A j \in 1 .. Len(t) : t[j] = s[f[j]]
        /\ \A i \in 1 .. n - 1 : s[i] \in S <=> \E j \in 1 .. Len(t) : f[j] = i
    BY DEF Places
  <1>3. /\ \A j \in 1 .. Len(t) : g[j] = f[j] /\ f[j] \in 1 .. n - 1
        /\ g[Len(t) + 1] = n
    BY <1>1, <1>2
  <1>4. g \in [1 .. Len(u) -> 1 .. n]
    BY <1>1, <1>2
  <1> HIDE DEF g
  <1>5. ASSUME NEW i \in 1 .. Len(u), NEW j \in 1 .. Len(u), i < j PROVE g[i] < g[j]
    <2>1. i \in 1 .. Len(t)
      BY <1>1, <1>5
    <2>2. CASE j \in 1 .. Len(t)
      BY <1>2, <1>3, <1>5, <2>1, <2>2
    <2>3. CASE j = Len(t) + 1
      BY <1>3, <2>1, <2>3
    <2>4. QED
      BY <1>1, <2>2, <2>3
  <1>6. ASSUME NEW j \in 1 .. Len(u) PROVE u[j] = s[g[j]]
    <2>1. CASE j \in 1 .. Len(t)
      BY <1>1, <1>2, <1>3, <2>1
    <2>2. CASE j = Len(t) + 1
      BY <1>1, <1>3, <2>2
    <2>3. QED
      BY <1>1, <2>1, <2>2
  <1>7. ASSUME NEW i \in 1 .. n PROVE s[i] \in S <=> \E j \in 1 .. Len(u) : g[j] = i
    <2>1. CASE i = n
      BY <1>1, <1>3, <2>1
    <2>2. CASE i \in 1 .. n - 1
      <3>1. ASSUME s[i] \in S PROVE \E j \in 1 .. Len(u) : g[j] = i
        <4>1. PICK j \in 1 .. Len(t) : f[j] = i
          BY <1>2, <2>2, <3>1
        <4>2. j \in 1 .. Len(u) /\ g[j] = i
          BY <1>1, <1>3, <4>1
        <4>3. QED
          BY <4>2
      <3>2. ASSUME NEW j \in 1 .. Len(u), g[j] = i PROVE s[i] \in S
        <4>1. j \in 1 .. Len(t)
          BY <1>1, <1>3, <2>2, <3>2
        <4>2. QED
          BY <1>2, <1>3, <2>2, <3>2, <4>1
      <3>3. QED
        BY <3>1, <3>2
    <2>3. QED
      BY <2>1, <2>2
  <1>8. Places(g, u, s, n, S)
    BY <1>4, <1>5, <1>6, <1>7 DEF Places
  <1>9. QED
    BY <1>8 DEF u

LEMMA PlacesStay ==
  ASSUME NEW A, NEW s \in Seq(A), NEW S, NEW n \in 1 .. Len(s), NEW t \in Seq(A), NEW f,
         Places(f, t, s, n - 1, S), s[n] \notin S
  PROVE Places(f, t, s, n, S)
  <1>1. /\ f \in [1 .. Len(t) -> 1 .. n - 1]
        /\ \A i, j \in 1 .. Len(t) : i < j => f[i] < f[j]
        /\ \A j \in 1 .. Len(t) : t[j] = s[f[j]]
        /\ \A i \in 1 .. n - 1 : s[i] \in S <=> \E j \in 1 .. Len(t) : f[j] = i
    BY DEF Places
  <1>2. f \in [1 .. Len(t) -> 1 .. n]
    BY <1>1
  <1>3. \A i \in 1 .. n : i = n \/ i \in 1 .. n - 1
    OBVIOUS
  <1>4. \A j \in 1 .. Len(t) : f[j] # n
    BY <1>1
  <1>5. QED
    BY <1>1, <1>2, <1>3, <1>4 DEF Places

\* Keep(s, S) is a subsequence of s: exactly the elements in S, each once per
\* place, in their order.
LEMMA KeepPlaces ==
  ASSUME NEW A, NEW s \in Seq(A), NEW S
  PROVE /\ Keep(s, S) \in Seq(A)
        /\ \E f : Places(f, Keep(s, S), s, Len(s), S)
  <1>1. PICK F : /\ Keep(s, S) = F[Len(s)]
                 /\ \A i \in 0 .. Len(s) : F[i] = Looped(s, S, F, i)
    BY KeepLoop
  <1> DEFINE Right(n) == F[n] \in Seq(A) /\ \E f : Places(f, F[n], s, n, S)
             T == {n \in Nat : n <= Len(s) => Right(n)}
  <1>2. Len(s) \in Nat
    OBVIOUS
  <1>3. Right(0)
    <2>1. F[0] = <<>>
      BY <1>1, <1>2 DEF Looped
    <2>2. <<>> \in Seq(A) /\ Len(<<>>) = 0
      BY EmptySeq
    <2>3. Places(<<>>, <<>>, s, 0, S)
      <3>1. 1 .. 0 = {}
        OBVIOUS
      <3>2. <<>> \in [1 .. Len(<<>>) -> 1 .. 0]
        BY <2>2, <3>1
      <3>3. QED
        BY <2>2, <3>1, <3>2 DEF Places
    <2>4. QED
      BY <2>1, <2>2, <2>3
  <1>4. ASSUME NEW n \in T, n + 1 <= Len(s) PROVE Right(n + 1)
    <2>1. n \in Nat /\ n + 1 \in 1 .. Len(s) /\ n + 1 # 0 /\ (n + 1) - 1 = n
      BY <1>2, <1>4
    <2>2. PICK f : F[n] \in Seq(A) /\ Places(f, F[n], s, n, S)
      BY <1>2, <1>4, <2>1
    <2>3. F[n + 1] = IF s[n + 1] \in S THEN Append(F[n], s[n + 1]) ELSE F[n]
      BY <1>1, <2>1 DEF Looped
    <2>4. CASE s[n + 1] \in S
      <3>1. Append(F[n], s[n + 1]) \in Seq(A)
        BY <2>1, <2>2, ElementOfSeq, AppendProperties
      <3>2. \E g : Places(g, Append(F[n], s[n + 1]), s, n + 1, S)
        BY <2>1, <2>2, <2>4, PlacesGrow
      <3>3. QED
        BY <2>3, <2>4, <3>1, <3>2
    <2>5. CASE s[n + 1] \notin S
      <3>1. Places(f, F[n], s, n + 1, S)
        BY <2>1, <2>2, <2>5, PlacesStay
      <3>2. QED
        BY <2>2, <2>3, <2>5, <3>1
    <2>6. QED
      BY <2>4, <2>5
  <1>5. 0 \in T /\ T \in SUBSET Nat
    BY <1>3
  <1> HIDE DEF Right
  <1>6. ASSUME NEW n \in T PROVE n + 1 \in T
    <2>1. n + 1 \in Nat
      OBVIOUS
    <2>2. n + 1 <= Len(s) => Right(n + 1)
      BY <1>4
    <2>3. QED
      BY <2>1, <2>2
  <1> HIDE DEF T
  <1>7. T = Nat
    BY <1>5, <1>6, SetInduction
  <1>8. Right(Len(s))
    BY <1>2, <1>7 DEF T
  <1>9. QED
    BY <1>1, <1>8 DEF Right

\* What is kept of a sequence is in it and in the set, and the reverse.
LEMMA KeepElements ==
  ASSUME NEW A, NEW s \in Seq(A), NEW S, NEW x
  PROVE (\E j \in 1 .. Len(Keep(s, S)) : Keep(s, S)[j] = x)
          <=> (x \in S /\ \E i \in 1 .. Len(s) : s[i] = x)
  <1> DEFINE t == Keep(s, S)
  <1>1. PICK f : Places(f, t, s, Len(s), S)
    BY KeepPlaces
  <1> HIDE DEF t
  <1>2. /\ \A j \in 1 .. Len(t) : t[j] = s[f[j]] /\ f[j] \in 1 .. Len(s)
        /\ \A i \in 1 .. Len(s) : s[i] \in S <=> \E j \in 1 .. Len(t) : f[j] = i
    BY <1>1 DEF Places
  <1>3. QED
    BY <1>2 DEF t

\* What occurs twice in the rest occurred twice before.
LEMMA KeepTwice ==
  ASSUME NEW A, NEW s \in Seq(A), NEW S,
         NEW i \in 1 .. Len(Keep(s, S)), NEW j \in 1 .. Len(Keep(s, S)), i # j,
         Keep(s, S)[i] = Keep(s, S)[j]
  PROVE \E k, l \in 1 .. Len(s) : k # l /\ s[k] = Keep(s, S)[i] /\ s[l] = Keep(s, S)[i]
  <1> DEFINE t == Keep(s, S)
  <1>1. PICK f : Places(f, t, s, Len(s), S)
    BY KeepPlaces
  <1>2. Len(t) \in Nat
    BY KeepPlaces
  <1> HIDE DEF t
  <1>3. f[i] # f[j]
    BY <1>1, <1>2 DEF Places, t
  <1>4. QED
    BY <1>1, <1>3 DEF Places, t

\* What is kept of one more element.
LEMMA KeepAppend ==
  ASSUME NEW A, NEW s \in Seq(A), NEW n \in 1 .. Len(s), NEW S
  PROVE Keep(SubSeq(s, 1, n), S) = IF s[n] \in S
                                   THEN Append(Keep(SubSeq(s, 1, n - 1), S), s[n])
                                   ELSE Keep(SubSeq(s, 1, n - 1), S)
  <1> DEFINE t == SubSeq(s, 1, n)
             u == SubSeq(s, 1, n - 1)
  <1>1. Len(s) \in Nat /\ n \in Nat /\ n - 1 \in Nat /\ \A k \in 1 .. Len(s) : s[k] \in A
    OBVIOUS
  <1>2. /\ t \in Seq(A) /\ Len(t) = n /\ \A k \in 1 .. n : t[k] = s[k]
        /\ u \in Seq(A) /\ Len(u) = n - 1 /\ \A k \in 1 .. n - 1 : u[k] = s[k]
    BY <1>1, SubSeqProperties
  <1> HIDE DEF t, u
  <1>3. PICK F : /\ Keep(t, S) = F[n]
                 /\ \A k \in 0 .. n : F[k] = Looped(t, S, F, k)
    BY <1>2, KeepLoop
  <1>4. PICK G : /\ Keep(u, S) = G[n - 1]
                 /\ \A k \in 0 .. n - 1 : G[k] = Looped(u, S, G, k)
    BY <1>2, KeepLoop
  <1> DEFINE T == {m \in Nat : m <= n - 1 => F[m] = G[m]}
  <1>5. 0 \in T
    BY <1>1, <1>3, <1>4 DEF Looped
  <1>6. ASSUME NEW m \in T PROVE m + 1 \in T
    <2>1. SUFFICES ASSUME m + 1 <= n - 1 PROVE F[m + 1] = G[m + 1]
      OBVIOUS
    <2>2. F[m] = G[m] /\ t[m + 1] = u[m + 1] /\ (m + 1) - 1 = m /\ m + 1 # 0
      BY <1>1, <1>2, <2>1
    <2>3. F[m + 1] = Looped(t, S, F, m + 1) /\ G[m + 1] = Looped(u, S, G, m + 1)
      BY <1>1, <1>3, <1>4, <2>1
    <2>4. QED
      BY <2>2, <2>3 DEF Looped
  <1>7. T = Nat
    <2>1. T \in SUBSET Nat
      OBVIOUS
    <2> HIDE DEF T
    <2>2. QED
      BY <1>5, <1>6, <2>1, SetInduction
  <1>8. F[n - 1] = G[n - 1]
    BY <1>1, <1>7
  <1>9. F[n] = Looped(t, S, F, n) /\ t[n] = s[n] /\ n # 0
    BY <1>1, <1>2, <1>3
  <1>10. QED
    BY <1>3, <1>4, <1>8, <1>9 DEF Looped, t, u

-----------------------------------------------------------------------------
(* The elements of a sequence                                              *)

LEMMA InToSet ==
  ASSUME NEW A, NEW s \in Seq(A), NEW x
  PROVE x \in ToSet(s) <=> \E i \in 1 .. Len(s) : s[i] = x
  BY LenProperties DEF ToSet

LEMMA ToSetTyped ==
  ASSUME NEW A, NEW s \in Seq(A)
  PROVE ToSet(s) \subseteq A
  BY InToSet, ElementOfSeq

LEMMA ToSetEmpty == ToSet(<<>>) = {}
  BY DEF ToSet

LEMMA ToSetAppend ==
  ASSUME NEW A, NEW s \in Seq(A), NEW e \in A
  PROVE ToSet(Append(s, e)) = ToSet(s) \cup {e}
  <1> DEFINE t == Append(s, e)
  <1>1. /\ t \in Seq(A) /\ Len(t) = Len(s) + 1 /\ Len(s) \in Nat
        /\ \A i \in 1 .. Len(s) : t[i] = s[i]
        /\ t[Len(s) + 1] = e
    BY AppendProperties
  <1> HIDE DEF t
  <1>2. ASSUME NEW x PROVE x \in ToSet(t) <=> x \in ToSet(s) \cup {e}
    <2>1. x \in ToSet(t) <=> \E i \in 1 .. Len(s) + 1 : t[i] = x
      BY <1>1, InToSet
    <2>2. x \in ToSet(s) <=> \E i \in 1 .. Len(s) : s[i] = x
      BY InToSet
    <2>3. \A i \in 1 .. Len(s) + 1 : i = Len(s) + 1 \/ i \in 1 .. Len(s)
      BY <1>1
    <2>4. Len(s) + 1 \in 1 .. Len(s) + 1 /\ \A i \in 1 .. Len(s) : i \in 1 .. Len(s) + 1
      BY <1>1
    <2>5. QED
      BY <1>1, <2>1, <2>2, <2>3, <2>4
  <1>3. QED
    BY <1>2 DEF t

LEMMA ToSetHeadTail ==
  ASSUME NEW A, NEW s \in Seq(A), s # <<>>
  PROVE /\ Head(s) \in ToSet(s) /\ Head(s) = s[1]
        /\ ToSet(Tail(s)) \subseteq ToSet(s)
  <1>1. Len(s) \in Nat \ {0} /\ Head(s) = s[1]
    BY EmptySeq
  <1>2. Head(s) \in ToSet(s)
    BY <1>1, InToSet
  <1>3. ASSUME NEW x \in ToSet(Tail(s)) PROVE x \in ToSet(s)
    <2>1. /\ Tail(s) \in Seq(A) /\ Len(Tail(s)) = Len(s) - 1
          /\ \A i \in 1 .. Len(Tail(s)) : Tail(s)[i] = s[i + 1]
      BY HeadTailProperties
    <2>2. PICK i \in 1 .. Len(Tail(s)) : Tail(s)[i] = x
      BY <2>1, InToSet
    <2>3. i + 1 \in 1 .. Len(s) /\ s[i + 1] = x
      BY <1>1, <2>1, <2>2
    <2>4. QED
      BY <2>3, InToSet
  <1>4. QED
    BY <1>1, <1>2, <1>3

LEMMA ToSetKeep ==
  ASSUME NEW A, NEW s \in Seq(A), NEW S
  PROVE ToSet(Keep(s, S)) = ToSet(s) \cap S
  <1>1. Keep(s, S) \in Seq(A)
    BY KeepPlaces
  <1>2. ASSUME NEW x PROVE x \in ToSet(Keep(s, S)) <=> x \in ToSet(s) \cap S
    <2>1. x \in ToSet(Keep(s, S)) <=> \E j \in 1 .. Len(Keep(s, S)) : Keep(s, S)[j] = x
      BY <1>1, InToSet
    <2>2. x \in ToSet(s) <=> \E i \in 1 .. Len(s) : s[i] = x
      BY InToSet
    <2>3. (\E j \in 1 .. Len(Keep(s, S)) : Keep(s, S)[j] = x)
            <=> (x \in S /\ \E i \in 1 .. Len(s) : s[i] = x)
      BY KeepElements
    <2>4. QED
      BY <2>1, <2>2, <2>3
  <1>3. QED
    BY <1>2

LEMMA ToSetConcat ==
  ASSUME NEW A, NEW s \in Seq(A), NEW t \in Seq(A)
  PROVE ToSet(s \o t) = ToSet(s) \cup ToSet(t)
  <1> DEFINE u == s \o t
  <1>1. /\ u \in Seq(A) /\ Len(u) = Len(s) + Len(t) /\ Len(s) \in Nat /\ Len(t) \in Nat
        /\ \A i \in 1 .. Len(s) + Len(t) : u[i] = IF i <= Len(s) THEN s[i] ELSE t[i - Len(s)]
    BY ConcatProperties
  <1> HIDE DEF u
  <1>2. /\ \A i \in 1 .. Len(s) : i \in 1 .. Len(u) /\ u[i] = s[i]
        /\ \A i \in 1 .. Len(t) : i + Len(s) \in 1 .. Len(u) /\ u[i + Len(s)] = t[i]
    <2>1. \A i \in 1 .. Len(s) : i \in 1 .. Len(s) + Len(t) /\ i <= Len(s)
      BY <1>1
    <2>2. ASSUME NEW i \in 1 .. Len(t)
          PROVE i + Len(s) \in 1 .. Len(u) /\ u[i + Len(s)] = t[i]
      <3>1. /\ i + Len(s) \in 1 .. Len(s) + Len(t)
            /\ ~ (i + Len(s) <= Len(s)) /\ (i + Len(s)) - Len(s) = i
        BY <1>1
      <3>2. QED
        BY <1>1, <3>1
    <2>3. QED
      BY <1>1, <2>1, <2>2
  <1>3. \A i \in 1 .. Len(u) : \/ i \in 1 .. Len(s) /\ u[i] = s[i]
                               \/ i - Len(s) \in 1 .. Len(t) /\ u[i] = t[i - Len(s)]
    BY <1>1
  <1>4. ASSUME NEW x PROVE x \in ToSet(u) <=> x \in ToSet(s) \cup ToSet(t)
    <2>1. x \in ToSet(u) <=> \E i \in 1 .. Len(u) : u[i] = x
      BY <1>1, InToSet
    <2>2. x \in ToSet(s) <=> \E i \in 1 .. Len(s) : s[i] = x
      BY InToSet
    <2>3. x \in ToSet(t) <=> \E i \in 1 .. Len(t) : t[i] = x
      BY InToSet
    <2>4. x \in ToSet(u) => x \in ToSet(s) \cup ToSet(t)
      BY <1>3, <2>1, <2>2, <2>3
    <2>5. x \in ToSet(s) => x \in ToSet(u)
      BY <1>2, <2>1, <2>2
    <2>6. x \in ToSet(t) => x \in ToSet(u)
      BY <1>2, <2>1, <2>3
    <2>7. QED
      BY <2>4, <2>5, <2>6
  <1>5. QED
    BY <1>4 DEF u

-----------------------------------------------------------------------------
(* The largest of a set of numbers                                         *)

LEMMA LargestNumber ==
  ASSUME NEW S \in SUBSET Int, S # {}, NEW b \in Int, \A x \in S : x <= b
  PROVE Max(S) \in S /\ \A x \in S : x <= Max(S)
  <1> DEFINE T == {n \in Nat : \E x \in S : n = b - x}
  <1>1. PICK y \in S : TRUE
    OBVIOUS
  <1>2. b - y \in T
    OBVIOUS
  <1>3. PICK n \in T : \A m \in T : n <= m
    BY <1>2, LeastNumber
  <1>4. PICK x \in S : n = b - x
    OBVIOUS
  <1>5. ASSUME NEW z \in S PROVE x >= z
    <2>1. b - z \in T
      OBVIOUS
    <2>2. n <= b - z
      BY <1>3, <2>1
    <2>3. QED
      BY <1>4, <2>2
  <1>6. Max(S) \in S /\ \A z \in S : Max(S) >= z
    BY <1>5 DEF Max
  <1>7. QED
    BY <1>6

\* The numbers in a list have an upper bound.
LEMMA ListBounded ==
  ASSUME NEW n \in Nat, NEW f \in [1 .. n -> Int]
  PROVE \E b \in Int : \A i \in 1 .. n : f[i] <= b
  <1> DEFINE T == {m \in Nat : m <= n => \E b \in Int : \A i \in 1 .. m : f[i] <= b}
  <1>1. 0 \in T
    <2>1. \A i \in 1 .. 0 : f[i] <= 0
      OBVIOUS
    <2>2. QED
      BY <2>1
  <1>2. ASSUME NEW m \in T PROVE m + 1 \in T
    <2>1. SUFFICES ASSUME m + 1 <= n
                   PROVE \E b \in Int : \A i \in 1 .. m + 1 : f[i] <= b
      OBVIOUS
    <2>2. PICK b \in Int : \A i \in 1 .. m : f[i] <= b
      BY <2>1
    <2>3. f[m + 1] \in Int
      BY <2>1
    <2>4. PICK c \in Int : b <= c /\ f[m + 1] <= c
      BY <2>3
    <2>5. \A i \in 1 .. m + 1 : i = m + 1 \/ i \in 1 .. m
      OBVIOUS
    <2>6. \A i \in 1 .. m + 1 : f[i] <= c
      <3>1. \A i \in 1 .. m : f[i] \in Int /\ f[i] <= b
        BY <2>1, <2>2
      <3>2. QED
        BY <2>3, <2>4, <2>5, <3>1
    <2>7. QED
      BY <2>6
  <1>3. T \in SUBSET Nat
    OBVIOUS
  <1> HIDE DEF T
  <1>4. n \in T
    BY <1>1, <1>2, <1>3, SetInduction
  <1>5. QED
    BY <1>4 DEF T

-----------------------------------------------------------------------------
(* Lists of lists                                                          *)

\* One step of FlattenSeq.
Joined(seqs, f, i) == IF i = 1 THEN seqs[i] ELSE f[i - 1] \o seqs[i]

LEMMA FlatExists ==
  ASSUME NEW seqs, NEW n \in Nat
  PROVE \E F : F = [i \in 1 .. n |-> Joined(seqs, F, i)]
  <1> DEFINE T == {m \in Nat : \E F : F = [i \in 1 .. m |-> Joined(seqs, F, i)]}
  <1>1. 0 \in T
    <2> DEFINE F == [i \in 1 .. 0 |-> <<>>]
    <2>1. F = [i \in 1 .. 0 |-> Joined(seqs, F, i)]
      OBVIOUS
    <2>2. QED
      BY <2>1
  <1>2. ASSUME NEW m \in T PROVE m + 1 \in T
    <2>1. PICK G : G = [i \in 1 .. m |-> Joined(seqs, G, i)]
      OBVIOUS
    <2> DEFINE H == [i \in 1 .. m + 1 |-> IF i = m + 1 THEN Joined(seqs, G, i) ELSE G[i]]
    <2>2. \A i \in 1 .. m : G[i] = Joined(seqs, G, i)
      BY <2>1, Zenon
    <2>3. ASSUME NEW i \in 1 .. m + 1
          PROVE H[i] = Joined(seqs, H, i)
      <3>1. i # 1 => i - 1 \in 1 .. m /\ H[i - 1] = G[i - 1]
        OBVIOUS
      <3>2. Joined(seqs, H, i) = Joined(seqs, G, i)
        BY <3>1 DEF Joined
      <3>3. i # m + 1 => i \in 1 .. m
        OBVIOUS
      <3>4. QED
        BY <2>2, <3>2, <3>3
    <2>4. H = [i \in 1 .. m + 1 |-> Joined(seqs, H, i)]
      <3>1. H = [i \in 1 .. m + 1 |-> H[i]]
        OBVIOUS
      <3> HIDE DEF H
      <3>2. QED
        BY <2>3, <3>1
    <2> HIDE DEF H
    <2>5. m + 1 \in Nat
      OBVIOUS
    <2>6. QED
      BY <2>4, <2>5
  <1> HIDE DEF T
  <1>3. T \in SUBSET Nat
    BY DEF T
  <1>4. T = Nat
    BY <1>1, <1>2, <1>3, SetInduction
  <1>5. QED
    BY <1>4 DEF T

\* Where in a list the lists that it is flattened from end.
FlatEnds(off, seqs, t, A) ==
  /\ t \in Seq(A)
  /\ off \in [0 .. Len(seqs) -> Nat] /\ off[0] = 0 /\ Len(t) = off[Len(seqs)]
  /\ \A i \in 1 .. Len(seqs) :
       /\ off[i] = off[i - 1] + Len(seqs[i])
       /\ \A j \in 1 .. Len(seqs[i]) : t[off[i - 1] + j] = seqs[i][j]

\* One more list.
LEMMA EndsGrow ==
  ASSUME NEW A, NEW seqs \in Seq(Seq(A)), NEW m \in 1 .. Len(seqs) - 1,
         NEW t, NEW off, FlatEnds(off, SubSeq(seqs, 1, m), t, A)
  PROVE \E o : FlatEnds(o, SubSeq(seqs, 1, m + 1), t \o seqs[m + 1], A)
  <1> DEFINE e == seqs[m + 1]
             a == SubSeq(seqs, 1, m)
             b == SubSeq(seqs, 1, m + 1)
             u == t \o e
             o == [i \in 0 .. m + 1 |-> IF i = m + 1 THEN off[m] + Len(e) ELSE off[i]]
  <1>1. /\ Len(seqs) \in Nat /\ m \in Nat /\ e = seqs[m + 1]
        /\ e \in Seq(A) /\ Len(e) \in Nat
        /\ \A k \in 1 .. Len(seqs) : seqs[k] \in Seq(A) /\ Len(seqs[k]) \in Nat
    OBVIOUS
  <1> HIDE DEF e
  <1>2. /\ Len(a) = m /\ \A k \in 1 .. m : a[k] = seqs[k]
        /\ Len(b) = m + 1 /\ \A k \in 1 .. m + 1 : b[k] = seqs[k]
    BY <1>1, SubSeqProperties
  <1> HIDE DEF a, b
  <1>3. /\ t \in Seq(A) /\ Len(t) \in Nat
        /\ off \in [0 .. m -> Nat] /\ off[0] = 0 /\ Len(t) = off[m] /\ off[m] \in Nat
        /\ \A i \in 1 .. m :
             /\ off[i] = off[i - 1] + Len(seqs[i])
             /\ \A j \in 1 .. Len(seqs[i]) : t[off[i - 1] + j] = seqs[i][j]
    BY <1>2 DEF FlatEnds, a
  <1>4. /\ u \in Seq(A) /\ Len(u) = off[m] + Len(e)
        /\ \A i \in 1 .. off[m] : u[i] = t[i]
        /\ \A j \in 1 .. Len(e) : u[off[m] + j] = e[j]
    <2>1. /\ u \in Seq(A) /\ Len(u) = Len(t) + Len(e)
          /\ \A i \in 1 .. Len(t) + Len(e) : u[i] = IF i <= Len(t) THEN t[i] ELSE e[i - Len(t)]
      <3>1. t \in Seq(A) /\ e \in Seq(A)
        BY <1>1, <1>3
      <3>2. QED
        BY <3>1, ConcatProperties
    <2> HIDE DEF u
    <2>2. \A j \in 1 .. Len(e) : u[off[m] + j] = e[j]
      <3>1. SUFFICES ASSUME NEW j \in 1 .. Len(e) PROVE u[off[m] + j] = e[j]
        OBVIOUS
      <3>2. off[m] + j \in 1 .. Len(t) + Len(e) /\ ~(off[m] + j <= Len(t)) /\ (off[m] + j) - Len(t) = j
        <4>1. Len(t) = off[m] /\ off[m] \in Nat /\ Len(e) \in Nat
          BY <1>1, <1>3
        <4>2. QED
          BY <4>1
      <3>3. QED
        BY <2>1, <3>2
    <2>3. Len(t) = off[m] /\ off[m] \in Nat /\ Len(e) \in Nat
      BY <1>1, <1>3
    <2>4. ASSUME NEW i \in 1 .. off[m] PROVE u[i] = t[i]
      <3>1. i \in 1 .. Len(t) + Len(e) /\ i <= Len(t)
        BY <2>3
      <3>2. QED
        BY <2>1, <3>1
    <2>5. QED
      BY <2>1, <2>2, <2>3, <2>4
  <1>5. /\ o \in [0 .. m + 1 -> Nat] /\ o[0] = 0 /\ o[m + 1] = off[m] + Len(e)
        /\ \A i \in 0 .. m : o[i] = off[i]
    BY <1>1, <1>3
  <1> HIDE DEF o, u
  <1>6. ASSUME NEW p \in 0 .. m PROVE off[p] <= off[m]
    <2> DEFINE T == {q \in Nat : p + q <= m => off[p] <= off[p + q]}
    <2>1. 0 \in T
      BY <1>1, <1>3
    <2>2. ASSUME NEW q \in T PROVE q + 1 \in T
      <3>1. SUFFICES ASSUME p + q + 1 <= m PROVE off[p] <= off[p + (q + 1)]
        OBVIOUS
      <3>2. /\ off[p] <= off[p + q] /\ p + (q + 1) \in 1 .. m /\ (p + (q + 1)) - 1 = p + q
            /\ p + q \in 0 .. m
        BY <1>1, <3>1
      <3>3. off[p + (q + 1)] = off[p + q] + Len(seqs[p + (q + 1)]) /\ Len(seqs[p + (q + 1)]) \in Nat
        <4>1. p + (q + 1) \in 1 .. Len(seqs)
          BY <1>1, <3>2
        <4>2. off[p + (q + 1)] = off[(p + (q + 1)) - 1] + Len(seqs[p + (q + 1)])
          BY <1>3, <3>2
        <4>3. QED
          BY <1>1, <3>2, <4>1, <4>2
      <3>4. off[p] \in Nat /\ off[p + q] \in Nat
        BY <1>3, <3>2
      <3>5. QED
        BY <3>2, <3>3, <3>4
    <2>3. T \in SUBSET Nat
      OBVIOUS
    <2> HIDE DEF T
    <2>4. T = Nat
      BY <2>1, <2>2, <2>3, SetInduction
    <2>5. PICK q \in Nat : p + q = m
      <3>1. m - p \in Nat /\ p + (m - p) = m
        BY <1>1
      <3>2. QED
        BY <3>1
    <2>6. QED
      <3>1. p + q <= m => off[p] <= off[p + q]
        BY <2>4 DEF T
      <3>2. p + q <= m
        BY <1>1, <2>5
      <3>3. QED
        BY <2>5, <3>1, <3>2
  <1>7. ASSUME NEW i \in 1 .. m + 1
        PROVE /\ o[i] = o[i - 1] + Len(b[i])
              /\ \A j \in 1 .. Len(b[i]) : u[o[i - 1] + j] = b[i][j]
    <2>1. CASE i = m + 1
      <3>1. i - 1 = m /\ o[i - 1] = off[m] /\ b[i] = e
        BY <1>1, <1>2, <1>5, <2>1
      <3>2. QED
        BY <1>4, <1>5, <2>1, <3>1
    <2>2. CASE i # m + 1
      <3>1. i \in 1 .. m /\ i \in 0 .. m /\ i - 1 \in 0 .. m /\ b[i] = seqs[i]
        BY <1>1, <1>2, <2>2
      <3>2. off[i] = off[i - 1] + Len(seqs[i]) /\ off[i] \in Nat /\ off[i - 1] \in Nat
            /\ off[i] <= off[m]
        BY <1>3, <1>6, <3>1
      <3>3. ASSUME NEW j \in 1 .. Len(seqs[i]) PROVE u[off[i - 1] + j] = seqs[i][j]
        <4>1. Len(seqs[i]) \in Nat /\ off[m] \in Nat
          <5>1. i \in 1 .. Len(seqs)
            BY <1>1, <3>1
          <5>2. QED
            BY <1>1, <1>3, <5>1
        <4>2. off[i - 1] + j \in 1 .. off[m]
          <5>1. \A x, n, y \in Nat : x + n <= y => \A d \in 1 .. n : x + d \in 1 .. y
            OBVIOUS
          <5>2. off[i - 1] + Len(seqs[i]) <= off[m]
            BY <3>2
          <5>3. off[i - 1] \in Nat
            BY <3>2
          <5>4. QED
            BY <4>1, <5>1, <5>2, <5>3
        <4>3. QED
          BY <1>3, <1>4, <3>1, <4>2
      <3>4. QED
        BY <1>5, <3>1, <3>2, <3>3
    <2>3. QED
      BY <2>1, <2>2
  <1>8. FlatEnds(o, b, u, A)
    BY <1>2, <1>4, <1>5, <1>7 DEF FlatEnds
  <1>9. QED
    BY <1>8 DEF b, u, e

\* FlattenSeq puts one list behind the other.
LEMMA FlatPlaces ==
  ASSUME NEW A, NEW seqs \in Seq(Seq(A))
  PROVE \E off : FlatEnds(off, seqs, FlattenSeq(seqs), A)
  <1> DEFINE n == Len(seqs)
  <1>1. n \in Nat /\ \A k \in 1 .. n : seqs[k] \in Seq(A) /\ Len(seqs[k]) \in Nat
    OBVIOUS
  <1>2. CASE n = 0
    <2> DEFINE off == [i \in 0 .. 0 |-> 0]
    <2>1. FlattenSeq(seqs) = seqs /\ seqs = <<>>
      BY <1>2 DEF FlattenSeq
    <2>2. FlatEnds(off, <<>>, <<>>, A)
      BY DEF FlatEnds
    <2>3. QED
      BY <2>1, <2>2
  <1>3. CASE n # 0
    <2> DEFINE F == CHOOSE F : F = [i \in 1 .. n |-> Joined(seqs, F, i)]
    <2>1. F = [i \in 1 .. n |-> Joined(seqs, F, i)]
      BY <1>1, FlatExists
    <2>2. FlattenSeq(seqs) = F[n]
      BY <1>3 DEF FlattenSeq, Joined
    <2> HIDE DEF F
    <2>3. \A i \in 1 .. n : F[i] = Joined(seqs, F, i)
      BY <2>1, Zenon
    <2> DEFINE T == {m \in Nat : m < n => \E off : FlatEnds(off, SubSeq(seqs, 1, m + 1), F[m + 1], A)}
    <2>4. 0 \in T
      <3> DEFINE a == SubSeq(seqs, 1, 1)
                 off == [i \in 0 .. 1 |-> IF i = 0 THEN 0 ELSE Len(seqs[1])]
      <3>1. Len(a) = 1 /\ a[1] = seqs[1] /\ 1 \in 1 .. n
        BY <1>1, <1>3, SubSeqProperties
      <3>2. F[1] = seqs[1]
        BY <2>3, <3>1 DEF Joined
      <3> HIDE DEF a
      <3>3. off \in [0 .. 1 -> Nat] /\ off[0] = 0 /\ off[1] = Len(seqs[1])
        BY <1>1, <3>1
      <3> HIDE DEF off
      <3>4. \A i \in 1 .. 1 : i = 1 /\ i - 1 = 0
        OBVIOUS
      <3>5. \A j \in 1 .. Len(seqs[1]) : 0 + j = j
        BY <1>1, <3>1
      <3>6. FlatEnds(off, a, F[1], A)
        BY <1>1, <3>1, <3>2, <3>3, <3>4, <3>5 DEF FlatEnds
      <3>7. QED
        BY <3>6 DEF a
    <2>5. ASSUME NEW m \in T PROVE m + 1 \in T
      <3>1. SUFFICES ASSUME m + 1 < n
                     PROVE \E off : FlatEnds(off, SubSeq(seqs, 1, (m + 1) + 1), F[(m + 1) + 1], A)
        OBVIOUS
      <3>2. PICK off : FlatEnds(off, SubSeq(seqs, 1, m + 1), F[m + 1], A)
        BY <1>1, <3>1
      <3>3. m + 1 \in 1 .. Len(seqs) - 1
        BY <1>1, <3>1
      <3>4. \E o : FlatEnds(o, SubSeq(seqs, 1, (m + 1) + 1), F[m + 1] \o seqs[(m + 1) + 1], A)
        BY <3>2, <3>3, EndsGrow
      <3>5. F[(m + 1) + 1] = F[m + 1] \o seqs[(m + 1) + 1]
        <4>1. (m + 1) + 1 \in 1 .. n /\ (m + 1) + 1 # 1 /\ ((m + 1) + 1) - 1 = m + 1
          BY <1>1, <3>1
        <4>2. QED
          BY <2>3, <4>1 DEF Joined
      <3>6. QED
        BY <3>4, <3>5
    <2>6. T = Nat
      <3>1. T \in SUBSET Nat
        OBVIOUS
      <3> HIDE DEF T
      <3>2. QED
        BY <2>4, <2>5, <3>1, SetInduction
    <2>7. n - 1 \in Nat /\ n - 1 < n /\ (n - 1) + 1 = n
      BY <1>1, <1>3
    <2>8. SubSeq(seqs, 1, n) = seqs
      BY SubSeqFull
    <2>9. QED
      BY <2>2, <2>6, <2>7, <2>8
  <1>4. QED
    BY <1>2, <1>3
-----------------------------------------------------------------------------
(* Folds over a list.                                                      *)

\* One step of the fold over a set of places.
Folded(base, seq, F, T) ==
  IF T = {} THEN base ELSE Op(F[T \ {Max(T)}], seq[Max(T)])

LEMMA LastPlace ==
  ASSUME NEW n \in Nat, NEW T \in SUBSET (1 .. n + 1), n + 1 \in T
  PROVE Max(T) = n + 1
  <1>1. Max(T) \in T /\ \A x \in T : x <= Max(T)
    BY LargestNumber, T \subseteq Int, \A x \in T : x <= n + 1
  <1>2. Max(T) \in 1 .. n + 1 /\ n + 1 <= Max(T)
    BY <1>1
  <1>3. QED
    BY <1>2

\* The fold has a result for any number of places.
LEMMA FoldExists ==
  ASSUME NEW base, NEW seq, NEW n \in Nat
  PROVE \E F : F = [T \in SUBSET (1 .. n) |-> Folded(base, seq, F, T)]
  <1> DEFINE N == {m \in Nat : \E F : F = [T \in SUBSET (1 .. m) |-> Folded(base, seq, F, T)]}
  <1>1. 0 \in N
    <2> DEFINE F == [T \in SUBSET (1 .. 0) |-> base]
    <2>1. SUBSET (1 .. 0) = {{}}
      OBVIOUS
    <2>2. F = [T \in SUBSET (1 .. 0) |-> Folded(base, seq, F, T)]
      BY <2>1 DEF Folded
    <2>3. QED
      BY <2>2
  <1>2. ASSUME NEW m \in N PROVE m + 1 \in N
    <2>1. m \in Nat
      OBVIOUS
    <2>2. PICK F : F = [T \in SUBSET (1 .. m) |-> Folded(base, seq, F, T)]
      OBVIOUS
    <2> DEFINE G == [T \in SUBSET (1 .. m + 1) |->
                       IF m + 1 \in T THEN Op(F[T \ {m + 1}], seq[m + 1]) ELSE F[T]]
    <2>3. ASSUME NEW T \in SUBSET (1 .. m + 1) PROVE G[T] = Folded(base, seq, G, T)
      <3>1. CASE m + 1 \in T
        <4>1. Max(T) = m + 1
          BY <2>1, <3>1, LastPlace
        <4>2. T \ {m + 1} \in SUBSET (1 .. m) /\ T \ {m + 1} \in SUBSET (1 .. m + 1)
          BY <2>1
        <4>3. G[T \ {m + 1}] = F[T \ {m + 1}]
          BY <4>2
        <4>4. G[T] = Op(F[T \ {m + 1}], seq[m + 1])
          BY <3>1
        <4>5. T # {}
          BY <3>1
        <4> HIDE DEF G
        <4>6. QED
          BY <4>1, <4>3, <4>4, <4>5 DEF Folded
      <3>2. CASE m + 1 \notin T
        <4>1. T \in SUBSET (1 .. m)
          BY <2>1, <3>2
        <4>2. T \ {Max(T)} \in SUBSET (1 .. m) /\ T \ {Max(T)} \in SUBSET (1 .. m + 1)
              /\ m + 1 \notin T \ {Max(T)}
          BY <4>1, <3>2
        <4>3. G[T] = F[T] /\ G[T \ {Max(T)}] = F[T \ {Max(T)}]
          BY <3>2, <4>2
        <4>4. F[T] = Folded(base, seq, F, T)
          BY <2>2, <4>1
        <4> HIDE DEF G
        <4>5. QED
          BY <4>3, <4>4 DEF Folded
      <3>3. QED
        BY <3>1, <3>2
    <2>4. G = [T \in SUBSET (1 .. m + 1) |-> Folded(base, seq, G, T)]
      <3>1. DOMAIN G = SUBSET (1 .. m + 1) /\ G = [T \in SUBSET (1 .. m + 1) |-> G[T]]
        OBVIOUS
      <3> HIDE DEF G
      <3>2. QED
        BY <2>3, <3>1
    <2> HIDE DEF G
    <2>5. QED
      BY <2>1, <2>4
  <1>3. N \in SUBSET Nat
    OBVIOUS
  <1> HIDE DEF N
  <1>4. N = Nat
    BY <1>1, <1>2, <1>3, SetInduction
  <1>5. QED
    BY <1>4 DEF N

\* What a fold has computed after each place of the list.
Runs(base, seq, r) == /\ r[0] = base
                      /\ \A k \in 1 .. Len(seq) : r[k] = Op(r[k - 1], seq[k])

THEOREM FoldRun ==
  ASSUME NEW base, NEW A, NEW seq \in Seq(A)
  PROVE \E r : Runs(base, seq, r) /\ FoldLeft(Op, base, seq) = r[Len(seq)]
  <1> DEFINE n == Len(seq)
             F == CHOOSE G : G = [T \in SUBSET (1 .. n) |-> Folded(base, seq, G, T)]
             D == CHOOSE G : G = [T \in SUBSET DOMAIN seq |-> Folded(base, seq, G, T)]
             r == [k \in 0 .. n |-> F[1 .. k]]
  <1>1. n \in Nat /\ DOMAIN seq = 1 .. n
    OBVIOUS
  <1>2. F = [T \in SUBSET (1 .. n) |-> Folded(base, seq, F, T)]
    BY <1>1, FoldExists
  <1>3. FoldLeft(Op, base, seq) = D[DOMAIN seq]
    BY DEF FoldLeft, MapThenFoldSet, Folded
  <1>4. FoldLeft(Op, base, seq) = F[1 .. n]
    BY <1>1, <1>3
  <1> HIDE DEF F, D
  <1>5. \A T \in SUBSET (1 .. n) : F[T] = Folded(base, seq, F, T)
    BY <1>2, Zenon
  <1>6. r[0] = base
    <2>1. 1 .. 0 = {} /\ {} \in SUBSET (1 .. n) /\ 0 \in 0 .. n
      BY <1>1
    <2>2. F[{}] = base
      BY <1>5, <2>1 DEF Folded
    <2>3. QED
      BY <2>1, <2>2
  <1>7. ASSUME NEW k \in 1 .. n PROVE r[k] = Op(r[k - 1], seq[k])
    <2>1. k - 1 \in Nat /\ k = (k - 1) + 1 /\ k \in 0 .. n /\ k - 1 \in 0 .. n
      BY <1>1
    <2>2. Max(1 .. k) = k
      <3>1. 1 .. k \in SUBSET (1 .. (k - 1) + 1) /\ (k - 1) + 1 \in 1 .. k
        BY <2>1
      <3>2. Max(1 .. k) = (k - 1) + 1
        BY <2>1, <3>1, LastPlace
      <3>3. QED
        BY <2>1, <3>2
    <2>3. 1 .. k \in SUBSET (1 .. n) /\ 1 .. k # {} /\ (1 .. k) \ {k} = 1 .. k - 1
      <3>1. k \in 1 .. k /\ \A x \in 1 .. k : x \in 1 .. n
        BY <1>1, <2>1
      <3>2. \A x : x \in 1 .. k /\ x # k <=> x \in 1 .. k - 1
        BY <2>1
      <3>3. QED
        BY <3>1, <3>2
    <2>4. F[1 .. k] = Op(F[1 .. k - 1], seq[k])
      BY <1>5, <2>2, <2>3 DEF Folded
    <2>5. QED
      BY <2>1, <2>4
  <1>8. r[n] = F[1 .. n]
    BY <1>1
  <1> HIDE DEF r
  <1>9. Runs(base, seq, r)
    BY <1>6, <1>7 DEF Runs
  <1>10. QED
    BY <1>4, <1>8, <1>9

\* A fold over no elements.
THEOREM FoldEmpty ==
  ASSUME NEW base
  PROVE FoldLeft(Op, base, <<>>) = base
  <1>1. <<>> \in Seq({}) /\ Len(<<>>) = 0
    OBVIOUS
  <1>2. PICK r : Runs(base, <<>>, r) /\ FoldLeft(Op, base, <<>>) = r[Len(<<>>)]
    BY <1>1, FoldRun
  <1>3. QED
    BY <1>1, <1>2 DEF Runs

\* A fold over one element more.
THEOREM FoldAppend ==
  ASSUME NEW base, NEW A, NEW seq \in Seq(A), NEW e \in A
  PROVE FoldLeft(Op, base, Append(seq, e)) = Op(FoldLeft(Op, base, seq), e)
  <1> DEFINE n == Len(seq)
             more == Append(seq, e)
  <1>1. /\ more \in Seq(A) /\ Len(more) = n + 1 /\ n \in Nat /\ more[n + 1] = e
        /\ \A k \in 1 .. n : more[k] = seq[k]
    BY AppendProperties
  <1>2. PICK r : Runs(base, seq, r) /\ FoldLeft(Op, base, seq) = r[n]
    BY FoldRun
  <1>3. PICK q : Runs(base, more, q) /\ FoldLeft(Op, base, more) = q[n + 1]
    BY <1>1, FoldRun
  <1> HIDE DEF more
  <1> DEFINE T == {k \in Nat : k <= n => q[k] = r[k]}
  <1>4. 0 \in T
    BY <1>2, <1>3 DEF Runs
  <1>5. ASSUME NEW k \in T PROVE k + 1 \in T
    <2>1. SUFFICES ASSUME k + 1 <= n PROVE q[k + 1] = r[k + 1]
      OBVIOUS
    <2>2. k \in Nat /\ k + 1 \in 1 .. n /\ k + 1 \in 1 .. n + 1 /\ (k + 1) - 1 = k /\ k <= n
      BY <1>1, <2>1
    <2>3. q[k] = r[k] /\ more[k + 1] = seq[k + 1]
      BY <1>1, <2>2
    <2>4. q[k + 1] = Op(q[k], more[k + 1])
      BY <1>1, <1>3, <2>2 DEF Runs
    <2>5. r[k + 1] = Op(r[k], seq[k + 1])
      BY <1>2, <2>2 DEF Runs
    <2>6. QED
      BY <2>3, <2>4, <2>5
  <1>6. T = Nat
    <2>1. T \in SUBSET Nat
      OBVIOUS
    <2> HIDE DEF T
    <2>2. QED
      BY <1>4, <1>5, <2>1, SetInduction
  <1>7. q[n] = r[n]
    BY <1>1, <1>6
  <1>8. q[n + 1] = Op(q[n], e)
    <2>1. n + 1 \in 1 .. n + 1 /\ (n + 1) - 1 = n
      BY <1>1
    <2>2. QED
      BY <1>1, <1>3, <2>1 DEF Runs
  <1>9. QED
    BY <1>2, <1>3, <1>7, <1>8 DEF more

\* What every step preserves the fold preserves.
THEOREM FoldPreserves ==
  ASSUME NEW A, NEW seq \in Seq(A), NEW S, NEW base \in S,
         \A x \in S, e \in A : Op(x, e) \in S
  PROVE FoldLeft(Op, base, seq) \in S
  <1>1. Len(seq) \in Nat /\ \A k \in 1 .. Len(seq) : seq[k] \in A
    OBVIOUS
  <1>2. PICK r : Runs(base, seq, r) /\ FoldLeft(Op, base, seq) = r[Len(seq)]
    BY FoldRun
  <1> DEFINE T == {k \in Nat : k <= Len(seq) => r[k] \in S}
  <1>3. 0 \in T
    BY <1>2 DEF Runs
  <1>4. ASSUME NEW k \in T PROVE k + 1 \in T
    <2>1. SUFFICES ASSUME k + 1 <= Len(seq) PROVE r[k + 1] \in S
      OBVIOUS
    <2>2. k \in Nat /\ k + 1 \in 1 .. Len(seq) /\ (k + 1) - 1 = k /\ k <= Len(seq)
      BY <1>1, <2>1
    <2>3. r[k + 1] = Op(r[k], seq[k + 1]) /\ r[k] \in S /\ seq[k + 1] \in A
      BY <1>1, <1>2, <2>2 DEF Runs
    <2>4. QED
      BY <2>3
  <1>5. T = Nat
    <2>1. T \in SUBSET Nat
      OBVIOUS
    <2> HIDE DEF T
    <2>2. QED
      BY <1>3, <1>4, <2>1, SetInduction
  <1>6. QED
    BY <1>1, <1>2, <1>5
=============================================================================
