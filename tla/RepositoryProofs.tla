------------------------- MODULE RepositoryProofs --------------------------
(***************************************************************************)
(* Proofs about KeyFile, for any keys, inputs, files and requests, and     *)
(* that it implements KeySet until a mishap.  The inductive invariant says *)
(* of each kind of mishap what is known as long as it did not occur: what  *)
(* a rewrite finds, which keys the file and the rewrite hold together, and *)
(* that the keys about to be appended are new and different.               *)
(*                                                                         *)
(* Then about VolumeSizes: what Create, Clone and Resize promise about     *)
(* sizes, for any numbers, any word and any volumes.  The word need not be *)
(* a multiple of a K: only that what fits into it is its own remainder is  *)
(* used.                                                                   *)
(*                                                                         *)
(* Then about KeyScanner: what List returns and what of it gets into the   *)
(* configdrive, for any buffer, any largest token and any key files.  The  *)
(* invariant says that the unread part of the last buffer is the text      *)
(* between the line reached and the file offset; that holds through shift, *)
(* growth and read.  What the slices of the keys hold is only known of a   *)
(* file that is never moved.                                               *)
(***************************************************************************)
EXTENDS KeyFile, KeyScanner, VolumeSizes, SubsequencesProofs, FiniteSetTheorems

(***************************************************************************)
(* Lists of lines                                                          *)
(***************************************************************************)

\* No key is on two lines.
NoDup(s) == \A i, j \in DOMAIN s : s[i] \in Keys /\ s[i] = s[j] => i = j

LEMMA ConcatLines ==
  ASSUME NEW s \in Seq(Line), NEW t \in Seq(Line)
  PROVE /\ s \o t \in Seq(Line)
        /\ Len(s \o t) = Len(s) + Len(t)
        /\ KeysIn(s \o t) = KeysIn(s) \cup KeysIn(t)
        /\ NoDup(s) /\ NoDup(t) /\ KeysIn(s) \cap KeysIn(t) = {} => NoDup(s \o t)
  <1> DEFINE u == s \o t
  <1>1. /\ u \in Seq(Line) /\ Len(u) = Len(s) + Len(t) /\ Len(s) \in Nat /\ Len(t) \in Nat
        /\ \A i \in 1 .. Len(s) + Len(t) : u[i] = IF i <= Len(s) THEN s[i] ELSE t[i - Len(s)]
    BY ConcatProperties
  <1>2. ToSet(u) = ToSet(s) \cup ToSet(t)
    BY ToSetConcat
  <1> HIDE DEF u
  <1>3. /\ DOMAIN u = 1 .. Len(s) + Len(t)
        /\ DOMAIN s = 1 .. Len(s) /\ DOMAIN t = 1 .. Len(t)
    BY <1>1, LenProperties
  <1>4. \A i \in DOMAIN u : \/ i \in 1 .. Len(s) /\ u[i] = s[i] /\ s[i] \in ToSet(s)
                            \/ /\ i - Len(s) \in 1 .. Len(t) /\ u[i] = t[i - Len(s)]
                               /\ t[i - Len(s)] \in ToSet(t)
    <2>1. \A i \in 1 .. Len(s) : s[i] \in ToSet(s)
      BY InToSet
    <2>2. \A i \in 1 .. Len(t) : t[i] \in ToSet(t)
      BY InToSet
    <2>3. \A i \in DOMAIN u : \/ i \in 1 .. Len(s) /\ u[i] = s[i]
                              \/ i - Len(s) \in 1 .. Len(t) /\ u[i] = t[i - Len(s)]
      BY <1>1, <1>3
    <2>4. QED
      BY <2>1, <2>2, <2>3
  <1>5. ASSUME NoDup(s), NoDup(t), KeysIn(s) \cap KeysIn(t) = {},
               NEW i \in DOMAIN u, NEW j \in DOMAIN u, u[i] \in Keys, u[i] = u[j]
        PROVE i = j
    <2>1. CASE i \in 1 .. Len(s) /\ u[i] = s[i] /\ j \in 1 .. Len(s) /\ u[j] = s[j]
      BY <1>3, <1>5, <2>1 DEF NoDup
    <2>2. CASE /\ i - Len(s) \in 1 .. Len(t) /\ u[i] = t[i - Len(s)]
               /\ j - Len(s) \in 1 .. Len(t) /\ u[j] = t[j - Len(s)]
      <3>1. i - Len(s) = j - Len(s)
        BY <1>3, <1>5, <2>2 DEF NoDup
      <3>2. QED
        BY <1>1, <1>3, <3>1
    <2>3. ~ (u[i] \in ToSet(s) /\ u[j] \in ToSet(t)) /\ ~ (u[j] \in ToSet(s) /\ u[i] \in ToSet(t))
      BY <1>5 DEF KeysIn
    <2>4. QED
      BY <1>4, <2>1, <2>2, <2>3
  <1>6. NoDup(s) /\ NoDup(t) /\ KeysIn(s) \cap KeysIn(t) = {} => NoDup(u)
    BY <1>5 DEF NoDup
  <1>7. QED
    BY <1>1, <1>2, <1>6 DEF KeysIn, u

LEMMA SubSeqLines ==
  ASSUME NEW s \in Seq(Line), NEW m \in Nat \ {0}, NEW n \in 0 .. Len(s)
  PROVE LET t == SubSeq(s, m, n)
        IN  /\ t \in Seq(Line) /\ Len(t) = IF m <= n THEN n - m + 1 ELSE 0
            /\ KeysIn(t) \subseteq KeysIn(s)
            /\ NoDup(s) => NoDup(t)
  <1> DEFINE t == SubSeq(s, m, n)
  <1>1. Len(s) \in Nat /\ DOMAIN s = 1 .. Len(s)
    BY LenProperties
  <1>2. \A i \in m .. n : s[i] \in Line
    BY <1>1, ElementOfSeq
  <1>3. /\ t \in Seq(Line) /\ Len(t) = IF m <= n THEN n - m + 1 ELSE 0
        /\ \A i \in 1 .. n - m + 1 : t[i] = s[m + i - 1]
    BY <1>1, <1>2, SubSeqProperties
  <1> HIDE DEF t
  <1>4. DOMAIN t = 1 .. Len(t)
    BY <1>3, LenProperties
  <1>5. \A i \in 1 .. Len(t) : m + i - 1 \in 1 .. Len(s) /\ t[i] = s[m + i - 1]
    BY <1>1, <1>3
  <1>6. KeysIn(t) \subseteq KeysIn(s)
    <2>1. ASSUME NEW x \in ToSet(t) PROVE x \in ToSet(s)
      <3>1. PICK i \in 1 .. Len(t) : t[i] = x
        BY <1>3, InToSet
      <3>2. QED
        BY <1>5, <3>1, InToSet
    <2>2. QED
      BY <2>1 DEF KeysIn
  <1>7. ASSUME NoDup(s), NEW i \in DOMAIN t, NEW j \in DOMAIN t, t[i] \in Keys, t[i] = t[j]
        PROVE i = j
    <2>1. m + i - 1 = m + j - 1
      BY <1>1, <1>4, <1>5, <1>7 DEF NoDup
    <2>2. QED
      BY <1>4, <2>1
  <1>8. NoDup(s) => NoDup(t)
    BY <1>7 DEF NoDup
  <1>9. QED
    BY <1>3, <1>6, <1>8 DEF t

LEMMA KeepLines ==
  ASSUME NEW s \in Seq(Line), NEW S
  PROVE LET t == Keep(s, S)
        IN  /\ t \in Seq(Line) /\ ToSet(t) = ToSet(s) \cap S
            /\ NoDup(s) => NoDup(t)
            /\ Keys \subseteq S /\ Len(t) <= 1 => NoDup(s)
  <1> DEFINE t == Keep(s, S)
  <1>1. t \in Seq(Line) /\ ToSet(t) = ToSet(s) \cap S
    BY KeepPlaces, ToSetKeep
  <1>2. PICK f : Places(f, t, s, Len(s), S)
    BY KeepPlaces
  <1> HIDE DEF t
  <1>3. /\ DOMAIN t = 1 .. Len(t) /\ DOMAIN s = 1 .. Len(s)
        /\ Len(t) \in Nat /\ Len(s) \in Nat
    BY <1>1, LenProperties
  <1>4. /\ \A i \in 1 .. Len(t) : f[i] \in 1 .. Len(s) /\ t[i] = s[f[i]]
        /\ \A i, j \in 1 .. Len(t) : i < j => f[i] < f[j]
        /\ \A i \in 1 .. Len(s) : s[i] \in S => \E j \in 1 .. Len(t) : f[j] = i
    BY <1>2 DEF Places
  <1>5. ASSUME NoDup(s), NEW i \in 1 .. Len(t), NEW j \in 1 .. Len(t),
               t[i] \in Keys, t[i] = t[j]
        PROVE i = j
    <2>1. f[i] = f[j]
      BY <1>3, <1>4, <1>5 DEF NoDup
    <2>2. ~ (i < j) /\ ~ (j < i)
      BY <1>4, <2>1
    <2>3. QED
      BY <1>3, <2>2
  <1>6. ASSUME Keys \subseteq S, Len(t) <= 1, NEW i \in 1 .. Len(s), NEW j \in 1 .. Len(s),
               s[i] \in Keys, s[i] = s[j]
        PROVE i = j
    <2>1. PICK a \in 1 .. Len(t) : f[a] = i
      BY <1>4, <1>6
    <2>2. PICK b \in 1 .. Len(t) : f[b] = j
      BY <1>4, <1>6
    <2>3. a = b
      BY <1>3, <1>6
    <2>4. QED
      BY <2>1, <2>2, <2>3
  <1>7. QED
    BY <1>1, <1>3, <1>5, <1>6 DEF NoDup, t

LEMMA NoKeys ==
  /\ COMMENT \in Line \ Keys /\ BLANK \in Line \ Keys /\ LONG \in Line \ Keys
  /\ Keys \subseteq Line
  BY LinesAssumption DEF Line

LEMMA EmptyLines == <<>> \in Seq(Line) /\ KeysIn(<<>>) = {} /\ NoDup(<<>>) /\ Len(<<>>) = 0
  BY EmptySeq, ToSetEmpty DEF KeysIn, NoDup

\* One line.
LEMMA SingleLine ==
  ASSUME NEW l \in Line
  PROVE /\ <<l>> \in Seq(Line) /\ Len(<<l>>) = 1
        /\ KeysIn(<<l>>) = {l} \cap Keys /\ NoDup(<<l>>)
  <1>1. <<l>> \in Seq(Line) /\ DOMAIN <<l>> = {1} /\ <<l>>[1] = l /\ Len(<<l>>) = 1
    OBVIOUS
  <1>2. ToSet(<<l>>) = {l}
    BY <1>1 DEF ToSet
  <1>3. NoDup(<<l>>)
    BY <1>1 DEF NoDup
  <1>4. QED
    BY <1>1, <1>2, <1>3 DEF KeysIn

\* A list is its first line and the rest, or the lines before its last one
\* and that.
LEMMA Ends ==
  ASSUME NEW s \in Seq(Line), s # <<>>
  PROVE /\ Head(s) \in Line /\ Last(s) \in Line
        /\ Tail(s) \in Seq(Line) /\ Front(s) \in Seq(Line)
        /\ s = <<Head(s)>> \o Tail(s) /\ s = Front(s) \o <<Last(s)>>
        /\ KeysIn(Tail(s)) \subseteq KeysIn(s) /\ KeysIn(Front(s)) \subseteq KeysIn(s)
        /\ NoDup(s) => NoDup(Tail(s)) /\ NoDup(Front(s))
  <1>1. Len(s) \in Nat \ {0}
    BY EmptySeq
  <1>2. Tail(s) = SubSeq(s, 2, Len(s)) /\ Front(s) = SubSeq(s, 1, Len(s) - 1)
    BY TailIsSubSeq DEF Front
  <1>3. Head(s) = s[1] /\ Last(s) = s[Len(s)] /\ Head(s) \in Line /\ Last(s) \in Line
    BY <1>1, ElementOfSeq DEF Last
  <1>4. SubSeq(s, 1, Len(s)) = s
    BY SubSeqFull
  <1>5. 1 \in 1 .. Len(s) /\ Len(s) \in 1 .. Len(s)
    BY <1>1
  <1>6. s = <<Head(s)>> \o Tail(s)
    BY <1>2, <1>3, <1>4, <1>5, SubSeqRecursiveFirst
  <1>7. s = Front(s) \o <<Last(s)>>
    BY <1>2, <1>3, <1>4, <1>5, SubSeqRecursiveSecond
  <1>8. /\ Tail(s) \in Seq(Line) /\ KeysIn(Tail(s)) \subseteq KeysIn(s)
        /\ NoDup(s) => NoDup(Tail(s))
    <2>1. 2 \in Nat \ {0} /\ Len(s) \in 0 .. Len(s)
      BY <1>1
    <2>2. QED
      BY <1>2, <2>1, SubSeqLines
  <1>9. /\ Front(s) \in Seq(Line) /\ KeysIn(Front(s)) \subseteq KeysIn(s)
        /\ NoDup(s) => NoDup(Front(s))
    <2>1. 1 \in Nat \ {0} /\ Len(s) - 1 \in 0 .. Len(s)
      BY <1>1
    <2>2. QED
      BY <1>2, <2>1, SubSeqLines
  <1>10. QED
    BY <1>3, <1>6, <1>7, <1>8, <1>9

\* What Delete keeps in memory.
LEMMA WithoutLines ==
  ASSUME NEW s \in Seq(Line), NEW k
  PROVE /\ Without(s, k) \in Seq(Line)
        /\ KeysIn(Without(s, k)) = KeysIn(s) \ {k}
        /\ NoDup(s) => NoDup(Without(s, k))
  <1>1. /\ Without(s, k) \in Seq(Line)
        /\ ToSet(Without(s, k)) = ToSet(s) \cap (Line \ {k, BLANK})
        /\ NoDup(s) => NoDup(Without(s, k))
    BY KeepLines DEF Without
  <1>2. QED
    BY <1>1, NoKeys DEF KeysIn

\* The first place that passes a test.
LEMMA FirstPlace ==
  ASSUME NEW n, NEW I \in SUBSET (1 .. n), I # {}
  PROVE Min(I) \in I
  <1>1. I \in SUBSET Nat
    OBVIOUS
  <1>2. PICK i \in I : \A j \in I : i <= j
    BY <1>1, LeastNumber
  <1>3. QED
    BY <1>2 DEF Min

LEMMA ScannedLines ==
  ASSUME NEW s \in Seq(Line)
  PROVE /\ Scanned(s) \in Seq(Line) /\ KeysIn(Scanned(s)) \subseteq KeysIn(s)
        /\ LONG \notin ToSet(s) => Scanned(s) = s
  <1>1. CASE LONG \notin ToSet(s)
    BY <1>1 DEF Scanned
  <1>2. CASE LONG \in ToSet(s)
    <2> DEFINE I == {i \in 1 .. Len(s) : s[i] = LONG}
    <2>1. I # {}
      BY <1>2, InToSet
    <2>2. Scanned(s) = SubSeq(s, 1, Min(I) - 1)
      BY <1>2, <2>1 DEF Scanned, SelectInSeq
    <2>3. Min(I) \in I
      BY <2>1, FirstPlace
    <2>4. PICK i \in 1 .. Len(s) : i = Min(I)
      BY <2>3
    <2>5. Len(s) \in Nat
      BY LenProperties
    <2> HIDE DEF I
    <2>6. i - 1 \in 0 .. Len(s) /\ 1 \in Nat \ {0}
      BY <2>5
    <2>7. Scanned(s) = SubSeq(s, 1, i - 1)
      BY <2>2, <2>4
    <2>8. QED
      BY <1>2, <2>6, <2>7, SubSeqLines
  <1>3. QED
    BY <1>1, <1>2

LEMMA InputLines ==
  ASSUME NEW input \in Inputs
  PROVE /\ input \in Seq(Line) /\ input # <<>>
        /\ FirstKey(input) \in KeysIn(input)
        /\ Len(Keep(input, Keys)) <= 1 => NoDup(input) /\ KeysIn(input) = {FirstKey(input)}
  <1>1. input \in Seq(Line) /\ ToSet(input) \cap Keys # {}
    BY InputsAssumption
  <1> DEFINE I == {i \in 1 .. Len(input) : input[i] \in Keys}
  <1>2. I # {}
    BY <1>1, InToSet
  <1>3. FirstKey(input) = input[Min(I)]
    BY <1>2 DEF FirstKey, SelectInSeq
  <1>4. Min(I) \in I
    BY <1>2, FirstPlace
  <1>5. PICK i \in I : i = Min(I)
    BY <1>4
  <1>6. FirstKey(input) \in KeysIn(input)
    BY <1>1, <1>3, <1>5, InToSet DEF KeysIn
  <1>7. ASSUME Len(Keep(input, Keys)) <= 1
        PROVE NoDup(input) /\ KeysIn(input) = {FirstKey(input)}
    <2> DEFINE t == Keep(input, Keys)
    <2>1. t \in Seq(Line) /\ ToSet(t) = KeysIn(input) /\ NoDup(input)
      BY <1>1, <1>7, KeepLines DEF KeysIn
    <2> HIDE DEF t
    <2>2. Len(t) \in Nat /\ Len(t) <= 1
      BY <1>7, <2>1, LenProperties DEF t
    <2>3. \A x, y \in ToSet(t) : x = y
      <3>1. \A a, b \in 1 .. Len(t) : a = b
        BY <2>2
      <3>2. QED
        BY <2>1, <3>1, InToSet
    <2>4. QED
      BY <1>6, <2>1, <2>3
  <1>8. QED
    BY <1>1, <1>6, <1>7, ToSetEmpty

-----------------------------------------------------------------------------
(* Writes                                                                  *)

\* One of the outcomes of a write over f.
WrittenOver(f, new, cut, i) == new \o cut \o SubSeq(f, i, Len(f))

LEMMA OverwrittenLines ==
  ASSUME NEW f \in Seq(Line), NEW new \in Seq(Line), NEW x \in Overwritten(f, new)
  PROVE /\ x \in Seq(Line)
        /\ new # <<>> => x # <<>>
        /\ new = <<>> => x = f
        /\ f = <<>> => x = new
  <1>1. CASE new = <<>>
    BY <1>1 DEF Overwritten
  <1>2. CASE new # <<>>
    <2> DEFINE Cuts == IF f = <<>> THEN {<<>>} ELSE {<<>>, <<COMMENT>>}
    <2>1. PICK cut \in Cuts, i \in 2 .. Len(f) + 2 : x = new \o cut \o SubSeq(f, i, Len(f))
      <3>1. Overwritten(f, new) =
               {WrittenOver(f, new, cut, i) : cut \in Cuts, i \in 2 .. Len(f) + 2}
        BY <1>2, Z3 DEF Overwritten, WrittenOver
      <3> HIDE DEF Cuts
      <3>2. PICK cut \in Cuts, i \in 2 .. Len(f) + 2 : x = WrittenOver(f, new, cut, i)
        BY <3>1
      <3>3. QED
        BY <3>2 DEF WrittenOver
    <2> HIDE DEF Cuts
    <2>2. Len(f) \in Nat /\ Len(new) \in Nat \ {0}
      BY <1>2, LenProperties, EmptySeq
    <2>3. i \in Nat \ {0} /\ Len(f) \in 0 .. Len(f)
      BY <2>2
    <2>4. PICK rest : rest = SubSeq(f, i, Len(f))
      OBVIOUS
    <2>5. rest \in Seq(Line)
      BY <2>3, <2>4, SubSeqLines
    <2>6. cut \in Seq(Line)
      BY NoKeys, EmptyLines, SingleLine DEF Cuts
    <2>7. new \o cut \in Seq(Line) /\ Len(new \o cut) = Len(new) + Len(cut) /\ Len(cut) \in Nat
      BY <2>6, ConcatLines, LenProperties
    <2>8. PICK head \in Seq(Line) : head = new \o cut
      BY <2>7
    <2>9. x = head \o rest
      BY <2>1, <2>4, <2>8
    <2>10. x \in Seq(Line) /\ Len(x) = Len(head) + Len(rest) /\ Len(rest) \in Nat
      BY <2>5, <2>9, ConcatLines, LenProperties
    <2>11. x # <<>>
      <3>1. Len(x) # 0
        BY <2>2, <2>7, <2>8, <2>10
      <3>2. QED
        BY <3>1, EmptyLines
    <2>12. ASSUME f = <<>> PROVE x = new
      <3>1. cut = <<>> /\ Len(f) = 0
        BY <2>12, EmptyLines DEF Cuts
      <3>2. head = new
        BY <2>8, <3>1, ConcatEmptySeq
      <3>3. i \in Int /\ Len(f) \in Int /\ Len(f) < i
        BY <2>3, <3>1
      <3>4. rest = <<>>
        BY <2>4, <3>3, SubSeqEmpty
      <3>5. QED
        BY <2>9, <3>2, <3>4, ConcatEmptySeq
    <2>13. QED
      BY <1>2, <2>10, <2>11, <2>12
  <1>3. QED
    BY <1>1, <1>2

\* A file to which input was appended: its keys are those of the file and of
\* the input, perhaps without the one that was glued.
LEMMA AppendedLines ==
  ASSUME file \in Seq(Line), ended \in BOOLEAN, file = <<>> => ended,
         NEW input \in Seq(Line), input # <<>>, NEW x \in Appended(input)
  PROVE /\ x \in Seq(Line) /\ x # <<>>
        /\ KeysIn(x) \subseteq KeysIn(file) \cup KeysIn(input)
        /\ ~Dangling => KeysIn(x) = KeysIn(file) \cup KeysIn(input)
        /\ NoDup(file) /\ NoDup(input) /\ KeysIn(file) \cap KeysIn(input) = {} => NoDup(x)
  <1>1. Len(input) \in Nat \ {0}
    BY EmptySeq
  <1>2. CASE ended
    <2>1. x = file \o input
      BY <1>2 DEF Appended
    <2>2. /\ x \in Seq(Line) /\ Len(x) = Len(file) + Len(input)
          /\ KeysIn(x) = KeysIn(file) \cup KeysIn(input)
          /\ NoDup(file) /\ NoDup(input) /\ KeysIn(file) \cap KeysIn(input) = {} => NoDup(x)
      BY <2>1, ConcatLines
    <2>3. x # <<>>
      <3>1. Len(x) # 0
        BY <1>1, <2>2, LenProperties
      <3>2. QED
        BY <3>1, EmptyLines
    <2>4. QED
      BY <2>2, <2>3
  <1>3. CASE ~ended
    <2>1. file # <<>>
      BY <1>3
    <2>2. PICK l \in JoinedLines(Last(file), Head(input)) :
                 x = Front(file) \o <<l>> \o Tail(input)
      BY <1>3 DEF Appended
    <2>3. PICK front \in Seq(Line), last \in Line : front = Front(file) /\ last = Last(file)
      BY <2>1, Ends
    <2>4. PICK rest \in Seq(Line), first \in Line : rest = Tail(input) /\ first = Head(input)
      BY Ends
    <2>5. /\ file = front \o <<last>> /\ input = <<first>> \o rest
          /\ KeysIn(front) \subseteq KeysIn(file) /\ KeysIn(rest) \subseteq KeysIn(input)
          /\ NoDup(file) => NoDup(front)
          /\ NoDup(input) => NoDup(rest)
      BY <2>1, <2>3, <2>4, Ends
    <2>6. /\ KeysIn(file) = KeysIn(front) \cup ({last} \cap Keys)
          /\ KeysIn(input) = ({first} \cap Keys) \cup KeysIn(rest)
      <3>1. PICK s1 \in Seq(Line) : s1 = <<last>> /\ KeysIn(s1) = {last} \cap Keys
        BY SingleLine
      <3>2. PICK s2 \in Seq(Line) : s2 = <<first>> /\ KeysIn(s2) = {first} \cap Keys
        BY SingleLine
      <3>3. KeysIn(front \o s1) = KeysIn(front) \cup KeysIn(s1)
        BY ConcatLines
      <3>4. KeysIn(s2 \o rest) = KeysIn(s2) \cup KeysIn(rest)
        BY ConcatLines
      <3>5. QED
        BY <2>5, <3>1, <3>2, <3>3, <3>4
    <2>7. /\ l \in Line
          /\ \/ l = first
             \/ l = last
             \/ l = COMMENT /\ last # BLANK
          /\ last = BLANK => l = first
      BY <2>2, <2>3, <2>4, NoKeys DEF JoinedLines
    <2>8. PICK head \in Seq(Line) : head = front \o <<l>>
      BY <2>7, SingleLine, ConcatLines
    <2>9. x = head \o rest
      BY <2>2, <2>3, <2>4, <2>8
    <2>10. /\ x \in Seq(Line) /\ Len(x) = Len(head) + Len(rest)
           /\ KeysIn(x) = KeysIn(head) \cup KeysIn(rest)
           /\ NoDup(head) /\ NoDup(rest) /\ KeysIn(head) \cap KeysIn(rest) = {} => NoDup(x)
      BY <2>9, ConcatLines
    <2>11. /\ Len(head) = Len(front) + 1
           /\ KeysIn(head) = KeysIn(front) \cup ({l} \cap Keys)
           /\ NoDup(front) /\ KeysIn(front) \cap ({l} \cap Keys) = {} => NoDup(head)
      <3>1. PICK s1 \in Seq(Line) : /\ s1 = <<l>> /\ Len(s1) = 1 /\ NoDup(s1)
                                   /\ KeysIn(s1) = {l} \cap Keys
        BY <2>7, SingleLine
      <3>2. head = front \o s1
        BY <2>8, <3>1
      <3>3. /\ Len(front \o s1) = Len(front) + Len(s1)
            /\ KeysIn(front \o s1) = KeysIn(front) \cup KeysIn(s1)
            /\ NoDup(front) /\ NoDup(s1) /\ KeysIn(front) \cap KeysIn(s1) = {}
                  => NoDup(front \o s1)
        BY ConcatLines
      <3>4. QED
        BY <3>1, <3>2, <3>3
    <2>12. x # <<>>
      <3>1. Len(x) # 0
        BY <2>10, <2>11, LenProperties
      <3>2. QED
        BY <3>1, EmptyLines
    <2>13. KeysIn(x) \subseteq KeysIn(file) \cup KeysIn(input)
      BY <2>6, <2>7, <2>10, <2>11, NoKeys
    <2>14. ASSUME ~Dangling PROVE KeysIn(x) = KeysIn(file) \cup KeysIn(input)
      <3>1. last = BLANK
        BY <1>3, <2>3, <2>14 DEF Dangling
      <3>2. QED
        BY <2>6, <2>7, <2>10, <2>11, <3>1, NoKeys
    <2>15. ASSUME NoDup(file), NoDup(input), KeysIn(file) \cap KeysIn(input) = {}
           PROVE NoDup(x)
      <3>1. CASE l = last
        <4>1. head = file
          BY <2>5, <2>8, <3>1
        <4>2. QED
          BY <2>5, <2>10, <2>15, <4>1
      <3>2. CASE l = first
        <4>1. x = front \o input
          BY <2>5, <2>7, <2>8, <2>9, <3>2, SingleLine, ConcatAssociative
        <4>2. QED
          BY <2>5, <2>15, <4>1, ConcatLines
      <3>3. CASE l = COMMENT
        <4>1. NoDup(head) /\ KeysIn(head) = KeysIn(front)
          BY <2>5, <2>11, <2>15, <3>3, NoKeys
        <4>2. QED
          BY <2>5, <2>10, <2>15, <4>1
      <3>4. QED
        BY <2>7, <3>1, <3>2, <3>3
    <2>16. QED
      BY <2>10, <2>12, <2>13, <2>14, <2>15
  <1>4. QED
    BY <1>2, <1>3

(***************************************************************************)
(* The invariant                                                           *)
(***************************************************************************)

JobStates == [pc : {"idle", "append", "truncate", "write"}, lines : Seq(Line),
              key : Keys \cup {COMMENT}]

\* Add has its key among the lines it appends, Delete has not.
JobOK(j) == /\ j.pc = "append" => j.key \in KeysIn(j.lines)
            /\ j.pc \in {"truncate", "write"} => j.key \in Keys \ KeysIn(j.lines)

JobsTyped == jobs \in [Requests -> JobStates] /\ \A r \in Requests : JobOK(jobs[r])

FileTyped == /\ file \in Seq(Line)
             /\ ended \in BOOLEAN
             /\ file = <<>> => ended
             /\ stored \subseteq Keys
             /\ mishaps \subseteq Mishaps

Writes(r) == jobs[r].pc = "write"
Appends(r) == jobs[r].pc = "append"

\* Without an overlap a rewrite finds the file as it truncated it, and is the
\* only one.
OneRewrite ==
    NoneOf({"overlap"}) =>
       \A w \in Requests : Writes(w) =>
          file = <<>> /\ \A q \in Requests : Writes(q) => q = w

\* The stored keys are in the file, or in the memory of the rewrite.
NothingLost ==
    NoneOf(Mishaps \ {"unchecked"}) =>
       /\ ~Rewriting => KeysIn(file) = stored
       /\ \A w \in Requests : Writes(w) => KeysIn(jobs[w].lines) = stored \ {jobs[w].key}

\* The key that r is about to append is the only one of its input; neither
\* the file nor another request has it.
NewKey(r) ==
    /\ NoDup(jobs[r].lines) /\ KeysIn(jobs[r].lines) = {jobs[r].key}
    /\ jobs[r].key \notin KeysIn(file)
    /\ \A q \in Requests \ {r} :
          Appends(q) \/ Writes(q) => jobs[r].key \notin KeysIn(jobs[q].lines)

NothingTwice ==
    NoneOf({"unchecked", "overlap", "long"}) =>
       /\ NoDup(file)
       /\ \A r \in Requests : /\ Writes(r) => NoDup(jobs[r].lines)
                              /\ Appends(r) => NewKey(r)

IInv == JobsTyped /\ FileTyped /\ OneRewrite /\ NothingLost /\ NothingTwice

LEMMA IInvType == IInv => TypeOK
  BY DEF IInv, JobsTyped, FileTyped, JobStates, TypeOK

\* The property counts lines, the invariant compares them.
LEMMA CountLines ==
  ASSUME NEW s \in Seq(Line)
  PROVE NoDup(s) <=> \A k \in Keys : LinesOf(s, k) <= 1
  <1>1. DOMAIN s = 1 .. Len(s) /\ Len(s) \in Nat
    BY LenProperties
  <1>2. ASSUME NoDup(s), NEW k \in Keys PROVE LinesOf(s, k) <= 1
    <2> DEFINE S == {i \in DOMAIN s : s[i] = k}
    <2>1. \A i, j \in S : i = j
      BY <1>2 DEF NoDup
    <2> HIDE DEF S
    <2>2. S = {} \/ \E i : S = {i}
      <3>1. SUFFICES ASSUME NEW i \in S PROVE S = {i}
        OBVIOUS
      <3>2. QED
        BY <2>1
    <2>3. Cardinality(S) = 0 \/ Cardinality(S) = 1
      BY <2>2, FS_EmptySet, FS_Singleton
    <2>4. QED
      BY <2>3 DEF LinesOf, S
  <1>3. ASSUME \A k \in Keys : LinesOf(s, k) <= 1,
               NEW i \in DOMAIN s, NEW j \in DOMAIN s, s[i] \in Keys, s[i] = s[j], i # j
        PROVE FALSE
    <2> DEFINE S == {n \in DOMAIN s : s[n] = s[i]}
    <2>1. Cardinality(S) <= 1
      BY <1>3 DEF LinesOf
    <2>2. IsFiniteSet(S)
      <3>1. IsFiniteSet(1 .. Len(s))
        BY <1>1, FS_Interval
      <3>2. S \in SUBSET (1 .. Len(s))
        BY <1>1
      <3>3. QED
        BY <3>1, <3>2, FS_Subset
    <2>3. i \in S /\ j \in S \ {i}
      BY <1>3
    <2> HIDE DEF S
    <2>4. PICK T : T = S \ {i}
      OBVIOUS
    <2>5. IsFiniteSet(T) /\ Cardinality(T) = Cardinality(S) - 1
      BY <2>2, <2>3, <2>4, FS_RemoveElement
    <2>6. Cardinality(S) \in Nat /\ Cardinality(T) \in Nat
      BY <2>2, <2>5, FS_CardinalityType
    <2>7. Cardinality(T) = 0
      BY <2>1, <2>5, <2>6
    <2>8. T = {}
      BY <2>5, <2>7, FS_EmptySet
    <2>9. QED
      BY <2>3, <2>4, <2>8
  <1>4. QED
    BY <1>2, <1>3 DEF NoDup

LEMMA IInvExplains == IInv => MishapsExplain
  <1>1. SUFFICES ASSUME IInv PROVE MishapsExplain
    OBVIOUS
  <1>2. LossExplained
    BY <1>1 DEF IInv, NothingLost, LossExplained
  <1>3. DuplicatesExplained
    BY <1>1, CountLines DEF IInv, FileTyped, NothingTwice, DuplicatesExplained
  <1>4. QED
    BY <1>2, <1>3 DEF MishapsExplain

LEMMA NoJobTyped == NoJob \in JobStates /\ JobOK(NoJob)
  BY EmptyLines DEF NoJob, JobStates, JobOK

LEMMA InitInv == Init => IInv
  <1>1. SUFFICES ASSUME Init PROVE IInv
    OBVIOUS
  <1>2. jobs = [r \in Requests |-> NoJob]
    BY <1>1 DEF Init
  <1>3. JobsTyped
    BY <1>2, NoJobTyped DEF JobsTyped
  <1>4. \A r \in Requests : ~Writes(r) /\ ~Appends(r)
    BY <1>2 DEF Writes, Appends, NoJob
  <1>5. FileTyped
    BY <1>1, FilesAssumption DEF Init, FileTyped, KeysIn, Mishaps
  <1>6. OneRewrite
    BY <1>4 DEF OneRewrite
  <1>7. NothingLost
    BY <1>1, <1>4 DEF Init, NothingLost
  <1>8. NothingTwice
    <2>1. ASSUME NoneOf({"unchecked", "overlap", "long"}) PROVE NoDup(file)
      <3>1. mishaps = IF \E k \in Keys : LinesOf(file, k) > 1 THEN {"unchecked"} ELSE {}
        BY <1>1 DEF Init
      <3>2. ~ \E k \in Keys : LinesOf(file, k) > 1
        BY <2>1, <3>1 DEF NoneOf
      <3>3. \A k \in Keys : LinesOf(file, k) \in Int
        <4>1. SUFFICES ASSUME NEW k \in Keys PROVE LinesOf(file, k) \in Int
          OBVIOUS
        <4>2. Len(file) \in Nat /\ DOMAIN file = 1 .. Len(file)
          BY <1>5, LenProperties DEF FileTyped
        <4>3. IsFiniteSet(1 .. Len(file))
          BY <4>2, FS_Interval
        <4>4. {i \in DOMAIN file : file[i] = k} \in SUBSET (1 .. Len(file))
          BY <4>2
        <4>5. IsFiniteSet({i \in DOMAIN file : file[i] = k})
          BY <4>3, <4>4, FS_Subset
        <4>6. QED
          BY <4>5, FS_CardinalityType DEF LinesOf
      <3>4. \A k \in Keys : LinesOf(file, k) <= 1
        BY <3>2, <3>3
      <3>5. QED
        BY <1>5, <3>4, CountLines DEF FileTyped
    <2>2. QED
      BY <1>4, <2>1 DEF NothingTwice
  <1>9. QED
    BY <1>3, <1>5, <1>6, <1>7, <1>8 DEF IInv

-----------------------------------------------------------------------------
(* Steps                                                                   *)

\* The job of r is j, the others stay.
Becomes(r, j) == /\ jobs' \in [Requests -> JobStates]
                 /\ jobs'[r] = j
                 /\ \A q \in Requests \ {r} : jobs'[q] = jobs[q]

LEMMA BecomesTyped ==
  ASSUME JobsTyped, NEW r \in Requests, NEW j \in JobStates, JobOK(j),
         jobs' = [jobs EXCEPT ![r] = j]
  PROVE Becomes(r, j) /\ JobsTyped'
  <1>1. Becomes(r, j)
    BY DEF JobsTyped, Becomes
  <1>2. \A q \in Requests : JobOK(jobs'[q])
    BY <1>1 DEF JobsTyped, Becomes
  <1>3. QED
    BY <1>1, <1>2 DEF JobsTyped, Becomes

LEMMA Noted ==
  ASSUME FileTyped, NEW ms \in SUBSET Mishaps, Note(ms)
  PROVE mishaps' \subseteq Mishaps /\ mishaps \subseteq mishaps' /\ ms \subseteq mishaps'
  BY DEF FileTyped, Note

\* What did not occur after a step did not occur before.
LEMMA NoneBefore ==
  ASSUME mishaps \subseteq mishaps', NEW ms, NoneOf(ms)'
  PROVE NoneOf(ms)
  BY DEF NoneOf

\* What a request at work has in memory.
LEMMA JobParts ==
  ASSUME JobsTyped, NEW r \in Requests
  PROVE /\ jobs \in [Requests -> JobStates] /\ jobs[r] \in JobStates
        /\ jobs[r].lines \in Seq(Line)
        /\ Appends(r) => jobs[r].key \in KeysIn(jobs[r].lines) /\ jobs[r].lines # <<>>
        /\ jobs[r].pc \in {"truncate", "write"}
              => jobs[r].key \in Keys /\ jobs[r].key \notin KeysIn(jobs[r].lines)
  <1>1. /\ jobs \in [Requests -> JobStates] /\ jobs[r] \in JobStates
        /\ jobs[r].lines \in Seq(Line) /\ JobOK(jobs[r])
    BY DEF JobsTyped, JobStates
  <1>2. QED
    BY <1>1, EmptyLines DEF JobOK, Appends

\* A request that is done, whatever it left in the file.
LEMMA FinishStep ==
  ASSUME IInv, NEW r \in Requests, Finish(r), FileTyped', mishaps \subseteq mishaps',
         NoneOf({"overlap"})' => file' = file \/ \A q \in Requests \ {r} : ~Writes(q),
         NoneOf(Mishaps \ {"unchecked"})' =>
            \/ stored' = stored /\ file' = file /\ ~Writes(r)
            \/ KeysIn(file') = stored' /\ \A q \in Requests \ {r} : ~Writes(q),
         NoneOf({"unchecked", "overlap", "long"})' =>
            /\ NoDup(file')
            /\ \A q \in Requests \ {r} : Appends(q) => jobs[q].key \notin KeysIn(file')
  PROVE IInv'
  <1>1. JobsTyped /\ OneRewrite /\ NothingLost /\ NothingTwice
    BY DEF IInv
  <1>2. Becomes(r, NoJob) /\ JobsTyped'
    BY <1>1, NoJobTyped, BecomesTyped DEF Finish
  <1>3. /\ ~Writes(r)' /\ ~Appends(r)'
        /\ \A q \in Requests \ {r} : jobs'[q] = jobs[q]
        /\ \A q \in Requests \ {r} : (Writes(q)' <=> Writes(q)) /\ (Appends(q)' <=> Appends(q))
    BY <1>2 DEF Becomes, Writes, Appends, NoJob
  <1>4. OneRewrite'
    <2>1. SUFFICES ASSUME NoneOf({"overlap"})', NEW w \in Requests, Writes(w)'
                   PROVE file' = <<>> /\ \A q \in Requests : Writes(q)' => q = w
      BY DEF OneRewrite
    <2>2. w # r /\ Writes(w)
      BY <1>3, <2>1
    <2>3. file = <<>> /\ \A q \in Requests : Writes(q) => q = w
      BY <1>1, <2>1, <2>2, NoneBefore DEF OneRewrite
    <2>4. QED
      BY <1>3, <2>1, <2>2, <2>3
  <1>5. NothingLost'
    <2>1. SUFFICES ASSUME NoneOf(Mishaps \ {"unchecked"})'
                   PROVE /\ ~Rewriting' => KeysIn(file') = stored'
                         /\ \A w \in Requests : Writes(w)' =>
                               KeysIn(jobs'[w].lines) = stored' \ {jobs'[w].key}
      BY DEF NothingLost
    <2>2. NoneOf(Mishaps \ {"unchecked"})
      BY <2>1, NoneBefore
    <2>3. CASE stored' = stored /\ file' = file /\ ~Writes(r)
      <3>1. Rewriting' <=> Rewriting
        BY <1>3, <2>3 DEF Rewriting, Writes
      <3>2. QED
        BY <1>1, <1>3, <2>2, <2>3, <3>1 DEF NothingLost
    <2>4. CASE KeysIn(file') = stored' /\ \A q \in Requests \ {r} : ~Writes(q)
      BY <1>3, <2>4
    <2>5. QED
      BY <2>1, <2>3, <2>4
  <1>6. NothingTwice'
    <2>1. SUFFICES ASSUME NoneOf({"unchecked", "overlap", "long"})'
                   PROVE \A q \in Requests : /\ Writes(q)' => NoDup(jobs'[q].lines)
                                             /\ Appends(q)' => NewKey(q)'
      BY DEF NothingTwice
    <2>2. \A q \in Requests : /\ Writes(q) => NoDup(jobs[q].lines)
                              /\ Appends(q) => NewKey(q)
      BY <1>1, <2>1, NoneBefore DEF NothingTwice
    <2>3. ASSUME NEW q \in Requests \ {r}, Appends(q) PROVE NewKey(q)'
      <3>1. jobs'[q] = jobs[q] /\ NewKey(q) /\ jobs[q].key \notin KeysIn(file')
        BY <1>3, <2>1, <2>2, <2>3
      <3>2. \A p \in Requests \ {q} : Appends(p)' \/ Writes(p)' =>
               p # r /\ (Appends(p) \/ Writes(p)) /\ jobs'[p] = jobs[p]
        BY <1>3
      <3>3. QED
        BY <3>1, <3>2 DEF NewKey
    <2>4. QED
      BY <1>3, <2>2, <2>3
  <1>7. QED
    BY <1>2, <1>4, <1>5, <1>6 DEF IInv

LEMMA CheckNewKeyStep ==
  ASSUME IInv, NEW r \in Requests, NEW input \in Inputs, CheckNewKey(r, input)
  PROVE IInv'
  <1>1. JobsTyped /\ FileTyped /\ OneRewrite /\ NothingLost /\ NothingTwice
    BY DEF IInv
  <1>2. /\ input \in Seq(Line) /\ FirstKey(input) \in KeysIn(input)
        /\ Len(Keep(input, Keys)) <= 1 => NoDup(input) /\ KeysIn(input) = {FirstKey(input)}
    BY InputLines
  <1>3. PICK k \in Keys : k = FirstKey(input)
    BY <1>2 DEF KeysIn
  <1> DEFINE j == [pc |-> "append", lines |-> input, key |-> k]
  <1>4. j \in JobStates /\ JobOK(j)
    BY <1>2, <1>3 DEF JobStates, JobOK
  <1>5. j.pc = "append" /\ j.lines = input /\ j.key = k
    OBVIOUS
  <1>6. jobs' = [jobs EXCEPT ![r] = j] /\ file' = file /\ ended' = ended /\ stored' = stored
    BY <1>3 DEF CheckNewKey
  <1> HIDE DEF j
  <1>7. Becomes(r, j) /\ JobsTyped'
    BY <1>1, <1>4, <1>6, BecomesTyped
  <1>8. /\ ~Writes(r) /\ ~Writes(r)' /\ ~Appends(r) /\ Appends(r)' /\ jobs'[r] = j
        /\ \A q \in Requests \ {r} : jobs'[q] = jobs[q]
        /\ \A q \in Requests \ {r} : (Writes(q)' <=> Writes(q)) /\ (Appends(q)' <=> Appends(q))
    BY <1>5, <1>7 DEF Becomes, Writes, Appends, CheckNewKey, Idle
  <1> DEFINE ms == If(Rewriting, "overlap") \cup If(Unchecked(input), "unchecked")
                   \cup If(LONG \in ToSet(file), "long")
  <1>9. /\ ms \in SUBSET Mishaps
        /\ Rewriting => "overlap" \in ms
        /\ Unchecked(input) => "unchecked" \in ms
        /\ LONG \in ToSet(file) => "long" \in ms
    BY DEF If, Mishaps
  <1>10. Note(ms)
    BY DEF CheckNewKey
  <1> HIDE DEF ms
  <1>11. mishaps' \subseteq Mishaps /\ mishaps \subseteq mishaps' /\ ms \subseteq mishaps'
    BY <1>1, <1>9, <1>10, Noted
  <1>12. FileTyped'
    BY <1>1, <1>6, <1>11 DEF FileTyped
  <1>13. OneRewrite'
    <2>1. SUFFICES ASSUME NoneOf({"overlap"})', NEW w \in Requests, Writes(w)'
                   PROVE file' = <<>> /\ \A q \in Requests : Writes(q)' => q = w
      BY DEF OneRewrite
    <2>2. Writes(w) /\ NoneOf({"overlap"})
      BY <1>8, <1>11, <2>1, NoneBefore
    <2>3. QED
      BY <1>1, <1>6, <1>8, <2>2 DEF OneRewrite
  <1>14. NothingLost'
    <2>1. SUFFICES ASSUME NoneOf(Mishaps \ {"unchecked"})'
                   PROVE /\ ~Rewriting' => KeysIn(file') = stored'
                         /\ \A w \in Requests : Writes(w)' =>
                               KeysIn(jobs'[w].lines) = stored' \ {jobs'[w].key}
      BY DEF NothingLost
    <2>2. NoneOf(Mishaps \ {"unchecked"})
      BY <1>11, <2>1, NoneBefore
    <2>3. Rewriting' <=> Rewriting
      BY <1>8 DEF Rewriting, Writes
    <2>4. QED
      BY <1>1, <1>6, <1>8, <2>2, <2>3 DEF NothingLost
  <1>15. NothingTwice'
    <2>1. SUFFICES ASSUME NoneOf({"unchecked", "overlap", "long"})'
                   PROVE /\ NoDup(file')
                         /\ \A q \in Requests : /\ Writes(q)' => NoDup(jobs'[q].lines)
                                                /\ Appends(q)' => NewKey(q)'
      BY DEF NothingTwice
    <2>2. /\ NoDup(file)
          /\ \A q \in Requests : /\ Writes(q) => NoDup(jobs[q].lines)
                                 /\ Appends(q) => NewKey(q)
      BY <1>1, <1>11, <2>1, NoneBefore DEF NothingTwice
    <2>3. ~Rewriting /\ ~Unchecked(input) /\ LONG \notin ToSet(file)
      BY <1>9, <1>11, <2>1 DEF NoneOf
    <2>4. NoDup(input) /\ KeysIn(input) = {k}
      <3>1. Len(Keep(input, Keys)) \in Nat
        <4>1. Keep(input, Keys) \in Seq(Line)
          BY <1>2, KeepLines
        <4>2. QED
          BY <4>1, LenProperties
      <3>2. Len(Keep(input, Keys)) <= 1
        BY <2>3, <3>1 DEF Unchecked
      <3>3. QED
        BY <1>2, <1>3, <3>2
    <2>5. k \notin KeysIn(file)
      BY <1>1, <1>3, <2>3, ScannedLines DEF CheckNewKey, FileTyped
    <2>6. \A q \in Requests : ~Writes(q)
      BY <2>3 DEF Rewriting, Writes
    <2>7. \A q \in Requests : Appends(q) => k \notin KeysIn(jobs[q].lines)
      BY <1>3, <2>3 DEF Unchecked, Appends, KeysIn
    <2>8. NewKey(r)'
      BY <1>5, <1>6, <1>8, <2>4, <2>5, <2>6, <2>7 DEF NewKey
    <2>9. ASSUME NEW q \in Requests \ {r}, Appends(q) PROVE NewKey(q)'
      <3>1. jobs'[q] = jobs[q] /\ NewKey(q)
        BY <1>8, <2>2, <2>9
      <3>2. jobs[q].key # k
        <4>1. jobs[q].key \in KeysIn(jobs[q].lines)
          BY <1>1, <2>9, JobParts
        <4>2. QED
          BY <2>7, <2>9, <4>1
      <3>3. \A p \in Requests \ {q} : Appends(p)' \/ Writes(p)' =>
               \/ p = r /\ jobs'[p].lines = input
               \/ (Appends(p) \/ Writes(p)) /\ jobs'[p] = jobs[p]
        BY <1>5, <1>8
      <3>4. QED
        BY <1>6, <2>4, <3>1, <3>2, <3>3 DEF NewKey
    <2>10. QED
      BY <1>6, <1>8, <2>2, <2>6, <2>8, <2>9
  <1>16. QED
    BY <1>7, <1>12, <1>13, <1>14, <1>15 DEF IInv

LEMMA AppendKeyStep ==
  ASSUME IInv, NEW r \in Requests, AppendKey(r)
  PROVE IInv'
  <1>1. JobsTyped /\ FileTyped /\ NothingLost /\ NothingTwice
    BY DEF IInv
  <1>2. PICK input \in Seq(Line) : input = jobs[r].lines /\ input # <<>>
    BY <1>1, JobParts DEF AppendKey, Appends
  <1>3. /\ file' \in Appended(input) /\ ended' = TRUE /\ Finish(r)
        /\ stored' = stored \cup KeysIn(input)
        /\ Note(If(Rewriting, "overlap") \cup If(Dangling, "joined"))
    BY <1>2 DEF AppendKey
  <1>4. PICK f : f = file'
    OBVIOUS
  <1>5. /\ f \in Seq(Line) /\ f # <<>>
        /\ KeysIn(f) \subseteq KeysIn(file) \cup KeysIn(input)
        /\ ~Dangling => KeysIn(f) = KeysIn(file) \cup KeysIn(input)
        /\ NoDup(file) /\ NoDup(input) /\ KeysIn(file) \cap KeysIn(input) = {} => NoDup(f)
    BY <1>1, <1>2, <1>3, <1>4, AppendedLines DEF FileTyped
  <1>6. If(Rewriting, "overlap") \cup If(Dangling, "joined") \in SUBSET Mishaps
    BY DEF If, Mishaps
  <1>7. /\ mishaps' \subseteq Mishaps /\ mishaps \subseteq mishaps'
        /\ Rewriting => "overlap" \in mishaps'
        /\ Dangling => "joined" \in mishaps'
    BY <1>1, <1>3, <1>6, Noted DEF If
  <1>8. FileTyped'
    BY <1>1, <1>3, <1>4, <1>5, <1>7 DEF FileTyped, KeysIn
  <1>9. Appends(r) /\ ~Writes(r)
    BY DEF AppendKey, Appends, Writes
  <1>10. ASSUME NoneOf({"overlap"})' PROVE \A q \in Requests \ {r} : ~Writes(q)
    BY <1>7, <1>10 DEF NoneOf, Rewriting, Writes
  <1>11. ASSUME NoneOf(Mishaps \ {"unchecked"})'
         PROVE KeysIn(file') = stored' /\ \A q \in Requests \ {r} : ~Writes(q)
    <2>1. ~Rewriting /\ ~Dangling
      BY <1>7, <1>11 DEF NoneOf, Mishaps
    <2>2. KeysIn(file) = stored
      BY <1>1, <1>7, <1>11, <2>1, NoneBefore DEF NothingLost
    <2>3. QED
      BY <1>3, <1>4, <1>5, <2>1, <2>2 DEF Rewriting, Writes
  <1>12. ASSUME NoneOf({"unchecked", "overlap", "long"})'
         PROVE /\ NoDup(file')
               /\ \A q \in Requests \ {r} : Appends(q) => jobs[q].key \notin KeysIn(file')
    <2>1. NoDup(file) /\ \A q \in Requests : Appends(q) => NewKey(q)
      BY <1>1, <1>7, <1>12, NoneBefore DEF NothingTwice
    <2>2. NoDup(input) /\ KeysIn(file) \cap KeysIn(input) = {}
      BY <1>2, <1>9, <2>1 DEF NewKey
    <2>3. \A q \in Requests \ {r} : Appends(q) =>
             jobs[q].key \notin KeysIn(file) /\ jobs[q].key \notin KeysIn(input)
      BY <1>2, <1>9, <2>1 DEF NewKey
    <2>4. QED
      BY <1>4, <1>5, <2>1, <2>2, <2>3
  <1>13. QED
    BY <1>3, <1>7, <1>8, <1>10, <1>11, <1>12, FinishStep

\* A request that ends without a change of the file.
LEMMA QuietStep ==
  ASSUME IInv, NEW r \in Requests, Finish(r), ~Writes(r),
         UNCHANGED <<file, ended, stored, mishaps>>
  PROVE IInv'
  <1>1. FileTyped /\ NothingTwice
    BY DEF IInv
  <1>2. FileTyped'
    BY <1>1 DEF FileTyped
  <1>3. ASSUME NoneOf({"unchecked", "overlap", "long"})'
        PROVE /\ NoDup(file')
              /\ \A q \in Requests \ {r} : Appends(q) => jobs[q].key \notin KeysIn(file')
    BY <1>1, <1>3 DEF NothingTwice, NoneOf, NewKey
  <1>4. QED
    BY <1>2, <1>3, FinishStep

\* The input as far as the disk took it.
CutInput(input, n, cut) == SubSeq(input, 1, n - 1) \o <<cut>>

LEMMA CutInputLines ==
  ASSUME NEW input \in Seq(Line), NEW n \in 1 .. Len(input), NEW cut \in {input[n], COMMENT}
  PROVE LET t == CutInput(input, n, cut)
        IN  /\ t \in Seq(Line) /\ t # <<>>
            /\ KeysIn(t) \subseteq KeysIn(input)
            /\ NoDup(input) => NoDup(t)
  <1>1. Len(input) \in Nat /\ n \in Nat \ {0} /\ 1 \in Nat \ {0}
        /\ n - 1 \in 0 .. Len(input) /\ n \in 0 .. Len(input)
    BY LenProperties
  <1>2. PICK head : head = SubSeq(input, 1, n - 1)
    OBVIOUS
  <1>3. /\ head \in Seq(Line) /\ KeysIn(head) \subseteq KeysIn(input)
        /\ NoDup(input) => NoDup(head)
    BY <1>1, <1>2, SubSeqLines
  <1>4. cut \in Line
    BY NoKeys, ElementOfSeq
  <1>5. PICK one \in Seq(Line) : /\ one = <<cut>> /\ Len(one) = 1 /\ NoDup(one)
                                 /\ KeysIn(one) = {cut} \cap Keys
    BY <1>4, SingleLine
  <1>6. /\ head \o one \in Seq(Line) /\ Len(head \o one) = Len(head) + Len(one)
        /\ KeysIn(head \o one) = KeysIn(head) \cup KeysIn(one)
        /\ NoDup(head) /\ NoDup(one) /\ KeysIn(head) \cap KeysIn(one) = {} => NoDup(head \o one)
    BY <1>3, ConcatLines
  <1>7. CutInput(input, n, cut) = head \o one
    BY <1>2, <1>5 DEF CutInput
  <1>8. head \o one # <<>>
    <2>1. Len(head \o one) # 0
      BY <1>3, <1>5, <1>6, LenProperties
    <2>2. QED
      BY <2>1, EmptyLines
  <1>9. CASE cut = COMMENT
    BY <1>3, <1>5, <1>6, <1>7, <1>8, <1>9, NoKeys
  <1>10. CASE cut = input[n]
    <2>1. head \o one = SubSeq(input, 1, n)
      <3>1. 1 \in 1 .. Len(input) /\ n \in 1 .. Len(input)
        BY <1>1
      <3>2. SubSeq(input, 1, n) = SubSeq(input, 1, n - 1) \o <<input[n]>>
        BY <3>1, SubSeqRecursiveSecond
      <3>3. QED
        BY <1>2, <1>5, <1>10, <3>2
    <2>2. PICK t : t = SubSeq(input, 1, n)
      OBVIOUS
    <2>3. t \in Seq(Line) /\ KeysIn(t) \subseteq KeysIn(input) /\ (NoDup(input) => NoDup(t))
      BY <1>1, <2>2, SubSeqLines
    <2>4. QED
      BY <1>7, <1>8, <2>1, <2>2, <2>3
  <1>11. QED
    BY <1>9, <1>10

LEMMA AppendFailsStep ==
  ASSUME IInv, NEW r \in Requests, AppendFails(r)
  PROVE IInv'
  <1>1. JobsTyped /\ FileTyped /\ NothingTwice /\ Finish(r) /\ Appends(r) /\ ~Writes(r)
    BY DEF IInv, AppendFails, Appends, Writes
  <1>2. PICK input \in Seq(Line) : input = jobs[r].lines /\ input # <<>>
    BY <1>1, JobParts
  <1>3. CASE UNCHANGED <<file, ended, stored, mishaps>>
    BY <1>1, <1>3, QuietStep
  <1> DEFINE ms == {"shortWrite"} \cup If(Rewriting, "overlap") \cup If(Dangling, "joined")
  <1>4. ASSUME NEW n \in 1 .. Len(input), NEW cut \in {input[n], COMMENT},
               file' \in Appended(CutInput(input, n, cut)), ended' = FALSE,
               stored' = stored, Note(ms)
        PROVE IInv'
    <2>1. PICK t : t = CutInput(input, n, cut)
      OBVIOUS
    <2>2. /\ t \in Seq(Line) /\ t # <<>> /\ KeysIn(t) \subseteq KeysIn(input)
          /\ NoDup(input) => NoDup(t)
      BY <2>1, CutInputLines
    <2>3. PICK f : f = file'
      OBVIOUS
    <2>4. /\ f \in Seq(Line) /\ f # <<>>
          /\ KeysIn(f) \subseteq KeysIn(file) \cup KeysIn(t)
          /\ NoDup(file) /\ NoDup(t) /\ KeysIn(file) \cap KeysIn(t) = {} => NoDup(f)
      BY <1>1, <1>4, <2>1, <2>2, <2>3, AppendedLines DEF FileTyped
    <2>5. ms \in SUBSET Mishaps /\ "shortWrite" \in ms /\ (Rewriting => "overlap" \in ms)
      BY DEF If, Mishaps
    <2> HIDE DEF ms
    <2>6. /\ mishaps' \subseteq Mishaps /\ mishaps \subseteq mishaps'
          /\ "shortWrite" \in mishaps' /\ (Rewriting => "overlap" \in mishaps')
      BY <1>1, <1>4, <2>5, Noted
    <2>7. FileTyped'
      BY <1>1, <1>4, <2>3, <2>4, <2>6 DEF FileTyped
    <2>8. ASSUME NoneOf({"overlap"})' PROVE \A q \in Requests \ {r} : ~Writes(q)
      BY <2>6, <2>8 DEF NoneOf, Rewriting, Writes
    <2>9. ~ NoneOf(Mishaps \ {"unchecked"})'
      BY <2>6 DEF NoneOf, Mishaps
    <2>10. ASSUME NoneOf({"unchecked", "overlap", "long"})'
           PROVE /\ NoDup(file')
                 /\ \A q \in Requests \ {r} : Appends(q) => jobs[q].key \notin KeysIn(file')
      <3>1. NoDup(file) /\ \A q \in Requests : Appends(q) => NewKey(q)
        BY <1>1, <2>6, <2>10, NoneBefore DEF NothingTwice
      <3>2. NoDup(t) /\ KeysIn(file) \cap KeysIn(t) = {}
        BY <1>1, <1>2, <2>2, <3>1 DEF NewKey
      <3>3. \A q \in Requests \ {r} : Appends(q) =>
               jobs[q].key \notin KeysIn(file) /\ jobs[q].key \notin KeysIn(input)
        BY <1>1, <1>2, <3>1 DEF NewKey
      <3>4. QED
        BY <2>2, <2>3, <2>4, <3>1, <3>2, <3>3
    <2>11. QED
      BY <1>1, <2>6, <2>7, <2>8, <2>9, <2>10, FinishStep
  <1>5. UNCHANGED <<file, ended, stored, mishaps>>
        \/ \E n \in 1 .. Len(input) : \E cut \in {input[n], COMMENT} :
              /\ file' \in Appended(CutInput(input, n, cut)) /\ ended' = FALSE
              /\ stored' = stored /\ Note(ms)
    BY <1>2, Zenon DEF AppendFails, CutInput
  <1>6. QED
    BY <1>3, <1>4, <1>5

LEMMA ReadForDeleteStep ==
  ASSUME IInv, NEW r \in Requests, NEW k \in Keys, ReadForDelete(r, k)
  PROVE IInv'
  <1>1. JobsTyped /\ FileTyped /\ OneRewrite /\ NothingLost /\ NothingTwice
    BY DEF IInv
  <1>2. PICK kept : kept = Without(Scanned(file), k)
    OBVIOUS
  <1>3. kept \in Seq(Line) /\ k \notin KeysIn(kept)
    BY <1>1, <1>2, ScannedLines, WithoutLines DEF FileTyped
  <1> DEFINE j == [pc |-> "truncate", lines |-> kept, key |-> k]
  <1>4. j \in JobStates /\ JobOK(j) /\ j.pc = "truncate"
    BY <1>3 DEF JobStates, JobOK
  <1>5. jobs' = [jobs EXCEPT ![r] = j] /\ file' = file /\ ended' = ended /\ stored' = stored
    BY <1>2 DEF ReadForDelete
  <1> HIDE DEF j
  <1>6. Becomes(r, j) /\ JobsTyped'
    BY <1>1, <1>4, <1>5, BecomesTyped
  <1>7. /\ ~Writes(r) /\ ~Writes(r)' /\ ~Appends(r)'
        /\ \A q \in Requests \ {r} : jobs'[q] = jobs[q]
        /\ \A q \in Requests \ {r} : (Writes(q)' <=> Writes(q)) /\ (Appends(q)' <=> Appends(q))
    BY <1>4, <1>6 DEF Becomes, Writes, Appends, ReadForDelete, Idle
  <1>8. If(Rewriting, "overlap") \cup If(LONG \in ToSet(file), "long") \in SUBSET Mishaps
    BY DEF If, Mishaps
  <1>9. mishaps' \subseteq Mishaps /\ mishaps \subseteq mishaps'
    BY <1>1, <1>8, Noted DEF ReadForDelete
  <1>10. FileTyped'
    BY <1>1, <1>5, <1>9 DEF FileTyped
  <1>11. OneRewrite'
    <2>1. SUFFICES ASSUME NoneOf({"overlap"})', NEW w \in Requests, Writes(w)'
                   PROVE file' = <<>> /\ \A q \in Requests : Writes(q)' => q = w
      BY DEF OneRewrite
    <2>2. Writes(w) /\ NoneOf({"overlap"})
      BY <1>7, <1>9, <2>1, NoneBefore
    <2>3. QED
      BY <1>1, <1>5, <1>7, <2>2 DEF OneRewrite
  <1>12. NothingLost'
    <2>1. SUFFICES ASSUME NoneOf(Mishaps \ {"unchecked"})'
                   PROVE /\ ~Rewriting' => KeysIn(file') = stored'
                         /\ \A w \in Requests : Writes(w)' =>
                               KeysIn(jobs'[w].lines) = stored' \ {jobs'[w].key}
      BY DEF NothingLost
    <2>2. NoneOf(Mishaps \ {"unchecked"})
      BY <1>9, <2>1, NoneBefore
    <2>3. Rewriting' <=> Rewriting
      BY <1>7 DEF Rewriting, Writes
    <2>4. QED
      BY <1>1, <1>5, <1>7, <2>2, <2>3 DEF NothingLost
  <1>13. NothingTwice'
    <2>1. SUFFICES ASSUME NoneOf({"unchecked", "overlap", "long"})'
                   PROVE /\ NoDup(file')
                         /\ \A q \in Requests : /\ Writes(q)' => NoDup(jobs'[q].lines)
                                                /\ Appends(q)' => NewKey(q)'
      BY DEF NothingTwice
    <2>2. /\ NoDup(file)
          /\ \A q \in Requests : /\ Writes(q) => NoDup(jobs[q].lines)
                                 /\ Appends(q) => NewKey(q)
      BY <1>1, <1>9, <2>1, NoneBefore DEF NothingTwice
    <2>3. ASSUME NEW q \in Requests \ {r}, Appends(q) PROVE NewKey(q)'
      <3>1. jobs'[q] = jobs[q] /\ NewKey(q)
        BY <1>7, <2>2, <2>3
      <3>2. \A p \in Requests \ {q} : Appends(p)' \/ Writes(p)' =>
               (Appends(p) \/ Writes(p)) /\ jobs'[p] = jobs[p]
        BY <1>7
      <3>3. QED
        BY <1>5, <3>1, <3>2 DEF NewKey
    <2>4. QED
      BY <1>5, <1>7, <2>2, <2>3
  <1>14. QED
    BY <1>6, <1>10, <1>11, <1>12, <1>13 DEF IInv

LEMMA TruncateStep ==
  ASSUME IInv, NEW r \in Requests, Truncate(r)
  PROVE IInv'
  <1>1. JobsTyped /\ FileTyped /\ OneRewrite /\ NothingLost /\ NothingTwice
    BY DEF IInv
  <1>2. PICK kept \in Seq(Line), k \in Keys : /\ kept = jobs[r].lines /\ k = jobs[r].key
                                             /\ k \notin KeysIn(kept)
    BY <1>1, JobParts DEF Truncate
  <1> DEFINE j == [pc |-> "write", lines |-> kept, key |-> k]
  <1>3. j \in JobStates /\ JobOK(j) /\ j.pc = "write" /\ j.lines = kept /\ j.key = k
    BY <1>2 DEF JobStates, JobOK
  <1>4. jobs' = [jobs EXCEPT ![r] = j] /\ file' = <<>> /\ ended' = TRUE /\ stored' = stored
    <2>1. jobs[r] \in JobStates
      BY <1>1, JobParts
    <2>2. [jobs[r] EXCEPT !.pc = "write"] = j
      BY <1>2, <2>1 DEF JobStates
    <2>3. jobs' = [jobs EXCEPT ![r] = [jobs[r] EXCEPT !.pc = "write"]]
      BY DEF Truncate
    <2>4. QED
      BY <2>2, <2>3 DEF Truncate
  <1> HIDE DEF j
  <1>5. Becomes(r, j) /\ JobsTyped'
    BY <1>1, <1>3, <1>4, BecomesTyped
  <1>6. /\ ~Writes(r) /\ Writes(r)' /\ ~Appends(r)' /\ jobs'[r] = j
        /\ \A q \in Requests \ {r} : jobs'[q] = jobs[q]
        /\ \A q \in Requests \ {r} : (Writes(q)' <=> Writes(q)) /\ (Appends(q)' <=> Appends(q))
    BY <1>3, <1>5 DEF Becomes, Writes, Appends, Truncate
  <1> DEFINE changed == Rewriting \/ Without(file, k) # kept
  <1>7. Note(If(changed, "overlap"))
    BY <1>2 DEF Truncate
  <1>8. /\ If(changed, "overlap") \in SUBSET Mishaps
        /\ changed => "overlap" \in If(changed, "overlap")
    BY DEF If, Mishaps
  <1> HIDE DEF changed
  <1>9. /\ mishaps' \subseteq Mishaps /\ mishaps \subseteq mishaps'
        /\ changed => "overlap" \in mishaps'
    BY <1>1, <1>7, <1>8, Noted
  <1>10. FileTyped'
    BY <1>1, <1>4, <1>9, EmptyLines DEF FileTyped
  <1>11. ASSUME "overlap" \notin mishaps'
         PROVE Without(file, k) = kept /\ ~Rewriting /\ \A q \in Requests : ~Writes(q)
    BY <1>9, <1>11 DEF changed, Rewriting, Writes
  <1>12. OneRewrite'
    <2>1. SUFFICES ASSUME NoneOf({"overlap"})', NEW w \in Requests, Writes(w)'
                   PROVE file' = <<>> /\ \A q \in Requests : Writes(q)' => q = w
      BY DEF OneRewrite
    <2>2. "overlap" \notin mishaps'
      BY <2>1 DEF NoneOf
    <2>3. QED
      BY <1>4, <1>6, <1>11, <2>1, <2>2
  <1>13. NothingLost'
    <2>1. SUFFICES ASSUME NoneOf(Mishaps \ {"unchecked"})'
                   PROVE /\ ~Rewriting' => KeysIn(file') = stored'
                         /\ \A w \in Requests : Writes(w)' =>
                               KeysIn(jobs'[w].lines) = stored' \ {jobs'[w].key}
      BY DEF NothingLost
    <2>2. "overlap" \notin mishaps'
      BY <2>1 DEF NoneOf, Mishaps
    <2>3. NoneOf(Mishaps \ {"unchecked"})
      BY <1>9, <2>1, NoneBefore
    <2>4. KeysIn(file) = stored
      BY <1>1, <1>11, <2>2, <2>3 DEF NothingLost
    <2>5. KeysIn(kept) = stored \ {k}
      BY <1>1, <1>11, <2>2, <2>4, WithoutLines DEF FileTyped
    <2>6. Rewriting'
      BY <1>6 DEF Rewriting, Writes
    <2>7. QED
      BY <1>3, <1>4, <1>6, <1>11, <2>2, <2>5, <2>6
  <1>14. NothingTwice'
    <2>1. SUFFICES ASSUME NoneOf({"unchecked", "overlap", "long"})'
                   PROVE /\ NoDup(file')
                         /\ \A q \in Requests : /\ Writes(q)' => NoDup(jobs'[q].lines)
                                                /\ Appends(q)' => NewKey(q)'
      BY DEF NothingTwice
    <2>2. "overlap" \notin mishaps'
      BY <2>1 DEF NoneOf
    <2>3. NoDup(file) /\ \A q \in Requests : Appends(q) => NewKey(q)
      BY <1>1, <1>9, <2>1, NoneBefore DEF NothingTwice
    <2>4. NoDup(kept) /\ KeysIn(kept) \subseteq KeysIn(file)
      BY <1>1, <1>11, <2>2, <2>3, WithoutLines DEF FileTyped
    <2>5. ASSUME NEW q \in Requests \ {r}, Appends(q) PROVE NewKey(q)'
      <3>1. jobs'[q] = jobs[q] /\ NewKey(q)
        BY <1>6, <2>3, <2>5
      <3>2. \A p \in Requests \ {q} : Appends(p)' \/ Writes(p)' =>
               \/ jobs'[p].lines = kept
               \/ (Appends(p) \/ Writes(p)) /\ jobs'[p] = jobs[p]
        BY <1>3, <1>6
      <3>3. KeysIn(file') = {}
        BY <1>4, EmptyLines
      <3>4. QED
        BY <2>4, <3>1, <3>2, <3>3 DEF NewKey
    <2>6. NoDup(file')
      BY <1>4, EmptyLines
    <2>7. QED
      BY <1>3, <1>6, <1>11, <2>2, <2>4, <2>5, <2>6
  <1>15. QED
    BY <1>5, <1>10, <1>12, <1>13, <1>14 DEF IInv

LEMMA TruncateFailsStep ==
  ASSUME IInv, NEW r \in Requests, TruncateFails(r)
  PROVE IInv'
  BY QuietStep DEF TruncateFails, Writes

LEMMA WriteBackStep ==
  ASSUME IInv, NEW r \in Requests, WriteBack(r)
  PROVE IInv'
  <1>1. JobsTyped /\ FileTyped /\ OneRewrite /\ NothingLost /\ NothingTwice
    BY DEF IInv
  <1>2. PICK kept \in Seq(Line) : kept = jobs[r].lines
    BY <1>1, JobParts
  <1>3. PICK f : f = file'
    OBVIOUS
  <1>4. /\ f \in Overwritten(file, kept) /\ Finish(r) /\ mishaps' = mishaps
        /\ stored' = stored \ {jobs[r].key} /\ (ended' <=> kept # <<>> \/ ended)
        /\ ended' \in BOOLEAN
    BY <1>1, <1>2, <1>3 DEF WriteBack, FileTyped
  <1>5. /\ f \in Seq(Line) /\ (kept # <<>> => f # <<>>) /\ (kept = <<>> => f = file)
        /\ file = <<>> => f = kept
    BY <1>1, <1>4, OverwrittenLines DEF FileTyped
  <1>6. FileTyped'
    BY <1>1, <1>3, <1>4, <1>5 DEF FileTyped
  <1>7. Writes(r)
    BY DEF WriteBack, Writes
  <1>8. ASSUME "overlap" \notin mishaps
        PROVE f = kept /\ \A q \in Requests \ {r} : ~Writes(q)
    <2>1. NoneOf({"overlap"})
      BY <1>8 DEF NoneOf
    <2>2. QED
      BY <1>1, <1>5, <1>7, <2>1 DEF OneRewrite
  <1>9. ASSUME NoneOf({"overlap"})' PROVE \A q \in Requests \ {r} : ~Writes(q)
    BY <1>4, <1>8, <1>9 DEF NoneOf
  <1>10. ASSUME NoneOf(Mishaps \ {"unchecked"})'
         PROVE KeysIn(file') = stored' /\ \A q \in Requests \ {r} : ~Writes(q)
    <2>1. NoneOf(Mishaps \ {"unchecked"}) /\ "overlap" \notin mishaps
      BY <1>4, <1>10 DEF NoneOf, Mishaps
    <2>2. KeysIn(kept) = stored \ {jobs[r].key}
      BY <1>1, <1>2, <1>7, <2>1 DEF NothingLost
    <2>3. QED
      BY <1>3, <1>4, <1>8, <2>1, <2>2
  <1>11. ASSUME NoneOf({"unchecked", "overlap", "long"})'
         PROVE /\ NoDup(file')
               /\ \A q \in Requests \ {r} : Appends(q) => jobs[q].key \notin KeysIn(file')
    <2>1. NoneOf({"unchecked", "overlap", "long"}) /\ "overlap" \notin mishaps
      BY <1>4, <1>11 DEF NoneOf
    <2>2. NoDup(kept) /\ \A q \in Requests : Appends(q) => NewKey(q)
      BY <1>1, <1>2, <1>7, <2>1 DEF NothingTwice
    <2>3. \A q \in Requests \ {r} : Appends(q) => jobs[q].key \notin KeysIn(kept)
      BY <1>2, <1>7, <2>2 DEF NewKey
    <2>4. QED
      BY <1>3, <1>8, <2>1, <2>2, <2>3
  <1>12. QED
    BY <1>4, <1>6, <1>9, <1>10, <1>11, FinishStep

LEMMA WriteBackFailsStep ==
  ASSUME IInv, NEW r \in Requests, WriteBackFails(r)
  PROVE IInv'
  <1>1. JobsTyped /\ FileTyped /\ OneRewrite /\ NothingTwice
    BY DEF IInv
  <1>2. PICK kept \in Seq(Line) : kept = jobs[r].lines
    BY <1>1, JobParts
  <1>3. PICK n \in 0 .. Len(kept) : /\ file' \in Overwritten(file, SubSeq(kept, 1, n))
                                    /\ ended' \in BOOLEAN
                                    /\ file' = <<>> => ended'
    BY <1>2 DEF WriteBackFails
  <1>4. PICK part : part = SubSeq(kept, 1, n)
    OBVIOUS
  <1>5. /\ part \in Seq(Line) /\ KeysIn(part) \subseteq KeysIn(kept)
        /\ NoDup(kept) => NoDup(part)
    <2>1. 1 \in Nat \ {0}
      OBVIOUS
    <2>2. QED
      BY <1>4, <2>1, SubSeqLines
  <1>6. PICK f : f = file'
    OBVIOUS
  <1>7. f \in Seq(Line) /\ (file = <<>> => f = part)
    BY <1>1, <1>3, <1>4, <1>5, <1>6, OverwrittenLines DEF FileTyped
  <1>8. Finish(r) /\ Note({"shortWrite"}) /\ stored' = stored /\ Writes(r)
    BY DEF WriteBackFails, Writes
  <1>9. {"shortWrite"} \in SUBSET Mishaps
    BY DEF Mishaps
  <1>10. mishaps' \subseteq Mishaps /\ mishaps \subseteq mishaps' /\ "shortWrite" \in mishaps'
    BY <1>1, <1>8, <1>9, Noted
  <1>11. FileTyped'
    BY <1>1, <1>3, <1>6, <1>7, <1>8, <1>10 DEF FileTyped
  <1>12. ~ NoneOf(Mishaps \ {"unchecked"})'
    BY <1>10 DEF NoneOf, Mishaps
  <1>13. ASSUME NoneOf({"overlap"})
         PROVE f = part /\ \A q \in Requests \ {r} : ~Writes(q)
    BY <1>1, <1>7, <1>8, <1>13 DEF OneRewrite
  <1>14. ASSUME NoneOf({"overlap"})' PROVE \A q \in Requests \ {r} : ~Writes(q)
    BY <1>10, <1>13, <1>14, NoneBefore
  <1>15. ASSUME NoneOf({"unchecked", "overlap", "long"})'
         PROVE /\ NoDup(file')
               /\ \A q \in Requests \ {r} : Appends(q) => jobs[q].key \notin KeysIn(file')
    <2>1. NoneOf({"unchecked", "overlap", "long"}) /\ NoneOf({"overlap"})
      BY <1>10, <1>15 DEF NoneOf
    <2>2. NoDup(kept) /\ \A q \in Requests : Appends(q) => NewKey(q)
      BY <1>1, <1>2, <1>8, <2>1 DEF NothingTwice
    <2>3. \A q \in Requests \ {r} : Appends(q) => jobs[q].key \notin KeysIn(kept)
      BY <1>2, <1>8, <2>2 DEF NewKey
    <2>4. QED
      BY <1>5, <1>6, <1>13, <2>1, <2>2, <2>3
  <1>16. QED
    BY <1>8, <1>10, <1>11, <1>12, <1>14, <1>15, FinishStep

LEMMA CrashStep ==
  ASSUME IInv, Crash
  PROVE IInv'
  <1>1. FileTyped /\ NothingLost /\ NothingTwice
    BY DEF IInv
  <1>2. jobs' = [r \in Requests |-> NoJob] /\ file' = file /\ ended' = ended /\ stored' = stored
    BY DEF Crash
  <1>3. /\ If(Rewriting, "crash") \in SUBSET Mishaps
        /\ Rewriting => "crash" \in If(Rewriting, "crash")
    BY DEF If, Mishaps
  <1>4. /\ mishaps' \subseteq Mishaps /\ mishaps \subseteq mishaps'
        /\ Rewriting => "crash" \in mishaps'
    BY <1>1, <1>3, Noted DEF Crash
  <1>5. JobsTyped'
    BY <1>2, NoJobTyped DEF JobsTyped
  <1>6. \A q \in Requests : ~Writes(q)' /\ ~Appends(q)'
    BY <1>2 DEF Writes, Appends, NoJob
  <1>7. FileTyped'
    BY <1>1, <1>2, <1>4 DEF FileTyped
  <1>8. OneRewrite'
    BY <1>6 DEF OneRewrite
  <1>9. ASSUME NoneOf(Mishaps \ {"unchecked"})' PROVE KeysIn(file') = stored'
    <2>1. ~Rewriting
      BY <1>4, <1>9 DEF NoneOf, Mishaps
    <2>2. NoneOf(Mishaps \ {"unchecked"})
      BY <1>4, <1>9, NoneBefore
    <2>3. QED
      BY <1>1, <1>2, <2>1, <2>2 DEF NothingLost
  <1>10. NothingLost'
    BY <1>6, <1>9 DEF NothingLost
  <1>11. ASSUME NoneOf({"unchecked", "overlap", "long"})' PROVE NoDup(file')
    <2>1. NoneOf({"unchecked", "overlap", "long"})
      BY <1>4, <1>11, NoneBefore
    <2>2. QED
      BY <1>1, <1>2, <2>1 DEF NothingTwice
  <1>12. NothingTwice'
    BY <1>6, <1>11 DEF NothingTwice
  <1>13. QED
    BY <1>5, <1>7, <1>8, <1>10, <1>12 DEF IInv

LEMMA StutterInv == IInv /\ UNCHANGED vars => IInv'
  <1>1. SUFFICES ASSUME IInv, UNCHANGED vars PROVE IInv'
    OBVIOUS
  <1>2. /\ file' = file /\ ended' = ended /\ jobs' = jobs /\ stored' = stored
        /\ mishaps' = mishaps
    BY <1>1 DEF vars
  <1>3. /\ (Rewriting' <=> Rewriting)
        /\ \A r \in Requests : /\ Writes(r)' <=> Writes(r)
                               /\ Appends(r)' <=> Appends(r)
                               /\ NewKey(r)' <=> NewKey(r)
    BY <1>2 DEF Rewriting, Writes, Appends, NewKey
  <1>4. QED
    BY <1>1, <1>2, <1>3
       DEF IInv, JobsTyped, FileTyped, OneRewrite, NothingLost, NothingTwice, NoneOf

\* Every step keeps the invariant.
LEMMA NextInv == IInv /\ [Next]_vars => IInv'
  <1>1. SUFFICES ASSUME IInv, Next PROVE IInv'
    BY StutterInv
  <1>2. ASSUME NEW r \in Requests, NEW i \in Inputs, CheckNewKey(r, i) PROVE IInv'
    BY <1>1, <1>2, CheckNewKeyStep
  <1>3. ASSUME NEW r \in Requests, NEW k \in Keys, ReadForDelete(r, k) PROVE IInv'
    BY <1>1, <1>3, ReadForDeleteStep
  <1>4. ASSUME NEW r \in Requests, AppendKey(r) PROVE IInv'
    BY <1>1, <1>4, AppendKeyStep
  <1>5. ASSUME NEW r \in Requests, AppendFails(r) PROVE IInv'
    BY <1>1, <1>5, AppendFailsStep
  <1>6. ASSUME NEW r \in Requests, Truncate(r) PROVE IInv'
    BY <1>1, <1>6, TruncateStep
  <1>7. ASSUME NEW r \in Requests, TruncateFails(r) PROVE IInv'
    BY <1>1, <1>7, TruncateFailsStep
  <1>8. ASSUME NEW r \in Requests, WriteBack(r) PROVE IInv'
    BY <1>1, <1>8, WriteBackStep
  <1>9. ASSUME NEW r \in Requests, WriteBackFails(r) PROVE IInv'
    BY <1>1, <1>9, WriteBackFailsStep
  <1>10. CASE Crash
    BY <1>1, <1>10, CrashStep
  <1>11. QED
    BY <1>1, <1>2, <1>3, <1>4, <1>5, <1>6, <1>7, <1>8, <1>9, <1>10 DEF Next

\* The invariant holds in every state: as long as a kind of mishap did not
\* occur, what IInv says of it is so (Add, Delete).
THEOREM Invariance == Spec => []IInv
  BY InitInv, NextInv, PTL DEF Spec

\* What the file, the requests' memory and the history hold stays of its type.
THEOREM TypeCorrect == Spec => []TypeOK
  BY Invariance, IInvType, PTL

\* MishapsExplain: a key is lost only by an overlap, a glued line, a stopped
\* scan, a crash or a full disk, and doubled only by an Add that did not see it
\* or by the first and the third of those (Add, Delete).
THEOREM MishapsExplainHolds == Spec => []MishapsExplain
  BY Invariance, IInvExplains, PTL

-----------------------------------------------------------------------------
(* Refinement                                                              *)

\* Without a mishap the set that the file stands for is the history's.
LEMMA ViewIsStored == IInv /\ mishaps = {} => KeyView = stored
  <1>1. SUFFICES ASSUME IInv, mishaps = {} PROVE KeyView = stored
    OBVIOUS
  <1>2. NoneOf(Mishaps \ {"unchecked"})
    BY <1>1 DEF NoneOf
  <1>3. CASE ~Rewriting
    BY <1>1, <1>2, <1>3 DEF IInv, NothingLost, KeyView
  <1>4. CASE Rewriting
    <2> DEFINE w == CHOOSE r \in Requests : jobs[r].pc = "write"
    <2>1. w \in Requests /\ Writes(w)
      BY <1>4 DEF Rewriting, Writes
    <2>2. KeyView = KeysIn(jobs[w].lines) \cup ({jobs[w].key} \cap stored)
      BY <1>4 DEF KeyView
    <2> HIDE DEF w
    <2>3. KeysIn(jobs[w].lines) = stored \ {jobs[w].key}
      BY <1>1, <1>2, <2>1 DEF IInv, NothingLost
    <2>4. QED
      BY <2>2, <2>3
  <1>5. QED
    BY <1>3, <1>4

LEMMA InitView == Init => KeyView = stored /\ stored \subseteq Keys
  <1>1. SUFFICES ASSUME Init PROVE KeyView = stored /\ stored \subseteq Keys
    OBVIOUS
  <1>2. ~Rewriting
    BY <1>1 DEF Init, Rewriting, NoJob
  <1>3. QED
    BY <1>1, <1>2 DEF Init, KeyView, KeysIn

\* The history takes the steps of the abstract set: Add when an append ends,
\* Delete when a rewrite ends.
LEMMA HistoryStep ==
  ASSUME IInv, Next, mishaps \subseteq mishaps', mishaps' = {}
  PROVE \/ stored' = stored
        \/ \E k \in Keys : \/ k \notin stored /\ stored' = stored \cup {k}
                           \/ k \in stored /\ stored' = stored \ {k}
  <1>1. JobsTyped /\ FileTyped /\ NothingLost /\ NothingTwice
    BY DEF IInv
  <1>2. mishaps = {} /\ NoneOf(Mishaps \ {"unchecked"})
        /\ NoneOf({"unchecked", "overlap", "long"})
    BY DEF NoneOf
  <1>3. ASSUME NEW r \in Requests, AppendKey(r)
        PROVE \E k \in Keys : k \notin stored /\ stored' = stored \cup {k}
    <2>1. Appends(r) /\ stored' = stored \cup KeysIn(jobs[r].lines)
      BY <1>3 DEF AppendKey, Appends
    <2>2. PICK k : k = jobs[r].key
      OBVIOUS
    <2>3. KeysIn(jobs[r].lines) = {k} /\ k \notin KeysIn(file)
      BY <1>1, <1>2, <2>1, <2>2 DEF NothingTwice, NewKey
    <2>4. ~Rewriting
      <3>1. Note(If(Rewriting, "overlap") \cup If(Dangling, "joined"))
        BY <1>3 DEF AppendKey
      <3>2. QED
        BY <3>1 DEF Note, If
    <2>5. KeysIn(file) = stored
      BY <1>1, <1>2, <2>4 DEF NothingLost
    <2>6. k \in Keys
      BY <2>3 DEF KeysIn
    <2>7. QED
      BY <2>1, <2>3, <2>5, <2>6
  <1>4. ASSUME NEW r \in Requests, WriteBack(r)
        PROVE stored' = stored \/ \E k \in Keys : k \in stored /\ stored' = stored \ {k}
    <2>1. PICK k \in Keys : k = jobs[r].key
      BY <1>1, <1>4, JobParts DEF WriteBack
    <2>2. stored' = stored \ {k}
      BY <1>4, <2>1 DEF WriteBack
    <2>3. QED
      BY <2>2
  <1>5. ASSUME NEW r \in Requests, NEW i \in Inputs, CheckNewKey(r, i)
        PROVE stored' = stored
    BY <1>5 DEF CheckNewKey
  <1>6. ASSUME NEW r \in Requests, NEW k \in Keys, ReadForDelete(r, k)
        PROVE stored' = stored
    BY <1>6 DEF ReadForDelete
  <1>7. ASSUME NEW r \in Requests,
               AppendFails(r) \/ Truncate(r) \/ TruncateFails(r) \/ WriteBackFails(r)
        PROVE stored' = stored
    BY <1>7 DEF AppendFails, Truncate, TruncateFails, WriteBackFails
  <1>8. CASE Crash
    BY <1>8 DEF Crash
  <1>9. QED
    BY <1>3, <1>4, <1>5, <1>6, <1>7, <1>8 DEF Next

LEMMA MishapsStay == Next => mishaps \subseteq mishaps'
  BY DEF Next, CheckNewKey, AppendKey, AppendFails, ReadForDelete, Truncate, TruncateFails,
         WriteBack, WriteBackFails, Crash, Note

\* Until a mishap every step of the file is a step of the set, or none.
LEMMA StepRefines ==
  IInv /\ IInv' /\ [Next]_vars => (mishaps' = {} => [Abstract!Next]_KeyView)
  <1>1. SUFFICES ASSUME IInv, IInv', [Next]_vars, mishaps' = {}
                 PROVE [Abstract!Next]_KeyView
    OBVIOUS
  <1>2. CASE UNCHANGED vars
    BY <1>2 DEF vars, KeyView, Rewriting
  <1>3. CASE Next
    <2>1. mishaps = {} /\ mishaps \subseteq mishaps'
      BY <1>1, <1>3, MishapsStay
    <2>2. KeyView = stored
      BY <1>1, <2>1, ViewIsStored
    <2>3. (IInv /\ mishaps = {} => KeyView = stored)'
      BY ViewIsStored, PTL
    <2>4. \/ stored' = stored
          \/ \E k \in Keys : \/ k \notin stored /\ stored' = stored \cup {k}
                             \/ k \in stored /\ stored' = stored \ {k}
      BY <1>1, <1>3, <2>1, HistoryStep
    <2>5. QED
      BY <1>1, <2>2, <2>3, <2>4 DEF Abstract!Next, Abstract!Add, Abstract!Delete
  <1>4. QED
    BY <1>1, <1>2, <1>3

\* ImplementsKeySet: until a mishap every step of Add and Delete adds one new
\* key to a set, deletes one from it, or leaves it alone (Add, Delete).
THEOREM ImplementsKeySetHolds == Spec => ImplementsKeySet
  <1>1. Init => Abstract!Init
    BY InitView DEF Abstract!Init
  <1>2. IInv /\ IInv' /\ [Next]_vars => (mishaps' = {} => [Abstract!Next]_KeyView)
    BY StepRefines
  <1>3. QED
    BY <1>1, <1>2, Invariance, PTL DEF Spec, ImplementsKeySet

(***************************************************************************)
(* The sizes of volumes                                                    *)
(***************************************************************************)

Volumes == [Names -> [capacity : Nat, format : {"none", "raw", "qcow2"}]]

CreateJobs == [pc : {"create", "describe"}, name : Names, format : Formats, size : FormSizes,
               before : Volumes]
CloneJobs == [pc : {"clone", "grow", "describe"}, orig : Names, name : Names, format : Formats,
              size : FormSizes, seen : Nat, before : Volumes]
ResizeJobs == [pc : {"resize"}, name : Names, size : Sizes, before : Volumes]
IdleJobs == [pc : {"idle"}]

Jobs == IdleJobs \cup CreateJobs \cup CloneJobs \cup ResizeJobs

SizesTyped == volumes \in Volumes /\ job \in Jobs /\ meddled \in BOOLEAN

\* Until a call of the request has changed something, nothing has changed, and
\* what Clone read of the original is still so.
Fresh == /\ job.pc \in {"create", "clone", "resize"} /\ ~meddled => volumes = job.before
         /\ job.pc = "clone" /\ ~meddled => volumes[job.orig].capacity = job.seen

\* The volumes are those before the request and a new one.
OneMore == /\ job.before[job.name] = NoVolume
           /\ volumes = [job.before EXCEPT ![job.name] = volumes[job.name]]

\* Between the two halves of a clone there is the small volume; libvirt has
\* taken the size, so Bytes does not wrap.
Half == job.pc = "grow" =>
           /\ job.size \in Sizes /\ Fits(job.size) /\ job.format = "qcow2"
           /\ ~meddled => OneMore /\ volumes[job.name].format = "qcow2"

\* What is to be read back is large enough.
Made == job.pc = "describe" =>
           /\ job.size \in Sizes
           /\ ~meddled => OneMore /\ volumes[job.name].capacity >= Asked(job.size)

SizeInv == SizesTyped /\ Fresh /\ Half /\ Made

-----------------------------------------------------------------------------
(* Sizes                                                                   *)

\* What a form asks for is a number of bytes (Size.Bytes).
LEMMA AskedIsNat == ASSUME NEW size \in Sizes PROVE Asked(size) \in Nat
<1>1. \A v \in Values : v \in Nat
  BY ValuesAssumption, WordAssumption
<1>2. size.value \in Nat /\ size.unit \in Units
  BY <1>1 DEF Sizes
<1>3. Kilo * Kilo \in Nat /\ Kilo * Kilo * Kilo \in Nat
  BY WordAssumption
<1>4. Factor[size.unit] \in Nat
  BY <1>2, <1>3, WordAssumption DEF Factor, Units
<1> QED BY <1>2, <1>4 DEF Asked

\* Bytes is a word, and what was asked for when that fits (Size.Bytes).
LEMMA BytesOfAsked ==
    ASSUME NEW size \in Sizes
    PROVE  Bytes(size) \in Nat /\ (Fits(size) => Bytes(size) = Asked(size))
<1>1. \A a \in Nat, w \in Nat \ {0} : a % w \in Nat /\ (a < w => a % w = a)
  OBVIOUS
<1> QED BY <1>1, AskedIsNat, WordAssumption DEF Bytes, Fits

-----------------------------------------------------------------------------
(* The invariant                                                           *)

\* A volume of a known size is a value of a function of volumes.
LEMMA VolumeFits ==
    ASSUME NEW vs \in Volumes, NEW n \in Names, NEW c \in Nat, NEW f \in {"none", "raw", "qcow2"}
    PROVE  [vs EXCEPT ![n] = Volume(c, f)] \in Volumes
BY DEF Volumes, Volume

\* What a request carries while a call of it runs.
LEMMA JobOfCall ==
    ASSUME SizesTyped, Half, Made
    PROVE  /\ job.pc = "create" => job \in CreateJobs
           /\ job.pc \in {"clone", "grow"} => job \in CloneJobs
           /\ job.pc \in {"grow", "resize", "describe"} => job.name \in Names /\ job.size \in Sizes
           /\ job.pc \in {"create", "clone"} /\ ~Panics(job.size) => job.size \in Sizes
BY DEF SizesTyped, Half, Made, Jobs, IdleJobs, CreateJobs, CloneJobs, ResizeJobs, Panics, Sizes, FormSizes

\* A step of a request changes where it is and nothing else of it.
LEMMA StepOfJob ==
    ASSUME SizesTyped, NEW next \in {"grow", "describe"}, Step(next),
           \/ job \in CloneJobs
           \/ job \in CreateJobs /\ next = "describe"
    PROVE  /\ job' \in Jobs /\ job'.pc = next /\ job' # NoRequest /\ meddled' = meddled
           /\ job'.name = job.name /\ job'.size = job.size /\ job'.format = job.format
           /\ job'.before = job.before
<1>1. job' = [job EXCEPT !.pc = next] /\ meddled' = meddled
  BY DEF Step
<1>2. CASE job \in CloneJobs
  <2>1. job' \in CloneJobs
    BY <1>1, <1>2 DEF CloneJobs
  <2> QED BY <1>1, <1>2, <2>1 DEF CloneJobs, Jobs, NoRequest
<1>3. CASE job \in CreateJobs /\ next = "describe"
  <2>1. job' \in CreateJobs
    BY <1>1, <1>3 DEF CreateJobs
  <2> QED BY <1>1, <1>3, <2>1 DEF CreateJobs, Jobs, NoRequest
<1> QED BY <1>2, <1>3

\* Nothing has happened yet when vmango starts.
LEMMA SizeInitInv == SizeInit => SizeInv
<1> SUFFICES ASSUME SizeInit PROVE SizeInv
  OBVIOUS
<1>1. \A v \in Values : v \in Nat
  BY ValuesAssumption, WordAssumption
<1>2. volumes \in Volumes
  BY <1>1 DEF SizeInit, Volumes, NoVolume, Volume
<1>3. NoRequest \in Jobs /\ NoRequest.pc = "idle"
  BY DEF Jobs, IdleJobs, NoRequest
<1>4. SizesTyped
  BY <1>2, <1>3 DEF SizeInit, SizesTyped
<1>5. Fresh /\ Half /\ Made
  BY <1>3 DEF SizeInit, Fresh, Half, Made
<1> QED BY <1>4, <1>5 DEF SizeInv

\* A request that is answered, or starts with what the form sent.
LEMMA IdleStep == ASSUME SizesTyped, volumes' \in Volumes, job' = NoRequest, meddled' = FALSE PROVE SizeInv'
<1>1. NoRequest \in Jobs /\ NoRequest.pc = "idle"
  BY DEF Jobs, IdleJobs, NoRequest
<1> QED BY <1>1 DEF SizeInv, SizesTyped, Fresh, Half, Made

LEMMA BeginStep ==
    ASSUME SizesTyped, NEW j \in Jobs, Begin(j), j.pc \in {"create", "clone", "resize"},
           j.before = volumes, j.pc = "clone" => volumes[j.orig].capacity = j.seen
    PROVE  SizeInv'
BY DEF Begin, SizeInv, SizesTyped, Fresh, Half, Made

\* StorageVolCreateXML makes one volume, of the size asked for.
LEMMA CreateStep == SizeInv /\ StorageVolCreateXML => SizeInv'
<1> SUFFICES ASSUME SizeInv, StorageVolCreateXML PROVE SizeInv'
  OBVIOUS
<1> USE DEF SizeInv
<1>1. job \in CreateJobs /\ job.size \in Sizes /\ Asked(job.size) \in Nat
  BY JobOfCall, AskedIsNat DEF StorageVolCreateXML
<1>2. job.name \in Names /\ job.pc = "create" /\ Step("describe") /\ volumes[job.name] = NoVolume
  BY <1>1 DEF StorageVolCreateXML, CreateJobs, Exists
<1>3. PICK f \in {"raw", "qcow2"} :
        volumes' = [volumes EXCEPT ![job.name] = Volume(Asked(job.size), f)]
  BY DEF StorageVolCreateXML
<1>4. volumes' \in Volumes
  BY <1>1, <1>2, <1>3, VolumeFits DEF SizesTyped
<1>5. /\ job' \in Jobs /\ job'.pc = "describe" /\ meddled' = meddled
      /\ job'.name = job.name /\ job'.size = job.size /\ job'.before = job.before
  BY <1>1, <1>2, StepOfJob
<1>6. volumes'[job.name] = Volume(Asked(job.size), f)
  BY <1>2, <1>3 DEF SizesTyped, Volumes
<1>7. ~meddled => volumes = job.before
  BY <1>2 DEF Fresh
<1>8. ~meddled => OneMore'
  BY <1>2, <1>3, <1>5, <1>6, <1>7 DEF OneMore
<1>9. volumes'[job.name].capacity >= Asked(job.size)
  BY <1>1, <1>6 DEF Volume
<1>10. Made'
  BY <1>1, <1>5, <1>8, <1>9 DEF Made
<1> QED BY <1>4, <1>5, <1>10 DEF SizesTyped, Fresh, Half

\* StorageVolCreateXMLFrom makes one volume, large enough unless it is to grow.
LEMMA CloneStep == SizeInv /\ StorageVolCreateXMLFrom => SizeInv'
<1> SUFFICES ASSUME SizeInv, StorageVolCreateXMLFrom PROVE SizeInv'
  OBVIOUS
<1> USE DEF SizeInv
<1> DEFINE c == volumes[job.orig].capacity
           a == Asked(job.size)
           next == IF Grows(job) THEN "grow" ELSE "describe"
<1>1. job \in CloneJobs /\ job.size \in Sizes /\ a \in Nat /\ Fits(job.size) /\ Bytes(job.size) = a
  BY JobOfCall, AskedIsNat, BytesOfAsked DEF StorageVolCreateXMLFrom
<1>2. /\ job.name \in Names /\ job.orig \in Names /\ job.pc = "clone" /\ Step(next)
      /\ volumes[job.name] = NoVolume
  BY <1>1 DEF StorageVolCreateXMLFrom, CloneJobs, Exists
<1>3. c \in Nat
  BY <1>2 DEF SizesTyped, Volumes
<1> DEFINE new == IF job.format = "qcow2" THEN Volume(c, "qcow2")
                                          ELSE Volume(IF c < a THEN a ELSE c, "raw")
<1>4. volumes' = [volumes EXCEPT ![job.name] = new]
  BY DEF StorageVolCreateXMLFrom
<1>5. volumes' \in Volumes
  BY <1>1, <1>2, <1>3, <1>4, VolumeFits DEF SizesTyped
<1>6. /\ job' \in Jobs /\ job'.pc = next /\ meddled' = meddled /\ job'.format = job.format
      /\ job'.name = job.name /\ job'.size = job.size /\ job'.before = job.before
  BY <1>1, <1>2, StepOfJob
<1>7. volumes'[job.name] = new
  BY <1>2, <1>4 DEF SizesTyped, Volumes
<1>8. ~meddled => volumes = job.before /\ c = job.seen
  BY <1>2 DEF Fresh
<1>9. ~meddled => OneMore'
  BY <1>2, <1>4, <1>6, <1>7, <1>8 DEF OneMore
<1>10. Half'
  BY <1>1, <1>6, <1>7, <1>9 DEF Half, Grows, Volume
<1>11. ~Grows(job) /\ ~meddled => new.capacity >= a
  BY <1>1, <1>3, <1>8 DEF Grows, Volume
<1>12. Made'
  BY <1>1, <1>6, <1>7, <1>9, <1>11 DEF Made
<1> QED BY <1>5, <1>6, <1>10, <1>12 DEF SizesTyped, Fresh

\* Resize sets the size that Bytes gives: the one asked for after a clone.
LEMMA ResizeStep == SizeInv /\ StorageVolResize => SizeInv'
<1> SUFFICES ASSUME SizeInv, StorageVolResize PROVE SizeInv'
  OBVIOUS
<1> USE DEF SizeInv
<1>1. job.name \in Names /\ job.size \in Sizes /\ Bytes(job.size) \in Nat
  BY JobOfCall, BytesOfAsked DEF StorageVolResize
<1>2. volumes' = [volumes EXCEPT ![job.name].capacity = Bytes(job.size)]
  BY DEF StorageVolResize
<1>3. volumes' \in Volumes
  BY <1>1, <1>2 DEF SizesTyped, Volumes
<1>4. CASE job.pc # "grow"
  BY <1>3, <1>4, IdleStep DEF StorageVolResize, Answer
<1>5. CASE job.pc = "grow"
  <2>1. job \in CloneJobs /\ Step("describe")
    BY <1>5, JobOfCall DEF StorageVolResize
  <2>2. /\ job' \in Jobs /\ job'.pc = "describe" /\ meddled' = meddled
        /\ job'.name = job.name /\ job'.size = job.size /\ job'.before = job.before
    BY <2>1, StepOfJob
  <2>3. volumes'[job.name].capacity = Asked(job.size) /\ Asked(job.size) \in Nat
    BY <1>1, <1>2, <1>5, BytesOfAsked, AskedIsNat DEF SizesTyped, Volumes, Half
  <2>4. ~meddled => OneMore'
    <3>1. SUFFICES ASSUME ~meddled PROVE OneMore'
      OBVIOUS
    <3>2. OneMore
      BY <1>5, <3>1 DEF Half
    <3>3. job.before \in Volumes
      BY <2>1 DEF CloneJobs
    <3>4. volumes' = [job.before EXCEPT ![job.name] = volumes'[job.name]]
      BY <1>1, <1>2, <3>2, <3>3 DEF OneMore, SizesTyped, Volumes
    <3> QED BY <2>2, <3>2, <3>4 DEF OneMore
  <2>5. Made'
    BY <1>1, <2>2, <2>3, <2>4 DEF Made
  <2> QED BY <1>3, <2>2, <2>5 DEF SizesTyped, Fresh, Half
<1> QED BY <1>4, <1>5

\* An operator makes the claims void; the request goes on with its types.
LEMMA OperatorStep == SizeInv /\ (\E n \in Names : Operator(n)) => SizeInv'
<1> SUFFICES ASSUME SizeInv, NEW n \in Names, Operator(n) PROVE SizeInv'
  OBVIOUS
<1> USE DEF SizeInv
<1>1. \A v \in Values : v \in Nat
  BY ValuesAssumption, WordAssumption
<1>2. NoVolume = Volume(0, "none")
  BY DEF NoVolume, Volume
<1>3. volumes' \in Volumes
  BY <1>1, <1>2, VolumeFits DEF Operator, SizesTyped, Volumes
<1>4. CASE job = NoRequest
  BY <1>3, <1>4, IdleStep DEF Operator
<1>5. CASE job # NoRequest
  <2>1. job' = [job EXCEPT !.before = volumes'] /\ meddled' = TRUE
    BY <1>5 DEF Operator
  <2>2. job \in CreateJobs \cup CloneJobs \cup ResizeJobs
    BY <1>5 DEF SizesTyped, Jobs, IdleJobs, NoRequest
  <2>3. job' \in Jobs /\ job'.pc = job.pc /\ job'.size = job.size
    BY <1>3, <2>1, <2>2 DEF Jobs, CreateJobs, CloneJobs, ResizeJobs
  <2>4. job.pc = "grow" => job'.format = job.format
    BY <2>1, <2>2 DEF CreateJobs, CloneJobs, ResizeJobs
  <2> QED BY <1>3, <2>1, <2>3, <2>4 DEF SizesTyped, Fresh, Half, Made
<1> QED BY <1>4, <1>5

\* The invariant of the three theorems.
THEOREM SizeInvHolds == SizeSpec => []SizeInv
<1>1. SizeInv /\ [SizeNext]_sizeVars => SizeInv'
  <2> SUFFICES ASSUME SizeInv, [SizeNext]_sizeVars PROVE SizeInv'
    OBVIOUS
  <2> USE DEF SizeInv
  <2>1. ASSUME NEW n \in Names, NEW size \in Sizes, ResizeVolume(n, size) PROVE SizeInv'
    <3>1. [pc |-> "resize", name |-> n, size |-> size, before |-> volumes] \in Jobs
      BY DEF SizesTyped, Jobs, ResizeJobs
    <3> QED BY <2>1, <3>1, BeginStep DEF ResizeVolume
  <2>2. ASSUME NEW n \in Names, NEW f \in Formats, NEW size \in FormSizes,
               CreateVolume(n, f, size)
        PROVE  SizeInv'
    <3>1. [pc |-> "create", name |-> n, format |-> f, size |-> size, before |-> volumes] \in Jobs
      BY DEF SizesTyped, Jobs, CreateJobs
    <3> QED BY <2>2, <3>1, BeginStep DEF CreateVolume
  <2>3. ASSUME NEW n \in Names, NEW f \in Formats, NEW size \in FormSizes, NEW o \in Names,
               CloneVolume(o, n, f, size)
        PROVE  SizeInv'
    <3>1. [pc |-> "clone", orig |-> o, name |-> n, format |-> f, size |-> size,
           seen |-> volumes[o].capacity, before |-> volumes] \in Jobs
      BY DEF SizesTyped, Volumes, Jobs, CloneJobs
    <3> QED BY <2>3, <3>1, BeginStep DEF CloneVolume
  <2>4. CASE Describe \/ Fail
    BY <2>4, IdleStep DEF Describe, Fail, Answer, SizesTyped
  <2>5. CASE UNCHANGED sizeVars
    BY <2>5 DEF sizeVars, SizesTyped, Fresh, Half, Made, OneMore
  <2> QED BY <2>1, <2>2, <2>3, <2>4, <2>5, CreateStep, CloneStep, ResizeStep, OperatorStep DEF SizeNext
<1> QED BY SizeInitInv, <1>1, PTL DEF SizeSpec

-----------------------------------------------------------------------------
(* The properties                                                          *)

\* Which steps answer.
LEMMA Answers ==
    ASSUME SizeInv, [SizeNext]_sizeVars, NEW a \in {"ok", "error"}, Answered(a)
    PROVE  IF a = "error" THEN Fail ELSE Describe \/ (StorageVolResize /\ job.pc = "resize")
<1> USE DEF SizeInv
<1>1. ASSUME NEW j, Begin(j) PROVE FALSE
  BY <1>1 DEF Begin, Answered
<1>2. ASSUME NEW n \in Names, Operator(n) PROVE FALSE
  BY <1>2 DEF Operator, Answered
<1>3. CASE UNCHANGED sizeVars
  BY <1>3 DEF sizeVars, Answered
<1>4. (Fail => answer' = "error") /\ (Describe => answer' = "ok")
  BY DEF Fail, Describe, Answer
<1>5. ~StorageVolCreateXML
  BY JobOfCall, StepOfJob DEF StorageVolCreateXML, Answered
<1>6. ~StorageVolCreateXMLFrom
  BY JobOfCall, StepOfJob DEF StorageVolCreateXMLFrom, Answered
<1>7. StorageVolResize => job.pc = "resize" /\ answer' = "ok"
  BY JobOfCall, StepOfJob DEF StorageVolResize, Answered, Answer
<1> QED BY <1>1, <1>2, <1>3, <1>4, <1>5, <1>6, <1>7
        DEF SizeNext, ResizeVolume, CreateVolume, CloneVolume, Answered

\* A success of Create, Clone or Resize is a volume of the size asked for, for
\* any numbers: only a Resize beyond the word is not (Size.Bytes).
THEOREM SizeAsAskedHolds == SizeSpec => SizeAsAsked
<1>1. ASSUME SizeInv, [SizeNext]_sizeVars, Answered("ok")
      PROVE  \/ volumes'[job.name].capacity >= Asked(job.size)
             \/ job.pc = "resize" /\ ~Fits(job.size)
  <2> USE <1>1 DEF SizeInv
  <2>1. CASE Describe
    BY <2>1 DEF Describe, Made, Answered
  <2>2. CASE StorageVolResize /\ job.pc = "resize"
    <3>1. job.name \in Names /\ job.size \in Sizes
      BY <2>2, JobOfCall
    <3>2. volumes'[job.name].capacity = Bytes(job.size)
      BY <2>2, <3>1 DEF StorageVolResize, SizesTyped, Volumes
    <3> QED BY <2>2, <3>1, <3>2, AskedIsNat, BytesOfAsked
  <2> QED BY <2>1, <2>2, Answers
<1> QED BY <1>1, SizeInvHolds, PTL DEF SizeSpec, SizeAsAsked

\* All that a failed Create, Clone or Resize leaves behind is the one volume it
\* made.
THEOREM FailureLeavesOneVolumeHolds == SizeSpec => FailureLeavesOneVolume
<1>1. ASSUME SizeInv, [SizeNext]_sizeVars, Answered("error")
      PROVE  \/ volumes' = job.before
             \/ /\ [volumes' EXCEPT ![job.name] = NoVolume] = job.before
                /\ \/ job.pc = "describe"
                   \/ job.pc = "grow" /\ volumes'[job.name].format = "qcow2"
  <2> USE <1>1 DEF SizeInv
  <2>1. Fail /\ volumes' = volumes /\ ~meddled
    BY Answers DEF Fail, Answered
  <2>2. job \in CreateJobs \cup CloneJobs \cup ResizeJobs
    BY <2>1 DEF Fail, SizesTyped, Jobs, IdleJobs, NoRequest
  <2>3. CASE job.pc \in {"create", "clone", "resize"}
    BY <2>1, <2>3 DEF Fresh
  <2>4. CASE job.pc \in {"grow", "describe"}
    <3>1. job.name \in Names /\ job.before \in Volumes
      BY <2>2 DEF CreateJobs, CloneJobs, ResizeJobs
    <3>2. OneMore /\ (job.pc = "grow" => volumes[job.name].format = "qcow2")
      BY <2>1, <2>4 DEF Half, Made
    <3>3. [volumes EXCEPT ![job.name] = NoVolume] = job.before
      BY <3>1, <3>2 DEF OneMore, Volumes
    <3> QED BY <2>1, <2>4, <3>2, <3>3
  <2> QED BY <2>2, <2>3, <2>4 DEF CreateJobs, CloneJobs, ResizeJobs
<1> QED BY <1>1, SizeInvHolds, PTL DEF SizeSpec, FailureLeavesOneVolume

\* No call of vmango makes a volume smaller or changes another than its own,
\* whatever an operator does in between (Clone, Resize).
THEOREM NeverShrinksHolds == SizeSpec => NeverShrinks
<1>1. ASSUME SizeInv, [SizeNext]_sizeVars, job'.pc # job.pc, NEW n \in Names
      PROVE  /\ Exists(n) => volumes'[n].capacity >= volumes[n].capacity
             /\ (volumes'[n] # volumes[n]) => (job.name = n)
  <2> USE <1>1 DEF SizeInv
  <2>0. volumes[n].capacity \in Nat
    BY DEF SizesTyped, Volumes
  <2>1. CASE StorageVolCreateXML \/ StorageVolCreateXMLFrom
    <3>1. job.name # n => volumes'[n] = volumes[n]
      BY <2>1 DEF StorageVolCreateXML, StorageVolCreateXMLFrom, SizesTyped, Volumes
    <3>2. ~Exists(job.name)
      BY <2>1 DEF StorageVolCreateXML, StorageVolCreateXMLFrom
    <3> QED BY <2>0, <3>1, <3>2
  <2>2. CASE StorageVolResize
    <3>1. job.name \in Names /\ job.size \in Sizes
      BY <2>2, JobOfCall DEF StorageVolResize
    <3>2. job.name # n => volumes'[n] = volumes[n]
      BY <2>2 DEF StorageVolResize, SizesTyped, Volumes
    <3>3. job.name = n => volumes'[n].capacity = Bytes(job.size)
      BY <2>2, <3>1 DEF StorageVolResize, SizesTyped, Volumes
    <3>4. job.name = n => volumes[n].capacity <= Bytes(job.size)
      BY <2>2 DEF StorageVolResize
    <3> QED BY <2>0, <3>1, <3>2, <3>3, <3>4, BytesOfAsked
  <2>3. CASE UNCHANGED volumes
    BY <2>0, <2>3
  <2>4. ASSUME NEW m \in Names, Operator(m) PROVE FALSE
    <3>1. CASE job = NoRequest
      BY <2>4, <3>1 DEF Operator
    <3>2. CASE job # NoRequest
      BY <2>4, <3>2 DEF Operator, SizesTyped, Jobs, IdleJobs, CreateJobs, CloneJobs, ResizeJobs
    <3> QED BY <3>1, <3>2
  <2>5. \/ StorageVolCreateXML \/ StorageVolCreateXMLFrom \/ StorageVolResize
        \/ UNCHANGED volumes \/ \E m \in Names : Operator(m)
    BY DEF SizeNext, ResizeVolume, CreateVolume, CloneVolume, Begin, Describe, Fail, sizeVars
  <2> QED BY <2>1, <2>2, <2>3, <2>4, <2>5
<1>2. SizeInv /\ [SizeNext]_sizeVars
      => (job'.pc # job.pc
          => \A n \in Names :
                /\ Exists(n) => volumes'[n].capacity >= volumes[n].capacity
                /\ (volumes'[n] # volumes[n]) => (job.name = n))
  BY <1>1
<1> QED BY <1>2, SizeInvHolds, PTL DEF SizeSpec, NeverShrinks

\* All three together: what an answer of Create, Clone or Resize says of the
\* sizes is so, and no other volume changes.
THEOREM SizesSoundHolds == SizeSpec => SizesSound
BY SizeAsAskedHolds, FailureLeavesOneVolumeHolds, NeverShrinksHolds, PTL DEF SizesSound

(***************************************************************************)
(* The list of keys                                                        *)
(***************************************************************************)

-----------------------------------------------------------------------------
(* Where the lines are in the text                                         *)

Byte == Nat \X Nat
Lines == content.lines
Count == Len(content.lines)

\* off[k] is where line k ends, with its newline.
Laid(off) ==
  /\ off \in [0 .. Count -> Nat] /\ off[0] = 0
  /\ Text \in Seq(Byte)
  /\ Len(Text) = IF content.ended \/ Count = 0 THEN off[Count] ELSE off[Count] - 1
  /\ \A k \in 1 .. Count :
       /\ off[k] = off[k - 1] + Lines[k].len + 1
       /\ \A j \in 1 .. Lines[k].len : Text[off[k - 1] + j] = <<k, j>>
       /\ off[k] <= Len(Text) => Text[off[k]] = NL

LEMMA LinesTyped ==
  ASSUME content \in Contents
  PROVE /\ Count \in Nat /\ DOMAIN Lines = 1 .. Count
        /\ Lines \in Seq(ToSet(Lines))
        /\ \A k \in 1 .. Count : /\ Lines[k] \in ToSet(Lines) /\ Lines[k].len \in Nat
                                 /\ Lines[k].len = 0 => Lines[k].key = NoKey
  <1>1. /\ Lines \in Seq(ToSet(Lines))
        /\ \A i \in DOMAIN Lines : /\ Lines[i].len \in Nat
                                   /\ Lines[i].len = 0 => Lines[i].key = NoKey
    BY ContentsAssumption DEF Lines
  <1>2. Len(Lines) \in Nat /\ DOMAIN Lines = 1 .. Len(Lines)
        /\ \A k \in 1 .. Len(Lines) : Lines[k] \in ToSet(Lines)
    BY <1>1, LenProperties, InToSet
  <1>3. QED
    BY <1>1, <1>2 DEF Lines, Count

\* The text is its lines, one after the other.
LEMMA TextLaid ==
  ASSUME content \in Contents
  PROVE \E off : Laid(off)
  <1> DEFINE seqs == [i \in DOMAIN content.lines |-> Append(LineBytes(i), NL)]
             all == FlattenSeq(seqs)
             n == Count
  <1>1. /\ n \in Nat /\ DOMAIN Lines = 1 .. n /\ \A k \in 1 .. n : Lines[k].len \in Nat
    BY LinesTyped
  <1>2. NL \in Byte
    BY DEF NL, Byte
  <1>3. ASSUME NEW k \in 1 .. n
        PROVE /\ seqs[k] \in Seq(Byte) /\ Len(seqs[k]) = Lines[k].len + 1
              /\ \A j \in 1 .. Lines[k].len : seqs[k][j] = <<k, j>>
              /\ seqs[k][Lines[k].len + 1] = NL
    <2> DEFINE a == LineBytes(k)
    <2>1. a = [j \in 1 .. Lines[k].len |-> <<k, j>>]
      BY DEF LineBytes, Lines
    <2>2. Lines[k].len \in Nat /\ \A j \in 1 .. Lines[k].len : <<k, j>> \in Byte
      BY <1>1 DEF Byte
    <2> HIDE DEF a
    <2>3. a \in Seq(Byte) /\ Len(a) = Lines[k].len /\ \A j \in 1 .. Lines[k].len : a[j] = <<k, j>>
      BY <2>1, <2>2
    <2>4. seqs[k] = Append(a, NL)
      BY <1>1 DEF a, Lines
    <2> HIDE DEF seqs
    <2>5. QED
      BY <1>2, <2>2, <2>3, <2>4, AppendProperties
  <1>4. seqs \in Seq(Seq(Byte)) /\ Len(seqs) = n
    <2>1. DOMAIN seqs = 1 .. n /\ seqs = [i \in 1 .. n |-> seqs[i]]
      BY <1>1 DEF Lines
    <2> HIDE DEF seqs
    <2>2. QED
      BY <1>1, <1>3, <2>1
  <1> HIDE DEF seqs
  <1>5. PICK off : FlatEnds(off, seqs, all, Byte)
    BY <1>4, FlatPlaces
  <1> HIDE DEF all
  <1>6. /\ all \in Seq(Byte) /\ Len(all) \in Nat
        /\ off \in [0 .. n -> Nat] /\ off[0] = 0 /\ Len(all) = off[n]
        /\ \A i \in 1 .. n : /\ off[i] = off[i - 1] + Len(seqs[i])
                             /\ \A j \in 1 .. Len(seqs[i]) : all[off[i - 1] + j] = seqs[i][j]
    BY <1>4, <1>5 DEF FlatEnds
  <1>7. ASSUME NEW k \in 1 .. n
        PROVE /\ off[k] = off[k - 1] + Lines[k].len + 1
              /\ \A j \in 1 .. Lines[k].len : all[off[k - 1] + j] = <<k, j>>
              /\ all[off[k]] = NL
              /\ off[k] \in Nat /\ off[k - 1] \in Nat
    <2>1. /\ Lines[k].len \in Nat /\ k \in 0 .. n /\ k - 1 \in 0 .. n
      BY <1>1
    <2>2. off[k] \in Nat /\ off[k - 1] \in Nat
      BY <1>6, <2>1
    <2>3. off[k] = off[k - 1] + Lines[k].len + 1
      BY <1>3, <1>6, <2>1, <2>2
    <2>4. ASSUME NEW j \in 1 .. Lines[k].len PROVE all[off[k - 1] + j] = <<k, j>>
      <3>1. j \in 1 .. Len(seqs[k]) /\ seqs[k][j] = <<k, j>>
        BY <1>3, <2>1
      <3>2. all[off[k - 1] + j] = seqs[k][j]
        BY <1>6, <3>1
      <3>3. QED
        BY <3>1, <3>2
    <2>5. all[off[k]] = NL
      <3>1. Lines[k].len + 1 \in 1 .. Len(seqs[k])
        BY <1>3, <2>1
      <3>2. all[off[k - 1] + (Lines[k].len + 1)] = NL
        BY <1>3, <1>6, <3>1
      <3>3. QED
        BY <2>1, <2>2, <2>3, <3>2
    <2>6. QED
      BY <2>2, <2>3, <2>4, <2>5
  <1>8. Text = IF content.ended \/ all = <<>> THEN all ELSE Front(all)
    BY DEF Text, all, seqs
  <1>9. all = <<>> <=> n = 0
    <2>1. n # 0 => off[n] # 0
      <3>1. SUFFICES ASSUME n # 0 PROVE off[n] # 0
        OBVIOUS
      <3>2. n \in 1 .. n /\ Lines[n].len \in Nat
        BY <1>1, <3>1
      <3>3. QED
        BY <1>7, <3>2
    <2>2. all = <<>> <=> Len(all) = 0
      BY <1>6, EmptySeq
    <2>3. QED
      BY <1>6, <2>1, <2>2
  <1>10. CASE content.ended \/ n = 0
    <2>1. Text = all
      BY <1>8, <1>9, <1>10
    <2>2. QED
      BY <1>6, <1>7, <1>10, <2>1 DEF Laid
  <1>11. CASE ~(content.ended \/ n = 0)
    <2>1. Text = SubSeq(all, 1, Len(all) - 1) /\ Len(all) # 0
      BY <1>6, <1>8, <1>9, <1>11, EmptySeq DEF Front
    <2>2. /\ Text \in Seq(Byte) /\ Len(Text) = off[n] - 1
          /\ \A i \in 1 .. off[n] - 1 : Text[i] = all[i]
      <3>1. \A i \in 1 .. Len(all) - 1 : all[i] \in Byte
        BY <1>6
      <3>2. QED
        BY <1>6, <2>1, <3>1, SubSeqProperties
    <2>3. \A k \in 0 .. n : off[k] + (n - k) <= off[n]
      <3> DEFINE T == {m \in Nat : m <= n => off[n - m] + m <= off[n]}
      <3>1. 0 \in T
        BY <1>1, <1>6
      <3>2. ASSUME NEW m \in T PROVE m + 1 \in T
        <4>1. SUFFICES ASSUME m + 1 <= n PROVE off[n - (m + 1)] + (m + 1) <= off[n]
          OBVIOUS
        <4>2. n - m \in 1 .. n /\ (n - m) - 1 = n - (m + 1) /\ off[n - m] + m <= off[n]
              /\ off[n] \in Nat /\ Lines[n - m].len \in Nat
          BY <1>1, <1>6, <4>1
        <4>3. off[n - m] = off[n - (m + 1)] + Lines[n - m].len + 1
              /\ off[n - m] \in Nat /\ off[n - (m + 1)] \in Nat
          BY <1>7, <4>2
        <4>4. QED
          BY <4>2, <4>3
      <3>3. T = Nat
        <4>1. T \in SUBSET Nat
          OBVIOUS
        <4> HIDE DEF T
        <4>2. QED
          BY <3>1, <3>2, <4>1, SetInduction
      <3>4. ASSUME NEW k \in 0 .. n PROVE off[k] + (n - k) <= off[n]
        <4>1. n - k \in Nat /\ n - k <= n /\ n - (n - k) = k
          BY <1>1
        <4>2. QED
          BY <3>3, <4>1
      <3>5. QED
        BY <3>4
    <2>4. ASSUME NEW k \in 1 .. n
          PROVE /\ \A j \in 1 .. Lines[k].len : Text[off[k - 1] + j] = <<k, j>>
                /\ off[k] <= Len(Text) => Text[off[k]] = NL
      <3>1. /\ k \in 0 .. n /\ off[k] + (n - k) <= off[n] /\ off[n] \in Nat
            /\ off[k] = off[k - 1] + Lines[k].len + 1
            /\ off[k] \in Nat /\ off[k - 1] \in Nat /\ Lines[k].len \in Nat
        <4>1. k \in 0 .. n /\ off[k] + (n - k) <= off[n]
          BY <1>1, <2>3
        <4>2. off[n] \in Nat /\ Lines[k].len \in Nat
          BY <1>1, <1>6
        <4>3. off[k] = off[k - 1] + Lines[k].len + 1 /\ off[k] \in Nat /\ off[k - 1] \in Nat
          BY <1>7
        <4>4. QED
          BY <4>1, <4>2, <4>3
      <3>2. ASSUME NEW j \in 1 .. Lines[k].len PROVE Text[off[k - 1] + j] = <<k, j>>
        <4>1. off[k - 1] + j \in 1 .. off[n] - 1
          <5>1. j < off[k] - off[k - 1] /\ 1 <= j /\ off[k] <= off[n]
            BY <1>1, <3>1
          <5>2. QED
            BY <3>1, <5>1
        <4>2. QED
          BY <1>7, <2>2, <4>1
      <3>3. ASSUME off[k] <= Len(Text) PROVE Text[off[k]] = NL
        <4>1. off[k] \in 1 .. off[n] - 1
          BY <2>2, <3>1, <3>3
        <4>2. QED
          BY <1>7, <2>2, <4>1
      <3>4. QED
        BY <3>2, <3>3
    <2>5. QED
      BY <1>6, <1>7, <1>11, <2>2, <2>4 DEF Laid
  <1>12. QED
    BY <1>10, <1>11

\* A later line ends later.
LEMMA OffGrows ==
  ASSUME content \in Contents, NEW off, Laid(off), NEW k \in 0 .. Count, NEW m \in k .. Count
  PROVE off[k] \in Nat /\ off[m] \in Nat /\ off[k] + (m - k) <= off[m]
  <1>1. Count \in Nat /\ \A i \in 1 .. Count : Lines[i].len \in Nat
    BY LinesTyped
  <1>2. /\ off \in [0 .. Count -> Nat]
        /\ \A i \in 1 .. Count : off[i] = off[i - 1] + Lines[i].len + 1
    BY DEF Laid
  <1> DEFINE T == {d \in Nat : k + d <= Count => off[k] + d <= off[k + d]}
  <1>3. 0 \in T
    BY <1>1, <1>2
  <1>4. ASSUME NEW d \in T PROVE d + 1 \in T
    <2>1. SUFFICES ASSUME k + (d + 1) <= Count PROVE off[k] + (d + 1) <= off[k + (d + 1)]
      OBVIOUS
    <2>2. /\ k + (d + 1) \in 1 .. Count /\ (k + (d + 1)) - 1 = k + d
          /\ k + d \in 0 .. Count /\ off[k] + d <= off[k + d]
      BY <1>1, <2>1
    <2>3. /\ off[k + (d + 1)] = off[k + d] + Lines[k + (d + 1)].len + 1
          /\ Lines[k + (d + 1)].len \in Nat /\ off[k + d] \in Nat /\ off[k] \in Nat
      BY <1>1, <1>2, <2>2
    <2>4. QED
      BY <2>2, <2>3
  <1>5. T \in SUBSET Nat
    OBVIOUS
  <1> HIDE DEF T
  <1>6. T = Nat
    BY <1>3, <1>4, <1>5, SetInduction
  <1>7. m - k \in Nat /\ k + (m - k) = m /\ m \in 0 .. Count /\ m <= Count
    BY <1>1
  <1>8. m - k \in T
    BY <1>6, <1>7
  <1>9. off[k] + (m - k) <= off[m]
    BY <1>7, <1>8 DEF T
  <1>10. QED
    BY <1>2, <1>7, <1>9

\* Where the text goes on when k lines have been read.
Edge(off, k) == IF k = Count THEN Len(Text) ELSE off[k]

\* Where line k + 1 is.
LEMMA AtLine ==
  ASSUME content \in Contents, NEW off, Laid(off), NEW k \in 0 .. Count, k # Count
  PROVE /\ Count \in Nat /\ k + 1 \in 1 .. Count /\ Edge(off, k) = off[k]
        /\ Text \in Seq(Byte) /\ Len(Text) \in Nat
        /\ Lines[k + 1].len \in Nat /\ off[k] \in Nat /\ off[k + 1] \in Nat
        /\ off[k + 1] = off[k] + Lines[k + 1].len + 1
        /\ off[k + 1] <= Len(Text) => Text[off[k + 1]] = NL
        /\ \A j \in 1 .. Lines[k + 1].len : Text[off[k] + j] = <<k + 1, j>>
  <1>1. Count \in Nat /\ \A i \in 1 .. Count : Lines[i].len \in Nat
    BY LinesTyped
  <1>2. k + 1 \in 1 .. Count /\ k + 1 \in 0 .. Count /\ (k + 1) - 1 = k
    BY <1>1
  <1>3. Text \in Seq(Byte) /\ off \in [0 .. Count -> Nat]
    BY DEF Laid
  <1>4. Edge(off, k) = off[k]
    BY DEF Edge
  <1>5. /\ off[k + 1] = off[k] + Lines[k + 1].len + 1
        /\ off[k + 1] <= Len(Text) => Text[off[k + 1]] = NL
        /\ \A j \in 1 .. Lines[k + 1].len : Text[off[k] + j] = <<k + 1, j>>
    BY <1>2 DEF Laid
  <1>6. Len(Text) \in Nat
    BY <1>3
  <1>7. QED
    BY <1>1, <1>2, <1>3, <1>4, <1>5, <1>6

\* Bytes without a newline are of one line.
LEMMA NoNewline ==
  ASSUME content \in Contents, NEW off, Laid(off), NEW k \in 0 .. Count, NEW w \in Nat,
         Edge(off, k) + w <= Len(Text),
         \A j \in 1 .. w : Text[Edge(off, k) + j] # NL
  PROVE /\ k = Count => w = 0
        /\ k # Count => k + 1 \in 1 .. Count /\ w <= Lines[k + 1].len
  <1>1. Text \in Seq(Byte) /\ Len(Text) \in Nat
    BY DEF Laid
  <1>2. CASE k = Count
    BY <1>1, <1>2 DEF Edge
  <1>3. CASE k # Count
    <2> DEFINE l == Lines[k + 1].len
    <2>1. /\ k + 1 \in 1 .. Count /\ Edge(off, k) = off[k] /\ l \in Nat /\ off[k] \in Nat
          /\ off[k + 1] = off[k] + l + 1
      BY <1>3, AtLine
    <2>2. off[k + 1] <= Len(Text) => Text[off[k + 1]] = NL
      BY <1>3, AtLine
    <2> HIDE DEF l
    <2>3. off[k + 1] = off[k] + (l + 1)
      BY <2>1
    <2>4. ASSUME ~(w <= l) PROVE FALSE
      <3>1. l + 1 \in 1 .. w /\ off[k] + (l + 1) <= Len(Text)
        BY <1>1, <2>1, <2>4
      <3>2. QED
        BY <2>1, <2>2, <2>3, <3>1
    <2>5. QED
      BY <1>3, <2>1, <2>4 DEF l
  <1>4. QED
    BY <1>2, <1>3

\* The first newline ends line k + 1.
LEMMA FirstNewline ==
  ASSUME content \in Contents, NEW off, Laid(off), NEW k \in 0 .. Count, NEW p \in Nat \ {0},
         Edge(off, k) + p <= Len(Text), Text[Edge(off, k) + p] = NL,
         \A j \in 1 .. p - 1 : Text[Edge(off, k) + j] # NL
  PROVE /\ k # Count /\ k + 1 \in 1 .. Count /\ p = Lines[k + 1].len + 1
        /\ Edge(off, k + 1) = Edge(off, k) + p
        /\ \A j \in 1 .. p - 1 : Text[Edge(off, k) + j] = <<k + 1, j>>
  <1> DEFINE l == Lines[k + 1].len
  <1>1. Count \in Nat /\ Text \in Seq(Byte) /\ Len(Text) \in Nat
    BY LinesTyped DEF Laid
  <1>2. k # Count
    BY <1>1 DEF Edge
  <1>3. /\ k + 1 \in 1 .. Count /\ Edge(off, k) = off[k] /\ l \in Nat /\ off[k] \in Nat
        /\ off[k + 1] = off[k] + l + 1
        /\ off[k + 1] <= Len(Text) => Text[off[k + 1]] = NL
        /\ \A j \in 1 .. l : Text[off[k] + j] = <<k + 1, j>>
    BY <1>2, AtLine
  <1> HIDE DEF l
  <1>4. off[k + 1] = off[k] + (l + 1)
    BY <1>3
  <1>5. ASSUME p <= l PROVE FALSE
    <2>1. p \in 1 .. l
      BY <1>3, <1>5
    <2>2. <<k + 1, p>> = NL
      BY <1>3, <2>1
    <2>3. k + 1 = 0
      BY <2>2 DEF NL
    <2>4. QED
      BY <2>3
  <1>6. ASSUME p > l + 1 PROVE FALSE
    <2>1. l + 1 \in 1 .. p - 1 /\ off[k] + (l + 1) <= Len(Text)
      BY <1>1, <1>3, <1>6
    <2>2. QED
      BY <1>3, <1>4, <2>1
  <1>7. p = l + 1 /\ p - 1 = l
    BY <1>3, <1>5, <1>6
  <1>8. Edge(off, k + 1) = off[k + 1]
    <2>1. CASE k + 1 = Count
      <3>1. off[k + 1] <= Len(Text) /\ off[k + 1] \in Nat
        BY <1>1, <1>3, <1>4, <1>7
      <3>2. Len(Text) = off[k + 1] \/ Len(Text) = off[k + 1] - 1
        BY <2>1 DEF Laid
      <3>3. Len(Text) = off[k + 1]
        BY <1>1, <3>1, <3>2
      <3>4. QED
        BY <2>1, <3>3 DEF Edge
    <2>2. QED
      BY <2>1 DEF Edge
  <1>9. QED
    BY <1>2, <1>3, <1>4, <1>7, <1>8 DEF l

\* Two ends of lines are not closer than the lines.
LEMMA NoRoom ==
  ASSUME NEW a \in Nat, NEW b \in Nat, NEW n \in Nat, NEW m \in 1 .. n, NEW t \in Nat,
         a + (n - m) <= b, t >= b - 1, t <= a - 1
  PROVE m = n
  OBVIOUS

\* What is left when the text ends without a newline.
LEMMA RestIsLine ==
  ASSUME content \in Contents, NEW off, Laid(off), NEW k \in 0 .. Count, NEW w \in Nat \ {0},
         Edge(off, k) + w = Len(Text),
         \A j \in 1 .. w : Text[Edge(off, k) + j] # NL
  PROVE /\ k + 1 = Count /\ w = Lines[k + 1].len /\ ~content.ended
        /\ \A j \in 1 .. w : Text[Edge(off, k) + j] = <<k + 1, j>>
  <1> DEFINE l == Lines[k + 1].len
  <1>1. Count \in Nat /\ Text \in Seq(Byte) /\ Len(Text) \in Nat
    BY LinesTyped DEF Laid
  <1>2. w \in Nat /\ Edge(off, k) + w <= Len(Text)
    BY <1>1
  <1>3. k # Count /\ w <= l
    <2>1. /\ k = Count => w = 0
          /\ k # Count => k + 1 \in 1 .. Count /\ w <= l
      BY <1>2, NoNewline
    <2>2. QED
      BY <2>1
  <1>4. /\ k + 1 \in 1 .. Count /\ Edge(off, k) = off[k] /\ l \in Nat
        /\ off[k] \in Nat /\ off[k + 1] \in Nat /\ off[k + 1] = off[k] + l + 1
    BY <1>3, AtLine
  <1>11. \A j \in 1 .. l : Text[off[k] + j] = <<k + 1, j>>
    BY <1>3, AtLine
  <1> HIDE DEF l
  <1>5. off[k + 1] + (Count - (k + 1)) <= off[Count] /\ off[Count] \in Nat
    <2>1. k + 1 \in 0 .. Count /\ Count \in k + 1 .. Count
      BY <1>1, <1>4
    <2>2. QED
      BY <2>1, OffGrows
  <1>6. Len(Text) >= off[Count] - 1
    BY <1>1, <1>5 DEF Laid
  <1>7. Len(Text) <= off[k + 1] - 1
    BY <1>1, <1>3, <1>4
  <1>8. k + 1 = Count
    BY <1>1, <1>4, <1>5, <1>6, <1>7, NoRoom
  <1>9. w = l
    <2>1. off[Count] = off[k] + l + 1
      BY <1>4, <1>8
    <2>2. QED
      BY <1>1, <1>3, <1>4, <1>6, <2>1
  <1>10. ~content.ended
    <2>1. Len(Text) = off[k] + l /\ off[Count] = off[k] + l + 1
      BY <1>4, <1>8, <1>9
    <2>2. Len(Text) # off[Count]
      BY <1>4, <2>1
    <2>3. QED
      BY <2>2 DEF Laid
  <1>12. QED
    BY <1>4, <1>8, <1>9, <1>10, <1>11 DEF l

\* Nothing is left.
LEMMA NothingLeft ==
  ASSUME content \in Contents, NEW off, Laid(off), NEW k \in 0 .. Count,
         Edge(off, k) = Len(Text)
  PROVE k = Count \/ (k + 1 = Count /\ Lines[Count].len = 0)
  <1> DEFINE l == Lines[k + 1].len
  <1>1. Count \in Nat /\ Text \in Seq(Byte) /\ Len(Text) \in Nat
    BY LinesTyped DEF Laid
  <1>2. SUFFICES ASSUME k # Count PROVE k + 1 = Count /\ Lines[Count].len = 0
    OBVIOUS
  <1>3. /\ k + 1 \in 1 .. Count /\ Edge(off, k) = off[k] /\ l \in Nat
        /\ off[k] \in Nat /\ off[k + 1] \in Nat /\ off[k + 1] = off[k] + l + 1
    BY <1>2, AtLine
  <1> HIDE DEF l
  <1>4. off[k + 1] + (Count - (k + 1)) <= off[Count] /\ off[Count] \in Nat
    <2>1. k + 1 \in 0 .. Count /\ Count \in k + 1 .. Count
      BY <1>1, <1>3
    <2>2. QED
      BY <2>1, OffGrows
  <1>5. Len(Text) >= off[Count] - 1
    BY <1>1, <1>4 DEF Laid
  <1>6. k + 1 = Count
    BY <1>1, <1>3, <1>4, <1>5
  <1>7. l = 0
    BY <1>1, <1>3, <1>4, <1>5, <1>6
  <1>8. QED
    BY <1>6, <1>7 DEF l

-----------------------------------------------------------------------------
(* What a line parses to, and which lines List is to return                *)

Named(l) == [key |-> l.key, comment |-> l.comment]
KeyedLines == {l \in ToSet(Lines) : l.key # NoKey}
KeptOf(k) == Keep(SubSeq(Lines, 1, k), KeyedLines)

LEMMA BytesOfLine ==
  ASSUME content \in Contents, NEW k \in 1 .. Count
  PROVE /\ LineBytes(k) \in Seq(Byte) /\ Len(LineBytes(k)) = Lines[k].len
        /\ \A j \in 1 .. Lines[k].len : LineBytes(k)[j] = <<k, j>>
  <1>1. Lines[k].len \in Nat /\ k \in Nat
    BY LinesTyped
  <1>2. LineBytes(k) = [j \in 1 .. Lines[k].len |-> <<k, j>>]
    BY DEF LineBytes, Lines
  <1>3. \A j \in 1 .. Lines[k].len : <<k, j>> \in Byte
    BY <1>1 DEF Byte
  <1>4. QED
    BY <1>1, <1>2, <1>3

\* A line parses to its own key and comment.
LEMMA ParsedLine ==
  ASSUME content \in Contents, NEW k \in 1 .. Count
  PROVE LET parsed == parseKey(LineBytes(k))
        IN  /\ parsed.key = Lines[k].key
            /\ Lines[k].key # NoKey => parsed = Named(Lines[k])
  <1>1. /\ Lines[k].len \in Nat /\ Count \in Nat /\ DOMAIN Lines = 1 .. Count
        /\ Lines[k].len = 0 => Lines[k].key = NoKey
    BY LinesTyped
  <1>2. /\ LineBytes(k) \in Seq(Byte) /\ Len(LineBytes(k)) = Lines[k].len
        /\ \A j \in 1 .. Lines[k].len : LineBytes(k)[j] = <<k, j>>
    BY BytesOfLine
  <1>3. CASE Lines[k].len = 0
    <2>1. LineBytes(k) = <<>>
      BY <1>2, <1>3, EmptySeq
    <2>2. parseKey(LineBytes(k)) = [key |-> NoKey, comment |-> NoKey]
      BY <2>1 DEF parseKey
    <2>3. QED
      BY <1>1, <1>3, <2>2
  <1>4. CASE Lines[k].len # 0
    <2>1. LineBytes(k) # <<>>
      BY <1>2, <1>4
    <2>2. k \in SameLines(LineBytes(k))
      BY <1>1 DEF SameLines, Lines
    <2>3. ASSUME NEW i \in SameLines(LineBytes(k)) PROVE i = k
      <3>1. i \in 1 .. Count /\ LineBytes(i) = LineBytes(k)
        BY <1>1 DEF SameLines, Lines
      <3>2. Len(LineBytes(i)) = Lines[i].len /\ \A j \in 1 .. Lines[i].len : LineBytes(i)[j] = <<i, j>>
        BY <3>1, BytesOfLine
      <3>3. 1 \in 1 .. Lines[k].len /\ 1 \in 1 .. Lines[i].len
        BY <1>1, <1>2, <1>4, <3>1, <3>2
      <3>4. <<i, 1>> = <<k, 1>>
        BY <1>2, <3>1, <3>2, <3>3
      <3>5. QED
        BY <3>4
    <2>4. (CHOOSE i \in SameLines(LineBytes(k)) : TRUE) = k
      BY <2>2, <2>3
    <2>5. parseKey(LineBytes(k)) = Named(Lines[k])
      BY <2>1, <2>2, <2>4 DEF parseKey, Named, Lines
    <2>6. QED
      BY <2>5 DEF Named
  <1>5. QED
    BY <1>3, <1>4

LEMMA KeptTyped ==
  ASSUME content \in Contents, NEW k \in 0 .. Count
  PROVE KeptOf(k) \in Seq(ToSet(Lines)) /\ Len(KeptOf(k)) \in Nat
  <1>1. /\ Lines \in Seq(ToSet(Lines)) /\ Count \in Nat
        /\ \A i \in 1 .. k : Lines[i] \in ToSet(Lines)
    BY LinesTyped
  <1>2. SubSeq(Lines, 1, k) \in Seq(ToSet(Lines))
    BY <1>1, SubSeqProperties
  <1>3. KeptOf(k) \in Seq(ToSet(Lines))
    BY <1>2, KeepPlaces DEF KeptOf
  <1>4. QED
    BY <1>3

LEMMA KeptNone == KeptOf(0) = <<>>
  <1>1. SubSeq(Lines, 1, 0) = <<>>
    BY SubSeqEmpty
  <1>2. <<>> \in Seq({}) /\ Len(<<>>) = 0
    OBVIOUS
  <1>3. PICK F : /\ Keep(<<>>, KeyedLines) = F[Len(<<>>)]
                 /\ \A i \in 0 .. Len(<<>>) : F[i] = Looped(<<>>, KeyedLines, F, i)
    BY <1>2, KeepLoop, Zenon
  <1>4. Keep(<<>>, KeyedLines) = F[0] /\ F[0] = Looped(<<>>, KeyedLines, F, 0)
    BY <1>2, <1>3
  <1>5. F[0] = <<>>
    BY <1>4 DEF Looped
  <1>6. QED
    BY <1>1, <1>4, <1>5 DEF KeptOf

LEMMA KeptNext ==
  ASSUME content \in Contents, NEW k \in 1 .. Count
  PROVE KeptOf(k) = IF Lines[k].key # NoKey THEN Append(KeptOf(k - 1), Lines[k])
                    ELSE KeptOf(k - 1)
  <1>1. Lines \in Seq(ToSet(Lines)) /\ Lines[k] \in ToSet(Lines) /\ k \in 1 .. Len(Lines)
    BY LinesTyped DEF Lines, Count
  <1>2. Lines[k] \in KeyedLines <=> Lines[k].key # NoKey
    BY <1>1 DEF KeyedLines
  <1>3. QED
    BY <1>1, <1>2, KeepAppend DEF KeptOf

\* Where List stops, all that it is to return has been read.
LEMMA StopsAt ==
  ASSUME content \in Contents, NEW k \in 0 .. Count,
         \A i \in 1 .. k : Lines[i].len < MaxToken,
         \/ k = Count
         \/ k + 1 \in 1 .. Count /\ Lines[k + 1].len >= MaxToken
         \/ k + 1 = Count /\ Lines[Count].len = 0
  PROVE KeyLines = KeptOf(k)
  <1> DEFINE I == {i \in 1 .. Len(Lines) : ~(Lines[i].len < MaxToken)}
             upTo == IF \A i \in DOMAIN Lines : Lines[i].len < MaxToken THEN Len(Lines)
                     ELSE (IF I # {} THEN Min(I) ELSE 0) - 1
  <1>1. /\ Count \in Nat /\ DOMAIN Lines = 1 .. Count /\ Len(Lines) = Count
        /\ \A i \in 1 .. Count : Lines[i].len \in Nat
    BY LinesTyped DEF Lines, Count
  <1>2. KeyLines = Keep(SubSeq(Lines, 1, upTo), KeyedLines)
    BY DEF KeyLines, SelectInSeq, KeyedLines, Lines
  <1>3. CASE \A i \in 1 .. Count : Lines[i].len < MaxToken
    <2>1. KeyLines = KeptOf(Count)
      BY <1>1, <1>2, <1>3 DEF KeptOf
    <2>2. CASE k = Count
      BY <2>1, <2>2
    <2>3. CASE k + 1 = Count /\ Lines[Count].len = 0
      <3>1. Count \in 1 .. Count /\ Count - 1 = k /\ Lines[Count].key = NoKey
        BY <1>1, <2>3, LinesTyped
      <3>2. KeptOf(Count) = KeptOf(k)
        BY <3>1, KeptNext
      <3>3. QED
        BY <2>1, <3>2
    <2>4. ASSUME k + 1 \in 1 .. Count, Lines[k + 1].len >= MaxToken PROVE FALSE
      <3>1. Lines[k + 1].len < MaxToken /\ Lines[k + 1].len \in Nat
        BY <1>1, <1>3, <2>4
      <3>2. QED
        BY <2>4, <3>1, BufferAssumption
    <2>5. QED
      BY <2>2, <2>3, <2>4
  <1>4. CASE ~ \A i \in 1 .. Count : Lines[i].len < MaxToken
    <2>1. k + 1 \in 1 .. Count /\ Lines[k + 1].len >= MaxToken
      <3>1. k # Count
        BY <1>4
      <3>2. ASSUME k + 1 = Count, Lines[Count].len = 0 PROVE FALSE
        <4>1. \A i \in 1 .. Count : Lines[i].len < MaxToken
          <5>1. ASSUME NEW i \in 1 .. Count PROVE Lines[i].len < MaxToken
            <6>1. i \in 1 .. k \/ i = Count
              BY <1>1, <3>2
            <6>2. 0 < MaxToken
              BY BufferAssumption
            <6>3. QED
              BY <3>2, <6>1, <6>2
          <5>2. QED
            BY <5>1
        <4>2. QED
          BY <1>4, <4>1
      <3>3. QED
        BY <3>1, <3>2
    <2>2. k + 1 \in I
      <3>1. Lines[k + 1].len \in Nat /\ ~(Lines[k + 1].len < MaxToken)
        BY <1>1, <2>1, BufferAssumption
      <3>2. QED
        BY <1>1, <2>1, <3>1
    <2>3. \A i \in I : k + 1 <= i
      <3>1. ASSUME NEW i \in 1 .. Count, ~(Lines[i].len < MaxToken) PROVE k + 1 <= i
        <4>1. i \notin 1 .. k
          BY <3>1
        <4>2. QED
          BY <1>1, <4>1
      <3>2. QED
        BY <1>1, <3>1
    <2>4. I \subseteq Nat
      OBVIOUS
    <2>5. Min(I) = k + 1
      <3> HIDE DEF I
      <3>1. Min(I) \in I /\ \A i \in I : Min(I) <= i
        BY <2>2, <2>3 DEF Min
      <3>2. Min(I) \in Nat /\ k + 1 \in Nat /\ k + 1 <= Min(I) /\ Min(I) <= k + 1
        BY <2>2, <2>3, <2>4, <3>1
      <3>3. QED
        BY <3>2
    <2>6. upTo = k
      <3>1. I # {}
        BY <2>2
      <3> HIDE DEF I
      <3>2. upTo = (k + 1) - 1
        BY <1>1, <1>4, <2>5, <3>1
      <3>3. QED
        BY <3>2
    <2>7. QED
      BY <1>2, <2>6 DEF KeptOf
  <1>5. QED
    BY <1>3, <1>4

-----------------------------------------------------------------------------
(* The scanner                                                             *)

\* Between start and end, the last buffer has what precedes pos in the text t.
Formed(s, t) ==
  /\ s \in [bufs : Seq(Seq(Byte)), start : Nat, end : Nat, pos : Nat, eof : BOOLEAN]
  /\ s.bufs # <<>>
  /\ Len(Last(s.bufs)) \in StartBuf .. MaxToken
  /\ s.start <= s.end /\ s.end <= Len(Last(s.bufs))
  /\ s.end <= s.pos /\ s.pos <= Len(t)
  /\ \A i \in s.start + 1 .. s.end : Last(s.bufs)[i] = t[(s.pos - s.end) + i]
  /\ s.eof => s.pos = Len(t) /\ s.end < Len(Last(s.bufs))

\* The first byte of the text that has not been given out.
Reach(s) == (s.pos - s.end) + s.start

\* The buffers of s are as they were.
Stays(s, r) == \A m \in 1 .. Len(s.bufs) : r.bufs[m] = s.bufs[m]

\* Bytes may have been moved or read, but not given out.
Moved(s, r, t) ==
  /\ Formed(r, t) /\ Reach(r) = Reach(s) /\ Len(r.bufs) >= Len(s.bufs)

LEMMA BufTyped ==
  ASSUME NEW s, NEW t, Formed(s, t)
  PROVE /\ s.bufs \in Seq(Seq(Byte)) /\ Len(s.bufs) \in Nat \ {0}
        /\ Len(s.bufs) \in 1 .. Len(s.bufs) /\ Last(s.bufs) = s.bufs[Len(s.bufs)]
        /\ Last(s.bufs) \in Seq(Byte) /\ Len(Last(s.bufs)) \in Nat \ {0}
        /\ DOMAIN Last(s.bufs) = 1 .. Len(Last(s.bufs))
        /\ s.start \in Nat /\ s.end \in Nat /\ s.pos \in Nat /\ s.eof \in BOOLEAN
  <1>1. s.bufs \in Seq(Seq(Byte)) /\ s.bufs # <<>>
        /\ s.start \in Nat /\ s.end \in Nat /\ s.pos \in Nat /\ s.eof \in BOOLEAN
    BY DEF Formed
  <1>2. Len(s.bufs) \in Nat \ {0}
    BY <1>1, EmptySeq
  <1>3. Len(s.bufs) \in 1 .. Len(s.bufs)
    BY <1>2
  <1>4. Last(s.bufs) = s.bufs[Len(s.bufs)]
    BY DEF Last
  <1>5. Last(s.bufs) \in Seq(Byte)
    BY <1>1, <1>3, <1>4, ElementOfSeq
  <1>6. Len(Last(s.bufs)) \in StartBuf .. MaxToken
    BY DEF Formed
  <1>7. Len(Last(s.bufs)) \in Nat \ {0} /\ DOMAIN Last(s.bufs) = 1 .. Len(Last(s.bufs))
    BY <1>5, <1>6, LenProperties, BufferAssumption
  <1>8. QED
    BY <1>1, <1>2, <1>3, <1>4, <1>5, <1>7

\* A scanner whose last buffer is replaced.
LEMMA LastReplaced ==
  ASSUME NEW q \in Seq(Seq(Byte)), q # <<>>, NEW b \in Seq(Byte)
  PROVE LET r == [q EXCEPT ![Len(q)] = b]
        IN  /\ r \in Seq(Seq(Byte)) /\ Len(r) = Len(q) /\ r # <<>> /\ Last(r) = b
            /\ \A m \in 1 .. Len(q) : m # Len(q) => r[m] = q[m]
  <1> DEFINE r == [q EXCEPT ![Len(q)] = b]
  <1>1. Len(q) \in Nat \ {0} /\ Len(q) \in 1 .. Len(q)
    BY EmptySeq
  <1>2. /\ r \in Seq(Seq(Byte)) /\ Len(r) = Len(q)
        /\ \A j \in 1 .. Len(q) : r[j] = IF j = Len(q) THEN b ELSE q[j]
    BY <1>1, ExceptSeq
  <1> HIDE DEF r
  <1>3. Last(r) = b
    BY <1>1, <1>2 DEF Last
  <1>4. r # <<>>
    BY <1>1, <1>2
  <1>5. QED
    BY <1>2, <1>3, <1>4 DEF r

\* What is in the window.
LEMMA WindowRead ==
  ASSUME NEW t, Formed(scan, t), t \in Seq(Byte)
  PROVE /\ Window \in Seq(Byte) /\ Len(Window) = scan.end - scan.start
        /\ Len(Window) \in Nat /\ Reach(scan) \in Nat
        /\ Reach(scan) + Len(Window) = scan.pos
        /\ \A i \in 1 .. Len(Window) : Window[i] = Buf[scan.start + i]
        /\ \A i \in 1 .. Len(Window) : Window[i] = t[Reach(scan) + i]
        /\ Window = <<>> <=> scan.start = scan.end
  <1>1. /\ Buf = Last(scan.bufs) /\ Buf \in Seq(Byte) /\ Len(Buf) \in Nat
        /\ scan.start \in Nat /\ scan.end \in Nat /\ scan.pos \in Nat
    BY BufTyped DEF Buf
  <1>2. /\ scan.start <= scan.end /\ scan.end <= Len(Buf) /\ scan.end <= scan.pos
        /\ \A i \in scan.start + 1 .. scan.end : Buf[i] = t[(scan.pos - scan.end) + i]
    BY <1>1 DEF Formed
  <1>3. \A i \in scan.start + 1 .. scan.end : Buf[i] \in Byte
    BY <1>1, <1>2
  <1>4. /\ Window \in Seq(Byte)
        /\ Len(Window) = IF scan.start + 1 <= scan.end THEN scan.end - (scan.start + 1) + 1 ELSE 0
        /\ \A i \in 1 .. scan.end - (scan.start + 1) + 1 : Window[i] = Buf[(scan.start + 1) + i - 1]
    <2>1. scan.start + 1 \in Int /\ scan.end \in Int
      BY <1>1
    <2>2. QED
      BY <1>3, <2>1, SubSeqProperties DEF Window
  <1>5. Len(Window) = scan.end - scan.start /\ Len(Window) \in Nat
    BY <1>1, <1>2, <1>4
  <1>6. ASSUME NEW i \in 1 .. Len(Window)
        PROVE Window[i] = Buf[scan.start + i] /\ Window[i] = t[Reach(scan) + i]
    <2>1. /\ i \in 1 .. scan.end - (scan.start + 1) + 1
          /\ (scan.start + 1) + i - 1 = scan.start + i
          /\ scan.start + i \in scan.start + 1 .. scan.end
          /\ (scan.pos - scan.end) + (scan.start + i) = Reach(scan) + i
      <3>1. i \in Nat /\ 1 <= i /\ i <= scan.end - scan.start
        BY <1>1, <1>5
      <3>2. Reach(scan) = (scan.pos - scan.end) + scan.start
        BY DEF Reach
      <3>3. i \in 1 .. scan.end - (scan.start + 1) + 1
        BY <1>1, <3>1
      <3>4. scan.start + i \in scan.start + 1 .. scan.end
        BY <1>1, <3>1
      <3>5. (scan.start + 1) + i - 1 = scan.start + i
        BY <1>1, <3>1
      <3>6. (scan.pos - scan.end) + (scan.start + i) = Reach(scan) + i
        BY <1>1, <3>1, <3>2
      <3>7. QED
        BY <3>3, <3>4, <3>5, <3>6, Zenon
    <2>2. Window[i] = Buf[scan.start + i]
      BY <1>4, <2>1
    <2>3. QED
      BY <1>2, <2>1, <2>2
  <1>7. Reach(scan) \in Nat /\ Reach(scan) + Len(Window) = scan.pos
    BY <1>1, <1>2, <1>5 DEF Reach
  <1>8. Window = <<>> <=> scan.start = scan.end
    <2>1. Window = <<>> <=> Len(Window) = 0
      BY <1>4, EmptySeq
    <2>2. QED
      BY <1>1, <1>5, <2>1
  <1>9. QED
    BY <1>4, <1>5, <1>6, <1>7, <1>8

\* Moving the unread bytes to the front.
LEMMA ShiftMoves ==
  ASSUME NEW t, Formed(scan, t), t \in Seq(Byte), ~scan.eof
  PROVE /\ Moved(scan, Shifted, t) /\ ~Shifted.eof
        /\ Shifted.pos = scan.pos /\ Len(Shifted.bufs) = Len(scan.bufs)
        /\ Len(Last(Shifted.bufs)) = Len(Buf)
        /\ (Shifts /\ Window # <<>>) \/ Stays(scan, Shifted)
        /\ ~Shifts => Shifted = scan
        /\ Shifted.end < Len(Buf) \/ (Shifted.end = Len(Buf) /\ scan.end = Len(Buf) /\ scan.start = 0 /\ Shifted = scan)
  <1>1. /\ scan \in [bufs : Seq(Seq(Byte)), start : Nat, end : Nat, pos : Nat, eof : BOOLEAN]
        /\ scan.bufs \in Seq(Seq(Byte)) /\ scan.bufs # <<>> /\ Len(scan.bufs) \in Nat \ {0}
        /\ Buf = Last(scan.bufs) /\ Buf = scan.bufs[Len(scan.bufs)]
        /\ Buf \in Seq(Byte) /\ Len(Buf) \in Nat
        /\ scan.start \in Nat /\ scan.end \in Nat /\ scan.pos \in Nat
        /\ Len(Buf) \in StartBuf .. MaxToken
        /\ scan.start <= scan.end /\ scan.end <= Len(Buf)
        /\ scan.end <= scan.pos /\ scan.pos <= Len(t)
    BY BufTyped DEF Formed, Buf
  <1>2. CASE ~Shifts
    <2>1. Shifted = scan
      BY <1>2 DEF Shifted
    <2>2. ~(scan.start > 0 /\ scan.end = Len(Buf))
      BY <1>2, Zenon DEF Shifts
    <2>3. scan.end < Len(Buf) \/ (scan.end = Len(Buf) /\ scan.start = 0)
      BY <1>1, <2>2
    <2>4. Moved(scan, scan, t) /\ Stays(scan, scan)
      BY <1>1 DEF Moved, Stays
    <2>5. QED
      BY <1>1, <1>2, <2>1, <2>3, <2>4
  <1>3. CASE Shifts
    <2> DEFINE w == Len(Window)
               b == Window \o SubSeq(Buf, w + 1, Len(Buf))
               q == [scan.bufs EXCEPT ![Len(scan.bufs)] = b]
               s == Shifted
    <2>1. /\ Window \in Seq(Byte) /\ w = scan.end - scan.start /\ w \in Nat
          /\ \A i \in 1 .. w : Window[i] = Buf[scan.start + i]
          /\ \A i \in 1 .. w : Window[i] = t[Reach(scan) + i]
      BY WindowRead
    <2>2. s = [scan EXCEPT !.bufs[Len(scan.bufs)] = b, !.start = 0, !.end = w]
      BY <1>3 DEF Shifted
    <2>3. /\ s.bufs = q /\ s.start = 0 /\ s.end = w /\ s.pos = scan.pos /\ s.eof = scan.eof
          /\ s = [bufs |-> q, start |-> 0, end |-> w, pos |-> scan.pos, eof |-> scan.eof]
      <3> HIDE DEF w, b, s
      <3>1. QED
        BY <1>1, <2>2
    <2> HIDE DEF s
    <2>4. w <= Len(Buf)
      BY <1>1, <2>1
    <2>5. /\ b \in Seq(Byte) /\ Len(b) = Len(Buf)
          /\ \A i \in 1 .. w : b[i] = Window[i]
      <3> DEFINE r == SubSeq(Buf, w + 1, Len(Buf))
      <3>1. \A i \in w + 1 .. Len(Buf) : Buf[i] \in Byte
        BY <1>1, <2>1
      <3>2. r \in Seq(Byte) /\ Len(r) = IF w + 1 <= Len(Buf) THEN Len(Buf) - (w + 1) + 1 ELSE 0
        <4>1. w + 1 \in Int /\ Len(Buf) \in Int
          BY <1>1, <2>1
        <4> HIDE DEF w
        <4>2. QED
          BY <3>1, <4>1, SubSeqProperties
      <3>3. Len(r) = Len(Buf) - w
        BY <1>1, <2>1, <2>4, <3>2
      <3> HIDE DEF r
      <3>4. /\ Window \o r \in Seq(Byte) /\ Len(Window \o r) = w + Len(r)
            /\ \A i \in 1 .. w + Len(r) : (Window \o r)[i] = IF i <= w THEN Window[i] ELSE r[i - w]
        BY <2>1, <3>2, ConcatProperties
      <3> HIDE DEF w
      <3>5. w + Len(r) = Len(Buf) /\ \A i \in 1 .. w : i \in 1 .. w + Len(r)
        <4>1. w \in Nat /\ Len(Buf) \in Nat
          BY <1>1, <2>1
        <4>2. QED
          BY <2>4, <3>3, <4>1
      <3>6. b = Window \o r
        BY DEF r
      <3> HIDE DEF b
      <3>7. QED
        BY <3>4, <3>5, <3>6
    <2> HIDE DEF b
    <2>6. /\ q \in Seq(Seq(Byte)) /\ Len(q) = Len(scan.bufs) /\ q # <<>> /\ Last(q) = b
          /\ \A m \in 1 .. Len(scan.bufs) : m # Len(scan.bufs) => q[m] = scan.bufs[m]
      BY <1>1, <2>5, LastReplaced
    <2> HIDE DEF q, w
    <2>7. Formed(s, t)
      <3>1. s \in [bufs : Seq(Seq(Byte)), start : Nat, end : Nat, pos : Nat, eof : BOOLEAN]
        BY <1>1, <2>1, <2>3, <2>6
      <3>2. ASSUME NEW i \in s.start + 1 .. s.end
            PROVE Last(s.bufs)[i] = t[(s.pos - s.end) + i]
        <4>1. i \in 1 .. w
          BY <2>1, <2>3
        <4>2. b[i] = t[Reach(scan) + i]
          BY <2>1, <2>5, <4>1
        <4>3. Reach(scan) = scan.pos - w
          BY <1>1, <2>1 DEF Reach
        <4>4. QED
          BY <2>3, <2>6, <4>2, <4>3
      <3>3. w <= scan.pos
        BY <1>1, <2>1
      <3>4. QED
        BY <1>1, <2>1, <2>3, <2>4, <2>5, <2>6, <3>1, <3>2, <3>3 DEF Formed
    <2>8. Reach(s) = Reach(scan)
      BY <1>1, <2>1, <2>3 DEF Reach
    <2>9. ASSUME Window = <<>> PROVE Stays(scan, s)
      <3>1. w = 0 /\ b = Buf
        <4>1. w = 0
          BY <2>9 DEF w
        <4>2. SubSeq(Buf, 1, Len(Buf)) = Buf
          BY <1>1, SubSeqFull
        <4>3. b = <<>> \o Buf
          BY <2>9, <4>1, <4>2 DEF b, w
        <4>4. QED
          BY <1>1, <4>1, <4>3, ConcatEmptySeq
      <3>2. q = scan.bufs
        BY <1>1, <3>1 DEF q
      <3>3. QED
        BY <2>3, <3>2 DEF Stays
    <2>10. w < Len(Buf)
      BY <1>1, <1>3, <2>1 DEF Shifts
    <2>11. QED
      BY <1>1, <1>3, <2>3, <2>5, <2>6, <2>7, <2>8, <2>9, <2>10 DEF Moved, s
  <1>4. QED
    BY <1>2, <1>3

\* Copying a full buffer to a larger one.
LEMMA GrowMoves ==
  ASSUME NEW t, NEW s, Formed(s, t), ~s.eof,
         s.end < Len(Last(s.bufs)) \/ (s.start = 0 /\ Len(Last(s.bufs)) < MaxToken)
  PROVE LET r == Grown(s)
        IN  /\ Moved(s, r, t) /\ ~r.eof /\ r.pos = s.pos /\ Stays(s, r)
            /\ r.end < Len(Last(r.bufs))
            /\ s.end < Len(Last(s.bufs)) => r = s
  <1> DEFINE b == Last(s.bufs)
             size == IF 2 * Len(b) < MaxToken THEN 2 * Len(b) ELSE MaxToken
             c == [i \in 1 .. size |-> IF i <= Len(b) THEN b[i] ELSE NUL]
             q == Append(s.bufs, c)
             r == Grown(s)
  <1>1. /\ s \in [bufs : Seq(Seq(Byte)), start : Nat, end : Nat, pos : Nat, eof : BOOLEAN]
        /\ s.bufs \in Seq(Seq(Byte)) /\ Len(s.bufs) \in Nat \ {0} /\ b \in Seq(Byte)
        /\ Len(b) \in Nat \ {0} /\ Len(b) \in StartBuf .. MaxToken
        /\ s.start \in Nat /\ s.end \in Nat /\ s.pos \in Nat
        /\ s.start <= s.end /\ s.end <= Len(b) /\ s.end <= s.pos /\ s.pos <= Len(t)
    BY BufTyped DEF Formed
  <1>2. \A i \in s.start + 1 .. s.end : b[i] = t[(s.pos - s.end) + i]
    BY DEF Formed
  <1>3. CASE s.end < Len(b)
    <2>1. r = s
      BY <1>3 DEF Grown
    <2>2. Moved(s, s, t) /\ Stays(s, s)
      BY <1>1 DEF Moved, Stays
    <2>3. QED
      BY <1>3, <2>1, <2>2
  <1>4. CASE ~(s.end < Len(b))
    <2>1. Len(b) < MaxToken /\ s.end = Len(b)
      BY <1>1, <1>4
    <2>2. size \in Nat /\ Len(b) < size /\ size \in StartBuf .. MaxToken
      BY <1>1, <2>1, BufferAssumption
    <2>3. r = [s EXCEPT !.bufs = q]
      BY <1>4 DEF Grown
    <2> HIDE DEF size
    <2>4. \A i \in 1 .. size : (IF i <= Len(b) THEN b[i] ELSE NUL) \in Byte
      <3>1. \A i \in 1 .. size : i <= Len(b) => i \in 1 .. Len(b)
        BY <1>1, <2>2
      <3>2. \A i \in 1 .. Len(b) : b[i] \in Byte
        BY <1>1
      <3>3. NUL \in Byte
        BY DEF NUL, Byte
      <3>4. QED
        BY <3>1, <3>2, <3>3
    <2>5. c \in Seq(Byte) /\ Len(c) = size /\ \A i \in 1 .. Len(b) : c[i] = b[i]
      <3>1. c \in [1 .. size -> Byte]
        BY <2>4
      <3>2. \A i \in 1 .. Len(b) : i \in 1 .. size /\ i <= Len(b)
        BY <1>1, <2>2
      <3>3. QED
        BY <2>2, <3>1, <3>2
    <2> HIDE DEF c
    <2>6. /\ q \in Seq(Seq(Byte)) /\ Len(q) = Len(s.bufs) + 1 /\ q[Len(s.bufs) + 1] = c
          /\ \A m \in 1 .. Len(s.bufs) : q[m] = s.bufs[m]
      BY <1>1, <2>5, AppendProperties
    <2> HIDE DEF q
    <2>7. Last(q) = c /\ q # <<>>
      BY <1>1, <2>6 DEF Last
    <2>8. r = [bufs |-> q, start |-> s.start, end |-> s.end, pos |-> s.pos, eof |-> s.eof]
      BY <1>1, <2>3
    <2> HIDE DEF b, r
    <2>9. Formed(r, t)
      <3>1. r \in [bufs : Seq(Seq(Byte)), start : Nat, end : Nat, pos : Nat, eof : BOOLEAN]
        BY <1>1, <2>6, <2>8
      <3>2. ASSUME NEW i \in s.start + 1 .. s.end PROVE c[i] = t[(s.pos - s.end) + i]
        <4>1. i \in 1 .. Len(b)
          BY <1>1, <2>1
        <4>2. QED
          BY <1>2, <2>5, <4>1
      <3>3. s.end <= size
        BY <1>1, <2>1, <2>2
      <3>4. ~r.eof
        BY <2>8
      <3>5. QED
        BY <1>1, <2>2, <2>5, <2>7, <2>8, <3>1, <3>2, <3>3, <3>4 DEF Formed
    <2>10. Moved(s, r, t) /\ Stays(s, r)
      BY <1>1, <2>6, <2>8, <2>9 DEF Moved, Stays, Reach
    <2>11. r.end < Len(Last(r.bufs))
      BY <2>1, <2>2, <2>5, <2>7, <2>8
    <2>12. QED
      BY <1>4, <2>8, <2>10, <2>11 DEF r, b
  <1>5. QED
    BY <1>3, <1>4

\* Reading into what is free of the last buffer.
LEMMA ReadMoves ==
  ASSUME NEW s, Formed(s, Text), Text \in Seq(Byte), ~s.eof, s.end < Len(Last(s.bufs))
  PROVE LET r == ReadInto(s)
        IN  /\ Moved(s, r, Text) /\ Len(Last(r.bufs)) = Len(Last(s.bufs))
            /\ s.pos = Len(Text) => r.eof /\ Stays(s, r)
            /\ Len(Text) - s.pos <= Len(Last(s.bufs)) - s.end
                 => r.pos = Len(Text) /\ r.pos - r.end = s.pos - s.end
  <1> DEFINE b == Last(s.bufs)
             room == Len(b) - s.end
             left == Len(Text) - s.pos
             n == IF room < left THEN room ELSE left
             c == [i \in DOMAIN b |-> IF i \in s.end + 1 .. s.end + n
                                      THEN Text[s.pos + i - s.end] ELSE b[i]]
             q == [s.bufs EXCEPT ![Len(s.bufs)] = c]
             r == ReadInto(s)
  <1>1. /\ s \in [bufs : Seq(Seq(Byte)), start : Nat, end : Nat, pos : Nat, eof : BOOLEAN]
        /\ s.bufs \in Seq(Seq(Byte)) /\ s.bufs # <<>> /\ Len(s.bufs) \in Nat \ {0}
        /\ b = s.bufs[Len(s.bufs)] /\ b \in Seq(Byte)
        /\ Len(b) \in Nat \ {0} /\ Len(b) \in StartBuf .. MaxToken /\ DOMAIN b = 1 .. Len(b)
        /\ s.start \in Nat /\ s.end \in Nat /\ s.pos \in Nat
        /\ s.start <= s.end /\ s.end < Len(b) /\ s.end <= s.pos /\ s.pos <= Len(Text)
        /\ Len(Text) \in Nat
    <2>1. /\ s.bufs \in Seq(Seq(Byte)) /\ Len(s.bufs) \in Nat \ {0}
          /\ b = s.bufs[Len(s.bufs)] /\ b \in Seq(Byte)
          /\ Len(b) \in Nat \ {0} /\ DOMAIN b = 1 .. Len(b)
          /\ s.start \in Nat /\ s.end \in Nat /\ s.pos \in Nat
      BY BufTyped
    <2>2. /\ s \in [bufs : Seq(Seq(Byte)), start : Nat, end : Nat, pos : Nat, eof : BOOLEAN]
          /\ s.bufs # <<>> /\ Len(b) \in StartBuf .. MaxToken
          /\ s.start <= s.end /\ s.end <= s.pos /\ s.pos <= Len(Text)
      BY DEF Formed
    <2>3. Len(Text) \in Nat
      OBVIOUS
    <2>4. QED
      BY <2>1, <2>2, <2>3
  <1>2. \A i \in s.start + 1 .. s.end : b[i] = Text[(s.pos - s.end) + i]
    BY DEF Formed
  <1>3. /\ n \in Nat /\ s.end + n <= Len(b) /\ s.pos + n <= Len(Text)
        /\ n = 0 <=> s.pos = Len(Text)
        /\ left <= room => n = left
    BY <1>1
  <1>4. r = [s EXCEPT !.bufs[Len(s.bufs)] = c, !.end = @ + n, !.pos = @ + n, !.eof = (n = 0)]
    BY DEF ReadInto
  <1> HIDE DEF n, b
  <1>5. ASSUME NEW i \in 1 .. Len(b)
        PROVE (IF i \in s.end + 1 .. s.end + n THEN Text[s.pos + i - s.end] ELSE b[i]) \in Byte
    <2>1. CASE i \in s.end + 1 .. s.end + n
      <3>1. s.pos + i - s.end \in 1 .. Len(Text)
        <4>1. s.end \in Nat /\ s.pos \in Nat /\ Len(Text) \in Nat /\ s.end <= s.pos
          BY <1>1
        <4>2. s.end + 1 <= i /\ i <= s.end + n
          BY <1>3, <2>1, <4>1
        <4>3. i - s.end \in 1 .. n
          BY <1>3, <4>1, <4>2
        <4>4. \A d \in 1 .. n : s.pos + d \in 1 .. Len(Text)
          <5>1. n \in Nat /\ s.pos + n <= Len(Text)
            BY <1>3
          <5>2. QED
            BY <4>1, <5>1
        <4>5. QED
          BY <4>3, <4>4
      <3>2. QED
        BY <2>1, <3>1, ElementOfSeq
    <2>2. QED
      BY <1>1, <2>1, ElementOfSeq
  <1>6. /\ c \in Seq(Byte) /\ Len(c) = Len(b)
        /\ \A i \in 1 .. Len(b) : c[i] = IF i \in s.end + 1 .. s.end + n
                                         THEN Text[s.pos + i - s.end] ELSE b[i]
    <2>1. c \in [1 .. Len(b) -> Byte]
      BY <1>1, <1>5
    <2>2. QED
      BY <1>1, <2>1
  <1> HIDE DEF c
  <1>7. /\ q \in Seq(Seq(Byte)) /\ Len(q) = Len(s.bufs) /\ q # <<>> /\ Last(q) = c
        /\ \A m \in 1 .. Len(s.bufs) : m # Len(s.bufs) => q[m] = s.bufs[m]
    BY <1>1, <1>6, LastReplaced
  <1>8. r = [bufs |-> q, start |-> s.start, end |-> s.end + n, pos |-> s.pos + n, eof |-> (n = 0)]
    BY <1>1, <1>4
  <1> HIDE DEF q, r
  <1>9. Formed(r, Text)
    <2>1. r \in [bufs : Seq(Seq(Byte)), start : Nat, end : Nat, pos : Nat, eof : BOOLEAN]
      <3>1. s.end + n \in Nat /\ s.pos + n \in Nat /\ (n = 0) \in BOOLEAN
        BY <1>1, <1>3
      <3>2. QED
        BY <1>1, <1>7, <1>8, <3>1
    <2>2. (s.pos + n) - (s.end + n) = s.pos - s.end
      BY <1>1, <1>3
    <2>3. ASSUME NEW i \in s.start + 1 .. s.end + n
          PROVE c[i] = Text[(s.pos - s.end) + i]
      <3>1. i \in 1 .. Len(b)
        BY <1>1, <1>3
      <3>2. CASE i \in s.end + 1 .. s.end + n
        <4>1. s.pos + i - s.end = (s.pos - s.end) + i
          BY <1>1, <3>1
        <4>2. QED
          BY <1>6, <3>1, <3>2, <4>1
      <3>3. CASE i \notin s.end + 1 .. s.end + n
        <4>1. i \in s.start + 1 .. s.end
          BY <1>1, <1>3, <3>3
        <4>2. QED
          BY <1>2, <1>6, <3>1, <3>3, <4>1
      <3>4. QED
        BY <3>2, <3>3
    <2>4. /\ s.start <= s.end + n /\ s.end + n <= Len(c) /\ s.end + n <= s.pos + n
          /\ s.pos + n <= Len(Text)
      BY <1>1, <1>3, <1>6
    <2>5. n = 0 => s.pos + n = Len(Text) /\ s.end + n < Len(c)
      BY <1>1, <1>3, <1>6
    <2>6. Len(c) \in StartBuf .. MaxToken
      BY <1>1, <1>6
    <2>7. /\ r.bufs = q /\ r.start = s.start /\ r.end = s.end + n /\ r.pos = s.pos + n
          /\ r.eof <=> n = 0
      BY <1>8
    <2>8. \A i \in r.start + 1 .. r.end : Last(r.bufs)[i] = Text[(r.pos - r.end) + i]
      BY <1>7, <2>2, <2>3, <2>7
    <2>9. r.eof => r.pos = Len(Text) /\ r.end < Len(Last(r.bufs))
      BY <1>7, <2>5, <2>7
    <2>10. QED
      BY <1>7, <2>1, <2>4, <2>6, <2>7, <2>8, <2>9 DEF Formed
  <1>10. Reach(r) = Reach(s)
    BY <1>1, <1>3, <1>8 DEF Reach
  <1>11. Moved(s, r, Text) /\ Len(Last(r.bufs)) = Len(b)
    BY <1>1, <1>6, <1>7, <1>8, <1>9, <1>10 DEF Moved
  <1>12. ASSUME s.pos = Len(Text) PROVE r.eof /\ Stays(s, r)
    <2>1. n = 0
      BY <1>3, <1>12
    <2>2. \A i \in 1 .. Len(b) : c[i] = b[i]
      <3>1. \A i \in 1 .. Len(b) : i \notin s.end + 1 .. s.end + n
        BY <1>1, <2>1
      <3>2. QED
        BY <1>6, <3>1
    <2>3. c = b
      BY <1>1, <1>6, <2>2, SeqEqual
    <2>4. q = s.bufs
      BY <1>1, <2>3 DEF q
    <2>5. r.eof = (n = 0) /\ r.bufs = q
      BY <1>8
    <2>6. QED
      BY <2>1, <2>4, <2>5 DEF Stays
  <1>13. ASSUME left <= room PROVE r.pos = Len(Text) /\ r.pos - r.end = s.pos - s.end
    <2>1. n = left
      BY <1>3, <1>13
    <2>2. QED
      BY <1>1, <1>3, <1>8, <2>1
  <1>14. QED
    BY <1>11, <1>12, <1>13 DEF r, b

-----------------------------------------------------------------------------
(* The inductive invariant                                                 *)

\* The lines List has gone through without a look at a longer one, and where it
\* stops.
StopsHere(k) ==
  \/ k = Count
  \/ k + 1 \in 1 .. Count /\ Lines[k + 1].len >= MaxToken
  \/ k + 1 = Count /\ Lines[Count].len = 0

\* k lines have been read, and list has their keys.
Progress(off, k) ==
  /\ Laid(off) /\ k \in 0 .. Count /\ Reach(scan) = Edge(off, k)
  /\ \A i \in 1 .. k : Lines[i].len < MaxToken
  /\ Len(list) = Len(KeptOf(k))
  /\ \A i \in 1 .. Len(list) : list[i].parsed = Named(KeptOf(k)[i])
  /\ pc = "done" => StopsHere(k)

Entry == [parsed : {Named(l) : l \in ToSet(Lines)}, buf : Nat, from : Nat, to : Nat]

\* A file that need not move: read at once or not at all.
Held ==
  \/ scan.eof
  \/ /\ scan.pos = scan.end /\ Len(Buf) = StartBuf
     /\ scan.end = Len(Text) \/ (scan.end = 0 /\ list = <<>>)

ValuesHold == \A i \in 1 .. Len(list) : parseKey(Value(list[i])) = list[i].parsed

DriveFits ==
  drive = NoDrive
    \/ /\ pc = "done"
       /\ \E format \in {"nocloud", "openstack"}, fps \in Forms :
            /\ \A i \in DOMAIN fps : Listed(fps[i])
            /\ drive = [format |-> format, chosen |-> fps, values |-> PublicKeys(format, fps)]

ScanInv ==
  /\ content \in Contents /\ pc \in {"scan", "done"}
  /\ Formed(scan, Text)
  /\ \E off, k : Progress(off, k)
  /\ list \in Seq(Entry) /\ \A i \in 1 .. Len(list) : list[i].buf \in 1 .. Len(scan.bufs)
  /\ HeldInPlace => Held /\ ValuesHold
  /\ DriveFits

LEMMA TextTyped ==
  ASSUME content \in Contents
  PROVE Text \in Seq(Byte) /\ Len(Text) \in Nat
  <1>1. Text \in Seq(Byte)
    BY TextLaid DEF Laid
  <1>2. QED
    BY <1>1

\* The scanner before its first byte.
Opened == /\ content \in Contents /\ scan = NewScanner /\ list = <<>> /\ pc = "scan"
          /\ drive = NoDrive

LEMMA FreshFits == Opened => ScanInv
  <1> SUFFICES ASSUME Opened PROVE ScanInv
    OBVIOUS
  <1> USE DEF Opened
  <1> DEFINE b == [i \in 1 .. StartBuf |-> NUL]
  <1>1. b \in Seq(Byte) /\ Len(b) = StartBuf
    <2>1. NUL \in Byte
      BY DEF NUL, Byte
    <2>2. QED
      BY <2>1, BufferAssumption
  <1> HIDE DEF b
  <1>2. <<b>> \in Seq(Seq(Byte)) /\ <<b>> # <<>> /\ Len(<<b>>) = 1 /\ Last(<<b>>) = b
    BY <1>1 DEF Last
  <1>3. scan = [bufs |-> <<b>>, start |-> 0, end |-> 0, pos |-> 0, eof |-> FALSE]
    BY DEF NewScanner, b
  <1>4. Text \in Seq(Byte) /\ Len(Text) \in Nat
    BY TextTyped
  <1>5. Formed(scan, Text)
    <2>1. StartBuf \in StartBuf .. MaxToken /\ 0 <= StartBuf
      BY BufferAssumption
    <2>2. scan \in [bufs : Seq(Seq(Byte)), start : Nat, end : Nat, pos : Nat, eof : BOOLEAN]
      BY <1>2, <1>3
    <2>3. QED
      BY <1>1, <1>2, <1>3, <1>4, <2>1, <2>2 DEF Formed
  <1>6. Reach(scan) = 0
    BY <1>3 DEF Reach
  <1>7. PICK off : Laid(off)
    BY TextLaid
  <1>8. Count \in Nat /\ 0 \in 0 .. Count /\ Edge(off, 0) = 0
    <2>1. Count \in Nat
      BY LinesTyped
    <2>2. Count = 0 => Len(Text) = 0
      BY <1>7 DEF Laid
    <2>3. QED
      BY <1>7, <2>1, <2>2 DEF Laid, Edge
  <1>9. Len(list) = 0
    OBVIOUS
  <1>10. Progress(off, 0)
    BY <1>6, <1>7, <1>8, <1>9, KeptNone DEF Progress
  <1>11. Held /\ ValuesHold
    BY <1>1, <1>2, <1>3, <1>9 DEF Held, ValuesHold, Buf
  <1>12. QED
    BY <1>5, <1>9, <1>10, <1>11 DEF ScanInv, DriveFits

\* While the file is not changed, its text is not.
LEMMA SameText ==
  ASSUME content' = content
  PROVE /\ Text' = Text /\ Lines' = Lines /\ Count' = Count /\ Entry' = Entry
        /\ HeldInPlace' = HeldInPlace /\ KeyLines' = KeyLines
        /\ \A off : Laid(off)' = Laid(off)
        /\ \A off, k : Edge(off, k)' = Edge(off, k)
        /\ \A k : KeptOf(k)' = KeptOf(k) /\ StopsHere(k)' = StopsHere(k)
        /\ \A bytes : parseKey(bytes)' = parseKey(bytes)
  <1>1. Text' = Text
    BY DEF Text, LineBytes
  <1>2. Lines' = Lines /\ Count' = Count
    BY DEF Lines, Count
  <1>3. Entry' = Entry
    BY <1>2 DEF Entry
  <1>4. HeldInPlace' = HeldInPlace
    BY <1>1 DEF HeldInPlace
  <1>5. KeyLines' = KeyLines
    BY DEF KeyLines, SelectInSeq
  <1>6. \A off : Laid(off)' = Laid(off)
    BY <1>1, <1>2 DEF Laid
  <1>7. \A off, k : Edge(off, k)' = Edge(off, k)
    BY <1>1, <1>2 DEF Edge
  <1>8. \A k : KeptOf(k)' = KeptOf(k) /\ StopsHere(k)' = StopsHere(k)
    BY <1>2 DEF KeptOf, StopsHere, KeyedLines
  <1>9. \A bytes : parseKey(bytes)' = parseKey(bytes)
    BY DEF parseKey, SameLines, LineBytes
  <1>10. QED
    BY <1>1, <1>2, <1>3, <1>4, <1>5, <1>6, <1>7, <1>8, <1>9

-----------------------------------------------------------------------------
(* The actions                                                             *)

\* A file that need not move is not moved.
LEMMA NoShift ==
  ASSUME content \in Contents, Formed(scan, Text), NEW off, Laid(off), NEW k \in 0 .. Count,
         Reach(scan) = Edge(off, k), HeldInPlace, ~HasLine,
         scan.pos = scan.end, scan.end = Len(Text), Len(Buf) = StartBuf
  PROVE ~(Shifts /\ Window # <<>>)
  <1> DEFINE w == Len(Window)
  <1>1. SUFFICES ASSUME Shifts, Window # <<>> PROVE FALSE
    OBVIOUS
  <1>2. Text \in Seq(Byte) /\ Len(Text) \in Nat /\ Count \in Nat
    BY TextTyped, LinesTyped
  <1>3. /\ Window \in Seq(Byte) /\ w = scan.end - scan.start /\ w \in Nat
        /\ Reach(scan) \in Nat /\ Reach(scan) + w = scan.pos
        /\ \A i \in 1 .. w : Window[i] = Text[Reach(scan) + i]
        /\ Window = <<>> <=> scan.start = scan.end
        /\ scan.start \in Nat
    BY <1>2, WindowRead, BufTyped
  <1>4. w \in Nat \ {0}
    BY <1>1, <1>3
  <1>5. \A i \in 1 .. w : Window[i] # NL
    BY <1>3, InToSet DEF HasLine
  <1>6. Edge(off, k) + w = Len(Text) /\ \A i \in 1 .. w : Text[Edge(off, k) + i] # NL
    BY <1>3, <1>5
  <1> HIDE DEF w
  <1>7. k + 1 = Count /\ w = Lines[k + 1].len /\ ~content.ended
    BY <1>4, <1>6, RestIsLine
  <1>8. Last(content.lines).len = w
    BY <1>7 DEF Last, Lines, Count
  <1>9. scan.start = Len(Text) - w
    BY <1>2, <1>3
  <1>10. scan.start > 0 /\ (scan.end = StartBuf \/ scan.start > StartBuf \div 2)
    BY <1>1 DEF Shifts
  <1>11. CASE Count < 2
    <2>1. k = 0 /\ k # Count
      BY <1>2, <1>7, <1>11
    <2>2. Edge(off, k) = 0
      BY <2>1 DEF Edge, Laid
    <2>3. QED
      BY <1>2, <1>3, <1>6, <1>9, <1>10, <2>2
  <1>12. CASE /\ Len(Text) < StartBuf
              /\ Len(Text) - Last(content.lines).len <= StartBuf \div 2
    <2>1. scan.start <= StartBuf \div 2 /\ scan.end # StartBuf
      BY <1>2, <1>8, <1>9, <1>12, BufferAssumption
    <2>2. StartBuf \div 2 \in Int
      BY BufferAssumption
    <2>3. QED
      BY <1>3, <1>10, <2>1, <2>2
  <1>13. QED
    BY <1>4, <1>7, <1>8, <1>11, <1>12 DEF HeldInPlace, Count

LEMMA RefillFits ==
  ASSUME ScanInv, Refill
  PROVE ScanInv'
  <1> DEFINE a == Shifted
             b == Grown(a)
             c == ReadInto(b)
  <1>1. /\ content \in Contents /\ Formed(scan, Text) /\ pc = "scan" /\ ~scan.eof /\ ~HasLine
        /\ scan' = c /\ ~TooLong /\ UNCHANGED <<content, list, pc, drive>>
        /\ list \in Seq(Entry) /\ \A i \in 1 .. Len(list) : list[i].buf \in 1 .. Len(scan.bufs)
    BY DEF ScanInv, Refill
  <1>2. Text \in Seq(Byte) /\ Len(Text) \in Nat
    BY <1>1, TextTyped
  <1>3. Buf = Last(scan.bufs) /\ Len(Buf) \in StartBuf .. MaxToken
        /\ scan.start \in Nat /\ scan.end \in Nat /\ scan.pos \in Nat
        /\ scan.end <= scan.pos /\ scan.pos <= Len(Text)
    BY <1>1, BufTyped DEF Formed, Buf
  <1>4. /\ Moved(scan, a, Text) /\ ~a.eof
        /\ a.pos = scan.pos /\ Len(a.bufs) = Len(scan.bufs)
        /\ Len(Last(a.bufs)) = Len(Buf)
        /\ (Shifts /\ Window # <<>>) \/ Stays(scan, a)
        /\ ~Shifts => a = scan
        /\ a.end < Len(Buf) \/ (a.end = Len(Buf) /\ scan.end = Len(Buf) /\ scan.start = 0 /\ a = scan)
    BY <1>1, <1>2, ShiftMoves
  <1> HIDE DEF a
  <1>5. a.end < Len(Last(a.bufs)) \/ (a.start = 0 /\ Len(Last(a.bufs)) < MaxToken)
    <2>1. CASE a.end = Len(Buf) /\ scan.end = Len(Buf) /\ scan.start = 0 /\ a = scan
      <3>1. Len(Buf) # MaxToken
        BY <1>1, <2>1 DEF TooLong
      <3>2. Len(Buf) < MaxToken
        BY <1>3, <3>1, BufferAssumption
      <3>3. QED
        BY <1>4, <2>1, <3>2
    <2>2. QED
      BY <1>4, <2>1
  <1>6. /\ Moved(a, b, Text) /\ ~b.eof /\ b.pos = a.pos /\ Stays(a, b)
        /\ b.end < Len(Last(b.bufs))
        /\ a.end < Len(Last(a.bufs)) => b = a
    BY <1>4, <1>5, GrowMoves DEF Moved
  <1> HIDE DEF b
  <1>7. /\ Moved(b, c, Text) /\ Len(Last(c.bufs)) = Len(Last(b.bufs))
        /\ b.pos = Len(Text) => c.eof /\ Stays(b, c)
        /\ Len(Text) - b.pos <= Len(Last(b.bufs)) - b.end
             => c.pos = Len(Text) /\ c.pos - c.end = b.pos - b.end
    BY <1>2, <1>6, ReadMoves DEF Moved
  <1> HIDE DEF c
  <1>8. /\ Formed(scan', Text) /\ Reach(scan') = Reach(scan)
        /\ Len(scan'.bufs) \in Nat /\ Len(b.bufs) \in Nat
        /\ Len(scan'.bufs) >= Len(scan.bufs) /\ Len(b.bufs) >= Len(scan.bufs)
    <2>1. Len(scan.bufs) \in Nat /\ Len(a.bufs) \in Nat /\ Len(b.bufs) \in Nat /\ Len(c.bufs) \in Nat
      BY <1>1, <1>4, <1>6, <1>7, BufTyped DEF Moved
    <2>2. QED
      BY <1>1, <1>4, <1>6, <1>7, <2>1 DEF Moved
  <1>9. /\ Text' = Text /\ Lines' = Lines /\ Count' = Count /\ Entry' = Entry
        /\ HeldInPlace' = HeldInPlace
        /\ \A off : Laid(off)' = Laid(off)
        /\ \A off, k : Edge(off, k)' = Edge(off, k)
        /\ \A k : KeptOf(k)' = KeptOf(k) /\ StopsHere(k)' = StopsHere(k)
        /\ \A bytes : parseKey(bytes)' = parseKey(bytes)
    BY <1>1, SameText
  <1>10. PICK off, k : Progress(off, k)
    BY DEF ScanInv
  <1>11. Progress(off, k)'
    <2>1. Reach(scan)' = Edge(off, k)'
      BY <1>8, <1>9, <1>10 DEF Progress, Reach
    <2>2. QED
      BY <1>1, <1>9, <1>10, <2>1 DEF Progress
  <1>12. ASSUME HeldInPlace PROVE Held' /\ ValuesHold'
    <2>1. Held /\ ValuesHold
      BY <1>12 DEF ScanInv
    <2>2. /\ scan.pos = scan.end /\ Len(Buf) = StartBuf
          /\ scan.end = Len(Text) \/ (scan.end = 0 /\ list = <<>>)
      BY <1>1, <2>1 DEF Held
    <2>3. CASE scan.end = Len(Text)
      <3>1. ~(Shifts /\ Window # <<>>)
        BY <1>1, <1>10, <1>12, <2>2, <2>3, NoShift DEF Progress
      <3>2. Stays(scan, a) /\ Stays(a, b) /\ Stays(b, c) /\ c.eof
        BY <1>4, <1>6, <1>7, <2>2, <2>3, <3>1
      <3>3. Stays(scan, c)
        <4>1. ASSUME NEW m \in 1 .. Len(scan.bufs) PROVE c.bufs[m] = scan.bufs[m]
          <5>1. m \in 1 .. Len(a.bufs) /\ m \in 1 .. Len(b.bufs)
            BY <1>4, <1>8
          <5>2. QED
            BY <3>2, <5>1 DEF Stays
        <4>2. QED
          BY <4>1 DEF Stays
      <3>4. ASSUME NEW i \in 1 .. Len(list) PROVE Value(list[i])' = Value(list[i])
        BY <1>1, <3>3 DEF Value, Stays
      <3>5. ValuesHold'
        BY <1>1, <1>9, <2>1, <3>4 DEF ValuesHold
      <3>6. QED
        BY <1>1, <3>2, <3>5 DEF Held
    <2>4. CASE scan.end = 0 /\ list = <<>>
      <3>1. a = scan
        <4>1. ~Shifts
          BY <1>1, <1>3, <2>4 DEF Shifts, Formed
        <4>2. QED
          BY <1>4, <4>1
      <3>2. b = scan
        <4>1. 0 < StartBuf
          BY BufferAssumption
        <4>2. QED
          BY <1>3, <1>6, <2>2, <2>4, <3>1, <4>1
      <3>3. Len(Text) <= StartBuf
        BY <1>12 DEF HeldInPlace
      <3>4. c.pos = Len(Text) /\ c.pos - c.end = 0 /\ Len(Last(c.bufs)) = StartBuf
        BY <1>2, <1>3, <1>7, <2>2, <2>4, <3>2, <3>3, BufferAssumption
      <3>5. c.end = Len(Text)
        <4>1. c.end \in Nat
          BY <1>7, BufTyped DEF Moved
        <4>2. QED
          BY <1>2, <3>4, <4>1
      <3>6. Held'
        BY <1>1, <1>9, <3>4, <3>5 DEF Held, Buf
      <3>7. ValuesHold'
        BY <1>1, <2>4 DEF ValuesHold
      <3>8. QED
        BY <3>6, <3>7
    <2>5. QED
      BY <2>2, <2>3, <2>4
  <1>13. \A i \in 1 .. Len(list) : list[i].buf \in 1 .. Len(scan'.bufs)
    BY <1>1, <1>8
  <1>14. DriveFits'
    <2>1. drive = NoDrive
      BY <1>1 DEF ScanInv, DriveFits
    <2>2. QED
      BY <1>1, <2>1 DEF DriveFits, NoDrive
  <1>15. QED
    BY <1>1, <1>8, <1>9, <1>11, <1>12, <1>13, <1>14 DEF ScanInv

\* The loop's body, for line k + 1 of the file.
LEMMA LineFits ==
  ASSUME ScanInv, pc = "scan", NEW off, NEW k, Progress(off, k),
         k + 1 \in 1 .. Count, Lines[k + 1].len < MaxToken, scan.start < scan.end,
         NEW next \in scan.start .. scan.end,
         (scan.pos - scan.end) + next = Edge(off, k + 1),
         scan.start + Lines[k + 1].len <= scan.end,
         \A j \in 1 .. Lines[k + 1].len : Text[Reach(scan) + j] = <<k + 1, j>>,
         ListLine(scan.start + Lines[k + 1].len, next)
  PROVE ScanInv'
  <1> DEFINE l == Lines[k + 1].len
             to == scan.start + l
             bytes == SubSeq(Buf, scan.start + 1, to)
             parsed == parseKey(bytes)
             e == [parsed |-> parsed, buf |-> Len(scan.bufs), from |-> scan.start + 1, to |-> to]
  <1>1. /\ content \in Contents /\ Formed(scan, Text)
        /\ list \in Seq(Entry) /\ \A i \in 1 .. Len(list) : list[i].buf \in 1 .. Len(scan.bufs)
        /\ drive = NoDrive
    BY DEF ScanInv, DriveFits
  <1>2. /\ scan' = [scan EXCEPT !.start = next]
        /\ list' = IF parsed.key = NoKey THEN list ELSE Append(list, e)
        /\ UNCHANGED <<content, pc, drive>>
    BY DEF ListLine
  <1>3. /\ scan \in [bufs : Seq(Seq(Byte)), start : Nat, end : Nat, pos : Nat, eof : BOOLEAN]
        /\ Buf = Last(scan.bufs) /\ scan.start \in Nat /\ scan.end \in Nat /\ scan.pos \in Nat
        /\ Len(scan.bufs) \in Nat \ {0}
    BY <1>1, BufTyped DEF Formed, Buf
  <1>4. k \in 0 .. Count /\ Count \in Nat /\ (k + 1) - 1 = k /\ l \in Nat
    BY <1>1, LinesTyped DEF Progress
  <1>5. bytes = LineBytes(k + 1)
    <2>1. /\ Text \in Seq(Byte) /\ Len(Text) \in Nat
      BY <1>1, TextTyped
    <2>2. /\ Len(Window) = scan.end - scan.start
          /\ \A i \in 1 .. Len(Window) : Window[i] = Buf[scan.start + i]
          /\ \A i \in 1 .. Len(Window) : Window[i] = Text[Reach(scan) + i]
      BY <1>1, <2>1, WindowRead
    <2>3. /\ LineBytes(k + 1) \in Seq(Byte) /\ Len(LineBytes(k + 1)) = l
          /\ \A j \in 1 .. l : LineBytes(k + 1)[j] = <<k + 1, j>>
      BY <1>1, BytesOfLine
    <2> HIDE DEF l
    <2>4. \A j \in 1 .. l : Buf[scan.start + j] = <<k + 1, j>>
      <3>1. \A j \in 1 .. l : j \in 1 .. Len(Window)
        <4>1. l <= Len(Window) /\ l \in Nat /\ Len(Window) \in Nat
          <5>1. scan.start + l <= scan.end /\ l \in Nat
            BY <1>3, <1>4 DEF l
          <5>2. QED
            BY <1>3, <2>2, <5>1
        <4>2. QED
          BY <4>1
      <3>2. \A j \in 1 .. l : Text[Reach(scan) + j] = <<k + 1, j>>
        BY DEF l
      <3>3. QED
        BY <2>2, <3>1, <3>2
    <2>5. \A i \in scan.start + 1 .. to : Buf[i] \in Byte
      <3>1. ASSUME NEW i \in scan.start + 1 .. to PROVE Buf[i] \in Byte
        <4>1. i - scan.start \in 1 .. l /\ scan.start + (i - scan.start) = i
          BY <1>3, <1>4
        <4>2. Buf[i] = <<k + 1, i - scan.start>>
          BY <2>4, <4>1
        <4>3. k + 1 \in Nat /\ i - scan.start \in Nat
          BY <1>4, <4>1
        <4>4. QED
          BY <4>2, <4>3 DEF Byte
      <3>2. QED
        BY <3>1
    <2>6. /\ bytes \in Seq(Byte)
          /\ Len(bytes) = IF scan.start + 1 <= to THEN to - (scan.start + 1) + 1 ELSE 0
          /\ \A i \in 1 .. to - (scan.start + 1) + 1 : bytes[i] = Buf[(scan.start + 1) + i - 1]
      <3>1. scan.start + 1 \in Int /\ to \in Int
        BY <1>3, <1>4
      <3> HIDE DEF to
      <3>2. QED
        BY <2>5, <3>1, SubSeqProperties
    <2> HIDE DEF bytes
    <2>7. Len(bytes) = l
      <3>1. (IF scan.start + 1 <= to THEN to - (scan.start + 1) + 1 ELSE 0) = l
        BY <1>3, <1>4
      <3>2. QED
        BY <2>6, <3>1
    <2>8. ASSUME NEW j \in 1 .. l PROVE bytes[j] = <<k + 1, j>>
      <3>1. j \in 1 .. to - (scan.start + 1) + 1 /\ (scan.start + 1) + j - 1 = scan.start + j
        <4>1. to - (scan.start + 1) + 1 = l /\ scan.start \in Nat
          BY <1>3, <1>4
        <4>2. QED
          BY <1>4, <4>1
      <3>2. QED
        BY <2>4, <2>6, <3>1
    <2>9. QED
      BY <1>4, <2>3, <2>6, <2>7, <2>8, SeqEqual
  <1>6. /\ parsed.key = Lines[k + 1].key
        /\ Lines[k + 1].key # NoKey => parsed = Named(Lines[k + 1])
    BY <1>1, <1>5, ParsedLine
  <1> HIDE DEF parsed
  <1>7. Lines[k + 1] \in ToSet(Lines)
    BY <1>1, LinesTyped
  <1>8. ASSUME Lines[k + 1].key # NoKey
        PROVE e \in Entry /\ e.parsed = Named(Lines[k + 1]) /\ e.buf \in 1 .. Len(scan.bufs)
    <2>1. e.parsed \in {Named(x) : x \in ToSet(Lines)}
      BY <1>6, <1>7, <1>8
    <2>2. to \in Nat /\ scan.start + 1 \in Nat /\ Len(scan.bufs) \in Nat
      <3>1. l \in Nat /\ scan.start \in Nat /\ Len(scan.bufs) \in Nat
        BY <1>3, <1>4
      <3> HIDE DEF l
      <3>2. QED
        BY <3>1
    <2> HIDE DEF to
    <2>3. QED
      BY <1>3, <1>6, <1>8, <2>1, <2>2 DEF Entry
  <1>9. Value(e) = bytes /\ parseKey(Value(e)) = e.parsed
    BY DEF Value, Buf, Last, parsed
  <1> HIDE DEF e
  <1>10. /\ Text' = Text /\ Lines' = Lines /\ Count' = Count /\ Entry' = Entry
         /\ HeldInPlace' = HeldInPlace
         /\ \A x : Laid(x)' = Laid(x)
         /\ \A x, y : Edge(x, y)' = Edge(x, y)
         /\ \A x : KeptOf(x)' = KeptOf(x) /\ StopsHere(x)' = StopsHere(x)
         /\ \A x : parseKey(x)' = parseKey(x)
    BY <1>2, SameText
  <1>11. /\ scan'.bufs = scan.bufs /\ scan'.start = next /\ scan'.end = scan.end
         /\ scan'.pos = scan.pos /\ scan'.eof = scan.eof
    BY <1>2, <1>3
  <1>12. Formed(scan', Text)
    <2>1. next \in Nat /\ scan.start <= next /\ next <= scan.end
      BY <1>3
    <2>2. scan' \in [bufs : Seq(Seq(Byte)), start : Nat, end : Nat, pos : Nat, eof : BOOLEAN]
      BY <1>2, <1>3, <2>1
    <2>3. \A i \in next + 1 .. scan.end : i \in scan.start + 1 .. scan.end
      BY <1>3, <2>1
    <2>4. QED
      BY <1>1, <1>11, <2>1, <2>2, <2>3 DEF Formed
  <1>13. /\ KeptOf(k + 1) = IF Lines[k + 1].key # NoKey THEN Append(KeptOf(k), Lines[k + 1])
                            ELSE KeptOf(k)
         /\ KeptOf(k) \in Seq(ToSet(Lines))
    BY <1>1, <1>4, KeptNext, KeptTyped
  <1>14. Len(list) = Len(KeptOf(k)) /\ \A i \in 1 .. Len(list) : list[i].parsed = Named(KeptOf(k)[i])
    BY DEF Progress
  <1>15. /\ list' \in Seq(Entry) /\ \A i \in 1 .. Len(list') : list'[i].buf \in 1 .. Len(scan.bufs)
         /\ Len(list') = Len(KeptOf(k + 1))
         /\ \A i \in 1 .. Len(list') : list'[i].parsed = Named(KeptOf(k + 1)[i])
         /\ ValuesHold => \A i \in 1 .. Len(list') : parseKey(Value(list'[i])) = list'[i].parsed
    <2>1. CASE Lines[k + 1].key = NoKey
      <3>1. list' = list /\ KeptOf(k + 1) = KeptOf(k)
        BY <1>2, <1>6, <1>13, <2>1
      <3>2. QED
        BY <1>1, <1>14, <3>1 DEF ValuesHold
    <2>2. CASE Lines[k + 1].key # NoKey
      <3> DEFINE q == Append(list, e)
                 r == Append(KeptOf(k), Lines[k + 1])
      <3>1. list' = q /\ KeptOf(k + 1) = r
        BY <1>2, <1>6, <1>13, <2>2 DEF e
      <3>2. /\ q \in Seq(Entry) /\ Len(q) = Len(list) + 1 /\ q[Len(list) + 1] = e
            /\ \A i \in 1 .. Len(list) : q[i] = list[i]
        BY <1>1, <1>8, <2>2, AppendProperties
      <3>3. /\ Len(r) = Len(KeptOf(k)) + 1 /\ r[Len(KeptOf(k)) + 1] = Lines[k + 1]
            /\ \A i \in 1 .. Len(KeptOf(k)) : r[i] = KeptOf(k)[i]
        BY <1>7, <1>13, AppendProperties
      <3> HIDE DEF q, r
      <3>4. Len(list) \in Nat /\ \A i \in 1 .. Len(q) : i \in 1 .. Len(list) \/ i = Len(list) + 1
        BY <1>1, <3>2
      <3>5. \A i \in 1 .. Len(q) : q[i].buf \in 1 .. Len(scan.bufs)
        BY <1>1, <1>8, <2>2, <3>2, <3>4
      <3>6. \A i \in 1 .. Len(q) : q[i].parsed = Named(r[i])
        BY <1>8, <1>14, <2>2, <3>2, <3>3, <3>4
      <3>7. ValuesHold => \A i \in 1 .. Len(q) : parseKey(Value(q[i])) = q[i].parsed
        BY <1>9, <3>2, <3>4 DEF ValuesHold
      <3>8. QED
        BY <1>14, <3>1, <3>2, <3>3, <3>5, <3>6, <3>7
    <2>3. QED
      BY <2>1, <2>2
  <1>16. Progress(off, k + 1)'
    <2>1. Reach(scan)' = Edge(off, k + 1)'
      BY <1>10, <1>11 DEF Reach
    <2>2. k + 1 \in 0 .. Count
      BY <1>4
    <2>3. \A i \in 1 .. k + 1 : Lines[i].len < MaxToken
      <3>1. \A i \in 1 .. k + 1 : i \in 1 .. k \/ i = k + 1
        BY <1>4
      <3>2. QED
        BY <3>1 DEF Progress
    <2>4. Laid(off)
      BY DEF Progress
    <2>5. pc' # "done"
      BY <1>2
    <2>6. QED
      BY <1>10, <1>15, <2>1, <2>2, <2>3, <2>4, <2>5 DEF Progress
  <1>17. ASSUME HeldInPlace PROVE Held' /\ ValuesHold'
    <2>1. Held /\ ValuesHold
      BY <1>17 DEF ScanInv
    <2>2. \A x : Value(x)' = SubSeq(scan.bufs[x.buf], x.from, x.to)
      BY <1>11 DEF Value
    <2>3. ValuesHold'
      BY <1>10, <1>15, <2>1, <2>2 DEF ValuesHold, Value
    <2>4. scan.end # 0
      BY <1>3
    <2>5. Held'
      BY <1>10, <1>11, <2>1, <2>4 DEF Held, Buf
    <2>6. QED
      BY <2>3, <2>5
  <1>18. DriveFits'
    BY <1>1, <1>2 DEF DriveFits, NoDrive
  <1>19. Formed(scan, Text)' /\ content' \in Contents /\ pc' \in {"scan", "done"}
    BY <1>1, <1>2, <1>10, <1>12 DEF ScanInv
  <1>20. QED
    BY <1>10, <1>11, <1>15, <1>16, <1>17, <1>18, <1>19 DEF ScanInv

\* The first newline of the window.
LEMMA NewlineAt ==
  ASSUME Formed(scan, Text), Text \in Seq(Byte), HasLine
  PROVE LET p == SelectInSeq(Window, LAMBDA b : b = NL)
        IN  /\ p \in 1 .. Len(Window) /\ Window[p] = NL
            /\ \A j \in 1 .. p - 1 : Window[j] # NL
  <1> DEFINE I == {i \in 1 .. Len(Window) : Window[i] = NL}
             p == SelectInSeq(Window, LAMBDA b : b = NL)
  <1>1. Window \in Seq(Byte) /\ Len(Window) \in Nat
    BY WindowRead
  <1>2. I # {}
    BY <1>1, InToSet DEF HasLine
  <1>3. p = IF I # {} THEN Min(I) ELSE 0
    BY DEF SelectInSeq
  <1>4. I \in SUBSET Nat
    OBVIOUS
  <1>5. PICK m \in I : \A i \in I : m <= i
    BY <1>2, <1>4, LeastNumber
  <1>6. p \in I /\ \A i \in I : p <= i
    BY <1>2, <1>3, <1>5 DEF Min
  <1> HIDE DEF p
  <1>7. ASSUME NEW j \in 1 .. p - 1, Window[j] = NL PROVE FALSE
    <2>1. j \in I /\ p \in Nat
      BY <1>1, <1>6, <1>7
    <2>2. QED
      BY <1>6, <1>7, <2>1
  <1>8. QED
    BY <1>6, <1>7 DEF p

LEMMA NextLineFits ==
  ASSUME ScanInv, NextLine
  PROVE ScanInv'
  <1> DEFINE p == SelectInSeq(Window, LAMBDA b : b = NL)
  <1>1. content \in Contents /\ Formed(scan, Text) /\ pc = "scan" /\ HasLine
    BY DEF ScanInv, NextLine
  <1>2. ListLine((scan.start + p) - 1, scan.start + p)
    BY DEF NextLine
  <1>3. Text \in Seq(Byte) /\ Len(Text) \in Nat /\ Count \in Nat
    BY <1>1, TextTyped, LinesTyped
  <1>4. /\ Len(Window) = scan.end - scan.start /\ Len(Window) \in Nat
        /\ Reach(scan) + Len(Window) = scan.pos /\ Reach(scan) \in Nat
        /\ \A i \in 1 .. Len(Window) : Window[i] = Text[Reach(scan) + i]
    BY <1>1, <1>3, WindowRead
  <1>5. /\ scan.start \in Nat /\ scan.end \in Nat /\ scan.pos \in Nat
        /\ scan.pos <= Len(Text) /\ scan.end <= Len(Last(scan.bufs))
        /\ Len(Last(scan.bufs)) \in Nat /\ Len(Last(scan.bufs)) <= MaxToken
    BY <1>1, BufTyped, BufferAssumption DEF Formed
  <1>6. p \in 1 .. Len(Window) /\ Window[p] = NL /\ \A j \in 1 .. p - 1 : Window[j] # NL
    BY <1>1, <1>3, NewlineAt
  <1> HIDE DEF p
  <1>7. PICK off, k : Progress(off, k)
    BY DEF ScanInv
  <1>8. Laid(off) /\ k \in 0 .. Count /\ Reach(scan) = Edge(off, k)
    BY <1>7 DEF Progress
  <1>9. /\ p \in Nat \ {0} /\ Edge(off, k) + p <= Len(Text)
        /\ Text[Edge(off, k) + p] = NL
        /\ \A j \in 1 .. p - 1 : Text[Edge(off, k) + j] # NL
    <2>1. p \in Nat \ {0} /\ Edge(off, k) + p <= Len(Text)
      BY <1>3, <1>4, <1>5, <1>6, <1>8
    <2>2. \A j \in 1 .. p - 1 : j \in 1 .. Len(Window)
      BY <1>4, <1>6
    <2>3. QED
      BY <1>4, <1>6, <1>8, <2>1, <2>2
  <1>10. /\ k # Count /\ k + 1 \in 1 .. Count /\ p = Lines[k + 1].len + 1
         /\ Edge(off, k + 1) = Edge(off, k) + p
         /\ \A j \in 1 .. p - 1 : Text[Edge(off, k) + j] = <<k + 1, j>>
    BY <1>1, <1>8, <1>9, FirstNewline
  <1> DEFINE l == Lines[k + 1].len
  <1>11. l \in Nat
    BY <1>1, <1>10, LinesTyped
  <1>12. \A j \in 1 .. l : Text[Reach(scan) + j] = <<k + 1, j>>
    <2>1. p - 1 = l
      BY <1>10, <1>11
    <2>2. QED
      BY <1>8, <1>10, <2>1
  <1>13. p = l + 1
    BY <1>10
  <1> HIDE DEF l
  <1>14. /\ (scan.start + p) - 1 = scan.start + l /\ scan.start + p \in scan.start .. scan.end
         /\ scan.start < scan.end /\ scan.start + l <= scan.end /\ l < MaxToken
    <2>1. scan.start + (l + 1) <= scan.end
      BY <1>4, <1>5, <1>6, <1>11, <1>13
    <2>2. l + 1 <= MaxToken
      BY <1>5, <1>11, <2>1, BufferAssumption
    <2>3. MaxToken \in Nat /\ p \in Nat
      BY <1>11, <1>13, BufferAssumption
    <2>4. (scan.start + p) - 1 = scan.start + l /\ scan.start + p \in scan.start .. scan.end
      BY <1>5, <1>11, <1>13, <2>1, <2>3
    <2>5. scan.start < scan.end /\ scan.start + l <= scan.end /\ l < MaxToken
      BY <1>5, <1>11, <2>1, <2>2, <2>3
    <2>6. QED
      BY <2>4, <2>5
  <1>15. (scan.pos - scan.end) + (scan.start + p) = Edge(off, k + 1)
    <2>1. Edge(off, k + 1) = Reach(scan) + p
      BY <1>8, <1>10
    <2>2. Reach(scan) = (scan.pos - scan.end) + scan.start
      BY DEF Reach
    <2>3. QED
      BY <1>5, <1>9, <2>1, <2>2
  <1>16. QED
    BY <1>1, <1>2, <1>7, <1>10, <1>12, <1>14, <1>15, LineFits DEF l

LEMMA LastLineFits ==
  ASSUME ScanInv, LastLine
  PROVE ScanInv'
  <1> DEFINE w == Len(Window)
  <1>1. /\ content \in Contents /\ Formed(scan, Text) /\ pc = "scan" /\ scan.eof
        /\ ~HasLine /\ Window # <<>> /\ ListLine(scan.end, scan.end)
    BY DEF ScanInv, LastLine
  <1>2. Text \in Seq(Byte) /\ Len(Text) \in Nat /\ Count \in Nat
    BY <1>1, TextTyped, LinesTyped
  <1>3. /\ Window \in Seq(Byte) /\ w = scan.end - scan.start /\ w \in Nat
        /\ Reach(scan) + w = scan.pos /\ Reach(scan) \in Nat
        /\ \A i \in 1 .. w : Window[i] = Text[Reach(scan) + i]
        /\ Window = <<>> <=> scan.start = scan.end
    BY <1>1, <1>2, WindowRead
  <1>4. /\ scan.start \in Nat /\ scan.end \in Nat /\ scan.pos = Len(Text)
        /\ scan.end < Len(Last(scan.bufs)) /\ scan.start <= scan.end
        /\ Len(Last(scan.bufs)) \in Nat /\ Len(Last(scan.bufs)) <= MaxToken
    BY <1>1, BufTyped, BufferAssumption DEF Formed
  <1>5. \A i \in 1 .. w : Window[i] # NL
    BY <1>1, <1>3, InToSet DEF HasLine
  <1> HIDE DEF w
  <1>6. w \in Nat \ {0} /\ scan.start < scan.end /\ scan.start + w = scan.end
    BY <1>1, <1>3, <1>4
  <1>7. PICK off, k : Progress(off, k)
    BY DEF ScanInv
  <1>8. Laid(off) /\ k \in 0 .. Count /\ Reach(scan) = Edge(off, k)
    BY <1>7 DEF Progress
  <1>9. Edge(off, k) + w = Len(Text) /\ \A j \in 1 .. w : Text[Edge(off, k) + j] # NL
    BY <1>3, <1>4, <1>5, <1>8
  <1>10. /\ k + 1 = Count /\ w = Lines[k + 1].len
         /\ \A j \in 1 .. w : Text[Edge(off, k) + j] = <<k + 1, j>>
    BY <1>1, <1>6, <1>8, <1>9, RestIsLine
  <1>11. k + 1 \in 1 .. Count /\ w < MaxToken /\ scan.end \in scan.start .. scan.end
    <2>1. k + 1 \in 1 .. Count
      BY <1>2, <1>8, <1>10
    <2>2. MaxToken \in Nat /\ w \in Nat /\ w <= scan.end
      BY <1>4, <1>6, BufferAssumption
    <2>3. w < MaxToken /\ scan.end \in scan.start .. scan.end
      BY <1>4, <2>2
    <2>4. QED
      BY <2>1, <2>3
  <1>12. (scan.pos - scan.end) + scan.end = Edge(off, k + 1)
    BY <1>2, <1>4, <1>10 DEF Edge
  <1>13. \A j \in 1 .. w : Text[Reach(scan) + j] = <<k + 1, j>>
    BY <1>8, <1>10
  <1>14. scan.start + w <= scan.end
    BY <1>4, <1>6
  <1>15. QED
    BY <1>1, <1>6, <1>7, <1>10, <1>11, <1>12, <1>13, <1>14, LineFits

LEMMA ReturnsFits ==
  ASSUME ScanInv, ListReturns
  PROVE ScanInv'
  <1>1. /\ content \in Contents /\ Formed(scan, Text) /\ pc = "scan"
        /\ TooLong \/ (scan.eof /\ Window = <<>>)
        /\ pc' = "done" /\ UNCHANGED <<content, scan, list, drive>>
    BY DEF ScanInv, ListReturns
  <1>2. Text \in Seq(Byte) /\ Len(Text) \in Nat /\ Count \in Nat
    BY <1>1, TextTyped, LinesTyped
  <1>3. /\ Window \in Seq(Byte) /\ Len(Window) = scan.end - scan.start /\ Len(Window) \in Nat
        /\ Reach(scan) + Len(Window) = scan.pos /\ Reach(scan) \in Nat
        /\ Window = <<>> <=> scan.start = scan.end
    BY <1>1, <1>2, WindowRead
  <1>13. \A i \in 1 .. Len(Window) : Window[i] = Text[Reach(scan) + i]
    BY <1>1, <1>2, WindowRead
  <1>4. /\ scan.start \in Nat /\ scan.end \in Nat /\ scan.pos \in Nat
        /\ scan.pos <= Len(Text)
        /\ scan.eof => scan.pos = Len(Text)
    BY <1>1, BufTyped DEF Formed
  <1>5. PICK off, k : Progress(off, k)
    BY DEF ScanInv
  <1>6. Laid(off) /\ k \in 0 .. Count /\ Reach(scan) = Edge(off, k)
    BY <1>5 DEF Progress
  <1>7. StopsHere(k)
    <2>1. CASE TooLong
      <3>1. ~HasLine /\ scan.start = 0 /\ scan.end = MaxToken
        BY <2>1 DEF TooLong
      <3>2. Len(Window) = MaxToken /\ MaxToken \in Nat \ {0}
        BY <1>3, <1>4, <3>1, BufferAssumption
      <3>3. Edge(off, k) + MaxToken <= Len(Text)
        BY <1>3, <1>4, <1>6, <3>2
      <3>4. \A j \in 1 .. MaxToken : Window[j] # NL
        BY <1>3, <3>1, <3>2, InToSet DEF HasLine
      <3>5. \A j \in 1 .. MaxToken : Text[Edge(off, k) + j] # NL
        BY <1>6, <1>13, <3>2, <3>4
      <3>6. /\ k = Count => MaxToken = 0
            /\ k # Count => k + 1 \in 1 .. Count /\ MaxToken <= Lines[k + 1].len
        BY <1>1, <1>6, <3>2, <3>3, <3>5, NoNewline
      <3>7. k + 1 \in 1 .. Count /\ MaxToken <= Lines[k + 1].len
        BY <3>2, <3>6
      <3>8. QED
        BY <3>7 DEF StopsHere
    <2>2. CASE scan.eof /\ Window = <<>>
      <3>1. Edge(off, k) = Len(Text)
        BY <1>2, <1>3, <1>4, <1>6, <2>2
      <3>2. QED
        BY <1>1, <1>6, <3>1, NothingLeft DEF StopsHere
    <2>3. QED
      BY <1>1, <2>1, <2>2
  <1>8. /\ Text' = Text /\ Lines' = Lines /\ Count' = Count /\ Entry' = Entry
        /\ HeldInPlace' = HeldInPlace
        /\ \A x : Laid(x)' = Laid(x)
        /\ \A x, y : Edge(x, y)' = Edge(x, y)
        /\ \A x : KeptOf(x)' = KeptOf(x) /\ StopsHere(x)' = StopsHere(x)
        /\ \A x : parseKey(x)' = parseKey(x)
    BY <1>1, SameText
  <1>9. Progress(off, k)'
    <2>1. Reach(scan)' = Reach(scan)
      BY <1>1 DEF Reach
    <2>2. QED
      BY <1>1, <1>5, <1>7, <1>8, <2>1 DEF Progress
  <1>10. HeldInPlace => Held' /\ ValuesHold'
    <2>1. Held' = Held /\ ValuesHold' = ValuesHold
      BY <1>1, <1>8 DEF Held, ValuesHold, Buf, Value
    <2>2. QED
      BY <2>1 DEF ScanInv
  <1>11. DriveFits'
    <2>1. drive = NoDrive
      BY <1>1 DEF ScanInv, DriveFits
    <2>2. QED
      BY <1>1, <2>1 DEF DriveFits, NoDrive
  <1>12. QED
    BY <1>1, <1>8, <1>9, <1>10, <1>11 DEF ScanInv

LEMMA FreshNext == Opened' => ScanInv'
  BY FreshFits, PTL

LEMMA AgainFits ==
  ASSUME ScanInv, ListAgain
  PROVE ScanInv'
  <1>1. Opened'
    BY DEF ScanInv, ListAgain, Opened, NewScanner, NoDrive
  <1>2. QED
    BY <1>1, FreshNext

LEMMA CreateFits ==
  ASSUME ScanInv, NEW format \in {"nocloud", "openstack"}, NEW fps \in Forms, CreateVm(format, fps)
  PROVE ScanInv'
  <1>1. /\ content \in Contents /\ pc = "done" /\ UNCHANGED <<content, scan, list, pc>>
        /\ \A i \in DOMAIN fps : Listed(fps[i])
        /\ drive' = [format |-> format, chosen |-> fps, values |-> PublicKeys(format, fps)]
    BY DEF ScanInv, CreateVm
  <1>2. /\ Text' = Text /\ Lines' = Lines /\ Count' = Count /\ Entry' = Entry
        /\ HeldInPlace' = HeldInPlace
        /\ \A x : Laid(x)' = Laid(x)
        /\ \A x, y : Edge(x, y)' = Edge(x, y)
        /\ \A x : KeptOf(x)' = KeptOf(x) /\ StopsHere(x)' = StopsHere(x)
        /\ \A x : parseKey(x)' = parseKey(x)
    BY <1>1, SameText
  <1>3. \A x, y : Progress(x, y)' = Progress(x, y)
    BY <1>1, <1>2 DEF Progress, Reach
  <1>4. Held' = Held /\ ValuesHold' = ValuesHold
    BY <1>1, <1>2 DEF Held, ValuesHold, Buf, Value
  <1>5. (\A i \in DOMAIN fps : Listed(fps[i]))' /\ PublicKeys(format, fps)' = PublicKeys(format, fps)
    <2>1. \A fp : Listed(fp)' = Listed(fp)
      BY <1>1 DEF Listed
    <2>2. \A x : Value(x)' = Value(x)
      BY <1>1 DEF Value
    <2>3. \A fp : Get(fp)' = Get(fp)
      BY <1>1 DEF Get, SelectInSeq
    <2>4. \A fp : Comment(fp)' = Comment(fp)
      BY <2>3 DEF Comment
    <2>5. PublicKeys(format, fps)' = PublicKeys(format, fps)
      BY <2>2, <2>3, <2>4 DEF PublicKeys
    <2>6. QED
      BY <1>1, <2>1, <2>5
  <1>6. DriveFits'
    <2>1. drive' = [format |-> format, chosen |-> fps, values |-> PublicKeys(format, fps)']
      BY <1>1, <1>5
    <2>2. pc' = "done"
      BY <1>1
    <2>3. QED
      BY <1>5, <2>1, <2>2 DEF DriveFits
  <1>7. Formed(scan, Text)' = Formed(scan, Text)
    BY <1>1, <1>2 DEF Formed
  <1>8. QED
    BY <1>1, <1>2, <1>3, <1>4, <1>6, <1>7 DEF ScanInv

LEMMA ScanInvStep == ScanInv /\ [ScanNext]_scanVars => ScanInv'
  <1>1. ASSUME ScanInv, UNCHANGED scanVars PROVE ScanInv'
    <2>1. /\ content' = content /\ scan' = scan /\ list' = list /\ pc' = pc /\ drive' = drive
      BY <1>1 DEF scanVars
    <2>2. /\ Text' = Text /\ Lines' = Lines /\ Count' = Count /\ Entry' = Entry
          /\ HeldInPlace' = HeldInPlace
          /\ \A x : Laid(x)' = Laid(x)
          /\ \A x, y : Edge(x, y)' = Edge(x, y)
          /\ \A x : KeptOf(x)' = KeptOf(x) /\ StopsHere(x)' = StopsHere(x)
          /\ \A x : parseKey(x)' = parseKey(x)
      BY <2>1, SameText
    <2>3. \A x, y : Progress(x, y)' = Progress(x, y)
      BY <2>1, <2>2 DEF Progress, Reach
    <2>4. Held' = Held /\ ValuesHold' = ValuesHold
      BY <2>1, <2>2 DEF Held, ValuesHold, Buf, Value
    <2>5. DriveFits' = DriveFits
      BY <2>1 DEF DriveFits, Listed, PublicKeys, Value, Get, Comment, SelectInSeq
    <2>6. Formed(scan, Text)' = Formed(scan, Text)
      BY <2>1, <2>2 DEF Formed
    <2>7. QED
      BY <1>1, <2>1, <2>2, <2>3, <2>4, <2>5, <2>6 DEF ScanInv
  <1>2. QED
    BY <1>1, RefillFits, NextLineFits, LastLineFits, ReturnsFits, AgainFits, CreateFits
       DEF ScanNext

-----------------------------------------------------------------------------
(* What the invariant says of the property                                 *)

LEMMA InvListSound == ScanInv => ListSound
  <1> SUFFICES ASSUME ScanInv PROVE ListSound
    OBVIOUS
  <1>1. content \in Contents /\ list \in Seq(Entry)
    BY DEF ScanInv
  <1>2. Len(list) \in Nat /\ DOMAIN list = 1 .. Len(list)
    BY <1>1, LenProperties
  <1>3. PICK off, k : Progress(off, k)
    BY DEF ScanInv
  <1>4. ASSUME pc = "done"
        PROVE [i \in DOMAIN list |-> list[i].parsed]
                = [i \in DOMAIN KeyLines |-> [key |-> KeyLines[i].key,
                                              comment |-> KeyLines[i].comment]]
    <2>1. k \in 0 .. Count /\ \A i \in 1 .. k : Lines[i].len < MaxToken
      BY <1>3 DEF Progress
    <2>2. StopsHere(k)
      BY <1>3, <1>4 DEF Progress
    <2>3. KeyLines = KeptOf(k)
      BY <1>1, <2>1, <2>2, StopsAt DEF StopsHere
    <2>4. KeptOf(k) \in Seq(ToSet(Lines))
      BY <1>1, <2>1, KeptTyped
    <2>5. DOMAIN KeyLines = DOMAIN list
      BY <1>2, <1>3, <2>3, <2>4, LenProperties DEF Progress
    <2>6. \A i \in DOMAIN list : list[i].parsed = [key |-> KeyLines[i].key,
                                                   comment |-> KeyLines[i].comment]
      BY <1>2, <1>3, <2>3 DEF Progress, Named
    <2>7. QED
      BY <2>5, <2>6
  <1>5. HeldInPlace => \A i \in DOMAIN list : parseKey(Value(list[i])) = list[i].parsed
    BY <1>2 DEF ScanInv, ValuesHold
  <1>6. QED
    BY <1>4, <1>5 DEF ListSound

\* A key that is listed is found.
LEMMA GetFinds ==
  ASSUME list \in Seq(Entry), NEW fp, Listed(fp)
  PROVE \E m \in 1 .. Len(list) : Get(fp) = list[m] /\ list[m].parsed.key = fp
  <1> DEFINE I == {i \in 1 .. Len(list) : list[i].parsed.key = fp}
  <1>1. DOMAIN list = 1 .. Len(list) /\ Len(list) \in Nat
    BY LenProperties
  <1>2. I # {} /\ I \in SUBSET Nat
    BY <1>1 DEF Listed
  <1>3. PICK n \in I : \A i \in I : n <= i
    BY <1>2, LeastNumber
  <1>4. Min(I) \in I
    BY <1>3 DEF Min
  <1>5. Get(fp) = list[Min(I)]
    BY <1>2 DEF Get, SelectInSeq
  <1>6. QED
    BY <1>4, <1>5

LEMMA InvReach == ScanInv => KeysReachGuest
  <1> SUFFICES ASSUME ScanInv, drive # NoDrive, HeldInPlace,
                      ~(drive.format = "openstack" /\ SharedComment(drive.chosen))
               PROVE ConfigKeys = ToSet(drive.chosen)
    BY DEF KeysReachGuest
  <1>1. PICK format \in {"nocloud", "openstack"}, fps \in Forms :
          /\ \A i \in DOMAIN fps : Listed(fps[i])
          /\ drive = [format |-> format, chosen |-> fps, values |-> PublicKeys(format, fps)]
    BY DEF ScanInv, DriveFits
  <1>2. /\ drive.format = format /\ drive.chosen = fps /\ drive.values = PublicKeys(format, fps)
        /\ list \in Seq(Entry)
    BY <1>1 DEF ScanInv
  <1>3. PICK n : /\ n \in 1 .. Cardinality(Fingerprints) /\ fps \in [1 .. n -> Fingerprints]
    BY DEF Forms
  <1>4. n \in Int /\ 1 <= n
    BY <1>3
  <1>5. DOMAIN fps = 1 .. n /\ Len(fps) = n
    BY <1>3, <1>4
  <1>6. ASSUME NEW i \in DOMAIN fps
        PROVE Value(Get(fps[i])) \in drive.values /\ parseKey(Value(Get(fps[i]))).key = fps[i]
              /\ fps[i] # NoKey
    <2>1. PICK m \in 1 .. Len(list) : Get(fps[i]) = list[m] /\ list[m].parsed.key = fps[i]
      BY <1>1, <1>2, GetFinds
    <2>2. parseKey(Value(list[m])) = list[m].parsed
      BY DEF ScanInv, ValuesHold
    <2>3. ASSUME format = "openstack", NEW j \in i + 1 .. Len(fps)
          PROVE Comment(fps[j]) # Comment(fps[i])
      <3>1. j \in DOMAIN fps /\ i # j
        BY <1>4, <1>5
      <3>2. ~SharedComment(fps)
        BY <1>2, <2>3
      <3>3. QED
        BY <3>1, <3>2 DEF SharedComment
    <2>4. Value(Get(fps[i])) \in PublicKeys(format, fps)
      BY <2>3 DEF PublicKeys
    <2>5. fps[i] \in Fingerprints
      BY <1>3, <1>5
    <2>6. QED
      BY <1>2, <2>1, <2>2, <2>4, <2>5, FingerprintsAssumption
  <1>7. \A v \in drive.values : \E i \in DOMAIN fps : v = Value(Get(fps[i]))
    BY <1>2 DEF PublicKeys
  <1>8. ASSUME NEW x PROVE x \in ConfigKeys <=> \E i \in DOMAIN fps : fps[i] = x
    <2>1. x \in ConfigKeys <=> x # NoKey /\ \E v \in drive.values : x = parseKey(v).key
      BY DEF ConfigKeys
    <2>2. QED
      BY <1>6, <1>7, <2>1
  <1>9. ToSet(drive.chosen) = {fps[i] : i \in DOMAIN fps}
    BY <1>2 DEF ToSet
  <1>10. QED
    BY <1>8, <1>9

\* What every state of List and of the configdrive satisfies.
THEOREM ScanInvariance == ScanSpec => []ScanInv
  <1>1. ScanInit => ScanInv
    BY FreshFits DEF ScanInit, Opened
  <1>2. QED
    BY <1>1, ScanInvStep, PTL DEF ScanSpec

\* KeysDelivered: List returns the keys of the file in their order, whatever its
\* scanner's buffer does; their values are their lines if nothing is moved in it,
\* and then the guest gets the keys its form named, but for two with one comment
\* (KeyRepository.List, generateConfigDrive).
THEOREM KeysDeliveredHolds == ScanSpec => []KeysDelivered
  <1>1. ScanInv => KeysDelivered
    BY InvListSound, InvReach DEF KeysDelivered
  <1>2. QED
    BY <1>1, ScanInvariance, PTL
=============================================================================
