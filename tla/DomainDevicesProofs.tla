------------------------ MODULE DomainDevicesProofs ------------------------
(***************************************************************************)
(* Proofs about DomainDevices, for any paths, buses, MACs and requests.    *)
(* The inductive invariant says what every configuration and every copy    *)
(* that a request holds is like: letters go up, ids come in pairs, and     *)
(* what was acknowledged is there; and that only the owner of the          *)
(* connection holds a copy, so that no definition overwrites another.      *)
(***************************************************************************)
EXTENDS DomainDevices, SubsequencesProofs, FiniteSetTheorems

(***************************************************************************)
(* Configurations                                                          *)
(***************************************************************************)

Configs == [disks : Seq(Disks), ifaces : Seq(Macs), args : Seq(Args)]

\* The letters of a bus go up in the order of its disks.
Ordered(disks) == \A i, j \in DOMAIN disks :
                     i < j /\ disks[i].bus = disks[j].bus => disks[i].letter < disks[j].letter

\* An id names at most one netdev and one device, and never only one of them.
OnceEach(args) == \A i, j \in DOMAIN args :
                     (/\ args[i].id # NoId /\ args[i].id = args[j].id
                      /\ args[i].opt = args[j].opt) => i = j

BothKinds(args) == \A a \in ToSet(args), opt \in {"-netdev", "-device"} :
                      a.id # NoId => \E b \in ToSet(args) : b.id = a.id /\ b.opt = opt

\* A MAC is on a device that has an id.
MacsNumbered(args) == \A a \in ToSet(args) :
                         a.mac # NoMac => a.id # NoId /\ a.opt = "-device"

ArgsSound(args) == OnceEach(args) /\ BothKinds(args) /\ MacsNumbered(args)

ConfigSound(c) == c \in Configs /\ Ordered(c.disks) /\ ArgsSound(c.args)

Carries(args, m) == \E a \in ToSet(args) : a.opt = "-device" /\ a.mac = m

\* The device x is in c.
Has(c, x) == \/ x \in ShownPaths(c)
             \/ x \in ToSet(c.ifaces)
             \/ x \in Macs /\ Carries(c.args, x)

\* c has what somebody relies on: the devices of ack, unless a detach without
\* a MAC excuses their loss, and what an operator added.
Kept(c, ack, excuses) ==
    /\ "nameless" \notin excuses => \A x \in ack : Has(c, x)
    /\ excuses = {} => OperatorDevice \in ToSet(c.args)

LEMMA KeptLess ==
  ASSUME NEW c, NEW ack, NEW excuses, Kept(c, ack, excuses),
         NEW ack2 \in SUBSET ack, NEW excuses2, excuses \subseteq excuses2
  PROVE Kept(c, ack2, excuses2)
  BY DEF Kept

-----------------------------------------------------------------------------
(* Disks                                                                   *)

LEMMA KeepOrdered ==
  ASSUME NEW s \in Seq(Disks), Ordered(s), NEW S
  PROVE Ordered(Keep(s, S))
  <1> DEFINE t == Keep(s, S)
  <1>1. t \in Seq(Disks)
    BY KeepPlaces
  <1>2. PICK f : Places(f, t, s, Len(s), S)
    BY KeepPlaces
  <1> HIDE DEF t
  <1>3. DOMAIN t = 1 .. Len(t) /\ DOMAIN s = 1 .. Len(s)
    BY <1>1, LenProperties
  <1>4. /\ \A i \in 1 .. Len(t) : f[i] \in 1 .. Len(s) /\ t[i] = s[f[i]]
        /\ \A i, j \in 1 .. Len(t) : i < j => f[i] < f[j]
    BY <1>2 DEF Places
  <1>5. ASSUME NEW i \in 1 .. Len(t), NEW j \in 1 .. Len(t), i < j, t[i].bus = t[j].bus
        PROVE t[i].letter < t[j].letter
    BY <1>3, <1>4, <1>5 DEF Ordered
  <1>6. Ordered(t)
    BY <1>3, <1>5 DEF Ordered
  <1>7. QED
    BY <1>6 DEF t

\* The namer's letter comes after every letter of the bus.
LEMMA NextLetterAbove ==
  ASSUME NEW s \in Seq(Disks), Ordered(s), NEW b
  PROVE \A d \in ToSet(s) : d.bus = b => d.letter < NextLetter(s, b)
  <1> DEFINE S == {d \in ToSet(s) : d.bus = b}
             t == Keep(s, S)
  <1>1. t \in Seq(Disks) /\ ToSet(t) = ToSet(s) \cap S
    BY KeepPlaces, ToSetKeep
  <1>2. PICK f : Places(f, t, s, Len(s), S)
    BY KeepPlaces
  <1>3. NextLetter(s, b) = IF t = <<>> THEN 1 ELSE Last(t).letter + 1
    BY DEF NextLetter
  <1>4. \A d \in ToSet(s) : d \in S <=> d.bus = b
    OBVIOUS
  <1> HIDE DEF t, S
  <1>5. SUFFICES ASSUME NEW d \in ToSet(s), d.bus = b
                 PROVE d.letter < NextLetter(s, b)
    OBVIOUS
  <1>6. t # <<>>
    BY <1>1, <1>4, <1>5, ToSetEmpty
  <1>7. Len(t) \in Nat \ {0} /\ DOMAIN s = 1 .. Len(s)
    BY <1>1, <1>6, EmptySeq, LenProperties
  <1>8. PICK i \in 1 .. Len(s) : s[i] = d
    BY InToSet
  <1>9. /\ \A k \in 1 .. Len(t) : f[k] \in 1 .. Len(s) /\ t[k] = s[f[k]]
        /\ \A k, l \in 1 .. Len(t) : k < l => f[k] < f[l]
        /\ s[i] \in S => \E k \in 1 .. Len(t) : f[k] = i
    BY <1>2 DEF Places
  <1>10. PICK k \in 1 .. Len(t) : f[k] = i
    BY <1>4, <1>5, <1>8, <1>9
  <1> DEFINE l == f[Len(t)]
  <1>11. l \in 1 .. Len(s) /\ Last(t) = s[l] /\ (i = l \/ i < l)
    BY <1>7, <1>9, <1>10 DEF Last
  <1>12. s[l].bus = b
    <2>1. t[Len(t)] \in ToSet(t) /\ t[Len(t)] = s[l]
      BY <1>1, <1>7, <1>9, InToSet
    <2>2. QED
      BY <1>1, <1>4, <2>1
  <1> HIDE DEF l
  <1>13. s[i] \in Disks /\ s[l] \in Disks
    BY <1>11, ElementOfSeq
  <1>14. s[i].letter \in Int /\ s[l].letter \in Int
    BY <1>13 DEF Disks
  <1>15. i < l => s[i].letter < s[l].letter
    BY <1>5, <1>7, <1>8, <1>11, <1>12 DEF Ordered
  <1>16. d.letter <= Last(t).letter
    BY <1>8, <1>11, <1>14, <1>15
  <1>17. QED
    BY <1>3, <1>6, <1>8, <1>11, <1>14, <1>16

LEMMA NextLetterNumber ==
  ASSUME NEW s \in Seq(Disks), NEW b
  PROVE NextLetter(s, b) \in Nat \ {0}
  <1> DEFINE t == Keep(s, {d \in ToSet(s) : d.bus = b})
  <1>1. t \in Seq(Disks) /\ NextLetter(s, b) = IF t = <<>> THEN 1 ELSE Last(t).letter + 1
    BY KeepPlaces DEF NextLetter
  <1> HIDE DEF t
  <1>2. ASSUME t # <<>> PROVE Last(t).letter + 1 \in Nat \ {0}
    <2>1. Last(t) \in Disks
      BY <1>1, <1>2, EmptySeq, ElementOfSeq DEF Last
    <2>2. Last(t).letter \in 1 .. LastLetter
      BY <2>1 DEF Disks
    <2>3. QED
      BY <2>2
  <1>3. QED
    BY <1>1, <1>2

LEMMA AppendOrdered ==
  ASSUME NEW s \in Seq(Disks), Ordered(s), NEW d \in Disks,
         \A e \in ToSet(s) : e.bus = d.bus => e.letter < d.letter
  PROVE Ordered(Append(s, d))
  <1> DEFINE t == Append(s, d)
  <1>1. /\ t \in Seq(Disks) /\ Len(t) = Len(s) + 1 /\ Len(s) \in Nat
        /\ \A i \in 1 .. Len(s) : t[i] = s[i]
        /\ t[Len(s) + 1] = d
    BY AppendProperties
  <1> HIDE DEF t
  <1>2. DOMAIN t = 1 .. Len(s) + 1 /\ DOMAIN s = 1 .. Len(s)
    BY <1>1, LenProperties
  <1>3. ASSUME NEW i \in DOMAIN t, NEW j \in DOMAIN t, i < j, t[i].bus = t[j].bus
        PROVE t[i].letter < t[j].letter
    <2>1. i \in 1 .. Len(s) /\ t[i] = s[i] /\ s[i] \in ToSet(s)
      BY <1>1, <1>2, <1>3, InToSet
    <2>2. CASE j = Len(s) + 1
      BY <1>1, <1>3, <2>1, <2>2
    <2>3. CASE j \in 1 .. Len(s)
      BY <1>1, <1>2, <1>3, <2>1, <2>3 DEF Ordered
    <2>4. QED
      BY <1>1, <1>2, <2>2, <2>3
  <1>4. QED
    BY <1>3 DEF Ordered, t

-----------------------------------------------------------------------------
(* QEMU arguments                                                          *)

LEMMA ConcatArgs ==
  ASSUME NEW s \in Seq(Args), NEW t \in Seq(Args), ArgsSound(s), ArgsSound(t),
         \A a \in ToSet(s), b \in ToSet(t) : a.id = b.id => a.id = NoId
  PROVE s \o t \in Seq(Args) /\ ArgsSound(s \o t)
  <1> DEFINE u == s \o t
  <1>1. /\ u \in Seq(Args) /\ Len(u) = Len(s) + Len(t) /\ Len(s) \in Nat /\ Len(t) \in Nat
        /\ \A i \in 1 .. Len(s) + Len(t) : u[i] = IF i <= Len(s) THEN s[i] ELSE t[i - Len(s)]
    BY ConcatProperties
  <1>2. ToSet(u) = ToSet(s) \cup ToSet(t)
    BY ToSetConcat
  <1> HIDE DEF u
  <1>3. /\ DOMAIN u = 1 .. Len(s) + Len(t)
        /\ DOMAIN s = 1 .. Len(s) /\ DOMAIN t = 1 .. Len(t)
    BY <1>1, LenProperties
  <1>4. \A i \in DOMAIN u : \/ i \in 1 .. Len(s) /\ u[i] = s[i] /\ s[i] \in ToSet(s)
                            \/ /\ i - Len(s) \in 1 .. Len(t) /\ u[i] = t[i - Len(s)]
                               /\ t[i - Len(s)] \in ToSet(t)
    <2>1. \A i \in 1 .. Len(s) : s[i] \in ToSet(s)
      BY InToSet
    <2>2. \A i \in 1 .. Len(t) : t[i] \in ToSet(t)
      BY InToSet
    <2>3. \A i \in DOMAIN u : \/ i \in 1 .. Len(s) /\ u[i] = s[i]
                              \/ i - Len(s) \in 1 .. Len(t) /\ u[i] = t[i - Len(s)]
      BY <1>1, <1>3
    <2>4. QED
      BY <2>1, <2>2, <2>3
  <1>5. OnceEach(u)
    <2>1. SUFFICES ASSUME NEW i \in DOMAIN u, NEW j \in DOMAIN u, u[i].id # NoId,
                          u[i].id = u[j].id, u[i].opt = u[j].opt
                   PROVE i = j
      BY DEF OnceEach
    <2>2. CASE i \in 1 .. Len(s) /\ u[i] = s[i] /\ j \in 1 .. Len(s) /\ u[j] = s[j]
      BY <1>3, <2>1, <2>2 DEF ArgsSound, OnceEach
    <2>3. CASE /\ i - Len(s) \in 1 .. Len(t) /\ u[i] = t[i - Len(s)]
               /\ j - Len(s) \in 1 .. Len(t) /\ u[j] = t[j - Len(s)]
      <3>1. i - Len(s) = j - Len(s)
        BY <1>3, <2>1, <2>3 DEF ArgsSound, OnceEach
      <3>2. QED
        BY <1>1, <1>3, <3>1
    <2>4. ~ (u[i] \in ToSet(s) /\ u[j] \in ToSet(t)) /\ ~ (u[j] \in ToSet(s) /\ u[i] \in ToSet(t))
      BY <2>1
    <2>5. QED
      BY <1>4, <2>2, <2>3, <2>4
  <1>6. BothKinds(u)
    BY <1>2 DEF ArgsSound, BothKinds
  <1>7. MacsNumbered(u)
    BY <1>2 DEF ArgsSound, MacsNumbered
  <1>8. QED
    BY <1>1, <1>5, <1>6, <1>7 DEF ArgsSound, u

\* A netdev with its device is sound by itself.
LEMMA PairSound ==
  ASSUME NEW n \in Int, n # NoId, NEW m \in Macs \cup {NoMac}
  PROVE LET p == <<Netdev(n), Device(n, m)>>
        IN  /\ p \in Seq(Args) /\ ArgsSound(p)
            /\ ToSet(p) = {Netdev(n), Device(n, m)}
  <1> DEFINE p == <<Netdev(n), Device(n, m)>>
  <1>1. Netdev(n) \in Args /\ Device(n, m) \in Args
    BY DEF Netdev, Device, Args
  <1>2. /\ p \in Seq(Args) /\ DOMAIN p = {1, 2}
        /\ p[1] = Netdev(n) /\ p[2] = Device(n, m)
    BY <1>1
  <1> HIDE DEF p
  <1>3. ToSet(p) = {Netdev(n), Device(n, m)}
    BY <1>2 DEF ToSet
  <1>4. OnceEach(p)
    BY <1>2 DEF OnceEach, Netdev, Device
  <1>5. BothKinds(p)
    BY <1>3 DEF BothKinds, Netdev, Device
  <1>6. MacsNumbered(p)
    BY <1>3 DEF MacsNumbered, Netdev, Device
  <1>7. QED
    BY <1>2, <1>3, <1>4, <1>5, <1>6 DEF ArgsSound, p

LEMMA OperatorSound ==
  LET p == <<OperatorDevice>>
  IN  p \in Seq(Args) /\ ArgsSound(p) /\ ToSet(p) = {OperatorDevice}
  <1> DEFINE p == <<OperatorDevice>>
  <1>1. OperatorDevice \in Args
    BY DEF OperatorDevice, Device, Args, NoId
  <1>2. p \in Seq(Args) /\ DOMAIN p = {1} /\ p[1] = OperatorDevice
    BY <1>1
  <1> HIDE DEF p
  <1>3. ToSet(p) = {OperatorDevice}
    BY <1>2 DEF ToSet
  <1>4. OnceEach(p)
    BY <1>2 DEF OnceEach
  <1>5. BothKinds(p) /\ MacsNumbered(p)
    BY <1>3 DEF BothKinds, MacsNumbered, OperatorDevice, Device
  <1>6. QED
    BY <1>2, <1>3, <1>4, <1>5 DEF ArgsSound, p

\* What is left after all arguments of one id went.
LEMMA KeepArgs ==
  ASSUME NEW s \in Seq(Args), ArgsSound(s), NEW n
  PROVE LET t == Keep(s, {a \in ToSet(s) : a.id # n})
        IN  /\ t \in Seq(Args) /\ ArgsSound(t)
            /\ ToSet(t) = {a \in ToSet(s) : a.id # n}
  <1> DEFINE S == {a \in ToSet(s) : a.id # n}
             t == Keep(s, S)
  <1>1. t \in Seq(Args) /\ ToSet(t) = S
    BY KeepPlaces, ToSetKeep
  <1>2. PICK f : Places(f, t, s, Len(s), S)
    BY KeepPlaces
  <1> HIDE DEF t
  <1>3. DOMAIN t = 1 .. Len(t) /\ DOMAIN s = 1 .. Len(s) /\ Len(t) \in Nat
    BY <1>1, LenProperties
  <1>4. /\ \A i \in 1 .. Len(t) : f[i] \in 1 .. Len(s) /\ t[i] = s[f[i]]
        /\ \A i, j \in 1 .. Len(t) : i < j => f[i] < f[j]
    BY <1>2 DEF Places
  <1>5. OnceEach(t)
    <2>1. SUFFICES ASSUME NEW i \in 1 .. Len(t), NEW j \in 1 .. Len(t), t[i].id # NoId,
                          t[i].id = t[j].id, t[i].opt = t[j].opt
                   PROVE i = j
      BY <1>3 DEF OnceEach
    <2>2. f[i] = f[j]
      BY <1>3, <1>4, <2>1 DEF ArgsSound, OnceEach
    <2>3. ~ (i < j) /\ ~ (j < i)
      BY <1>4, <2>2
    <2>4. QED
      BY <1>3, <2>3
  <1>6. BothKinds(t)
    BY <1>1 DEF ArgsSound, BothKinds
  <1>7. MacsNumbered(t)
    BY <1>1 DEF ArgsSound, MacsNumbered
  <1>8. QED
    BY <1>1, <1>5, <1>6, <1>7 DEF ArgsSound, t

\* The next number is above every id.
LEMMA NextNumberFresh ==
  ASSUME NEW s \in Seq(Args), ArgsSound(s)
  PROVE /\ NextNumber(s) \in Int \ {NoId}
        /\ \A a \in ToSet(s) : a.id # NextNumber(s)
  <1> DEFINE S == {0} \cup {a.id : a \in {b \in ToSet(s) : b.opt = "-netdev"}}
             ids == [i \in 1 .. Len(s) |-> s[i].id]
  <1>1. Len(s) \in Nat /\ \A i \in 1 .. Len(s) : s[i] \in Args
    BY LenProperties, ElementOfSeq
  <1>2. ids \in [1 .. Len(s) -> Int]
    BY <1>1 DEF Args
  <1>3. PICK b \in Int : \A i \in 1 .. Len(s) : ids[i] <= b
    BY <1>1, <1>2, ListBounded
  <1>4. \A a \in ToSet(s) : a.id \in Int /\ a.id <= b
    <2>1. ASSUME NEW a \in ToSet(s) PROVE a.id \in Int /\ a.id <= b
      <3>1. PICK i \in 1 .. Len(s) : s[i] = a
        BY InToSet
      <3>2. ids[i] = a.id
        BY <3>1
      <3>3. QED
        BY <1>2, <1>3, <3>2
    <2>2. QED
      BY <2>1
  <1> HIDE DEF ids
  <1>5. PICK c \in Int : 0 <= c /\ b <= c
    BY <1>3
  <1>6. S \in SUBSET Int /\ S # {} /\ \A x \in S : x <= c
    BY <1>4, <1>5
  <1>7. Max(S) \in S /\ \A x \in S : x <= Max(S)
    BY <1>6, LargestNumber
  <1>8. PICK m \in S : m = Max(S)
    BY <1>7
  <1>9. NextNumber(s) = m + 1 /\ \A x \in S : x <= m
    BY <1>7, <1>8 DEF NextNumber
  <1>10. 0 \in S /\ \A a \in ToSet(s) : a.opt = "-netdev" => a.id \in S
    OBVIOUS
  <1> HIDE DEF S
  <1>11. m \in Int /\ 0 <= m
    BY <1>6, <1>9, <1>10
  <1>12. NextNumber(s) \in Int /\ NextNumber(s) > 0
    BY <1>9, <1>11
  <1>13. ASSUME NEW a \in ToSet(s), a.id = NextNumber(s) PROVE FALSE
    <2>1. PICK e \in ToSet(s) : e.id = a.id /\ e.opt = "-netdev"
      BY <1>12, <1>13 DEF ArgsSound, BothKinds, NoId
    <2>2. a.id <= m
      BY <1>9, <1>10, <2>1
    <2>3. QED
      BY <1>9, <1>11, <1>13, <2>2
  <1>14. QED
    BY <1>12, <1>13 DEF NoId

\* The MAC of an id is that of its only device.
LEMMA LastMacIs ==
  ASSUME NEW s \in Seq(Args), ArgsSound(s), NEW a \in ToSet(s), a.opt = "-device", a.id # NoId
  PROVE a.id \in NicIds(s) /\ LastMac(s, a.id) = a.mac
  <1>1. a.id \in NicIds(s)
    BY DEF NicIds
  <1>2. PICK i \in 1 .. Len(s) : s[i] = a
    BY InToSet
  <1>3. DOMAIN s = 1 .. Len(s) /\ Len(s) \in Nat
    BY LenProperties
  <1> DEFINE devices == {j \in DOMAIN s : s[j].opt = "-device" /\ s[j].id = a.id}
  <1>4. devices = {i}
    <2>1. i \in devices
      BY <1>2, <1>3
    <2>2. \A j \in devices : j = i
      BY <1>2, <1>3 DEF ArgsSound, OnceEach
    <2>3. QED
      BY <2>1, <2>2
  <1>5. LastMac(s, a.id) = IF devices = {} THEN NoMac ELSE s[Max(devices)].mac
    BY DEF LastMac
  <1> HIDE DEF devices
  <1>6. Max(devices) = i
    <2>1. devices \in SUBSET Int /\ devices # {} /\ i \in Int /\ \A x \in devices : x <= i
      BY <1>3, <1>4
    <2>2. Max(devices) \in devices
      BY <2>1, LargestNumber
    <2>3. QED
      BY <1>4, <2>2
  <1>7. QED
    BY <1>1, <1>2, <1>4, <1>5, <1>6

\* A page shows the MAC of a device.
LEMMA DeviceShown ==
  ASSUME NEW s \in Seq(Args), ArgsSound(s), NEW m, m # NoMac, Carries(s, m)
  PROVE m \in {LastMac(s, n) : n \in NicIds(s)}
  <1>1. PICK a \in ToSet(s) : a.opt = "-device" /\ a.mac = m
    BY DEF Carries
  <1>2. a.id # NoId
    BY <1>1 DEF ArgsSound, MacsNumbered
  <1>3. a.id \in NicIds(s) /\ LastMac(s, a.id) = m
    BY <1>1, <1>2, LastMacIs
  <1>4. QED
    BY <1>3

\* The device of an id.
LEMMA DeviceOf ==
  ASSUME NEW s \in Seq(Args), ArgsSound(s), NEW n \in NicIds(s)
  PROVE n # NoId /\ \E a \in ToSet(s) : a.opt = "-device" /\ a.id = n /\ a.mac = LastMac(s, n)
  <1>1. PICK b \in ToSet(s) : b.id = n /\ n # NoId
    BY DEF NicIds
  <1>2. PICK a \in ToSet(s) : a.id = n /\ a.opt = "-device"
    BY <1>1 DEF ArgsSound, BothKinds
  <1>3. QED
    BY <1>1, <1>2, LastMacIs

\* The ids whose device has the MAC m.
IdsOf(s, m) == {n \in NicIds(s) : LastMac(s, n) = m}

\* Without the arguments of an id the others show the MACs they did.
LEMMA IdRemoved ==
  ASSUME NEW s \in Seq(Args), ArgsSound(s), NEW n, NEW m
  PROVE IdsOf(Keep(s, {a \in ToSet(s) : a.id # n}), m) = IdsOf(s, m) \ {n}
  <1> DEFINE t == Keep(s, {a \in ToSet(s) : a.id # n})
  <1>1. t \in Seq(Args) /\ ArgsSound(t) /\ ToSet(t) = {a \in ToSet(s) : a.id # n}
    BY KeepArgs
  <1> HIDE DEF t
  <1>2. ASSUME NEW k \in NicIds(s), k # n
        PROVE k \in NicIds(t) /\ LastMac(t, k) = LastMac(s, k)
    <2>1. PICK a \in ToSet(s) : a.opt = "-device" /\ a.id = k /\ a.mac = LastMac(s, k)
      BY DeviceOf
    <2>2. a \in ToSet(t) /\ a.id # NoId
      BY <1>1, <1>2, <2>1, DeviceOf
    <2>3. QED
      BY <1>1, <2>1, <2>2, LastMacIs
  <1>3. ASSUME NEW k \in NicIds(t) PROVE k \in NicIds(s) /\ k # n
    BY <1>1, <1>3 DEF NicIds
  <1>4. IdsOf(t, m) = IdsOf(s, m) \ {n}
    BY <1>2, <1>3 DEF IdsOf
  <1>5. QED
    BY <1>4 DEF t

\* The needle is the id of a device with the MAC, if there is one.
LEMMA NeedleFound ==
  ASSUME NEW s \in Seq(Args), NEW m, m # NoMac
  PROVE \/ Carriers(s, m) = {} /\ ~ Carries(s, m) /\ Needle(s, m) = NoId
        \/ /\ Carriers(s, m) # {} /\ Carries(s, m)
           /\ \E a \in ToSet(s) : a.opt = "-device" /\ a.mac = m /\ Needle(s, m) = a.id
  <1> DEFINE C == Carriers(s, m)
  <1>1. DOMAIN s = 1 .. Len(s) /\ Len(s) \in Nat
    BY LenProperties
  <1>2. C = {i \in 1 .. Len(s) : s[i].opt = "-device" /\ s[i].mac = m}
    BY <1>1 DEF Carriers
  <1>3. Needle(s, m) = IF C = {} THEN NoId ELSE s[Max(C)].id
    BY DEF Needle
  <1> HIDE DEF C
  <1>4. \A x : x \in ToSet(s) <=> \E i \in 1 .. Len(s) : s[i] = x
    BY InToSet
  <1>5. CASE C = {}
    <2>1. ~ Carries(s, m)
      BY <1>2, <1>4, <1>5 DEF Carries
    <2>2. QED
      BY <1>3, <1>5, <2>1 DEF C
  <1>6. CASE C # {}
    <2>1. C \in SUBSET Int /\ Len(s) \in Int /\ \A x \in C : x <= Len(s)
      BY <1>1, <1>2
    <2>2. Max(C) \in C
      BY <1>6, <2>1, LargestNumber
    <2>3. PICK i \in C : i = Max(C)
      BY <2>2
    <2>4. s[i] \in ToSet(s) /\ s[i].opt = "-device" /\ s[i].mac = m
      BY <1>2, <1>4
    <2>5. Needle(s, m) = s[i].id
      BY <1>3, <1>6, <2>3
    <2>6. QED
      BY <1>6, <2>4, <2>5 DEF Carries, C
  <1>7. QED
    BY <1>5, <1>6

-----------------------------------------------------------------------------
(* Changes of a configuration                                              *)

\* c2 has what c has, and new.
Gains(c, c2, new) == /\ \A x : Has(c, x) => Has(c2, x)
                     /\ \A x \in new : Has(c2, x)
                     /\ OperatorDevice \in ToSet(c.args) => OperatorDevice \in ToSet(c2.args)

LEMMA GainsKept ==
  ASSUME NEW c, NEW c2, NEW new, Gains(c, c2, new), NEW ack, NEW excuses,
         Kept(c, ack, excuses), NEW ack2 \in SUBSET (ack \cup new)
  PROVE Kept(c2, ack2, excuses)
  BY DEF Kept, Gains

LEMMA DiskAdded ==
  ASSUME NEW c, ConfigSound(c), NEW d \in Disks,
         \A e \in ToSet(c.disks) : e.bus = d.bus => e.letter < d.letter
  PROVE LET c2 == [c EXCEPT !.disks = Append(@, d)]
        IN  ConfigSound(c2) /\ Gains(c, c2, {d.path})
  <1> DEFINE c2 == [c EXCEPT !.disks = Append(@, d)]
  <1>1. c \in Configs /\ c.disks \in Seq(Disks) /\ Ordered(c.disks) /\ ArgsSound(c.args)
    BY DEF ConfigSound, Configs
  <1>2. PICK s \in Seq(Disks) : s = c.disks
    BY <1>1
  <1>3. Append(s, d) \in Seq(Disks) /\ ToSet(Append(s, d)) = ToSet(s) \cup {d}
    BY AppendProperties, ToSetAppend
  <1>4. Ordered(Append(s, d))
    BY <1>1, <1>2, AppendOrdered
  <1>5. /\ c2 \in Configs /\ c2.disks = Append(s, d)
        /\ c2.ifaces = c.ifaces /\ c2.args = c.args
    BY <1>1, <1>2, <1>3 DEF Configs
  <1> HIDE DEF c2
  <1>6. ShownPaths(c2) = ShownPaths(c) \cup {d.path}
    BY <1>2, <1>3, <1>5 DEF ShownPaths
  <1>7. ConfigSound(c2)
    BY <1>1, <1>4, <1>5 DEF ConfigSound
  <1>8. Gains(c, c2, {d.path})
    BY <1>5, <1>6 DEF Gains, Has
  <1>9. QED
    BY <1>7, <1>8 DEF c2

LEMMA DiskRemoved ==
  ASSUME NEW c, ConfigSound(c), NEW p
  PROVE LET c2 == [c EXCEPT !.disks = Keep(@, {d \in ToSet(@) : d.path # p})]
        IN  /\ ConfigSound(c2) /\ c2.args = c.args
            /\ \A x : Has(c, x) /\ x # p => Has(c2, x)
  <1> DEFINE c2 == [c EXCEPT !.disks = Keep(@, {d \in ToSet(@) : d.path # p})]
  <1>1. c \in Configs /\ c.disks \in Seq(Disks) /\ Ordered(c.disks) /\ ArgsSound(c.args)
    BY DEF ConfigSound, Configs
  <1>2. PICK s \in Seq(Disks) : s = c.disks
    BY <1>1
  <1> DEFINE S == {d \in ToSet(s) : d.path # p}
  <1>3. Keep(s, S) \in Seq(Disks) /\ ToSet(Keep(s, S)) = ToSet(s) \cap S
    BY KeepPlaces, ToSetKeep
  <1>4. Ordered(Keep(s, S))
    BY <1>1, <1>2, KeepOrdered
  <1>5. /\ c2 \in Configs /\ c2.disks = Keep(s, S)
        /\ c2.ifaces = c.ifaces /\ c2.args = c.args
    BY <1>1, <1>2, <1>3 DEF Configs
  <1> HIDE DEF c2
  <1>6. \A x \in ShownPaths(c) : x # p => x \in ShownPaths(c2)
    BY <1>2, <1>3, <1>5 DEF ShownPaths
  <1>7. ConfigSound(c2)
    BY <1>1, <1>4, <1>5 DEF ConfigSound
  <1>8. \A x : Has(c, x) /\ x # p => Has(c2, x)
    BY <1>5, <1>6 DEF Has
  <1>9. QED
    BY <1>5, <1>7, <1>8 DEF c2

LEMMA IfaceAdded ==
  ASSUME NEW c, ConfigSound(c), NEW m \in Macs
  PROVE LET c2 == [c EXCEPT !.ifaces = Append(@, m)]
        IN  ConfigSound(c2) /\ Gains(c, c2, {m})
  <1> DEFINE c2 == [c EXCEPT !.ifaces = Append(@, m)]
  <1>1. c \in Configs /\ c.ifaces \in Seq(Macs) /\ Ordered(c.disks) /\ ArgsSound(c.args)
    BY DEF ConfigSound, Configs
  <1>2. PICK s \in Seq(Macs) : s = c.ifaces
    BY <1>1
  <1>3. Append(s, m) \in Seq(Macs) /\ ToSet(Append(s, m)) = ToSet(s) \cup {m}
    BY AppendProperties, ToSetAppend
  <1>4. /\ c2 \in Configs /\ c2.disks = c.disks
        /\ c2.ifaces = Append(s, m) /\ c2.args = c.args
    BY <1>1, <1>2, <1>3 DEF Configs
  <1> HIDE DEF c2
  <1>5. ConfigSound(c2)
    BY <1>1, <1>4 DEF ConfigSound
  <1>6. Gains(c, c2, {m})
    BY <1>2, <1>3, <1>4 DEF Gains, Has, ShownPaths
  <1>7. QED
    BY <1>5, <1>6 DEF c2

LEMMA IfaceRemoved ==
  ASSUME NEW c, ConfigSound(c), NEW m
  PROVE LET c2 == [c EXCEPT !.ifaces = Keep(@, Macs \ {m})]
        IN  /\ ConfigSound(c2) /\ c2.args = c.args
            /\ \A x : Has(c, x) /\ x # m => Has(c2, x)
  <1> DEFINE c2 == [c EXCEPT !.ifaces = Keep(@, Macs \ {m})]
  <1>1. c \in Configs /\ c.ifaces \in Seq(Macs) /\ Ordered(c.disks) /\ ArgsSound(c.args)
    BY DEF ConfigSound, Configs
  <1>2. PICK s \in Seq(Macs) : s = c.ifaces
    BY <1>1
  <1> DEFINE t == Keep(s, Macs \ {m})
  <1>3. t \in Seq(Macs) /\ ToSet(t) = ToSet(s) \cap (Macs \ {m}) /\ ToSet(s) \subseteq Macs
    BY KeepPlaces, ToSetKeep, ToSetTyped
  <1>4. c2 \in Configs /\ c2.disks = c.disks /\ c2.ifaces = t /\ c2.args = c.args
    BY <1>1, <1>2, <1>3 DEF Configs
  <1> HIDE DEF c2, t
  <1>5. ConfigSound(c2)
    BY <1>1, <1>4 DEF ConfigSound
  <1>6. \A x : Has(c, x) /\ x # m => Has(c2, x)
    BY <1>2, <1>3, <1>4 DEF Has, ShownPaths
  <1>7. QED
    BY <1>4, <1>5, <1>6 DEF c2

\* Other arguments in the place of c's.
LEMMA NewArgs ==
  ASSUME NEW c, ConfigSound(c), NEW t \in Seq(Args), ArgsSound(t)
  PROVE LET c2 == [c EXCEPT !.args = t]
        IN  /\ ConfigSound(c2) /\ c2.args = t
            /\ c2.ifaces = c.ifaces /\ ShownPaths(c2) = ShownPaths(c)
  <1> DEFINE c2 == [c EXCEPT !.args = t]
  <1>1. c \in Configs /\ Ordered(c.disks)
    BY DEF ConfigSound
  <1>2. /\ c2 \in Configs /\ c2.disks = c.disks
        /\ c2.ifaces = c.ifaces /\ c2.args = t
    BY <1>1 DEF Configs
  <1> HIDE DEF c2
  <1>3. QED
    BY <1>1, <1>2 DEF ConfigSound, ShownPaths, c2

LEMMA PairAppended ==
  ASSUME NEW c, ConfigSound(c), NEW m \in Macs, NEW n, n = NextNumber(c.args)
  PROVE LET c2 == [c EXCEPT !.args = @ \o <<Netdev(n), Device(n, m)>>]
        IN  ConfigSound(c2) /\ Gains(c, c2, {m})
  <1> DEFINE p == <<Netdev(n), Device(n, m)>>
  <1>1. c \in Configs /\ c.args \in Seq(Args) /\ ArgsSound(c.args)
    BY DEF ConfigSound, Configs
  <1>2. PICK s \in Seq(Args) : s = c.args
    BY <1>1
  <1>3. ArgsSound(s) /\ n \in Int /\ n # NoId /\ \A a \in ToSet(s) : a.id # n
    BY <1>1, <1>2, NextNumberFresh
  <1>4. p \in Seq(Args) /\ ArgsSound(p) /\ ToSet(p) = {Netdev(n), Device(n, m)}
    BY <1>3, PairSound
  <1> HIDE DEF p
  <1>5. \A a \in ToSet(p) : a.id = n
    BY <1>4 DEF Netdev, Device
  <1>6. s \o p \in Seq(Args) /\ ArgsSound(s \o p) /\ ToSet(s \o p) = ToSet(s) \cup ToSet(p)
    BY <1>3, <1>4, <1>5, ConcatArgs, ToSetConcat
  <1> DEFINE c2 == [c EXCEPT !.args = s \o p]
  <1>7. /\ ConfigSound(c2) /\ c2.args = s \o p
        /\ c2.ifaces = c.ifaces /\ ShownPaths(c2) = ShownPaths(c)
    BY <1>6, NewArgs
  <1>8. c2 = [c EXCEPT !.args = @ \o p]
    BY <1>2
  <1> HIDE DEF c2
  <1>9. Carries(s \o p, m)
    <2>1. /\ Device(n, m) \in ToSet(s \o p)
          /\ Device(n, m).opt = "-device" /\ Device(n, m).mac = m
      BY <1>4, <1>6 DEF Device
    <2>2. QED
      BY <2>1 DEF Carries
  <1>10. \A x : Carries(s, x) => Carries(s \o p, x)
    BY <1>6 DEF Carries
  <1>11. Gains(c, c2, {m})
    BY <1>2, <1>6, <1>7, <1>9, <1>10 DEF Gains, Has
  <1>12. QED
    BY <1>7, <1>8, <1>11 DEF p

\* What an operator adds comes first.
LEMMA ArgsPrepended ==
  ASSUME NEW c, ConfigSound(c), NEW t \in Seq(Args), ArgsSound(t),
         \A a \in ToSet(t), b \in ToSet(c.args) : a.id = b.id => a.id = NoId
  PROVE LET c2 == [c EXCEPT !.args = t \o @]
        IN  ConfigSound(c2) /\ Gains(c, c2, {})
  <1>1. c \in Configs /\ c.args \in Seq(Args) /\ ArgsSound(c.args)
    BY DEF ConfigSound, Configs
  <1>2. PICK s \in Seq(Args) : s = c.args
    BY <1>1
  <1>3. t \o s \in Seq(Args) /\ ArgsSound(t \o s) /\ ToSet(t \o s) = ToSet(t) \cup ToSet(s)
    BY <1>1, <1>2, ConcatArgs, ToSetConcat
  <1> DEFINE c2 == [c EXCEPT !.args = t \o s]
  <1>4. /\ ConfigSound(c2) /\ c2.args = t \o s
        /\ c2.ifaces = c.ifaces /\ ShownPaths(c2) = ShownPaths(c)
    BY <1>3, NewArgs
  <1>5. c2 = [c EXCEPT !.args = t \o @]
    BY <1>2
  <1> HIDE DEF c2
  <1>6. \A x : Carries(s, x) => Carries(t \o s, x)
    BY <1>3 DEF Carries
  <1>7. Gains(c, c2, {})
    BY <1>2, <1>3, <1>4, <1>6 DEF Gains, Has
  <1>8. QED
    BY <1>4, <1>5, <1>7

\* DetachInterface removes the pair of one device with the MAC, and nothing
\* that an id of another MAC names.
LEMMA NeedleRemoved ==
  ASSUME NEW c, ConfigSound(c), NEW m
  PROVE LET c2 == [c EXCEPT !.args = WithoutNeedle(c.args, m)]
        IN  /\ ConfigSound(c2)
            /\ m # NoMac => \A x : Has(c, x) /\ x # m => Has(c2, x)
            /\ m # NoMac /\ Carriers(c.args, m) # {} /\ OperatorDevice \in ToSet(c.args)
                  => OperatorDevice \in ToSet(c2.args)
  <1>1. c \in Configs /\ c.args \in Seq(Args) /\ ArgsSound(c.args)
    BY DEF ConfigSound, Configs
  <1>2. PICK s \in Seq(Args) : s = c.args
    BY <1>1
  <1> DEFINE n == Needle(s, m)
             t == WithoutNeedle(s, m)
             c2 == [c EXCEPT !.args = t]
  <1>3. t \in Seq(Args) /\ ArgsSound(t) /\ ToSet(t) = {a \in ToSet(s) : a.id # n}
    BY <1>1, <1>2, KeepArgs DEF WithoutNeedle
  <1>4. /\ ConfigSound(c2) /\ c2.args = t
        /\ c2.ifaces = c.ifaces /\ ShownPaths(c2) = ShownPaths(c)
    BY <1>3, NewArgs
  <1> HIDE DEF c2, t, n
  <1>5. ASSUME m # NoMac, NEW x \in Macs, x # m, Carries(s, x) PROVE Carries(t, x)
    <2>1. PICK a \in ToSet(s) : a.opt = "-device" /\ a.mac = x
      BY <1>5 DEF Carries
    <2>2. x # NoMac /\ a.id # NoId
      BY <1>1, <1>2, <2>1, MacAssumption DEF ArgsSound, MacsNumbered
    <2>3. a.id # n
      <3>1. CASE n = NoId
        BY <2>2, <3>1
      <3>2. CASE \E b \in ToSet(s) : b.opt = "-device" /\ b.mac = m /\ n = b.id
        <4>1. PICK b \in ToSet(s) : b.opt = "-device" /\ b.mac = m /\ n = b.id
          BY <3>2
        <4>2. PICK i \in 1 .. Len(s), j \in 1 .. Len(s) : s[i] = a /\ s[j] = b
          BY InToSet
        <4>3. DOMAIN s = 1 .. Len(s)
          BY LenProperties
        <4>4. a.id = b.id => i = j
          BY <1>1, <1>2, <2>1, <2>2, <4>1, <4>2, <4>3 DEF ArgsSound, OnceEach
        <4>5. QED
          BY <1>5, <2>1, <4>1, <4>2, <4>4
      <3>3. QED
        BY <1>5, <3>1, <3>2, NeedleFound DEF n
    <2>4. QED
      BY <1>3, <2>1, <2>3 DEF Carries
  <1>6. ASSUME m # NoMac, Carriers(s, m) # {} PROVE n # NoId
    <2>1. PICK a \in ToSet(s) : a.opt = "-device" /\ a.mac = m /\ n = a.id
      BY <1>6, NeedleFound DEF n
    <2>2. QED
      BY <1>1, <1>2, <1>6, <2>1 DEF ArgsSound, MacsNumbered
  <1>7. OperatorDevice.id = NoId
    BY DEF OperatorDevice, Device
  <1>8. m # NoMac => \A x : Has(c, x) /\ x # m => Has(c2, x)
    BY <1>2, <1>4, <1>5 DEF Has
  <1>9. m # NoMac /\ Carriers(c.args, m) # {} /\ OperatorDevice \in ToSet(c.args)
                  => OperatorDevice \in ToSet(c2.args)
    BY <1>2, <1>3, <1>4, <1>6, <1>7
  <1>10. QED
    BY <1>2, <1>4, <1>8, <1>9 DEF c2, t

(***************************************************************************)
(* The invariant                                                           *)
(***************************************************************************)

Pcs == {"idle", "ask", "define", "askagain", "defineargs", "answer"}
Holding == {"define", "defineargs"}

JobStates == [pc : Pcs, call : Calls \cup {NONE}, copy : Configs \cup {NONE},
              outcome : Outcomes \cup {NONE}, failed : BOOLEAN]

\* A request that is at work knows its call; one that holds the connection
\* has a copy; one that has not answered has no outcome.
JobOK(r) ==
    /\ jobs[r].pc # "idle" => Call(r) \in Calls
    /\ jobs[r].pc \in {"askagain", "defineargs"} => Call(r).op = "detachNic"
    /\ jobs[r].pc \in Holding => jobs[r].copy \in Configs
    /\ jobs[r].pc # "answer" => jobs[r].outcome = NONE

JobsTyped == jobs \in [Requests -> JobStates] /\ \A r \in Requests : JobOK(r)

Typed == /\ JobsTyped
         /\ running \in BOOLEAN
         /\ owner \in Requests \cup {NONE}
         /\ ops \in 0 .. MaxOps
         /\ acked \subseteq Paths \cup Macs
         /\ mishaps \subseteq Mishaps

\* The connection is with the request that has a copy, and there is only one.
OneHolder == \A r \in Requests : jobs[r].pc \in Holding <=> owner = r

\* A copy is what the hypervisor has, unless an operator edited that since.
CopiesSound == \A r \in Requests : jobs[r].pc \in Holding =>
                  /\ ConfigSound(jobs[r].copy) /\ Kept(jobs[r].copy, acked, mishaps)
                  /\ "overwritten" \notin mishaps => jobs[r].copy = config

\* A device whose detach is under way is not counted as attached.
AtWork(r) == jobs[r].pc \notin {"idle", "answer"}

NotAcked == \A r \in Requests, x \in acked : AtWork(r) => ~ Detaches(r, x)

HypervisorSound == ConfigSound(config) /\ Kept(config, acked, mishaps)

IInv == Typed /\ OneHolder /\ CopiesSound /\ NotAcked /\ HypervisorSound

LEMMA ConfigsOK ==
  ASSUME NEW c \in Configs
  PROVE ConfigOK(c)
  BY DEF Configs, ConfigOK

LEMMA IInvType == IInv => TypeOK
  <1>1. SUFFICES ASSUME IInv PROVE TypeOK
    OBVIOUS
  <1>2. ConfigOK(config)
    BY <1>1, ConfigsOK DEF IInv, HypervisorSound, ConfigSound
  <1>3. ASSUME NEW r \in Requests
        PROVE /\ jobs[r].pc \in {"idle", "ask", "define", "askagain", "defineargs", "answer"}
              /\ jobs[r].call \in Calls \cup {NONE}
              /\ jobs[r].copy = NONE \/ ConfigOK(jobs[r].copy)
              /\ jobs[r].outcome \in Outcomes \cup {NONE}
              /\ jobs[r].failed \in BOOLEAN
    <2>1. jobs[r] \in JobStates
      BY <1>1 DEF IInv, Typed, JobsTyped
    <2>2. QED
      BY <2>1, ConfigsOK DEF JobStates, Pcs
  <1>4. QED
    BY <1>1, <1>2, <1>3 DEF IInv, Typed, TypeOK

\* NetdevsPaired, of any arguments.
PairedIn(s) ==
    \A n \in NicIds(s) : \A opt \in {"-netdev", "-device"} :
       Cardinality({i \in DOMAIN s : s[i].opt = opt /\ s[i].id = n}) = 1

LEMMA IInvSound == IInv => DevicesSound
  <1>1. SUFFICES ASSUME IInv PROVE DevicesSound
    OBVIOUS
  <1>2. /\ config \in Configs /\ ArgsSound(config.args) /\ config.args \in Seq(Args)
        /\ Kept(config, acked, mishaps)
    BY <1>1 DEF IInv, HypervisorSound, ConfigSound, Configs
  <1>3. NamerNeverCollides
    <2>1. SUFFICES ASSUME NEW r \in Requests, Holds(r, "attachDisk"),
                          NewDisk(r).letter \in Letters(jobs[r].copy.disks, Call(r).bus)
                   PROVE FALSE
      BY DEF NamerNeverCollides
    <2>2. jobs[r].copy \in Configs /\ Ordered(jobs[r].copy.disks)
      BY <1>1, <2>1 DEF IInv, CopiesSound, Holding, Holds, ConfigSound
    <2>3. PICK s \in Seq(Disks) : s = jobs[r].copy.disks
      BY <2>2 DEF Configs
    <2>4. PICK b : b = Call(r).bus
      OBVIOUS
    <2>5. PICK d \in ToSet(s) : d.bus = b /\ d.letter = NextLetter(s, b)
      BY <2>1, <2>3, <2>4 DEF Letters, NewDisk
    <2>6. d.letter < d.letter
      BY <2>2, <2>3, <2>5, NextLetterAbove
    <2>7. ToSet(s) \subseteq Disks
      BY ToSetTyped
    <2>8. d.letter \in 1 .. LastLetter
      BY <2>7 DEF Disks
    <2>9. d.letter \in Int
      BY <2>8
    <2>10. QED
      BY <2>6, <2>9
  <1>4. AckedStay
    <2>1. SUFFICES ASSUME "nameless" \notin mishaps, NEW x \in acked
                   PROVE x \in ShownPaths(config) \cup ShownMacs(config)
      BY DEF AckedStay
    <2>2. Has(config, x)
      BY <1>2, <2>1 DEF Kept
    <2>3. x \in Macs /\ Carries(config.args, x)
            => x \in {LastMac(config.args, n) : n \in NicIds(config.args)}
      <3>1. PICK s \in Seq(Args) : s = config.args
        BY <1>2
      <3>2. ArgsSound(s)
        BY <1>2, <3>1
      <3>3. x \in Macs /\ Carries(s, x) => x \in {LastMac(s, n) : n \in NicIds(s)}
        BY <3>2, DeviceShown, MacAssumption
      <3>4. QED
        BY <3>1, <3>3
    <2>4. QED
      BY <2>2, <2>3 DEF Has, ShownMacs
  <1>5. NetdevsPaired
    <2>1. PICK s \in Seq(Args) : s = config.args
      BY <1>2
    <2>2. ASSUME NEW n \in NicIds(s), NEW opt \in {"-netdev", "-device"}
          PROVE Cardinality({i \in DOMAIN s : s[i].opt = opt /\ s[i].id = n}) = 1
      <3>1. PICK a \in ToSet(s) : a.id = n /\ a.id # NoId
        BY DEF NicIds
      <3>2. PICK b \in ToSet(s) : b.id = n /\ b.opt = opt
        BY <1>2, <2>1, <3>1 DEF ArgsSound, BothKinds
      <3>3. PICK i \in 1 .. Len(s) : s[i] = b
        BY InToSet
      <3>4. DOMAIN s = 1 .. Len(s)
        BY LenProperties
      <3> DEFINE S == {j \in DOMAIN s : s[j].opt = opt /\ s[j].id = n}
      <3>5. i \in S
        BY <3>2, <3>3, <3>4
      <3>6. \A j \in S : j = i
        BY <1>2, <2>1, <3>1, <3>2, <3>3, <3>4 DEF ArgsSound, OnceEach
      <3>7. S = {i}
        BY <3>5, <3>6
      <3> HIDE DEF S
      <3>8. Cardinality(S) = 1
        BY <3>7, FS_Singleton
      <3>9. QED
        BY <3>8 DEF S
    <2>3. PairedIn(s)
      BY <2>2, Zenon DEF PairedIn
    <2>4. PairedIn(config.args)
      BY <2>1, <2>3
    <2>5. QED
      BY <2>4, Zenon DEF NetdevsPaired, PairedIn
  <1>6. OperatorDeviceKept
    BY <1>2 DEF OperatorDeviceKept, Kept
  <1>7. QED
    BY <1>3, <1>4, <1>5, <1>6 DEF DevicesSound

LEMMA InitInv == Init => IInv
  <1>1. SUFFICES ASSUME Init PROVE IInv
    OBVIOUS
  <1>2. PICK p \in Paths, b \in Buses :
               config = [disks |-> <<[path |-> p, bus |-> b, letter |-> 1]>>,
                         ifaces |-> <<>>,
                         args |-> <<OperatorDevice>>]
    BY <1>1 DEF Init
  <1> DEFINE d == [path |-> p, bus |-> b, letter |-> 1]
  <1>3. d \in Disks
    BY LetterAssumption DEF Disks
  <1> HIDE DEF d
  <1>4. <<d>> \in Seq(Disks) /\ <<>> \in Seq(Macs) /\ Ordered(<<d>>)
    <2>1. <<d>> \in Seq(Disks) /\ DOMAIN <<d>> = {1}
      BY <1>3
    <2>2. Ordered(<<d>>)
      BY <2>1 DEF Ordered
    <2>3. QED
      BY <2>1, <2>2, EmptySeq
  <1> DEFINE q == <<OperatorDevice>>
  <1>5. q \in Seq(Args) /\ ArgsSound(q) /\ ToSet(q) = {OperatorDevice}
    BY OperatorSound
  <1> HIDE DEF q
  <1>6. config = [disks |-> <<d>>, ifaces |-> <<>>, args |-> q]
    BY <1>2 DEF d, q
  <1>7. ConfigSound(config)
    BY <1>4, <1>5, <1>6 DEF ConfigSound, Configs
  <1>8. Kept(config, acked, mishaps)
    BY <1>1, <1>5, <1>6 DEF Init, Kept
  <1>9. jobs = [r \in Requests |-> Idle] /\ Idle \in JobStates
    BY <1>1 DEF Init, Idle, JobStates, Pcs
  <1>10. JobsTyped
    BY <1>9 DEF JobsTyped, JobOK, Idle, Holding
  <1>11. Typed
    <2>1. ops \in 0 .. MaxOps
      BY <1>1, OpsAssumption DEF Init
    <2>2. QED
      BY <1>1, <1>10, <2>1 DEF Init, Typed
  <1>12. OneHolder /\ CopiesSound /\ NotAcked
    BY <1>1, <1>9, NoneAssumption DEF Init, OneHolder, CopiesSound, NotAcked, AtWork, Idle, Holding
  <1>13. QED
    BY <1>7, <1>8, <1>11, <1>12 DEF IInv, HypervisorSound

-----------------------------------------------------------------------------
(* What a step does to the job of its request                              *)

\* The job of r is at l with this copy and outcome, the others stay.
Becomes(r, l, c, copy, outcome) ==
    /\ jobs' \in [Requests -> JobStates]
    /\ jobs'[r].pc = l /\ jobs'[r].call = c
    /\ jobs'[r].copy = copy /\ jobs'[r].outcome = outcome
    /\ \A q \in Requests \ {r} : jobs'[q] = jobs[q]

LEMMA BecomesTyped ==
  ASSUME JobsTyped, NEW r \in Requests, NEW l, NEW c, NEW copy, NEW outcome,
         Becomes(r, l, c, copy, outcome),
         l # "idle" => c \in Calls,
         l \in {"askagain", "defineargs"} => c.op = "detachNic",
         l \in Holding => copy \in Configs,
         l # "answer" => outcome = NONE
  PROVE JobsTyped'
  <1>1. jobs' \in [Requests -> JobStates]
    BY DEF Becomes
  <1>2. ASSUME NEW q \in Requests PROVE JobOK(q)'
    <2>1. CASE q = r
      BY <2>1 DEF Becomes, JobOK, Call
    <2>2. CASE q # r
      <3>1. jobs'[q] = jobs[q] /\ JobOK(q)
        BY <2>2 DEF Becomes, JobsTyped
      <3>2. QED
        BY <3>1 DEF JobOK, Call
    <2>3. QED
      BY <2>1, <2>2
  <1>3. QED
    BY <1>1, <1>2 DEF JobsTyped

LEMMA JobParts ==
  ASSUME JobsTyped, NEW r \in Requests
  PROVE /\ jobs \in [Requests -> JobStates] /\ jobs[r] \in JobStates /\ JobOK(r)
        /\ jobs[r].pc \in Pcs
        /\ AtWork(r) => Call(r) \in Calls /\ jobs[r].outcome = NONE
  BY DEF JobsTyped, JobOK, JobStates, AtWork, Pcs

\* The request is over with the answer o, be it that of an error.
Answers(r, o) == Answer(r, o) \/ (Fails(r) /\ o = ErrorOf(r))

LEMMA AnswerJob ==
  ASSUME JobsTyped, NEW r \in Requests, AtWork(r), NEW o \in Outcomes, Answers(r, o)
  PROVE Becomes(r, "answer", Call(r), NONE, o) /\ JobsTyped'
  <1>1. jobs \in [Requests -> JobStates] /\ Call(r) \in Calls
    BY JobParts
  <1>2. Becomes(r, "answer", Call(r), NONE, o)
    BY <1>1 DEF Answers, Answer, Fails, Becomes, JobStates, Pcs, Call
  <1>3. QED
    BY <1>1, <1>2, BecomesTyped DEF Holding

-----------------------------------------------------------------------------
(* The other parts of the invariant, after steps of each kind              *)

\* A detach that is under way concerns nothing that is acknowledged after r
\* did its work.
LEMMA NotAckedAfter ==
  ASSUME JobsTyped, NotAcked, NEW r \in Requests, AtWork(r), NEW l, NEW copy, NEW o,
         Becomes(r, l, Call(r), copy, o),
         acked' = acked \/ (l = "answer" /\ \E x : acked' = Acked(x))
  PROVE NotAcked'
  <1>1. SUFFICES ASSUME NEW q \in Requests, NEW x \in acked', AtWork(q)', Detaches(q, x)'
                 PROVE FALSE
    BY DEF NotAcked
  <1>2. AtWork(q) /\ Detaches(q, x)
    <2>1. CASE q = r
      BY <1>1, <2>1 DEF Becomes, AtWork, Detaches, Call
    <2>2. CASE q # r
      <3>1. jobs'[q] = jobs[q]
        BY <2>2 DEF Becomes
      <3>2. QED
        BY <1>1, <3>1 DEF AtWork, Detaches, Call
    <2>3. QED
      BY <2>1, <2>2
  <1>3. x \notin acked
    BY <1>2 DEF NotAcked
  <1>4. PICK y : acked' = Acked(y)
    BY <1>1, <1>3
  <1>5. acked' = acked \cup {y} /\ x = y
    BY <1>1, <1>3, <1>4 DEF Acked
  <1>6. acked' = acked
    BY <1>2, <1>4, <1>5 DEF Acked, AtWork
  <1>7. QED
    BY <1>1, <1>3, <1>6

\* The owner gives the connection back.
LEMMA Released ==
  ASSUME JobsTyped, OneHolder, NEW r \in Requests, jobs[r].pc \in Holding, owner' = NONE,
         NEW l, l \notin Holding, NEW c, NEW copy, NEW o, Becomes(r, l, c, copy, o)
  PROVE OneHolder' /\ CopiesSound'
  <1>1. ASSUME NEW q \in Requests PROVE jobs'[q].pc \notin Holding
    <2>1. CASE q = r
      BY <2>1 DEF Becomes
    <2>2. CASE q # r
      BY <2>2 DEF Becomes, OneHolder
    <2>3. QED
      BY <2>1, <2>2
  <1>2. QED
    BY <1>1, NoneAssumption DEF OneHolder, CopiesSound

\* A request that does not hold the connection moves on without it.
LEMMA NotReleased ==
  ASSUME OneHolder, CopiesSound, NEW r \in Requests, jobs[r].pc \notin Holding, owner' = owner,
         NEW l, l \notin Holding, NEW c, NEW copy, NEW o, Becomes(r, l, c, copy, o),
         acked' \subseteq acked, mishaps' = mishaps, config' = config
  PROVE OneHolder' /\ CopiesSound'
  <1>1. ASSUME NEW q \in Requests
        PROVE /\ jobs'[q].pc \in Holding <=> jobs[q].pc \in Holding
              /\ jobs'[q].pc \in Holding => jobs'[q] = jobs[q]
    <2>1. CASE q = r
      BY <2>1 DEF Becomes
    <2>2. CASE q # r
      BY <2>2 DEF Becomes
    <2>3. QED
      BY <2>1, <2>2
  <1>2. OneHolder'
    BY <1>1 DEF OneHolder
  <1>3. ASSUME NEW q \in Requests, jobs'[q].pc \in Holding
        PROVE /\ ConfigSound(jobs'[q].copy) /\ Kept(jobs'[q].copy, acked', mishaps')
              /\ "overwritten" \notin mishaps' => jobs'[q].copy = config'
    BY <1>1, <1>3, KeptLess DEF CopiesSound
  <1>4. CopiesSound'
    BY <1>3 DEF CopiesSound
  <1>5. QED
    BY <1>2, <1>4

-----------------------------------------------------------------------------
(* The steps of a request                                                  *)

LEMMA BeginStep ==
  ASSUME IInv, NEW r \in Requests, NEW c \in Calls, Begin(r, c), ops' \in 0 .. MaxOps
  PROVE IInv'
  <1>1. JobsTyped /\ jobs \in [Requests -> JobStates] /\ acked \subseteq Paths \cup Macs
    BY DEF IInv, Typed, JobsTyped
  <1>2. jobs[r] = Idle
    BY DEF Begin
  <1>3. Becomes(r, "ask", c, NONE, NONE)
    <2>1. jobs' = [jobs EXCEPT ![r].pc = "ask", ![r].call = c]
      BY DEF Begin
    <2>2. jobs[r].copy = NONE /\ jobs[r].outcome = NONE /\ "ask" \in Pcs
      BY <1>2 DEF Idle, Pcs
    <2>3. QED
      BY <1>1, <2>1, <2>2 DEF Becomes, JobStates
  <1>4. JobsTyped'
    BY <1>1, <1>3, BecomesTyped DEF Holding
  <1>5. acked' \subseteq acked
    BY DEF Begin
  <1>6. jobs[r].pc \notin Holding
    BY <1>2 DEF Idle, Holding
  <1>7. OneHolder' /\ CopiesSound'
    <2>1. owner' = owner /\ mishaps' = mishaps /\ config' = config /\ "ask" \notin Holding
      BY DEF Begin, Holding
    <2>2. QED
      BY <1>3, <1>5, <1>6, <2>1, NotReleased DEF IInv
  <1>8. NotAcked'
    <2>1. SUFFICES ASSUME NEW q \in Requests, NEW x \in acked', AtWork(q)', Detaches(q, x)'
                   PROVE FALSE
      BY DEF NotAcked
    <2>2. CASE q = r
      <3>1. \/ c.op = "detachDisk" /\ c.path = x
            \/ c.op = "detachNic" /\ c.mac = x
        BY <1>3, <2>1, <2>2 DEF Becomes, Detaches, Call
      <3>2. x \notin acked'
        BY <3>1 DEF Begin
      <3>3. QED
        BY <2>1, <3>2
    <2>3. CASE q # r
      <3>1. jobs'[q] = jobs[q] /\ x \in acked
        BY <1>3, <1>5, <2>3 DEF Becomes
      <3>2. AtWork(q) /\ Detaches(q, x)
        BY <2>1, <3>1 DEF AtWork, Detaches, Call
      <3>3. QED
        BY <3>1, <3>2 DEF IInv, NotAcked
    <2>4. QED
      BY <2>2, <2>3
  <1>9. HypervisorSound'
    <2>1. config' = config /\ mishaps' = mishaps
      BY DEF Begin
    <2>2. Kept(config, acked', mishaps)
      BY <1>5, KeptLess DEF IInv, HypervisorSound
    <2>3. QED
      BY <2>1, <2>2 DEF IInv, HypervisorSound
  <1>10. Typed'
    BY <1>1, <1>4, <1>5 DEF IInv, Typed, Begin
  <1>11. QED
    BY <1>7, <1>8, <1>9, <1>10 DEF IInv

LEMMA ReadStep ==
  ASSUME IInv, NEW r \in Requests, NEW from \in {"ask", "askagain"}, NEW to \in Holding,
         to = "defineargs" => from = "askagain", Read(r, from, to), ops' = ops
  PROVE IInv'
  <1>1. JobsTyped /\ jobs \in [Requests -> JobStates] /\ config \in Configs
        /\ OneHolder /\ HypervisorSound
    BY DEF IInv, Typed, JobsTyped, HypervisorSound, ConfigSound
  <1>2. /\ jobs[r].pc = from /\ owner = NONE /\ owner' = r
        /\ jobs' = [jobs EXCEPT ![r].pc = to, ![r].copy = config]
        /\ UNCHANGED <<config, running, acked, mishaps>>
    BY DEF Read
  <1>3. AtWork(r) /\ Call(r) \in Calls /\ jobs[r].outcome = NONE
    BY <1>1, <1>2, JobParts DEF AtWork
  <1>4. to \in Pcs \ {"idle", "answer", "ask", "askagain"}
    BY DEF Holding, Pcs
  <1>5. Becomes(r, to, Call(r), config, NONE)
    BY <1>1, <1>2, <1>3, <1>4 DEF Becomes, JobStates, Call
  <1>6. JobsTyped'
    <2>1. from = "askagain" => Call(r).op = "detachNic"
      BY <1>1, <1>2, JobParts DEF JobOK
    <2>2. QED
      BY <1>1, <1>3, <1>4, <1>5, <2>1, BecomesTyped
  <1>7. ASSUME NEW q \in Requests PROVE jobs'[q].pc \in Holding <=> q = r
    <2>1. CASE q = r
      BY <1>5, <2>1 DEF Becomes
    <2>2. CASE q # r
      <3>1. jobs'[q] = jobs[q] /\ owner # q
        BY <1>2, <1>5, <2>2, NoneAssumption DEF Becomes
      <3>2. QED
        BY <1>1, <2>2, <3>1 DEF OneHolder
    <2>3. QED
      BY <2>1, <2>2
  <1>8. OneHolder'
    BY <1>2, <1>7 DEF OneHolder
  <1>9. CopiesSound'
    <2>1. jobs'[r].copy = config
      BY <1>5 DEF Becomes
    <2>2. ConfigSound(jobs'[r].copy) /\ Kept(jobs'[r].copy, acked', mishaps')
      BY <1>1, <1>2, <2>1 DEF HypervisorSound
    <2>3. QED
      BY <1>2, <1>7, <2>1, <2>2 DEF CopiesSound
  <1>10. NotAcked'
    BY <1>1, <1>2, <1>3, <1>5, NotAckedAfter DEF IInv
  <1>11. HypervisorSound' /\ Typed'
    BY <1>1, <1>2, <1>6 DEF IInv, HypervisorSound, Typed
  <1>12. QED
    BY <1>8, <1>9, <1>10, <1>11 DEF IInv

LEMMA ErrorIsOutcome ==
  ASSUME NEW r
  PROVE ErrorOf(r) \in Outcomes
  BY DEF ErrorOf, Outcomes

LEMMA ReadFailsStep ==
  ASSUME IInv, NEW r \in Requests, ReadFails(r), ops' = ops
  PROVE IInv'
  <1>1. JobsTyped /\ AtWork(r) /\ jobs[r].pc \notin Holding
    BY DEF IInv, Typed, ReadFails, AtWork, Holding
  <1>2. /\ Answers(r, ErrorOf(r)) /\ ErrorOf(r) \in Outcomes
        /\ UNCHANGED <<config, running, owner, acked, mishaps>>
    BY ErrorIsOutcome DEF ReadFails, Answers
  <1>3. PICK o \in Outcomes : o = ErrorOf(r)
    BY <1>2
  <1>4. Becomes(r, "answer", Call(r), NONE, o) /\ JobsTyped'
    BY <1>1, <1>2, <1>3, AnswerJob
  <1>5. "answer" \notin Holding
    BY DEF Holding
  <1>6. OneHolder' /\ CopiesSound'
    BY <1>1, <1>2, <1>4, <1>5, NotReleased DEF IInv
  <1>7. NotAcked'
    BY <1>1, <1>2, <1>4, NotAckedAfter DEF IInv
  <1>8. HypervisorSound' /\ Typed'
    BY <1>2, <1>4 DEF IInv, HypervisorSound, Typed
  <1>9. QED
    BY <1>6, <1>7, <1>8 DEF IInv

\* The owner answers; c is what the hypervisor has then.
LEMMA OwnerAnswers ==
  ASSUME IInv, NEW r \in Requests, jobs[r].pc \in Holding, NEW o \in Outcomes, Answers(r, o),
         owner' = NONE, running' = running, ops' = ops,
         ConfigSound(config'), Kept(config', acked', mishaps'), mishaps' \subseteq Mishaps,
         acked' = acked \/ \E x \in Paths \cup Macs : acked' = Acked(x)
  PROVE IInv'
  <1>1. JobsTyped /\ OneHolder /\ NotAcked /\ AtWork(r)
    BY DEF IInv, Typed, AtWork, Holding
  <1>2. Becomes(r, "answer", Call(r), NONE, o) /\ JobsTyped'
    BY <1>1, AnswerJob
  <1>3. "answer" \notin Holding
    BY DEF Holding
  <1>4. OneHolder' /\ CopiesSound'
    BY <1>1, <1>2, <1>3, Released
  <1>5. NotAcked'
    BY <1>1, <1>2, NotAckedAfter
  <1>6. acked' \subseteq Paths \cup Macs
    BY DEF IInv, Typed, Acked
  <1>7. Typed'
    BY <1>2, <1>6 DEF IInv, Typed
  <1>8. QED
    BY <1>4, <1>5, <1>7 DEF IInv, HypervisorSound

LEMMA FailStep ==
  ASSUME IInv, NEW r \in Requests, jobs[r].pc \in Holding, NEW o \in Outcomes, Answers(r, o),
         owner' = NONE, UNCHANGED <<config, running, acked, mishaps, ops>>
  PROVE IInv'
  <1>1. /\ config' = config /\ acked' = acked /\ mishaps' = mishaps
        /\ running' = running /\ ops' = ops
    OBVIOUS
  <1>2. ConfigSound(config') /\ Kept(config', acked', mishaps') /\ mishaps' \subseteq Mishaps
    BY <1>1 DEF IInv, HypervisorSound, Typed
  <1>3. QED
    BY <1>1, <1>2, OwnerAnswers

\* libvirt takes c, which has what the copy had, and new.
LEMMA GainStep ==
  ASSUME IInv, NEW r \in Requests, jobs[r].pc \in Holding, NEW c, Define(r, c), ops' = ops,
         NEW new \in SUBSET (Paths \cup Macs), ConfigSound(c), Gains(jobs[r].copy, c, new),
         acked' = acked \/ \E x \in new : acked' = Acked(x), mishaps' = mishaps
  PROVE IInv'
  <1>1. Kept(jobs[r].copy, acked, mishaps)
    BY DEF IInv, CopiesSound
  <1>2. acked' \in SUBSET (acked \cup new)
    BY DEF Acked
  <1>3. PICK k : k = jobs[r].copy
    OBVIOUS
  <1>4. PICK a2 : a2 = acked'
    OBVIOUS
  <1>5. Kept(c, a2, mishaps)
    BY <1>1, <1>2, <1>3, <1>4, GainsKept
  <1>6. /\ config' = c /\ owner' = NONE /\ Answers(r, "done") /\ running' = running
        /\ "done" \in Outcomes
    BY DEF Define, Outcomes, Answers
  <1>7. mishaps' \subseteq Mishaps
    BY DEF IInv, Typed
  <1>8. QED
    BY <1>4, <1>5, <1>6, <1>7, OwnerAnswers

\* The copy of a request that holds the connection.
LEMMA HeldCopy ==
  ASSUME IInv, NEW r \in Requests, jobs[r].pc \in Holding
  PROVE /\ ConfigSound(jobs[r].copy) /\ Kept(jobs[r].copy, acked, mishaps)
        /\ jobs[r].copy.disks \in Seq(Disks) /\ jobs[r].copy.args \in Seq(Args)
        /\ Call(r) \in Calls /\ jobs[r].outcome = NONE /\ AtWork(r)
  BY JobParts DEF IInv, Typed, CopiesSound, ConfigSound, Configs, AtWork, Holding

\* What the calls name.
LEMMA CallParts ==
  ASSUME NEW c \in Calls
  PROVE /\ c.op = "attachDisk" => c.path \in Paths /\ c.bus \in Buses
        /\ c.op = "detachDisk" => c.path \in Paths
        /\ c.op = "attachNic" => c.mac \in Macs
        /\ c.op = "detachNic" => c.mac \in Macs \cup {NoMac}
  BY DEF Calls

LEMMA AttachVolumeStep ==
  ASSUME IInv, NEW r \in Requests, AttachVolume(r), ops' = ops
  PROVE IInv'
  <1>1. jobs[r].pc \in Holding /\ Call(r).op = "attachDisk"
    BY DEF AttachVolume, Holds, Holding
  <1>2. PICK c : c = jobs[r].copy
    OBVIOUS
  <1>3. PICK d : d = NewDisk(r)
    OBVIOUS
  <1>4. PICK s \in Seq(Disks) : s = c.disks /\ Ordered(s) /\ ConfigSound(c)
    BY <1>1, <1>2, HeldCopy DEF ConfigSound
  <1>5. d.path = Call(r).path /\ d.bus = Call(r).bus /\ d.letter = NextLetter(s, d.bus)
    BY <1>2, <1>3, <1>4 DEF NewDisk
  <1>6. Call(r).path \in Paths /\ Call(r).bus \in Buses
    BY <1>1, HeldCopy, CallParts
  <1>7. \A e \in ToSet(s) : e.bus = d.bus => e.letter < d.letter
    BY <1>4, <1>5, NextLetterAbove
  <1>8. d.letter \in 1 .. LastLetter
    <2>1. d.letter <= LastLetter
      BY <1>3 DEF AttachVolume
    <2>2. d.letter \in Nat \ {0}
      BY <1>4, <1>5, NextLetterNumber
    <2>3. QED
      BY <2>1, <2>2, LetterAssumption
  <1>9. d \in Disks
    BY <1>3, <1>5, <1>6, <1>8 DEF NewDisk, Disks
  <1> DEFINE c2 == [c EXCEPT !.disks = Append(@, d)]
  <1>10. ConfigSound(c2) /\ Gains(c, c2, {d.path})
    BY <1>4, <1>7, <1>9, DiskAdded
  <1>11. Define(r, c2) /\ acked' = Acked(d.path) /\ mishaps' = mishaps
    BY <1>2, <1>3, <1>5 DEF AttachVolume
  <1> HIDE DEF c2
  <1>12. {d.path} \in SUBSET (Paths \cup Macs)
    BY <1>5, <1>6
  <1>13. QED
    BY <1>1, <1>2, <1>10, <1>11, <1>12, GainStep

LEMMA AttachInterfaceStep ==
  ASSUME IInv, NEW r \in Requests, AttachInterface(r), ops' = ops
  PROVE IInv'
  <1>1. jobs[r].pc \in Holding /\ Call(r).op = "attachNic"
    BY DEF AttachInterface, Holds, Holding
  <1>2. PICK c : c = jobs[r].copy
    OBVIOUS
  <1>3. PICK m \in Macs : m = Call(r).mac
    BY <1>1, HeldCopy, CallParts
  <1>4. ConfigSound(c)
    BY <1>1, <1>2, HeldCopy
  <1> DEFINE c2 == [c EXCEPT !.ifaces = Append(@, m)]
  <1>5. ConfigSound(c2) /\ Gains(c, c2, {m})
    BY <1>4, IfaceAdded
  <1>6. Define(r, c2) /\ acked' = Acked(m) /\ mishaps' = mishaps
    BY <1>2, <1>3 DEF AttachInterface
  <1> HIDE DEF c2
  <1>7. {m} \in SUBSET (Paths \cup Macs)
    OBVIOUS
  <1>8. QED
    BY <1>1, <1>2, <1>5, <1>6, <1>7, GainStep

LEMMA AttachQemuInterfaceStep ==
  ASSUME IInv, NEW r \in Requests, AttachQemuInterface(r), ops' = ops
  PROVE IInv'
  <1>1. jobs[r].pc \in Holding /\ Call(r).op = "attachNic"
    BY DEF AttachQemuInterface, Holds, Holding
  <1>2. PICK c : c = jobs[r].copy
    OBVIOUS
  <1>3. PICK m \in Macs : m = Call(r).mac
    BY <1>1, HeldCopy, CallParts
  <1>4. ConfigSound(c)
    BY <1>1, <1>2, HeldCopy
  <1>5. PICK n : n = NextNumber(c.args)
    OBVIOUS
  <1> DEFINE c2 == [c EXCEPT !.args = @ \o <<Netdev(n), Device(n, m)>>]
  <1>6. ConfigSound(c2) /\ Gains(c, c2, {m})
    BY <1>4, <1>5, PairAppended
  <1>7. Define(r, c2) /\ acked' = Acked(m) /\ mishaps' = mishaps
    BY <1>2, <1>3, <1>5 DEF AttachQemuInterface
  <1> HIDE DEF c2
  <1>8. {m} \in SUBSET (Paths \cup Macs)
    OBVIOUS
  <1>9. QED
    BY <1>1, <1>2, <1>6, <1>7, <1>8, GainStep

LEMMA SaveStep ==
  ASSUME IInv, NEW r \in Requests, Save(r), ops' = ops
  PROVE IInv'
  <1>1. jobs[r].pc \in Holding
    BY DEF Save, Holds, Holding
  <1>2. PICK c : c = jobs[r].copy
    OBVIOUS
  <1>3. ConfigSound(c) /\ Gains(c, c, {})
    BY <1>1, <1>2, HeldCopy DEF Gains
  <1>4. Define(r, c) /\ acked' = acked /\ mishaps' = mishaps
    BY <1>2 DEF Save
  <1>5. {} \in SUBSET (Paths \cup Macs)
    OBVIOUS
  <1>6. QED
    BY <1>1, <1>2, <1>3, <1>4, <1>5, GainStep

\* libvirt takes c, which has what the copy had but for x, which is being
\* detached.
LEMMA LossStep ==
  ASSUME IInv, NEW r \in Requests, jobs[r].pc \in Holding, NEW c, Define(r, c), ops' = ops,
         ConfigSound(c), NEW x, Detaches(r, x),
         "nameless" \notin mishaps' => \A y : Has(jobs[r].copy, y) /\ y # x => Has(c, y),
         mishaps' = {} /\ OperatorDevice \in ToSet(jobs[r].copy.args)
            => OperatorDevice \in ToSet(c.args),
         acked' = acked, mishaps \subseteq mishaps', mishaps' \subseteq Mishaps
  PROVE IInv'
  <1>1. Kept(jobs[r].copy, acked, mishaps) /\ AtWork(r)
    BY HeldCopy
  <1>2. x \notin acked
    BY <1>1 DEF IInv, NotAcked
  <1>3. Kept(c, acked, mishaps')
    BY <1>1, <1>2 DEF Kept
  <1>4. /\ config' = c /\ owner' = NONE /\ Answers(r, "done") /\ running' = running
        /\ "done" \in Outcomes
    BY DEF Define, Outcomes, Answers
  <1>5. QED
    BY <1>3, <1>4, OwnerAnswers

LEMMA DetachVolumeStep ==
  ASSUME IInv, NEW r \in Requests, DetachVolume(r), ops' = ops
  PROVE IInv'
  <1>1. jobs[r].pc \in Holding /\ Call(r).op = "detachDisk"
    BY DEF DetachVolume, Holds, Holding
  <1>2. PICK c : c = jobs[r].copy
    OBVIOUS
  <1>3. PICK p : p = Call(r).path
    OBVIOUS
  <1>4. ConfigSound(c)
    BY <1>1, <1>2, HeldCopy
  <1> DEFINE c2 == [c EXCEPT !.disks = Keep(@, {d \in ToSet(@) : d.path # p})]
  <1>5. /\ ConfigSound(c2) /\ c2.args = c.args
        /\ \A x : Has(c, x) /\ x # p => Has(c2, x)
    BY <1>4, DiskRemoved
  <1>6. Define(r, c2) /\ acked' = acked /\ mishaps' = mishaps
    BY <1>2, <1>3 DEF DetachVolume
  <1> HIDE DEF c2
  <1>7. Detaches(r, p) /\ mishaps \subseteq Mishaps
    BY <1>1, <1>3 DEF Detaches, IInv, Typed
  <1>8. QED
    BY <1>1, <1>2, <1>5, <1>6, <1>7, LossStep

LEMMA DetachInterfaceStep ==
  ASSUME IInv, NEW r \in Requests, DetachInterface(r), ops' = ops
  PROVE IInv'
  <1>1. jobs[r].pc \in Holding /\ Call(r).op = "detachNic"
    BY DEF DetachInterface, Holds, Holding
  <1>2. PICK c : c = jobs[r].copy
    OBVIOUS
  <1>3. PICK m : m = Call(r).mac
    OBVIOUS
  <1>4. ConfigSound(c)
    BY <1>1, <1>2, HeldCopy
  <1> DEFINE c2 == [c EXCEPT !.ifaces = Keep(@, Macs \ {m})]
  <1>5. /\ ConfigSound(c2) /\ c2.args = c.args
        /\ \A x : Has(c, x) /\ x # m => Has(c2, x)
    BY <1>4, IfaceRemoved
  <1>6. Define(r, c2) /\ acked' = acked /\ mishaps' = mishaps
    BY <1>2, <1>3 DEF DetachInterface
  <1> HIDE DEF c2
  <1>7. Detaches(r, m) /\ mishaps \subseteq Mishaps
    BY <1>1, <1>3 DEF Detaches, IInv, Typed
  <1>8. QED
    BY <1>1, <1>2, <1>5, <1>6, <1>7, LossStep

LEMMA DetachQemuInterfaceStep ==
  ASSUME IInv, NEW r \in Requests, DetachQemuInterface(r), ops' = ops
  PROVE IInv'
  <1>1. jobs[r].pc = "defineargs" /\ jobs[r].pc \in Holding /\ JobsTyped
    BY DEF DetachQemuInterface, Holding, IInv, Typed
  <1>2. Call(r).op = "detachNic"
    BY <1>1, JobParts DEF JobOK
  <1>3. PICK c : c = jobs[r].copy
    OBVIOUS
  <1>4. PICK m : m = Call(r).mac
    OBVIOUS
  <1>5. ConfigSound(c)
    BY <1>1, <1>3, HeldCopy
  <1> DEFINE c2 == [c EXCEPT !.args = WithoutNeedle(c.args, m)]
  <1>6. /\ ConfigSound(c2)
        /\ m # NoMac => \A x : Has(c, x) /\ x # m => Has(c2, x)
        /\ m # NoMac /\ Carriers(c.args, m) # {} /\ OperatorDevice \in ToSet(c.args)
              => OperatorDevice \in ToSet(c2.args)
    BY <1>5, NeedleRemoved
  <1>7. /\ Define(r, c2) /\ acked' = acked
        /\ mishaps' = mishaps \cup (IF Carriers(c.args, m) = {} THEN {"blind"} ELSE {})
                              \cup (IF m = NoMac THEN {"nameless"} ELSE {})
    BY <1>3, <1>4 DEF DetachQemuInterface
  <1> HIDE DEF c2
  <1>8. Detaches(r, m) /\ mishaps' \subseteq Mishaps /\ mishaps \subseteq mishaps'
    BY <1>2, <1>4, <1>7 DEF Detaches, IInv, Typed, Mishaps
  <1>9. /\ "nameless" \notin mishaps' => m # NoMac
        /\ mishaps' = {} => m # NoMac /\ Carriers(c.args, m) # {}
    BY <1>7
  <1>10. QED
    BY <1>1, <1>3, <1>6, <1>7, <1>8, <1>9, LossStep

LEMMA DefineFailsStep ==
  ASSUME IInv, NEW r \in Requests, DefineFails(r), ops' = ops
  PROVE IInv'
  <1>1. /\ jobs[r].pc \in Holding /\ owner' = NONE /\ Answers(r, ErrorOf(r))
        /\ UNCHANGED <<config, running, acked, mishaps, ops>>
    BY DEF DefineFails, Holding, Answers
  <1>2. PICK o \in Outcomes : o = ErrorOf(r)
    BY ErrorIsOutcome
  <1>3. QED
    BY <1>1, <1>2, FailStep

LEMMA NotFoundStep ==
  ASSUME IInv, NEW r \in Requests, DetachNoVolume(r) \/ DetachNoInterface(r), ops' = ops
  PROVE IInv'
  <1>1. /\ jobs[r].pc \in Holding /\ owner' = NONE /\ Answers(r, "notfound")
        /\ UNCHANGED <<config, running, acked, mishaps, ops>>
    BY DEF DetachNoVolume, DetachNoInterface, NotFound, Holds, Holding, Answers
  <1>2. "notfound" \in Outcomes
    BY DEF Outcomes
  <1>3. QED
    BY <1>1, <1>2, FailStep

LEMMA TryQemuArgsStep ==
  ASSUME IInv, NEW r \in Requests, TryQemuArgs(r), ops' = ops
  PROVE IInv'
  <1>1. /\ jobs[r].pc \in Holding /\ Call(r).op = "detachNic" /\ owner' = NONE
        /\ UNCHANGED <<config, running, acked, mishaps, ops>>
        /\ jobs' = [jobs EXCEPT ![r].pc = "askagain", ![r].copy = NONE]
    BY DEF TryQemuArgs, Holds, Holding
  <1>2. JobsTyped /\ jobs \in [Requests -> JobStates] /\ OneHolder /\ NotAcked
    BY DEF IInv, Typed, JobsTyped
  <1>3. AtWork(r) /\ Call(r) \in Calls /\ jobs[r].outcome = NONE
    BY <1>1, HeldCopy
  <1>4. "askagain" \in Pcs /\ "askagain" \notin Holding
    BY DEF Pcs, Holding
  <1>5. Becomes(r, "askagain", Call(r), NONE, NONE)
    BY <1>1, <1>2, <1>3, <1>4 DEF Becomes, JobStates, Call
  <1>6. JobsTyped'
    BY <1>1, <1>2, <1>3, <1>4, <1>5, BecomesTyped
  <1>7. OneHolder' /\ CopiesSound'
    BY <1>1, <1>2, <1>4, <1>5, Released
  <1>8. NotAcked'
    BY <1>1, <1>2, <1>3, <1>5, NotAckedAfter
  <1>9. HypervisorSound' /\ Typed'
    BY <1>1, <1>6 DEF IInv, HypervisorSound, Typed
  <1>10. QED
    BY <1>7, <1>8, <1>9 DEF IInv

LEMMA EndRequestStep ==
  ASSUME IInv, NEW r \in Requests, EndRequest(r), ops' = ops
  PROVE IInv'
  <1>1. /\ jobs[r].pc = "answer" /\ jobs[r].pc \notin Holding
        /\ jobs' = [jobs EXCEPT ![r] = Idle]
        /\ UNCHANGED <<config, running, owner, acked, mishaps, ops>>
    BY DEF EndRequest, Holding
  <1>2. JobsTyped /\ jobs \in [Requests -> JobStates]
    BY DEF IInv, Typed, JobsTyped
  <1>3. Idle \in JobStates /\ "idle" \notin Holding
    BY DEF Idle, JobStates, Pcs, Holding
  <1>4. Becomes(r, "idle", NONE, NONE, NONE)
    BY <1>1, <1>2, <1>3 DEF Becomes, Idle
  <1>5. JobsTyped'
    BY <1>2, <1>3, <1>4, BecomesTyped
  <1>6. OneHolder' /\ CopiesSound'
    BY <1>1, <1>3, <1>4, NotReleased DEF IInv
  <1>7. NotAcked'
    <2>1. \A q \in Requests : AtWork(q)' => AtWork(q) /\ jobs'[q] = jobs[q]
      BY <1>4 DEF Becomes, AtWork
    <2>2. QED
      BY <1>1, <2>1 DEF IInv, NotAcked, Detaches, Call
  <1>8. HypervisorSound' /\ Typed'
    BY <1>1, <1>5 DEF IInv, HypervisorSound, Typed
  <1>9. QED
    BY <1>6, <1>7, <1>8 DEF IInv

-----------------------------------------------------------------------------
(* Operators                                                               *)

\* Copies do not see the edit, which excuses what goes when they are defined.
LEMMA EditStep ==
  ASSUME IInv, NEW t \in Seq(Args), ArgsSound(t), Edit(t),
         \A a \in ToSet(t), b \in ToSet(config.args) : a.id = b.id => a.id = NoId,
         ops' \in 0 .. MaxOps
  PROVE IInv'
  <1>1. /\ config' = [config EXCEPT !.args = t \o @]
        /\ mishaps' = IF owner = NONE THEN mishaps ELSE mishaps \cup {"overwritten"}
        /\ UNCHANGED <<running, owner, jobs, acked>>
    BY DEF Edit
  <1>2. PICK c : c = config
    OBVIOUS
  <1>3. ConfigSound(c) /\ Kept(c, acked, mishaps)
    BY <1>2 DEF IInv, HypervisorSound
  <1> DEFINE c2 == [c EXCEPT !.args = t \o @]
  <1>4. ConfigSound(c2) /\ Gains(c, c2, {})
    BY <1>2, <1>3, ArgsPrepended
  <1>5. config' = c2
    BY <1>1, <1>2
  <1> HIDE DEF c2
  <1>6. mishaps \subseteq mishaps' /\ mishaps' \subseteq Mishaps
    BY <1>1 DEF IInv, Typed, Mishaps
  <1>7. HypervisorSound'
    <2>1. acked \in SUBSET (acked \cup {})
      OBVIOUS
    <2>2. Kept(c2, acked, mishaps)
      BY <1>3, <1>4, <2>1, GainsKept
    <2>3. PICK k : k = mishaps'
      OBVIOUS
    <2>4. Kept(c2, acked, k)
      BY <1>6, <2>2, <2>3, KeptLess
    <2>5. QED
      BY <1>1, <1>4, <1>5, <2>3, <2>4 DEF HypervisorSound
  <1>8. CopiesSound'
    <2>1. SUFFICES ASSUME NEW r \in Requests, jobs[r].pc \in Holding
                   PROVE /\ ConfigSound(jobs[r].copy) /\ Kept(jobs[r].copy, acked, mishaps')
                         /\ "overwritten" \in mishaps'
      BY <1>1 DEF CopiesSound
    <2>2. PICK k : k = mishaps'
      OBVIOUS
    <2>3. Kept(jobs[r].copy, acked, mishaps) /\ ConfigSound(jobs[r].copy)
      BY <2>1, HeldCopy
    <2>4. Kept(jobs[r].copy, acked, k)
      BY <1>6, <2>2, <2>3, KeptLess
    <2>5. owner # NONE
      BY <2>1, NoneAssumption DEF IInv, OneHolder
    <2>6. QED
      BY <1>1, <2>2, <2>3, <2>4, <2>5
  <1>9. OneHolder' /\ NotAcked'
    BY <1>1 DEF IInv, OneHolder, NotAcked, AtWork, Detaches, Call
  <1>10. Typed'
    BY <1>1, <1>6 DEF IInv, Typed, JobsTyped, JobOK, Call
  <1>11. QED
    BY <1>7, <1>8, <1>9, <1>10 DEF IInv

LEMMA AddDeviceStep ==
  ASSUME IInv, AddDevice, ops' \in 0 .. MaxOps
  PROVE IInv'
  <1> DEFINE t == <<OperatorDevice>>
  <1>1. t \in Seq(Args) /\ ArgsSound(t) /\ ToSet(t) = {OperatorDevice}
    BY OperatorSound
  <1>2. Edit(t)
    BY DEF AddDevice
  <1> HIDE DEF t
  <1>3. \A a \in ToSet(t) : a.id = NoId
    BY <1>1 DEF OperatorDevice, Device
  <1>4. QED
    BY <1>1, <1>2, <1>3, EditStep

LEMMA AddNicStep ==
  ASSUME IInv, AddNic, ops' \in 0 .. MaxOps
  PROVE IInv'
  <1>1. ForeignId \in Int /\ ForeignId # NoId
    BY DEF ForeignId, NoId
  <1>2. /\ OperatorNic \in Seq(Args) /\ ArgsSound(OperatorNic)
        /\ ToSet(OperatorNic) = {Netdev(ForeignId), Device(ForeignId, NoMac)}
    BY <1>1, PairSound DEF OperatorNic
  <1>3. \A a \in ToSet(OperatorNic) : a.id = ForeignId
    BY <1>2 DEF Netdev, Device
  <1>4. \A b \in ToSet(config.args) : b.id # ForeignId
    BY <1>1 DEF AddNic, NicIds
  <1>5. Edit(OperatorNic)
    BY DEF AddNic
  <1>6. QED
    BY <1>2, <1>3, <1>4, <1>5, EditStep

\* A step that leaves all but the domain's state alone.
LEMMA PowerStep ==
  ASSUME IInv, running' \in BOOLEAN, UNCHANGED <<config, owner, jobs, ops, acked, mishaps>>
  PROVE IInv'
  BY DEF IInv, Typed, JobsTyped, JobOK, OneHolder, CopiesSound, NotAcked, HypervisorSound,
         AtWork, Detaches, Call

-----------------------------------------------------------------------------
(* The theorems                                                            *)

LEMMA WorkStep ==
  ASSUME IInv, NEW r \in Requests, Work(r), ops' = ops
  PROVE IInv'
  <1>1. CASE ReadConfig(r)
    BY <1>1, ReadStep DEF ReadConfig, Holding
  <1>2. CASE ReadForArgs(r)
    BY <1>2, ReadStep DEF ReadForArgs, Holding
  <1>3. CASE ReadFails(r) \/ DefineFails(r)
    BY <1>3, ReadFailsStep, DefineFailsStep
  <1>4. CASE AttachVolume(r) \/ AttachInterface(r) \/ AttachQemuInterface(r)
    BY <1>4, AttachVolumeStep, AttachInterfaceStep, AttachQemuInterfaceStep
  <1>5. CASE DetachVolume(r) \/ DetachInterface(r) \/ DetachQemuInterface(r)
    BY <1>5, DetachVolumeStep, DetachInterfaceStep, DetachQemuInterfaceStep
  <1>6. CASE DetachNoVolume(r) \/ DetachNoInterface(r) \/ TryQemuArgs(r)
    BY <1>6, NotFoundStep, TryQemuArgsStep
  <1>7. CASE Save(r) \/ EndRequest(r)
    BY <1>7, SaveStep, EndRequestStep
  <1>8. QED
    BY <1>1, <1>2, <1>3, <1>4, <1>5, <1>6, <1>7 DEF Work

LEMMA NextInv == IInv /\ [Next]_vars => IInv'
  <1>1. SUFFICES ASSUME IInv, [Next]_vars PROVE IInv'
    OBVIOUS
  <1>2. ASSUME Count PROVE ops' \in 0 .. MaxOps
    BY <1>1, <1>2, OpsAssumption DEF Count, IInv, Typed
  <1>3. ASSUME NEW r \in Requests, NEW c \in Calls, Begin(r, c), Count PROVE IInv'
    BY <1>1, <1>2, <1>3, BeginStep
  <1>4. ASSUME NEW r \in Requests, Work(r), UNCHANGED ops PROVE IInv'
    BY <1>1, <1>4, WorkStep
  <1>5. CASE (AddDevice \/ AddNic) /\ Count
    BY <1>1, <1>2, <1>5, AddDeviceStep, AddNicStep
  <1>6. CASE Power /\ UNCHANGED ops
    <2>1. running' \in BOOLEAN /\ UNCHANGED <<config, owner, jobs, ops, acked, mishaps>>
      BY <1>1, <1>6 DEF Power, IInv, Typed
    <2>2. QED
      BY <1>1, <2>1, PowerStep
  <1>7. CASE UNCHANGED vars
    <2>1. running' \in BOOLEAN /\ UNCHANGED <<config, owner, jobs, ops, acked, mishaps>>
      BY <1>1, <1>7 DEF vars, IInv, Typed
    <2>2. QED
      BY <1>1, <2>1, PowerStep
  <1>8. QED
    BY <1>1, <1>3, <1>4, <1>5, <1>6, <1>7 DEF Next

THEOREM Invariance == Spec => []IInv
  <1>1. QED
    BY InitInv, NextInv, PTL DEF Spec

\* Variables have their types: configurations of disks, interfaces and QEMU
\* arguments, requests at a step of an operation of the repository.
THEOREM TypeCorrect == Spec => []TypeOK
  <1>1. QED
    BY Invariance, IInvType, PTL

\* After any attaches, detaches, saves and edits by operators, of any number
\* of requests: the namer's letter is free, an acknowledged device is there
\* unless a detach without a MAC may have taken it, every netdev has its one
\* device, and an operator's device goes only in one of the listed mishaps.
THEOREM DevicesSoundHolds == Spec => []DevicesSound
  <1>1. QED
    BY Invariance, IInvSound, PTL

-----------------------------------------------------------------------------
(* What a detach takes                                                     *)

\* DetachInterface of the first half: every <interface> with the MAC.
LEMMA IfacesTaken ==
  ASSUME NEW c, ConfigSound(c), NEW m \in ToSet(c.ifaces)
  PROVE LosesNic(c, [c EXCEPT !.ifaces = Keep(@, Macs \ {m})], m)
  <1> DEFINE d == [c EXCEPT !.ifaces = Keep(@, Macs \ {m})]
  <1>1. PICK s \in Seq(Macs) : s = c.ifaces
    BY DEF ConfigSound, Configs
  <1>2. ToSet(s) \subseteq Macs /\ ToSet(Keep(s, Macs \ {m})) = ToSet(s) \cap (Macs \ {m})
    BY ToSetTyped, ToSetKeep
  <1>3. d.disks = c.disks /\ d.args = c.args /\ ToSet(d.ifaces) = ToSet(c.ifaces) \ {m}
    BY <1>1, <1>2 DEF ConfigSound, Configs
  <1> HIDE DEF d
  <1>4. \A x : x # m => Nics(d, x) = Nics(c, x)
    BY <1>3 DEF Nics
  <1>5. NoId \in Nics(c, m) /\ Nics(d, m) = Nics(c, m) \ {NoId}
    BY <1>3 DEF Nics, NicIds
  <1>6. LosesNic(c, d, m)
    BY <1>3, <1>4, <1>5 DEF LosesNic, SameBut
  <1>7. QED
    BY <1>6 DEF d

\* The second half: the arguments of one id whose device has the MAC; if there
\* is none, arguments of no NIC.
LEMMA NeedleTaken ==
  ASSUME NEW c, ConfigSound(c), NEW m, m # NoMac,
         NEW d, d = [c EXCEPT !.args = WithoutNeedle(c.args, m)]
  PROVE \/ LosesNic(c, d, m)
        \/ /\ Nics(c, m) \subseteq {NoId} /\ SameBut(c, d, m)
           /\ Nics(d, m) = Nics(c, m)
  <1>1. PICK s \in Seq(Args) : s = c.args /\ ArgsSound(s)
    BY DEF ConfigSound, Configs
  <1> DEFINE n == Needle(s, m)
  <1>2. /\ d.disks = c.disks /\ d.ifaces = c.ifaces
        /\ d.args = Keep(s, {a \in ToSet(s) : a.id # n})
    BY <1>1 DEF ConfigSound, Configs, WithoutNeedle
  <1>3. \/ ~ Carries(s, m) /\ n = NoId
        \/ \E a \in ToSet(s) : a.opt = "-device" /\ a.mac = m /\ n = a.id
    BY NeedleFound
  <1> HIDE DEF n
  <1>4. ASSUME NEW x PROVE IdsOf(d.args, x) = IdsOf(c.args, x) \ {n}
    <2>1. IdsOf(Keep(s, {a \in ToSet(s) : a.id # n}), x) = IdsOf(s, x) \ {n}
      BY <1>1, IdRemoved
    <2>2. QED
      BY <1>1, <1>2, <2>1
  <1>5. ASSUME NEW e, NEW x
        PROVE Nics(e, x) = IdsOf(e.args, x) \cup (IF x \in ToSet(e.ifaces) THEN {NoId} ELSE {})
    BY DEF Nics, IdsOf
  <1>6. ASSUME NEW x PROVE NoId \notin IdsOf(c.args, x)
    BY DEF IdsOf, NicIds
  <1>7. CASE ~ Carries(s, m) /\ n = NoId
    <2>1. \A x : Nics(d, x) = Nics(c, x)
      BY <1>2, <1>4, <1>5, <1>6, <1>7
    <2>2. IdsOf(c.args, m) = {}
      BY <1>1, <1>7, DeviceOf DEF IdsOf, Carries
    <2>3. Nics(c, m) \subseteq {NoId}
      BY <1>5, <2>2
    <2>4. QED
      BY <1>2, <2>1, <2>3 DEF SameBut
  <1>8. CASE \E a \in ToSet(s) : a.opt = "-device" /\ a.mac = m /\ n = a.id
    <2>1. n # NoId /\ n \in NicIds(s) /\ LastMac(s, n) = m
      BY <1>1, <1>8, LastMacIs DEF ArgsSound, MacsNumbered
    <2>2. n \in IdsOf(c.args, m) /\ \A x : x # m => n \notin IdsOf(c.args, x)
      BY <1>1, <2>1 DEF IdsOf
    <2>3. \A x : x # m => Nics(d, x) = Nics(c, x)
      BY <1>2, <1>4, <1>5, <2>2
    <2>4. n \in Nics(c, m) /\ Nics(d, m) = Nics(c, m) \ {n}
      BY <1>2, <1>4, <1>5, <2>1, <2>2
    <2>5. QED
      BY <1>2, <2>3, <2>4 DEF LosesNic, SameBut
  <1>9. QED
    BY <1>3, <1>7, <1>8

\* A request answers "done" to a detach when it defined the configuration, or
\* when the error of the first half is dropped.
LEMMA DoneStep ==
  ASSUME IInv, [Next]_vars, NEW r \in Requests, AnswersDetach(r)
  PROVE \/ DetachInterface(r) \/ DetachQemuInterface(r)
        \/ /\ jobs'[r].failed /\ jobs[r].pc \in {"ask", "define"}
           /\ config' = config
  <1>1. /\ jobs \in [Requests -> JobStates]
        /\ jobs[r].pc # "answer" /\ jobs'[r].pc = "answer"
        /\ jobs'[r].outcome = "done" /\ Call(r).op = "detachNic"
    BY DEF IInv, Typed, JobsTyped, AnswersDetach
  <1>2. jobs' # jobs
    BY <1>1
  <1>3. ASSUME NEW q \in Requests, NEW c \in Calls, Begin(q, c) PROVE FALSE
    BY <1>1, <1>3 DEF Begin, JobStates
  <1>4. PICK q \in Requests : Work(q)
    BY <1>2, <1>3 DEF Next, vars, AddDevice, AddNic, Edit, Power
  <1>5. q = r
    <2>1. SUFFICES ASSUME q # r PROVE jobs'[r] = jobs[r]
      BY <1>1
    <2>2. QED
      BY <1>1, <1>4, <2>1
      DEF Work, ReadConfig, ReadForArgs, Read, ReadFails, DefineFails, AttachVolume,
          DetachVolume, DetachNoVolume, AttachInterface, AttachQemuInterface,
          DetachInterface, TryQemuArgs, DetachQemuInterface, DetachNoInterface, Save,
          EndRequest, Define, NotFound, Answer, Fails
  <1>6. ~ DetachNoVolume(r) /\ ~ DetachNoInterface(r)
    <2>1. Answer(r, "notfound") => jobs'[r].outcome = "notfound"
      BY <1>1 DEF Answer, JobStates
    <2>2. QED
      BY <1>1, <2>1 DEF DetachNoVolume, DetachNoInterface, NotFound
  <1>7. ~ ReadConfig(r) /\ ~ ReadForArgs(r) /\ ~ TryQemuArgs(r)
    BY <1>1 DEF ReadConfig, ReadForArgs, Read, TryQemuArgs, JobStates
  <1>8. ~ EndRequest(r)
    BY <1>1 DEF EndRequest
  <1>9. /\ ~ AttachVolume(r) /\ ~ DetachVolume(r) /\ ~ AttachInterface(r)
        /\ ~ AttachQemuInterface(r) /\ ~ Save(r)
    BY <1>1 DEF AttachVolume, DetachVolume, AttachInterface, AttachQemuInterface, Save, Holds
  <1>10. CASE ReadFails(r) \/ DefineFails(r)
    <2>1. Fails(r) /\ config' = config
      BY <1>10 DEF ReadFails, DefineFails
    <2>2. jobs'[r].failed /\ jobs'[r].outcome = ErrorOf(r)
      BY <1>1, <2>1 DEF Fails, JobStates
    <2>3. jobs[r].pc \in {"ask", "define"}
      BY <1>1, <2>2 DEF ErrorOf
    <2>4. QED
      BY <2>1, <2>2, <2>3
  <1>11. QED
    BY <1>4, <1>5, <1>6, <1>7, <1>8, <1>9, <1>10 DEF Work

\* What DetachRemoves says of the request r.
TakesNic(r) ==
    AnswersDetach(r) /\ Call(r).mac # NoMac =>
       \/ /\ jobs'[r].failed /\ jobs[r].pc \in {"ask", "define"}
          /\ config' = config
       \/ LosesNic(Replaced(r), config', Call(r).mac)
       \/ /\ jobs[r].pc = "defineargs"
          /\ Nics(Replaced(r), Call(r).mac) \subseteq {NoId}
          /\ SameBut(Replaced(r), config', Call(r).mac)
          /\ Nics(config', Call(r).mac) = Nics(Replaced(r), Call(r).mac)

LEMMA DetachStep ==
  ASSUME IInv, [Next]_vars, NEW r \in Requests
  PROVE TakesNic(r)
  <1>1. SUFFICES ASSUME AnswersDetach(r), Call(r).mac # NoMac
                 PROVE TakesNic(r)
    BY DEF TakesNic
  <1>2. PICK c : c = jobs[r].copy
    OBVIOUS
  <1>3. PICK m : m = Call(r).mac
    OBVIOUS
  <1>4. ASSUME jobs[r].pc \in Holding PROVE ConfigSound(c) /\ Replaced(r) = c
    BY <1>2, <1>4 DEF IInv, CopiesSound, Replaced
  <1>5. CASE DetachInterface(r)
    <2>1. /\ jobs[r].pc \in Holding /\ m \in ToSet(c.ifaces)
          /\ config' = [c EXCEPT !.ifaces = Keep(@, Macs \ {m})]
      BY <1>2, <1>3, <1>5 DEF DetachInterface, Holds, Holding, Define
    <2>2. LosesNic(c, config', m)
      BY <1>4, <2>1, IfacesTaken
    <2>3. QED
      BY <1>3, <1>4, <2>1, <2>2 DEF TakesNic
  <1>6. CASE DetachQemuInterface(r)
    <2>1. /\ jobs[r].pc = "defineargs"
          /\ config' = [c EXCEPT !.args = WithoutNeedle(c.args, m)]
      BY <1>2, <1>3, <1>6 DEF DetachQemuInterface, Define
    <2>2. ConfigSound(c) /\ Replaced(r) = c
      BY <1>4, <2>1 DEF Holding
    <2>3. PICK d : d = config'
      OBVIOUS
    <2>4. \/ LosesNic(c, d, m)
          \/ /\ Nics(c, m) \subseteq {NoId} /\ SameBut(c, d, m)
             /\ Nics(d, m) = Nics(c, m)
      BY <1>1, <1>3, <2>1, <2>2, <2>3, NeedleTaken
    <2>5. QED
      BY <1>3, <2>1, <2>2, <2>3, <2>4 DEF TakesNic
  <1>7. QED
    BY <1>1, <1>5, <1>6, DoneStep DEF TakesNic

\* DetachInterface of a MAC that returns no error took one NIC with that MAC
\* and nothing else from the disks and NICs the domain had; or it took no NIC,
\* because the error of its first half was dropped or because no QEMU arguments
\* had the MAC when its second half looked.
THEOREM DetachRemovesHolds == Spec => DetachRemoves
  <1>1. IInv /\ [Next]_vars => \A r \in Requests : TakesNic(r)
    BY DetachStep
  <1>2. QED
    BY <1>1, Invariance, PTL DEF Spec, DetachRemoves, TakesNic
=============================================================================
