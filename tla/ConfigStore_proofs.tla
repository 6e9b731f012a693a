--------------------------- MODULE ConfigStore_proofs ---------------------------
(***************************************************************************)
(* Proofs about ConfigStore, for files of any length and any number of     *)
(* commands: types, for any number of processes; and of a process that     *)
(* runs alone, what it loads, keeps on disk and leaves behind.             *)
(***************************************************************************)
EXTENDS ConfigStore, FiniteSetTheorems, TLAPS

-------------------------------------------------------------------------------
(* Sequences and their places *)

\* Every nonempty set of naturals has a smallest element.
LEMMA NatMin ==
  ASSUME NEW S \in SUBSET Nat, S # {}
  PROVE  \E m \in S : \A n \in S : m <= n
<1> DEFINE T == {S \cap (0 .. k) : k \in S}
<1>1. T \subseteq FiniteSubsetsOf(Nat) /\ T # {}
  <2>1. ASSUME NEW k \in S PROVE S \cap (0 .. k) \in FiniteSubsetsOf(Nat)
    <3>1. IsFiniteSet(0 .. k)
      BY FS_Interval
    <3>2. IsFiniteSet(S \cap (0 .. k))
      BY <3>1, FS_Subset
    <3> QED BY <3>2 DEF FiniteSubsetsOf
  <2> QED BY <2>1
<1>2. IsWellFoundedOn(StrictSubsetOrdering(Nat), FiniteSubsetsOf(Nat))
  BY FS_StrictSubsetOrderingWellFounded
<1>3. PICK x \in T : \A y \in T : ~ (<<y, x>> \in StrictSubsetOrdering(Nat))
  <2> HIDE DEF T
  <2> QED BY <1>1, <1>2, WFMin, Zenon
<1>4. PICK m \in S : x = S \cap (0 .. m)
  OBVIOUS
<1>5. ASSUME NEW n \in S, n < m PROVE FALSE
  <2> DEFINE y == S \cap (0 .. n)
  <2>1. y \in T
    OBVIOUS
  <2>2. y \subseteq x /\ y # x
    BY <1>4, <1>5
  <2>3. <<y, x>> \in StrictSubsetOrdering(Nat)
    BY <2>2, <1>4 DEF StrictSubsetOrdering
  <2> QED BY <2>1, <2>3, <1>3
<1> QED BY <1>5

-------------------------------------------------------------------------------
(* FlattenSeq and OfType put together elements of the sequences they are   *)
(* given, and no other.                                                    *)

\* The recursion of FlattenSeq over the first k sequences of ss.
FlatTo(ss, k, f) == f = [i \in 1 .. k |-> IF i = 1 THEN ss[i] ELSE f[i - 1] \o ss[i]]

LEMMA FlatExists ==
  ASSUME NEW S, NEW ss \in Seq(Seq(S)), NEW n \in Nat \ {0}
  PROVE  \E f : FlatTo(ss, n, f)
<1> DEFINE Bad == {k \in Nat \ {0} : ~ \E f : FlatTo(ss, k, f)}
<1>1. SUFFICES ASSUME Bad # {} PROVE FALSE
  OBVIOUS
<1>2. PICK m \in Bad : \A k \in Bad : m <= k
  BY <1>1, NatMin
<1>3. m # 1
  <2> DEFINE f == [i \in 1 .. 1 |-> ss[i]]
  <2>1. FlatTo(ss, 1, f)
    BY DEF FlatTo
  <2> QED BY <2>1
<1>4. PICK g : FlatTo(ss, m - 1, g)
  <2>1. m - 1 \in Nat \ {0} /\ ~ (m <= m - 1)
    BY <1>3
  <2>2. m - 1 \notin Bad
    BY <1>2, <2>1
  <2> QED BY <2>1, <2>2
<1> DEFINE f == [i \in 1 .. m |-> IF i = m THEN g[i - 1] \o ss[i] ELSE g[i]]
<1>5. FlatTo(ss, m, f)
  <2>1. ASSUME NEW i \in 1 .. m
        PROVE  f[i] = IF i = 1 THEN ss[i] ELSE f[i - 1] \o ss[i]
    <3>1. \A k \in 1 .. m - 1 : g[k] = IF k = 1 THEN ss[k] ELSE g[k - 1] \o ss[k]
      BY <1>4 DEF FlatTo
    <3>2. \A k \in 1 .. m - 1 : f[k] = g[k]
      OBVIOUS
    <3>3. CASE i = m
      <4>1. i # 1 /\ i \in 1 .. m /\ i - 1 \in 1 .. m - 1
        BY <1>3, <3>3
      <4>2. f[i - 1] = g[i - 1]
        BY <3>2, <4>1
      <4>3. f[i] = g[i - 1] \o ss[i]
        BY <3>3
      <4> QED BY <4>1, <4>2, <4>3
    <3>4. CASE i # m
      <4>1. i \in 1 .. m - 1 /\ f[i] = g[i] /\ (i # 1 => i - 1 \in 1 .. m - 1)
        BY <3>4
      <4> HIDE DEF f
      <4> QED BY <4>1, <3>1, <3>2
    <3> QED BY <3>3, <3>4
  <2> QED BY <2>1 DEF FlatTo
<1> QED BY <1>5

\* A function of 1 .. n is a sequence of what it yields.
LEMMA MapIsSeq ==
  ASSUME NEW S, NEW n \in Nat, NEW f, f \in [1 .. n -> S]
  PROVE  f \in Seq(S)
OBVIOUS

\* Among a file's lines, s are those at the places in at up to the k-th: all of them,
\* none else, and the last one of a key is the last one of that key.
Mirrors(s, file, at, k) ==
  /\ \A i \in at : i <= k => \E m \in DOMAIN s : s[m] = file[i]
  /\ \A m \in DOMAIN s : \E i \in at :
       /\ i <= k /\ s[m] = file[i]
       /\ Says(s, m) => \A j \in at : i < j /\ j <= k => file[j].key # file[i].key

LEMMA MirrorsStep ==
  ASSUME NEW S, NEW file \in Seq(S), NEW at \in SUBSET DOMAIN file, NEW k \in Nat,
         k + 1 \in DOMAIN file, NEW s \in Seq(S), Mirrors(s, file, at, k),
         NEW t, t = s \o (IF k + 1 \in at THEN <<file[k + 1]>> ELSE <<>>)
  PROVE  t \in Seq(S) /\ Mirrors(t, file, at, k + 1)
<1>0. at \subseteq Nat /\ file[k + 1] \in S
  OBVIOUS
<1>1. CASE k + 1 \notin at
  <2>1. t = s
    BY <1>1
  <2>2. \A i \in at : i <= k + 1 <=> i <= k
    BY <1>0, <1>1
  <2>3. \A i \in at : i <= k + 1 => \E m \in DOMAIN s : s[m] = file[i]
    BY <2>2 DEF Mirrors
  <2>4. ASSUME NEW m \in DOMAIN s
        PROVE  \E i \in at :
                 /\ i <= k + 1 /\ s[m] = file[i]
                 /\ Says(s, m) => \A j \in at : i < j /\ j <= k + 1 => file[j].key # file[i].key
    <3>1. PICK i \in at :
            /\ i <= k /\ s[m] = file[i]
            /\ Says(s, m) => \A j \in at : i < j /\ j <= k => file[j].key # file[i].key
      BY DEF Mirrors
    <3> QED BY <2>2, <3>1
  <2>5. Mirrors(s, file, at, k + 1)
    BY <2>3, <2>4 DEF Mirrors
  <2> QED BY <2>1, <2>5
<1>2. CASE k + 1 \in at
  <2>1. /\ t \in Seq(S) /\ Len(t) = Len(s) + 1 /\ Len(s) \in Nat
        /\ t[Len(s) + 1] = file[k + 1]
        /\ \A m \in DOMAIN s : m \in DOMAIN t /\ t[m] = s[m]
    BY <1>0, <1>2
  <2>2. \A i \in at : i <= k + 1 => \E m \in DOMAIN t : t[m] = file[i]
    <3>1. ASSUME NEW i \in at, i <= k + 1 PROVE \E m \in DOMAIN t : t[m] = file[i]
      <4>1. CASE i = k + 1
        BY <2>1, <4>1
      <4>2. CASE i <= k
        BY <2>1, <4>2 DEF Mirrors
      <4> QED BY <1>0, <3>1, <4>1, <4>2
    <3> QED BY <3>1
  <2>3. ASSUME NEW m \in DOMAIN t
        PROVE  \E i \in at :
                 /\ i <= k + 1 /\ t[m] = file[i]
                 /\ Says(t, m) => \A j \in at : i < j /\ j <= k + 1 => file[j].key # file[i].key
    <3>1. CASE m = Len(s) + 1
      <4>1. \A j \in at : ~ (k + 1 < j /\ j <= k + 1)
        BY <1>0
      <4> QED BY <1>2, <2>1, <3>1, <4>1
    <3>2. CASE m \in DOMAIN s
      <4>1. PICK i \in at :
              /\ i <= k /\ s[m] = file[i]
              /\ Says(s, m) => \A j \in at : i < j /\ j <= k => file[j].key # file[i].key
        BY <3>2 DEF Mirrors
      <4>2. i <= k + 1 /\ t[m] = file[i]
        BY <1>0, <2>1, <3>2, <4>1
      <4>3. ASSUME Says(t, m), NEW j \in at, i < j, j <= k + 1
            PROVE  file[j].key # file[i].key
        <5>1. Says(s, m)
          BY <2>1, <3>2, <4>3 DEF Says
        <5>2. CASE j = k + 1
          <6>1. Len(s) + 1 > m /\ Len(s) + 1 \in DOMAIN t
            BY <2>1, <3>2
          <6> QED BY <2>1, <4>2, <4>3, <5>2, <6>1 DEF Says
        <5>3. CASE j <= k
          BY <4>1, <4>3, <5>1, <5>3
        <5> QED BY <1>0, <4>3, <5>2, <5>3
      <4> QED BY <4>2, <4>3
    <3>3. m = Len(s) + 1 \/ m \in DOMAIN s
      BY <2>1
    <3> QED BY <3>1, <3>2, <3>3
  <2> QED BY <2>1, <2>2, <2>3 DEF Mirrors
<1> QED BY <1>1, <1>2

LEMMA AmongMirrors ==
  ASSUME NEW S, NEW file \in Seq(S), NEW at \in SUBSET DOMAIN file
  PROVE  Among(file, at) \in Seq(S) /\ Mirrors(Among(file, at), file, at, Len(file))
<1> DEFINE n == Len(file)
           one(i) == IF i \in at THEN <<file[i]>> ELSE <<>>
           ss == [i \in DOMAIN file |-> one(i)]
<1>0. /\ n \in Nat /\ DOMAIN file = 1 .. n /\ at \subseteq 1 .. n
      /\ \A i \in DOMAIN file : file[i] \in S /\ one(i) \in Seq(S)
  OBVIOUS
<1>1. ss \in Seq(Seq(S)) /\ Len(ss) = n
  <2>1. ss \in [1 .. n -> Seq(S)]
    BY <1>0
  <2> QED BY <1>0, <2>1, MapIsSeq
<1>2. Among(file, at) = FlattenSeq(ss)
  BY DEF Among
<1> HIDE DEF ss, one
<1>3. CASE n = 0
  <2>1. FlattenSeq(ss) = <<>>
    BY <1>1, <1>3 DEF FlattenSeq
  <2>2. Mirrors(<<>>, file, at, n)
    BY <1>0, <1>3 DEF Mirrors
  <2> QED BY <1>2, <2>1, <2>2
<1>4. CASE n # 0
  <2> DEFINE f == CHOOSE g : FlatTo(ss, Len(ss), g)
             Bad == {k \in 1 .. n : ~ (f[k] \in Seq(S) /\ Mirrors(f[k], file, at, k))}
  <2>1. FlatTo(ss, n, f)
    BY <1>0, <1>1, <1>4, FlatExists
  <2>2. FlattenSeq(ss) = f[n]
    BY <1>1, <1>4 DEF FlattenSeq, FlatTo
  <2>e. \A k \in 1 .. n : f[k] = IF k = 1 THEN ss[k] ELSE f[k - 1] \o ss[k]
    BY <2>1 DEF FlatTo
  <2>s. \A k \in 1 .. n : ss[k] = one(k)
    BY <1>0 DEF ss
  <2> HIDE DEF f
  <2>3. SUFFICES ASSUME Bad # {} PROVE FALSE
    BY <1>0, <1>2, <1>4, <2>2
  <2>4. PICK k \in Bad : \A j \in Bad : k <= j
    <3>1. Bad \in SUBSET Nat
      BY <1>0
    <3> QED BY <2>3, <3>1, NatMin
  <2>5. PICK s \in Seq(S) : Mirrors(s, file, at, k - 1) /\ f[k] = s \o one(k)
    <3>1. CASE k = 1
      <4>1. Mirrors(<<>>, file, at, 0)
        BY <1>0 DEF Mirrors
      <4>2. f[k] = one(k) /\ one(k) \in Seq(S)
        BY <1>0, <2>e, <2>s, <3>1
      <4>3. f[k] = <<>> \o one(k)
        BY <4>2
      <4>4. k - 1 = 0 /\ <<>> \in Seq(S)
        BY <3>1
      <4>5. Mirrors(<<>>, file, at, k - 1)
        BY <4>1, <4>4
      <4> QED BY <4>3, <4>4, <4>5
    <3>2. CASE k # 1
      <4>1. k - 1 \in 1 .. n /\ ~ (k <= k - 1)
        BY <1>0, <3>2
      <4>2. k - 1 \notin Bad
        BY <2>4, <4>1
      <4> QED BY <2>e, <2>s, <3>2, <4>1, <4>2
    <3> QED BY <3>1, <3>2
  <2>6. f[k] \in Seq(S) /\ Mirrors(f[k], file, at, k)
    <3>1. PICK j : j = k - 1
      OBVIOUS
    <3>2. j \in Nat /\ j + 1 = k /\ j + 1 \in DOMAIN file
      BY <1>0, <3>1
    <3>3. f[k] = s \o (IF j + 1 \in at THEN <<file[j + 1]>> ELSE <<>>)
      BY <2>5, <3>2 DEF one
    <3>4. Mirrors(s, file, at, j)
      BY <2>5, <3>1
    <3>5. f[k] \in Seq(S) /\ Mirrors(f[k], file, at, j + 1)
      BY <3>2, <3>3, <3>4, MirrorsStep
    <3> QED BY <3>2, <3>5
  <2> QED BY <2>6
<1> QED BY <1>3, <1>4

\* The same of all places.
LEMMA AmongLines ==
  ASSUME NEW file \in Contents, NEW at \in SUBSET DOMAIN file
  PROVE  /\ Among(file, at) \in Contents
         /\ \A i \in at : \E m \in DOMAIN Among(file, at) : Among(file, at)[m] = file[i]
         /\ \A m \in DOMAIN Among(file, at) : \E i \in at :
              /\ Among(file, at)[m] = file[i]
              /\ Says(Among(file, at), m) => \A j \in at : i < j => file[j].key # file[i].key
<1> DEFINE s == Among(file, at)
<1>1. s \in Contents /\ Mirrors(s, file, at, Len(file))
  BY AmongMirrors DEF Contents
<1>2. \A i \in at : i <= Len(file)
  BY DEF Contents
<1> HIDE DEF s
<1>3. \A i \in at : \E m \in DOMAIN s : s[m] = file[i]
  BY <1>1, <1>2 DEF Mirrors
<1>4. ASSUME NEW m \in DOMAIN s
      PROVE  \E i \in at :
               s[m] = file[i] /\ (Says(s, m) => \A j \in at : i < j => file[j].key # file[i].key)
  <2>1. PICK i \in at :
          /\ i <= Len(file) /\ s[m] = file[i]
          /\ Says(s, m) => \A j \in at : i < j /\ j <= Len(file) => file[j].key # file[i].key
    BY <1>1 DEF Mirrors
  <2> QED BY <1>2, <2>1
<1> QED BY <1>1, <1>3, <1>4 DEF s

\* Max and Min of places.
LEMMA MaxIn ==
  ASSUME NEW n \in Nat, NEW S \in SUBSET (1 .. n), S # {}
  PROVE  Max(S) \in S /\ \A i \in S : i <= Max(S)
<1> DEFINE T == {n - i : i \in S}
<1>0. \A i \in S : i \in Int /\ n - i \in Nat
  OBVIOUS
<1>1. T \in SUBSET Nat /\ T # {}
  BY <1>0
<1>2. PICK t \in T : \A u \in T : t <= u
  BY <1>1, NatMin
<1>3. PICK m \in S : t = n - m
  OBVIOUS
<1>4. ASSUME NEW i \in S PROVE m >= i
  <2>1. t <= n - i
    BY <1>2
  <2> QED BY <1>0, <1>3, <2>1
<1>5. Max(S) \in S /\ \A i \in S : Max(S) >= i
  BY <1>4 DEF Max
<1> QED BY <1>0, <1>5

LEMMA MinIn ==
  ASSUME NEW n \in Nat, NEW S \in SUBSET (1 .. n), S # {}
  PROVE  Min(S) \in S /\ \A i \in S : Min(S) <= i
<1>1. S \in SUBSET Nat
  OBVIOUS
<1>2. PICK m \in S : \A i \in S : m <= i
  BY <1>1, NatMin
<1> QED BY <1>2 DEF Min

-------------------------------------------------------------------------------
(* Contents *)

LEMMA KeysAre ==
  /\ Keys = {"_schema", "api_key_ref", "model", "unlock_auto_mode", "proxy_effort",
             "otlp_headers", "future_key"}
  /\ DOMAIN KeyOrder = 1 .. 7
  /\ \A k \in Keys : \E i \in 1 .. 7 : KeyOrder[i] = k
  /\ \A i \in 1 .. 7 : KeyOrder[i] \in Keys
<1>1. DOMAIN KeyOrder = 1 .. 7
  BY DEF KeyOrder
<1>2. /\ KeyOrder[1] = "_schema" /\ KeyOrder[2] = "api_key_ref" /\ KeyOrder[3] = "model"
      /\ KeyOrder[4] = "unlock_auto_mode" /\ KeyOrder[5] = "proxy_effort"
      /\ KeyOrder[6] = "otlp_headers" /\ KeyOrder[7] = "future_key"
  BY DEF KeyOrder
<1>3. 1 .. 7 = {1, 2, 3, 4, 5, 6, 7}
  OBVIOUS
<1>4. Keys = {KeyOrder[i] : i \in {1, 2, 3, 4, 5, 6, 7}}
  BY <1>1, <1>3 DEF Keys, ToSet
<1> HIDE DEF KeyOrder
<1> QED BY <1>1, <1>2, <1>3, <1>4

\* A key that a file has, has a last line.
LEMMA LastLine ==
  ASSUME NEW file \in Contents, NEW k, HasKey(file, k)
  PROVE  \E i \in DOMAIN file :
           /\ file[i].key = k /\ Says(file, i) /\ LastValue(file, k) = file[i].value
<1> DEFINE S == {i \in DOMAIN file : file[i].key = k}
<1>1. S \in SUBSET (1 .. Len(file)) /\ S # {} /\ Len(file) \in Nat
  BY DEF HasKey, Contents
<1>2. Max(S) \in S /\ \A i \in S : i <= Max(S)
  BY <1>1, MaxIn
<1>3. LastValue(file, k) = file[Max(S)].value
  BY DEF LastValue
<1>4. \A j \in DOMAIN file : j > Max(S) => file[j].key # k
  <2>1. DOMAIN file \subseteq Int /\ Max(S) \in Int
    BY <1>1, <1>2 DEF Contents
  <2>2. ASSUME NEW j \in DOMAIN file, j > Max(S), file[j].key = k PROVE FALSE
    <3>1. j <= Max(S)
      BY <1>2, <2>2
    <3> QED BY <2>1, <2>2, <3>1
  <2> QED BY <2>2
<1> HIDE DEF S
<1>5. Max(S) \in DOMAIN file /\ file[Max(S)].key = k
  BY <1>2 DEF S
<1> QED BY <1>3, <1>4, <1>5 DEF Says

\* Two last lines of a key are the same line.
LEMMA LastIsOne ==
  ASSUME NEW file \in Contents, NEW i \in DOMAIN file, NEW j \in DOMAIN file,
         Says(file, i), Says(file, j), file[i].key = file[j].key
  PROVE  i = j
<1>1. i \in Int /\ j \in Int
  BY DEF Contents
<1> QED BY <1>1 DEF Says

LEMMA LastValueIs ==
  ASSUME NEW file \in Contents, NEW i \in DOMAIN file, Says(file, i)
  PROVE  LastValue(file, file[i].key) = file[i].value
<1>1. PICK j \in DOMAIN file :
        file[j].key = file[i].key /\ Says(file, j) /\ LastValue(file, file[i].key) = file[j].value
  BY LastLine DEF HasKey
<1> QED BY <1>1, LastIsOne

\* The schema number, when all _schema lines agree on it.
LEMMA SchemaOfAll ==
  ASSUME NEW file \in Contents, HasKey(file, "_schema"),
         \A i \in DOMAIN file : file[i].key = "_schema" => file[i].value = Current
  PROVE  SchemaOf(file) = Current
<1> DEFINE S == {i \in DOMAIN file : file[i].key = "_schema"}
<1>1. S \in SUBSET (1 .. Len(file)) /\ S # {} /\ Len(file) \in Nat
  BY DEF HasKey, Contents
<1>2. Min(S) \in S
  BY <1>1, MinIn
<1>3. file[Min(S)].value = Current
  BY <1>2
<1> QED BY <1>1, <1>3 DEF SchemaOf, Numbers

LEMMA SchemaLine ==
  /\ Line("_schema", Current) \in Lines
  /\ \A k, v : Line(k, v).key = k /\ Line(k, v).value = v
BY KeysAre, ConfigAssumption DEF Line, Lines, Numbers, Current

\* A repaired file has the known keys of the damaged one, each with its last value,
\* and the current schema.
LEMMA RepairedLines ==
  ASSUME NEW file \in Contents, NEW out, out = Repaired(file)
  PROVE  /\ out \in Contents /\ HasKey(out, "_schema")
         /\ \A m \in DOMAIN out :
              /\ out[m].key \in Known
              /\ out[m].key = "_schema" => out[m].value = Current
              /\ out[m].key # "_schema" => /\ HasKey(file, out[m].key)
                                           /\ out[m].value = LastValue(file, out[m].key)
         /\ \A k \in Known : HasKey(file, k) => HasKey(out, k)
<1> DEFINE firsts == {i \in DOMAIN file : /\ file[i].key \in Known
                                          /\ \A j \in 1 .. i - 1 : file[j].key # file[i].key}
           kept == Among(Latest(file), firsts)
           head == Line("_schema", Current)
<1>0. Len(file) \in Nat /\ DOMAIN file = 1 .. Len(file) /\ \A i \in DOMAIN file : file[i] \in Lines
  BY DEF Contents
<1>1. ASSUME NEW i \in DOMAIN file
      PROVE  /\ Latest(file)[i] \in Lines
             /\ Latest(file)[i].key = file[i].key
             /\ file[i].key = "_schema" => Latest(file)[i].value = Current
             /\ file[i].key # "_schema" => Latest(file)[i].value = LastValue(file, file[i].key)
  <2>1. LastValue(file, file[i].key) \in Values
    <3>1. HasKey(file, file[i].key)
      BY DEF HasKey
    <3>2. PICK j \in DOMAIN file : LastValue(file, file[i].key) = file[j].value
      BY <3>1, LastLine
    <3> QED BY <1>0, <3>2 DEF Lines
  <2>2. Current \in Values
    BY ConfigAssumption DEF Numbers
  <2> QED BY <1>0, <2>1, <2>2 DEF Latest, Line, Lines
<1>2. Latest(file) \in Contents /\ DOMAIN Latest(file) = DOMAIN file
  <2>1. DOMAIN Latest(file) = 1 .. Len(file)
    BY <1>0 DEF Latest
  <2>2. Latest(file) \in [1 .. Len(file) -> Lines]
    BY <1>0, <1>1, <2>1 DEF Latest
  <2> QED BY <1>0, <2>1, <2>2, MapIsSeq DEF Contents
<1>3. /\ kept \in Contents
      /\ \A i \in firsts : \E m \in DOMAIN kept : kept[m] = Latest(file)[i]
      /\ \A m \in DOMAIN kept : \E i \in firsts : kept[m] = Latest(file)[i]
  <2>1. firsts \in SUBSET DOMAIN Latest(file)
    BY <1>2
  <2> HIDE DEF firsts
  <2>2. PICK lines \in Contents : lines = Latest(file) /\ firsts \in SUBSET DOMAIN lines
    BY <1>2, <2>1
  <2>3. PICK s : s = Among(lines, firsts)
    OBVIOUS
  <2>4. /\ s \in Contents
        /\ \A i \in firsts : \E m \in DOMAIN s : s[m] = lines[i]
        /\ \A m \in DOMAIN s : \E i \in firsts : s[m] = lines[i]
    BY <2>2, <2>3, AmongLines
  <2>5. kept = s
    BY <2>2, <2>3
  <2> QED BY <2>2, <2>4, <2>5
<1>4. ASSUME NEW m \in DOMAIN kept
      PROVE  /\ kept[m].key \in Known
             /\ kept[m].key = "_schema" => kept[m].value = Current
             /\ kept[m].key # "_schema" => /\ HasKey(file, kept[m].key)
                                           /\ kept[m].value = LastValue(file, kept[m].key)
  <2>1. PICK i \in firsts : kept[m] = Latest(file)[i]
    BY <1>3
  <2> QED BY <1>1, <2>1 DEF HasKey
<1>5. ASSUME NEW k \in Known, HasKey(file, k)
      PROVE  HasKey(kept, k)
  <2> DEFINE S == {i \in DOMAIN file : file[i].key = k}
  <2>1. S \in SUBSET Nat /\ S # {}
    BY <1>0, <1>5 DEF HasKey
  <2>2. PICK i \in S : \A j \in S : i <= j
    BY <2>1, NatMin
  <2>3. i \in firsts
    <3>1. ASSUME NEW j \in 1 .. i - 1 PROVE file[j].key # k
      <4>1. j \in DOMAIN file /\ ~ (i <= j)
        BY <1>0
      <4> QED BY <2>2, <4>1
    <3> QED BY <1>5, <3>1
  <2> HIDE DEF kept
  <2>4. PICK m \in DOMAIN kept : kept[m] = Latest(file)[i]
    BY <1>3, <2>3
  <2> QED BY <1>1, <2>4 DEF HasKey
<1>6. CASE HasKey(file, "_schema")
  <2>1. out = kept
    BY <1>6 DEF Repaired
  <2>2. "_schema" \in Known
    BY KeysAre DEF Known
  <2> HIDE DEF kept
  <2> QED BY <1>3, <1>4, <1>5, <1>6, <2>1, <2>2
<1>7. CASE ~ HasKey(file, "_schema")
  <2>1. out = <<head>> \o kept
    BY <1>7 DEF Repaired
  <2>2. "_schema" \in Known /\ head \in Lines /\ head.key = "_schema" /\ head.value = Current
    BY KeysAre, SchemaLine DEF Known
  <2> HIDE DEF kept, head
  <2>3. /\ out \in Contents /\ 1 \in DOMAIN out /\ out[1] = head
        /\ \A m \in DOMAIN kept : m + 1 \in DOMAIN out /\ out[m + 1] = kept[m]
        /\ \A m \in DOMAIN out : m = 1 \/ (m - 1 \in DOMAIN kept /\ out[m] = kept[m - 1])
    BY <1>3, <2>1, <2>2 DEF Contents
  <2>4. ASSUME NEW k \in Known, HasKey(file, k)
        PROVE  HasKey(out, k)
    BY <1>5, <2>3, <2>4 DEF HasKey
  <2>5. HasKey(out, "_schema")
    BY <2>2, <2>3 DEF HasKey
  <2>6. ASSUME NEW m \in DOMAIN out
        PROVE  /\ out[m].key \in Known
               /\ out[m].key = "_schema" => out[m].value = Current
               /\ out[m].key # "_schema" => /\ HasKey(file, out[m].key)
                                            /\ out[m].value = LastValue(file, out[m].key)
    <3>1. CASE m = 1
      BY <2>2, <2>3, <3>1
    <3>2. CASE m - 1 \in DOMAIN kept /\ out[m] = kept[m - 1]
      BY <1>4, <3>2
    <3> QED BY <2>3, <3>1, <3>2
  <2> QED BY <2>3, <2>4, <2>5, <2>6
<1> QED BY <1>6, <1>7

\* A migrated file has the lines of the old one but for the schema's, which is current.
LEMMA MigratedLines ==
  ASSUME NEW file \in Contents, NEW out, out = Migrated(file)
  PROVE  /\ out \in Contents /\ HasKey(out, "_schema")
         /\ \A m \in DOMAIN out :
              \/ out[m].key = "_schema" /\ out[m].value = Current
              \/ out[m].key # "_schema" /\ \E i \in DOMAIN file :
                   out[m] = file[i] /\ (Says(out, m) => Says(file, i))
         /\ \A i \in DOMAIN file :
              file[i].key # "_schema" => \E m \in DOMAIN out : out[m] = file[i]
<1> DEFINE at == {i \in DOMAIN file : file[i].key # "_schema"}
           rest == Among(file, at)
           head == Line("_schema", Current)
<1>1. out = <<head>> \o rest
  BY DEF Migrated
<1>2. head \in Lines /\ head.key = "_schema" /\ head.value = Current
  BY SchemaLine
<1>3. /\ rest \in Contents
      /\ \A i \in at : \E m \in DOMAIN rest : rest[m] = file[i]
      /\ \A m \in DOMAIN rest : \E i \in at :
           /\ rest[m] = file[i]
           /\ Says(rest, m) => \A j \in at : i < j => file[j].key # file[i].key
  <2>1. at \in SUBSET DOMAIN file
    OBVIOUS
  <2> HIDE DEF at
  <2> QED BY <2>1, AmongLines
<1> HIDE DEF rest, head
<1>4. /\ out \in Contents /\ 1 \in DOMAIN out /\ out[1] = head
      /\ \A m \in DOMAIN rest : m + 1 \in DOMAIN out /\ out[m + 1] = rest[m]
      /\ \A m \in DOMAIN out : m = 1 \/ (m - 1 \in DOMAIN rest /\ out[m] = rest[m - 1])
  BY <1>1, <1>2, <1>3 DEF Contents
<1>5. HasKey(out, "_schema")
  BY <1>2, <1>4 DEF HasKey
<1>6. ASSUME NEW m \in DOMAIN out
      PROVE  \/ out[m].key = "_schema" /\ out[m].value = Current
             \/ out[m].key # "_schema" /\ \E i \in DOMAIN file :
                  out[m] = file[i] /\ (Says(out, m) => Says(file, i))
  <2>1. CASE m = 1
    BY <1>2, <1>4, <2>1
  <2>2. CASE m - 1 \in DOMAIN rest /\ out[m] = rest[m - 1]
    <3>1. PICK i \in at :
            /\ rest[m - 1] = file[i]
            /\ Says(rest, m - 1) => \A j \in at : i < j => file[j].key # file[i].key
      BY <1>3, <2>2
    <3>2. ASSUME Says(out, m) PROVE Says(file, i)
      <4>1. Says(rest, m - 1)
        <5>1. ASSUME NEW j \in DOMAIN rest, j > m - 1 PROVE rest[j].key # rest[m - 1].key
          <6>1. j + 1 \in DOMAIN out /\ out[j + 1] = rest[j] /\ j + 1 > m
            BY <1>3, <1>4, <5>1 DEF Contents
          <6> QED BY <2>2, <3>2, <6>1 DEF Says
        <5> QED BY <5>1 DEF Says
      <4>2. ASSUME NEW j \in DOMAIN file, j > i PROVE file[j].key # file[i].key
        <5>1. i < j
          BY <4>2 DEF Contents
        <5> QED BY <3>1, <4>1, <5>1
      <4> QED BY <4>2 DEF Says
    <3> QED BY <2>2, <3>1, <3>2
  <2> QED BY <1>4, <2>1, <2>2
<1>7. ASSUME NEW i \in DOMAIN file, file[i].key # "_schema"
      PROVE  \E m \in DOMAIN out : out[m] = file[i]
  <2>1. PICK m \in DOMAIN rest : rest[m] = file[i]
    BY <1>3, <1>7
  <2> QED BY <1>4, <2>1
<1> QED BY <1>4, <1>5, <1>6, <1>7

\* What a value of a line sets its key to.
Setting(k, v) == IF Coerced(k, v) = NoValue THEN Default[k] ELSE Coerced(k, v)

LEMMA DefaultType == Default \in Cfgs /\ Default["_schema"] = NoValue
  BY KeysAre, ConfigAssumption DEF Default, Cfgs

LEMMA CoercedType == \A k \in Keys : \A v \in Values : Coerced(k, v) \in Values
<1>1. "1" \in Values /\ NoValue \in Values
  BY KeysAre, ConfigAssumption DEF Numbers, Current, Default
<1> QED BY <1>1 DEF Coerced

\* A loaded configuration has the last value of each key, or its default.
LEMMA ParsedIs ==
  ASSUME NEW file \in Contents, NEW cfg, cfg = Parsed(file)
  PROVE  /\ cfg \in Cfgs
         /\ EnvHeaders # NoValue => cfg["otlp_headers"] = EnvHeaders
         /\ \A k \in Keys \ {"_schema"} : k # "otlp_headers" \/ EnvHeaders = NoValue =>
              cfg[k] = IF HasKey(file, k) THEN Setting(k, LastValue(file, k)) ELSE Default[k]
         /\ HasKey(file, "_schema") /\ (\A i \in DOMAIN file :
              file[i].key = "_schema" => file[i].value = Current)
            => cfg["_schema"] = Current
<1> DEFINE lines(k) == {i \in DOMAIN file : /\ file[i].key = k
                                            /\ k = "_schema" => file[i].value \in Numbers}
           value(k) == IF lines(k) = {} THEN NoValue ELSE Coerced(k, file[Max(lines(k))].value)
<1>1. cfg = [k \in Keys |->
               CASE k = "otlp_headers" /\ EnvHeaders # NoValue -> EnvHeaders
                 [] k # "otlp_headers" /\ value(k) = NoValue   -> Default[k]
                 [] OTHER                                      -> value(k)]
  BY DEF Parsed
<1>0. Len(file) \in Nat /\ DOMAIN file = 1 .. Len(file) /\ \A i \in DOMAIN file : file[i] \in Lines
  BY DEF Contents
<1>2. ASSUME NEW k, lines(k) # {}
      PROVE  Max(lines(k)) \in lines(k) /\ Max(lines(k)) \in DOMAIN file
  <2>1. lines(k) \in SUBSET (1 .. Len(file))
    BY <1>0
  <2> QED BY <1>0, <1>2, <2>1, MaxIn
<1>3. ASSUME NEW k \in Keys PROVE value(k) \in Values
  <2>1. CASE lines(k) = {}
    BY <2>1, KeysAre, ConfigAssumption, DefaultType
  <2>2. CASE lines(k) # {}
    <3>1. file[Max(lines(k))].value \in Values
      BY <1>0, <1>2, <2>2 DEF Lines
    <3> QED BY <2>2, <3>1, CoercedType
  <2> QED BY <2>1, <2>2
<1>4. value("_schema") \in Numbers \cup {NoValue}
  <2>1. CASE lines("_schema") # {}
    <3>1. file[Max(lines("_schema"))].value \in Numbers
      BY <1>2, <2>1
    <3> QED BY <2>1, <3>1 DEF Coerced
  <2> QED BY <2>1
<1>5. ASSUME NEW k \in Keys \ {"_schema"}
      PROVE  value(k) = IF HasKey(file, k) THEN Coerced(k, LastValue(file, k)) ELSE NoValue
  <2>1. lines(k) = {i \in DOMAIN file : file[i].key = k}
    OBVIOUS
  <2>2. HasKey(file, k) <=> lines(k) # {}
    BY <2>1 DEF HasKey
  <2> QED BY <2>1, <2>2 DEF LastValue
<1>6. ASSUME HasKey(file, "_schema"),
             \A i \in DOMAIN file : file[i].key = "_schema" => file[i].value = Current
      PROVE  value("_schema") = Current
  <2>1. lines("_schema") # {}
    BY <1>6 DEF HasKey, Numbers
  <2>2. file[Max(lines("_schema"))].value = Current
    BY <1>2, <1>6, <2>1
  <2> QED BY <2>1, <2>2 DEF Coerced
<1> HIDE DEF value
<1>7. cfg \in Cfgs
  <2>1. ASSUME NEW k \in Keys PROVE cfg[k] \in Values
    BY <1>1, <1>3, DefaultType, ConfigAssumption DEF Cfgs
  <2>2. cfg["_schema"] \in Numbers \cup {NoValue}
    BY <1>1, <1>4, KeysAre, DefaultType
  <2>3. cfg \in [Keys -> Values]
    BY <1>1, <2>1
  <2> QED BY <2>2, <2>3 DEF Cfgs
<1>8. EnvHeaders # NoValue => cfg["otlp_headers"] = EnvHeaders
  BY <1>1, KeysAre
<1>9. ASSUME NEW k \in Keys \ {"_schema"}, k # "otlp_headers" \/ EnvHeaders = NoValue
      PROVE  cfg[k] = IF HasKey(file, k) THEN Setting(k, LastValue(file, k)) ELSE Default[k]
  <2>1. Default["otlp_headers"] = NoValue
    BY KeysAre DEF Default
  <2>2. cfg[k] = IF value(k) = NoValue THEN Default[k] ELSE value(k)
    BY <1>1, <1>9, <2>1
  <2> QED BY <1>5, <2>2 DEF Setting
<1>10. value("_schema") = Current => cfg["_schema"] = Current
  BY <1>1, KeysAre DEF Current, NoValue
<1> QED BY <1>6, <1>7, <1>8, <1>9, <1>10

\* What is written of a configuration: each line is a setting, one for each setting
\* that is not the default, and the schema.
LEMMA SerializedLines ==
  ASSUME NEW cfg \in Cfgs, NEW out, out = Serialized(cfg)
  PROVE  /\ out \in Contents /\ HasKey(out, "_schema")
         /\ \A m \in DOMAIN out :
              /\ out[m].key \in Keys /\ out[m].value # NoValue
              /\ out[m].key = "_schema" /\ cfg["_schema"] # "2" => out[m].value = Current
              /\ out[m].key # "_schema" => out[m].value = cfg[out[m].key]
         /\ \A k \in Keys \ {"_schema"} : cfg[k] \notin {NoValue, Default[k]} => HasKey(out, k)
<1> DEFINE file == AllLines(cfg)
           at == Emitted(file)
<1>1. /\ DOMAIN file = 1 .. 7
      /\ \A i \in 1 .. 7 :
           /\ file[i].key = KeyOrder[i]
           /\ file[i].value = IF KeyOrder[i] = "_schema" /\ cfg["_schema"] \in {NoValue, "0"}
                              THEN Current ELSE cfg[KeyOrder[i]]
           /\ file[i] \in Lines
  <2>1. ASSUME NEW i \in 1 .. 7
        PROVE  /\ file[i].key = KeyOrder[i]
               /\ file[i].value = IF KeyOrder[i] = "_schema" /\ cfg["_schema"] \in {NoValue, "0"}
                                  THEN Current ELSE cfg[KeyOrder[i]]
               /\ file[i] \in Lines
    <3>1. Current \in Values
      BY ConfigAssumption DEF Numbers
    <3>2. KeyOrder[i] \in Keys /\ cfg[KeyOrder[i]] \in Values
      BY KeysAre DEF Cfgs
    <3>3. i \in DOMAIN KeyOrder
      BY KeysAre
    <3> QED BY <3>1, <3>2, <3>3 DEF AllLines, Line, Lines
  <2>2. DOMAIN file = DOMAIN KeyOrder
    BY DEF AllLines
  <2> QED BY <2>1, <2>2, KeysAre
<1>2. file \in Contents
  <2>1. file \in [1 .. 7 -> Lines]
    BY <1>1 DEF AllLines
  <2> QED BY <2>1, MapIsSeq DEF Contents
<1>3. at \in SUBSET DOMAIN file
  BY DEF Emitted
<1>4. \A i \in at : i \in 1 .. 7 /\ file[i].value \notin {NoValue, Default[file[i].key]}
  BY <1>1 DEF Emitted
<1>5. \A i \in 1 .. 7 : file[i].value \notin {NoValue, Default[file[i].key]} => i \in at
  BY <1>1 DEF Emitted
<1>6. out = Among(file, at)
  BY DEF Serialized
<1> HIDE DEF file, at
<1>7. /\ out \in Contents
      /\ \A i \in at : \E m \in DOMAIN out : out[m] = file[i]
      /\ \A m \in DOMAIN out : \E i \in at : out[m] = file[i]
  BY <1>2, <1>3, <1>6, AmongLines
<1>s. cfg["_schema"] \in Numbers \cup {NoValue} /\ Default["_schema"] = NoValue
  BY DefaultType DEF Cfgs
<1>8. HasKey(out, "_schema")
  <2>1. PICK i \in 1 .. 7 : KeyOrder[i] = "_schema"
    BY KeysAre
  <2>2. file[i].key = "_schema" /\ file[i].value \in Numbers
    BY <1>1, <1>s, <2>1 DEF Numbers, Current
  <2>3. i \in at
    BY <1>5, <1>s, <2>2 DEF Numbers, NoValue, Current
  <2> QED BY <1>7, <2>2, <2>3 DEF HasKey
<1>9. ASSUME NEW m \in DOMAIN out
      PROVE  /\ out[m].key \in Keys /\ out[m].value # NoValue
             /\ out[m].key = "_schema" /\ cfg["_schema"] # "2" => out[m].value = Current
             /\ out[m].key # "_schema" => out[m].value = cfg[out[m].key]
  <2>1. PICK i \in at : out[m] = file[i]
    BY <1>7
  <2>2. i \in 1 .. 7 /\ out[m].key = KeyOrder[i] /\ out[m].value # NoValue
    BY <1>1, <1>4, <2>1
  <2>3. out[m].key = "_schema" /\ cfg["_schema"] # "2" => out[m].value = Current
    BY <1>1, <1>s, <2>1, <2>2 DEF Numbers, Current
  <2>4. out[m].key # "_schema" => out[m].value = cfg[out[m].key]
    BY <1>1, <2>1, <2>2
  <2> QED BY <2>2, <2>3, <2>4, KeysAre
<1>10. ASSUME NEW k \in Keys \ {"_schema"}, cfg[k] \notin {NoValue, Default[k]}
       PROVE  HasKey(out, k)
  <2>1. PICK i \in 1 .. 7 : KeyOrder[i] = k
    BY KeysAre
  <2>2. file[i].key = k /\ file[i].value = cfg[k]
    BY <1>1, <2>1
  <2>3. i \in at
    BY <1>5, <1>10, <2>2
  <2> QED BY <1>7, <2>2, <2>3 DEF HasKey
<1> QED BY <1>7, <1>8, <1>9, <1>10

LEMMA OverlaysType ==
  ASSUME NEW old \in Contents \cup {Absent}, NEW new \in Contents, NEW file \in Overlays(old, new)
  PROVE  file \in Contents
<1>1. CASE old \in {Absent, <<>>}
  BY <1>1 DEF Overlays
<1>2. CASE old \notin {Absent, <<>>}
  <2>1. \A n \in 2 .. Len(old) + 1 : SubSeq(old, n, Len(old)) \in Contents
    BY <1>2 DEF Contents
  <2>2. <<Garbage>> \in Contents
    BY KeysAre, DefaultType, ConfigAssumption DEF Garbage, Line, Lines, Contents, Cfgs
  <2>3. \A u, v \in Contents : u \o v \in Contents
    BY DEF Contents
  <2>4. Behind(old) \subseteq Contents
    BY <2>1, <2>2, <2>3 DEF Behind
  <2> QED BY <1>2, <2>3, <2>4 DEF Overlays
<1> QED BY <1>1, <1>2

\* A write into a file that was emptied leaves what was written.
LEMMA OverlaysEmpty == \A new : Overlays(<<>>, new) = {new}
  BY DEF Overlays

-------------------------------------------------------------------------------
(* Types, for any number of processes.  There is a configuration file once *)
(* a command has looked for it, so what is read is a sequence of lines.    *)

Past == PCs \ (Ended \cup {"stat", "open"})

TypeInv == TypeOK /\ \A p \in Procs : proc[p].pc \in Past => config \in Contents

LEMMA StepType ==
  ASSUME TypeInv, NEW p \in Procs, NEW s \in Proc, Becomes(p, s),
         config' \in Contents \cup {Absent}, backup' \in [Names -> Contents \cup {Absent}],
         config \in Contents \/ s.pc \in Past => config' \in Contents
  PROVE  TypeInv'
<1>1. /\ proc' \in [Procs -> Proc] /\ proc'[p] = s /\ runs' = runs
      /\ \A q \in Procs \ {p} : proc'[q] = proc[q]
  BY DEF TypeInv, TypeOK, Becomes
<1>2. ASSUME NEW q \in Procs, proc'[q].pc \in Past PROVE config' \in Contents
  <2>1. CASE q = p
    BY <1>1, <1>2, <2>1
  <2>2. CASE q # p
    BY <1>1, <1>2, <2>2 DEF TypeInv
  <2> QED BY <2>1, <2>2
<1> QED BY <1>1, <1>2 DEF TypeInv, TypeOK

\* The same of a step that only reads.
LEMMA ReadType ==
  ASSUME TypeInv, NEW p \in Procs, NEW s \in Proc, Becomes(p, s), OnlyReads,
         s.pc \in Past => config \in Contents
  PROVE  TypeInv'
<1>1. config \in Contents \cup {Absent} /\ backup \in [Names -> Contents \cup {Absent}]
  BY DEF TypeInv, TypeOK
<1>2. config' = config /\ backup' = backup
  BY DEF OnlyReads
<1> QED BY <1>1, <1>2, StepType

LEMMA EmptyFile == <<>> \in Contents
  BY DEF Contents

LEMMA OnboardedType ==
  ASSUME NEW cfg \in Cfgs, NEW ref \in Refs, NEW effort \in Efforts, NEW auto \in {NoValue, "1"},
         NEW out, out = Onboarded(cfg, ref, effort, auto)
  PROVE  /\ out \in Cfgs /\ out["_schema"] = Current
         /\ out["api_key_ref"] = ref /\ out["proxy_effort"] = effort
         /\ out["unlock_auto_mode"] = auto
         /\ \A k \in Keys \ {"_schema", "api_key_ref", "proxy_effort", "unlock_auto_mode"} :
              out[k] = cfg[k]
<1>1. {ref, effort, auto, Current} \subseteq Values
  <2>1. NoValue \in Values
    BY DefaultType, KeysAre DEF Cfgs
  <2> QED BY <2>1, ConfigAssumption DEF Numbers, Current
<1>2. cfg \in [Keys -> Values]
  BY DEF Cfgs
<1>3. out \in [Keys -> Values]
  BY <1>1, <1>2 DEF Onboarded
<1> QED BY <1>2, <1>3, KeysAre DEF Onboarded, Cfgs, Numbers

LEMMA RotatedType ==
  ASSUME NEW cfg \in Cfgs, NEW ref \in Refs, NEW out, out = Rotated(cfg, ref)
  PROVE  /\ out \in Cfgs /\ out["api_key_ref"] = ref
         /\ \A k \in Keys \ {"api_key_ref"} : out[k] = cfg[k]
<1>1. ref \in Values
  BY ConfigAssumption
<1>2. cfg \in [Keys -> Values]
  BY DEF Cfgs
<1> QED BY <1>1, <1>2, KeysAre DEF Rotated, Cfgs

LEMMA InitType == Init => TypeInv
<1> SUFFICES ASSUME Init PROVE TypeInv
  OBVIOUS
<1>1. NewProc \in Proc
  BY DefaultType, EmptyFile DEF NewProc, Proc, PCs, Ended, Commands, Names
<1>2. proc \in [Procs -> Proc] /\ \A p \in Procs : proc[p].pc = "idle"
  BY <1>1 DEF Init, NewProc
<1>3. config \in Contents \cup {Absent} /\ backup \in [Names -> Contents \cup {Absent}]
  BY ConfigAssumption DEF Init
<1> QED BY <1>2, <1>3, ConfigAssumption DEF Init, TypeInv, TypeOK, Past, Ended

LEMMA BeginType ==
  ASSUME TypeInv, NEW p \in Procs, Begin(p)
  PROVE  TypeInv'
<1>1. PICK cmd \in Cmds :
        proc' = [proc EXCEPT ![p] = [NewProc EXCEPT !.pc = "stat", !.cmd = cmd, !.orig = config]]
  BY DEF Begin
<1> DEFINE s == [NewProc EXCEPT !.pc = "stat", !.cmd = cmd, !.orig = config]
<1>2. s \in Proc /\ s.pc = "stat"
  <2>1. cmd \in Commands
    BY ConfigAssumption DEF Commands
  <2> QED BY <2>1, DefaultType, EmptyFile
          DEF NewProc, Proc, PCs, Ended, Commands, Names, TypeInv, TypeOK
<1> HIDE DEF s
<1>3. /\ proc' \in [Procs -> Proc] /\ proc'[p] = s
      /\ \A q \in Procs \ {p} : proc'[q] = proc[q]
  BY <1>1, <1>2 DEF TypeInv, TypeOK, s
<1>4. runs' \in 0 .. MaxRuns /\ config' = config /\ backup' = backup
  BY ConfigAssumption DEF Begin, OnlyReads, TypeInv, TypeOK
<1>5. ASSUME NEW q \in Procs, proc'[q].pc \in Past PROVE config' \in Contents
  <2>1. q # p
    BY <1>2, <1>3, <1>5 DEF Past
  <2> QED BY <1>3, <1>4, <1>5, <2>1 DEF TypeInv
<1> QED BY <1>3, <1>4, <1>5 DEF TypeInv, TypeOK

\* A process whose place is past the look for the file has one.
LEMMA ProcType ==
  ASSUME TypeInv, NEW p \in Procs
  PROVE  /\ proc[p] \in Proc
         /\ config \in Contents \cup {Absent} /\ backup \in [Names -> Contents \cup {Absent}]
         /\ proc[p].pc \in Past => config \in Contents
  BY DEF TypeInv, TypeOK

LEMMA StatType ==
  ASSUME TypeInv, NEW p \in Procs, Stat(p)
  PROVE  TypeInv'
<1>1. CASE config = Absent
  <2>1. PICK ref \in Refs, effort \in Efforts, auto \in {NoValue, "1"} :
          LET cfg == Onboarded(Default, ref, effort, auto)
          IN  Becomes(p, [proc[p] EXCEPT !.pc = "open", !.cfg = cfg, !.data = Serialized(cfg),
                            !.then = IF proc[p].cmd = "launch" THEN "validate" ELSE "done"])
    BY <1>1 DEF Stat
  <2>2. PICK cfg \in Cfgs : cfg = Onboarded(Default, ref, effort, auto)
    BY OnboardedType, DefaultType
  <2>3. PICK data \in Contents : data = Serialized(cfg)
    BY SerializedLines
  <2> DEFINE s == [proc[p] EXCEPT !.pc = "open", !.cfg = cfg, !.data = data,
                     !.then = IF proc[p].cmd = "launch" THEN "validate" ELSE "done"]
  <2>4. s \in Proc /\ s.pc = "open"
    BY ProcType DEF Proc, PCs, Ended
  <2>5. Becomes(p, s)
    BY <2>1, <2>2, <2>3
  <2> HIDE DEF s
  <2> QED BY <2>4, <2>5, ReadType DEF Stat, Past
<1>2. CASE config # Absent
  <2> DEFINE s == [proc[p] EXCEPT !.pc = "validate"]
  <2>1. s \in Proc
    BY ProcType DEF Proc, PCs, Ended
  <2>2. Becomes(p, s)
    BY <1>2 DEF Stat
  <2>3. config \in Contents
    BY <1>2, ProcType
  <2> HIDE DEF s
  <2> QED BY <2>1, <2>2, <2>3, ReadType DEF Stat
<1> QED BY <1>1, <1>2

LEMMA LoadType ==
  ASSUME TypeInv, NEW p \in Procs,
         Validate(p) \/ RepairConfig(p) \/ MigrateConfig(p) \/ MigrateFromV(p) \/ Parse(p)
  PROVE  TypeInv'
<1>1. config \in Contents
  BY ProcType
     DEF Validate, RepairConfig, MigrateConfig, MigrateFromV, Parse, At, Past, PCs, Ended
<1>2. PICK s \in Proc : Becomes(p, s)
  <2>1. CASE Validate(p)
    BY <2>1, ProcType DEF Validate, Proc, PCs, Ended
  <2>2. CASE RepairConfig(p)
    <3>1. PICK data \in Contents : data = Repaired(config)
      BY <1>1, RepairedLines
    <3>2. PICK stamp \in Stamps :
            Becomes(p, [proc[p] EXCEPT !.pc = "copy", !.target = stamp, !.data = data,
                                       !.then = "schema"])
      BY <2>2, <3>1 DEF RepairConfig
    <3> QED BY <3>2, ProcType DEF Proc, PCs, Ended, Names
  <2>3. CASE MigrateConfig(p)
    <3>1. \/ Becomes(p, [proc[p] EXCEPT !.pc = "parse"])
          \/ Becomes(p, [proc[p] EXCEPT !.pc = "failed"])
          \/ Becomes(p, [proc[p] EXCEPT !.pc = "copy", !.target = "v0", !.then = "migrate"])
      BY <2>3 DEF MigrateConfig
    <3> QED BY <3>1, ProcType DEF Proc, PCs, Ended, Names
  <2>4. CASE MigrateFromV(p)
    <3>1. PICK data \in Contents : data = Migrated(config)
      BY <1>1, MigratedLines
    <3>2. Becomes(p, [proc[p] EXCEPT !.pc = "open", !.data = data, !.then = "parse"])
      BY <2>4, <3>1 DEF MigrateFromV
    <3> QED BY <3>2, ProcType DEF Proc, PCs, Ended
  <2>5. CASE Parse(p)
    <3>1. PICK cfg \in Cfgs : cfg = Parsed(config)
      BY <1>1, ParsedIs
    <3>2. \/ Becomes(p, [proc[p] EXCEPT !.pc = "failed"])
          \/ Becomes(p, [proc[p] EXCEPT !.cfg = cfg, !.pc = "done"])
          \/ Becomes(p, [proc[p] EXCEPT !.cfg = cfg, !.pc = "edit"])
      BY <2>5, <3>1 DEF Parse
    <3> QED BY <3>2, ProcType DEF Proc, PCs, Ended
  <2> QED BY <2>1, <2>2, <2>3, <2>4, <2>5
<1>3. OnlyReads
  BY DEF Validate, RepairConfig, MigrateConfig, MigrateFromV, Parse
<1> QED BY <1>1, <1>2, <1>3, ReadType

LEMMA EditType ==
  ASSUME TypeInv, NEW p \in Procs, KeepConfig(p) \/ Edit(p) \/ Crash(p)
  PROVE  TypeInv'
<1>1. CASE KeepConfig(p) \/ Crash(p)
  <2>1. PICK x \in {"done", "crashed"} : Becomes(p, [proc[p] EXCEPT !.pc = x])
    BY <1>1 DEF KeepConfig, Crash
  <2>2. PICK s \in Proc : Becomes(p, s) /\ s.pc \notin Past
    BY <2>1, ProcType DEF Proc, PCs, Ended, Past
  <2> QED BY <1>1, <2>2, ReadType DEF KeepConfig, Crash
<1>2. CASE Edit(p)
  <2>0. proc[p].cfg \in Cfgs
    BY ProcType DEF Proc
  <2>1. PICK ref, effort, auto, cfg :
          /\ ref \in Refs /\ effort \in Efforts /\ auto \in {NoValue, "1"}
          /\ \/ cfg = Onboarded(proc[p].cfg, ref, effort, auto)
             \/ cfg = Rotated(proc[p].cfg, ref)
          /\ Becomes(p, [proc[p] EXCEPT !.pc = "open", !.cfg = cfg, !.data = Serialized(cfg),
                                        !.then = "done"])
    BY <1>2 DEF Edit
  <2>2. cfg \in Cfgs
    BY <2>0, <2>1, OnboardedType, RotatedType
  <2>3. PICK data \in Contents : data = Serialized(cfg)
    BY <2>2, SerializedLines
  <2>4. Becomes(p, [proc[p] EXCEPT !.pc = "open", !.cfg = cfg, !.data = data, !.then = "done"])
    BY <2>1, <2>3
  <2> DEFINE s == [proc[p] EXCEPT !.pc = "open", !.cfg = cfg, !.data = data, !.then = "done"]
  <2>5. s \in Proc /\ s.pc \notin Past
    BY <2>2, <2>3, ProcType DEF Proc, PCs, Ended, Past
  <2> HIDE DEF s
  <2>6. Becomes(p, s)
    BY <2>4 DEF s
  <2> QED BY <1>2, <2>5, <2>6, ReadType DEF Edit
<1> QED BY <1>1, <1>2

LEMMA CopyType ==
  ASSUME TypeInv, NEW p \in Procs, CopyRead(p) \/ CopyOpen(p) \/ CopyWrite(p)
  PROVE  TypeInv'
<1>0. config \in Contents /\ proc[p] \in Proc /\ backup \in [Names -> Contents \cup {Absent}]
  BY ProcType DEF CopyRead, CopyOpen, CopyWrite, At, Past, PCs, Ended
<1>t. proc[p].target \in Names /\ proc[p].copied \in Contents
  BY <1>0 DEF Proc
<1>1. CASE CopyRead(p)
  <2>1. PICK s \in Proc : Becomes(p, s)
    BY <1>0, <1>1 DEF CopyRead, Proc, PCs
  <2> QED BY <1>0, <1>1, <2>1, ReadType DEF CopyRead
<1>2. CASE CopyOpen(p)
  <2>1. PICK s \in Proc : Becomes(p, s)
    BY <1>0, <1>2 DEF CopyOpen, Proc, PCs
  <2>2. config' = config /\ backup' \in [Names -> Contents \cup {Absent}]
    BY <1>0, <1>2, EmptyFile DEF CopyOpen
  <2> QED BY <1>0, <2>1, <2>2, StepType
<1>3. CASE CopyWrite(p)
  <2>1. PICK s \in Proc : Becomes(p, s)
    BY <1>0, <1>3 DEF CopyWrite, Proc, PCs
  <2>2. PICK file \in Overlays(backup[proc[p].target], proc[p].copied) :
          backup' = [backup EXCEPT ![proc[p].target] = file]
    BY <1>3 DEF CopyWrite
  <2>3. file \in Contents
    BY <1>0, <1>t, OverlaysType
  <2>4. config' = config /\ backup' \in [Names -> Contents \cup {Absent}]
    BY <1>0, <1>3, <2>2, <2>3 DEF CopyWrite
  <2> QED BY <1>0, <2>1, <2>4, StepType
<1> QED BY <1>1, <1>2, <1>3

LEMMA WriteType ==
  ASSUME TypeInv, NEW p \in Procs, Open(p) \/ Write(p)
  PROVE  TypeInv'
<1>0. proc[p] \in Proc /\ backup \in [Names -> Contents \cup {Absent}]
      /\ config \in Contents \cup {Absent}
  BY ProcType
<1>1. CASE Open(p)
  <2>1. PICK s \in Proc : Becomes(p, s)
    BY <1>0, <1>1 DEF Open, Proc, PCs
  <2>2. config' \in Contents /\ backup' = backup
    BY <1>1, EmptyFile DEF Open
  <2> QED BY <1>0, <2>1, <2>2, StepType
<1>2. CASE Write(p)
  <2>1. PICK s \in Proc : Becomes(p, s)
    BY <1>0, <1>2 DEF Write, Proc, PCs
  <2>2. config' \in Contents /\ backup' = backup
    BY <1>0, <1>2, OverlaysType DEF Write, Proc
  <2> QED BY <1>0, <2>1, <2>2, StepType
<1> QED BY <1>1, <1>2

LEMMA NextType == ASSUME TypeInv, [Next]_vars PROVE TypeInv'
<1>1. CASE UNCHANGED vars
  BY <1>1 DEF vars, TypeInv, TypeOK
<1>2. ASSUME NEW p \in Procs, Begin(p) \/ Step(p) \/ Crash(p)
      PROVE  TypeInv'
  BY <1>2, BeginType, StatType, LoadType, EditType, CopyType, WriteType DEF Step
<1> QED BY <1>1, <1>2 DEF Next

\* Every variable of the commands and of the disk keeps its type: what is written is
\* always a file that can be read, whatever was read before and however writes overlap.
THEOREM TypeCorrect == Spec => []TypeOK
<1>1. Init => TypeInv
  BY InitType
<1>2. TypeInv /\ [Next]_vars => TypeInv'
  BY NextType
<1>3. TypeInv => TypeOK
  BY DEF TypeInv
<1> QED BY <1>1, <1>2, <1>3, PTL DEF Spec

-------------------------------------------------------------------------------
(* What a load makes of a file, and what is written of what was loaded *)

\* b is the file a that was found, after a repair or a migration if it needed one.
Ready(a, b) ==
  \/ b = a /\ ~ Damaged(a) /\ SchemaOf(a) = Current
  \/ b = Repaired(a) /\ Damaged(a)
  \/ b = Migrated(a) /\ ~ Damaged(a) /\ SchemaOf(a) \notin {Current, "2"}

\* What b says of each key is what a says, unless a repair dropped it.
Keeps(a, b) ==
  /\ \A i \in DOMAIN a :
       /\ a[i].key \in Keys \ {"_schema"} /\ Says(a, i)
       /\ a[i].key \in Known \/ ~ Damaged(a)
       => HasKey(b, a[i].key) /\ LastValue(b, a[i].key) = a[i].value
  /\ \A k \in Keys \ {"_schema"} : HasKey(b, k) => HasKey(a, k)

LEMMA RepairKeeps ==
  ASSUME NEW a \in Contents, NEW b, b = Repaired(a), Damaged(a)
  PROVE  b \in Contents /\ Keeps(a, b)
<1>1. /\ b \in Contents
      /\ \A m \in DOMAIN b : b[m].key # "_schema" => /\ HasKey(a, b[m].key)
                                                     /\ b[m].value = LastValue(a, b[m].key)
      /\ \A k \in Known : HasKey(a, k) => HasKey(b, k)
  BY RepairedLines
<1>2. ASSUME NEW i \in DOMAIN a, a[i].key \in Known \ {"_schema"}, Says(a, i)
      PROVE  HasKey(b, a[i].key) /\ LastValue(b, a[i].key) = a[i].value
  <2>1. HasKey(b, a[i].key)
    BY <1>1, <1>2 DEF HasKey
  <2>2. PICK m \in DOMAIN b :
          b[m].key = a[i].key /\ LastValue(b, a[i].key) = b[m].value
    BY <1>1, <2>1, LastLine
  <2>3. b[m].value = LastValue(a, a[i].key)
    BY <1>1, <1>2, <2>2
  <2> QED BY <1>2, <2>1, <2>2, <2>3, LastValueIs
<1>3. \A k \in Keys \ {"_schema"} : HasKey(b, k) => HasKey(a, k)
  BY <1>1 DEF HasKey
<1> QED BY <1>1, <1>2, <1>3 DEF Keeps

LEMMA MigrationKeeps ==
  ASSUME NEW a \in Contents, NEW b, b = Migrated(a)
  PROVE  b \in Contents /\ Keeps(a, b)
<1>1. /\ b \in Contents
      /\ \A m \in DOMAIN b :
           \/ b[m].key = "_schema" /\ b[m].value = Current
           \/ b[m].key # "_schema" /\ \E i \in DOMAIN a :
                b[m] = a[i] /\ (Says(b, m) => Says(a, i))
      /\ \A i \in DOMAIN a : a[i].key # "_schema" => \E m \in DOMAIN b : b[m] = a[i]
  BY MigratedLines
<1>2. ASSUME NEW i \in DOMAIN a, a[i].key \in Keys \ {"_schema"}, Says(a, i)
      PROVE  HasKey(b, a[i].key) /\ LastValue(b, a[i].key) = a[i].value
  <2>1. HasKey(b, a[i].key)
    BY <1>1, <1>2 DEF HasKey
  <2>2. PICK m \in DOMAIN b :
          b[m].key = a[i].key /\ Says(b, m) /\ LastValue(b, a[i].key) = b[m].value
    BY <1>1, <2>1, LastLine
  <2>3. PICK j \in DOMAIN a : b[m] = a[j] /\ Says(a, j)
    BY <1>1, <1>2, <2>2
  <2>4. j = i
    BY <1>2, <2>2, <2>3, LastIsOne
  <2> QED BY <2>1, <2>2, <2>3, <2>4
<1>3. \A k \in Keys \ {"_schema"} : HasKey(b, k) => HasKey(a, k)
  BY <1>1 DEF HasKey
<1> QED BY <1>1, <1>2, <1>3 DEF Keeps

LEMMA ReadyKeeps ==
  ASSUME NEW a \in Contents, NEW b, Ready(a, b)
  PROVE  b \in Contents /\ Keeps(a, b)
<1>1. CASE b = a
  <2>1. ASSUME NEW i \in DOMAIN a, Says(a, i)
        PROVE  HasKey(a, a[i].key) /\ LastValue(a, a[i].key) = a[i].value
    BY <2>1, LastValueIs DEF HasKey
  <2> QED BY <1>1, <2>1 DEF Keeps
<1> QED BY <1>1, RepairKeeps, MigrationKeeps DEF Ready

\* What was loaded is what the file says (LoadFaithful, of one file).
Faithful(file, cfg) ==
  /\ \A i \in DOMAIN file :
       /\ file[i].key \in Keys \ {"_schema"} /\ Says(file, i)
       /\ file[i].key \in Known \/ ~ Damaged(file)
       /\ Coerced(file[i].key, file[i].value) # NoValue
       => cfg[file[i].key] = Coerced(file[i].key, file[i].value)
  /\ \A k \in Keys \ {"_schema"} : cfg[k] # Default[k] => HasKey(file, k)

LEMMA ReadyFaithful ==
  ASSUME NEW a \in Contents, NEW b, Ready(a, b), EnvHeaders = NoValue, NEW cfg, cfg = Parsed(b)
  PROVE  Faithful(a, cfg)
<1>1. b \in Contents /\ Keeps(a, b)
  BY ReadyKeeps
<1>2. \A k \in Keys \ {"_schema"} :
        cfg[k] = IF HasKey(b, k) THEN Setting(k, LastValue(b, k)) ELSE Default[k]
  BY <1>1, ParsedIs
<1>3. ASSUME NEW i \in DOMAIN a, a[i].key \in Keys \ {"_schema"}, Says(a, i),
             a[i].key \in Known \/ ~ Damaged(a), Coerced(a[i].key, a[i].value) # NoValue
      PROVE  cfg[a[i].key] = Coerced(a[i].key, a[i].value)
  <2>1. HasKey(b, a[i].key) /\ LastValue(b, a[i].key) = a[i].value
    BY <1>1, <1>3 DEF Keeps
  <2> QED BY <1>2, <1>3, <2>1 DEF Setting
<1>4. \A k \in Keys \ {"_schema"} : cfg[k] # Default[k] => HasKey(a, k)
  BY <1>1, <1>2 DEF Keeps
<1> QED BY <1>3, <1>4 DEF Faithful

\* No line is damaged, and the schema is the current one, however often it stands there.
Fresh(file) ==
  /\ ~ Damaged(file) /\ HasKey(file, "_schema")
  /\ \A i \in DOMAIN file : file[i].key = "_schema" => file[i].value = Current

\* What LeavesCleanFile asks of the file a command found.
Tidy(file) ==
  /\ \A i \in DOMAIN file : file[i].key \in Known => file[i].value # NoValue
  /\ Cardinality({i \in DOMAIN file : file[i].key = "_schema"}) < 2

LEMMA OneOf ==
  ASSUME NEW S, IsFiniteSet(S), Cardinality(S) < 2, NEW i \in S, NEW j \in S
  PROVE  i = j
<1>1. SUFFICES ASSUME i # j PROVE FALSE
  OBVIOUS
<1>2. /\ IsFiniteSet({}) /\ Cardinality({}) = 0
      /\ IsFiniteSet({i}) /\ Cardinality({i}) = 1
  BY FS_EmptySet, FS_Singleton
<1>3. Cardinality({i} \cup {j}) = 2
  <2>1. j \notin {i}
    BY <1>1
  <2>2. Cardinality({i} \cup {j}) = Cardinality({i}) + 1
    BY <1>2, <2>1, FS_AddElement
  <2> QED BY <1>2, <2>2
<1>4. {i} \cup {j} \subseteq S
  OBVIOUS
<1>5. Cardinality({i} \cup {j}) <= Cardinality(S)
  BY <1>4, FS_Subset
<1>6. Cardinality(S) \in Nat
  BY FS_CardinalityType
<1> QED BY <1>3, <1>5, <1>6

LEMMA NoKeyUnknown == NoKey \notin Known /\ "_schema" \in Known /\ Known \subseteq Keys
  BY KeysAre, ConfigAssumption DEF Known

LEMMA ReadyFresh ==
  ASSUME NEW a \in Contents, NEW b, Ready(a, b), Tidy(a)
  PROVE  Fresh(b)
<1>1. CASE b = a /\ ~ Damaged(a) /\ SchemaOf(a) = Current
  <2> DEFINE S == {i \in DOMAIN a : a[i].key = "_schema"}
  <2>1. S \in SUBSET (1 .. Len(a)) /\ Len(a) \in Nat
    BY DEF Contents
  <2>2. IsFiniteSet(S)
    BY <2>1, FS_Interval, FS_Subset
  <2>3. S # {} /\ a[Min(S)].value = Current
    BY <1>1 DEF SchemaOf, Current
  <2>4. Min(S) \in S
    BY <2>1, <2>3, MinIn
  <2>5. \A i \in S : i = Min(S)
    BY <2>2, <2>4, OneOf DEF Tidy
  <2>6. \A i \in S : a[i].value = Current
    BY <2>3, <2>5
  <2> QED BY <1>1, <2>3, <2>6 DEF Fresh, HasKey
<1>2. CASE b = Repaired(a)
  <2>1. /\ HasKey(b, "_schema")
        /\ \A m \in DOMAIN b :
             /\ b[m].key \in Known
             /\ b[m].key = "_schema" => b[m].value = Current
             /\ b[m].key # "_schema" => /\ HasKey(a, b[m].key)
                                        /\ b[m].value = LastValue(a, b[m].key)
    BY <1>2, RepairedLines
  <2>2. ASSUME NEW m \in DOMAIN b
        PROVE  b[m].key # NoKey /\ b[m].value # NoValue
    <3>1. b[m].key \in Known
      BY <2>1
    <3>2. CASE b[m].key = "_schema"
      BY <2>1, <3>1, <3>2, NoKeyUnknown DEF Current, NoValue
    <3>3. CASE b[m].key # "_schema"
      <4>1. PICK i \in DOMAIN a : a[i].key = b[m].key /\ b[m].value = a[i].value
        BY <2>1, <3>3, LastLine
      <4> QED BY <3>1, <4>1, NoKeyUnknown DEF Tidy
    <3> QED BY <3>2, <3>3
  <2> QED BY <2>1, <2>2 DEF Fresh, Damaged
<1>3. CASE b = Migrated(a) /\ ~ Damaged(a)
  <2>1. /\ HasKey(b, "_schema")
        /\ \A m \in DOMAIN b :
             \/ b[m].key = "_schema" /\ b[m].value = Current
             \/ b[m].key # "_schema" /\ \E i \in DOMAIN a : b[m] = a[i]
    BY <1>3, MigratedLines
  <2>2. ASSUME NEW m \in DOMAIN b
        PROVE  b[m].key # NoKey /\ b[m].value # NoValue
    <3>1. CASE b[m].key = "_schema" /\ b[m].value = Current
      BY <3>1, NoKeyUnknown DEF Current, NoValue
    <3>2. CASE \E i \in DOMAIN a : b[m] = a[i]
      BY <1>3, <3>2 DEF Damaged
    <3> QED BY <2>1, <3>1, <3>2
  <2> QED BY <2>1, <2>2 DEF Fresh, Damaged
<1> QED BY <1>1, <1>2, <1>3 DEF Ready

LEMMA FreshSchema ==
  ASSUME NEW b \in Contents, Fresh(b)
  PROVE  /\ ~ Damaged(b) /\ SchemaOf(b) = Current
         /\ Parsed(b)["_schema"] = Current
  BY SchemaOfAll, ParsedIs DEF Fresh

\* A configuration that is written as it is read: a bool is a bool, and nothing is
\* empty that has a default.
Sound(cfg) ==
  /\ \A k \in Keys \ {"_schema"} :
       /\ cfg[k] = NoValue => Default[k] = NoValue
       /\ Coerced(k, cfg[k]) = cfg[k]
  /\ EnvHeaders # NoValue => cfg["otlp_headers"] = EnvHeaders

LEMMA DefaultsAre ==
  /\ \A k \in Keys \ {"model", "proxy_effort"} : Default[k] = NoValue
  /\ Default["model"] # NoValue /\ Default["proxy_effort"] # NoValue
  /\ \A k \in Keys : Coerced(k, Default[k]) = Default[k]
  BY KeysAre DEF Default, Coerced, NoValue

LEMMA CoercedTwice == \A k, v : Coerced(k, Coerced(k, v)) = Coerced(k, v)
  BY DEF Coerced, NoValue

LEMMA ParsedSound ==
  ASSUME NEW b \in Contents, NEW cfg, cfg = Parsed(b)
  PROVE  Sound(cfg)
<1>1. ASSUME NEW k \in Keys \ {"_schema"}, k # "otlp_headers" \/ EnvHeaders = NoValue
      PROVE  (cfg[k] = NoValue => Default[k] = NoValue) /\ Coerced(k, cfg[k]) = cfg[k]
  <2>1. PICK v : cfg[k] = Setting(k, v) \/ cfg[k] = Default[k]
    BY <1>1, ParsedIs
  <2>2. cfg[k] = Default[k] \/ (cfg[k] = Coerced(k, v) /\ cfg[k] # NoValue)
    BY <2>1 DEF Setting
  <2> QED BY <2>2, DefaultsAre, CoercedTwice
<1>2. EnvHeaders # NoValue => cfg["otlp_headers"] = EnvHeaders
  BY ParsedIs
<1>3. /\ cfg["otlp_headers"] = NoValue => Default["otlp_headers"] = NoValue
      /\ Coerced("otlp_headers", cfg["otlp_headers"]) = cfg["otlp_headers"]
  BY KeysAre, DefaultsAre DEF Coerced
<1> QED BY <1>1, <1>2, <1>3 DEF Sound

LEMMA EditSound ==
  ASSUME NEW b \in Contents, NEW ref \in Refs, NEW effort \in Efforts,
         NEW auto \in {NoValue, "1"}, NEW cfg,
         \/ cfg = Onboarded(Parsed(b), ref, effort, auto)
         \/ cfg = Rotated(Parsed(b), ref)
  PROVE  /\ cfg \in Cfgs /\ Sound(cfg)
         /\ Fresh(b) => cfg["_schema"] = Current
<1>1. PICK old \in Cfgs : old = Parsed(b) /\ Sound(old)
  BY ParsedIs, ParsedSound
<1>2. ref # NoValue /\ effort # NoValue
  BY ConfigAssumption DEF Efforts, NoValue
<1>3. CASE cfg = Onboarded(old, ref, effort, auto)
  <2>1. /\ cfg \in Cfgs /\ cfg["_schema"] = Current
        /\ cfg["api_key_ref"] = ref /\ cfg["proxy_effort"] = effort
        /\ cfg["unlock_auto_mode"] = auto
        /\ \A k \in Keys \ {"_schema", "api_key_ref", "proxy_effort", "unlock_auto_mode"} :
             cfg[k] = old[k]
    BY <1>3, OnboardedType
  <2>2. /\ Coerced("api_key_ref", ref) = ref /\ Coerced("proxy_effort", effort) = effort
        /\ Coerced("unlock_auto_mode", auto) = auto
    BY DEF Coerced, NoValue
  <2>3. ASSUME NEW k \in Keys \ {"_schema"}
        PROVE  (cfg[k] = NoValue => Default[k] = NoValue) /\ Coerced(k, cfg[k]) = cfg[k]
    BY <1>1, <1>2, <2>1, <2>2, KeysAre, DefaultsAre DEF Sound
  <2> QED BY <1>1, <2>1, <2>3, KeysAre DEF Sound
<1>4. CASE cfg = Rotated(old, ref)
  <2>0. old \in Cfgs /\ ref \in Refs
    BY <1>1
  <2>1. /\ cfg \in Cfgs /\ cfg["api_key_ref"] = ref
        /\ \A k \in Keys \ {"api_key_ref"} : cfg[k] = old[k]
    BY <1>4, <2>0, RotatedType
  <2>2. Coerced("api_key_ref", ref) = ref
    BY DEF Coerced
  <2>3. ASSUME NEW k \in Keys \ {"_schema"}
        PROVE  (cfg[k] = NoValue => Default[k] = NoValue) /\ Coerced(k, cfg[k]) = cfg[k]
    BY <1>1, <1>2, <2>1, <2>2 DEF Sound
  <2>4. Fresh(b) => cfg["_schema"] = Current
    BY <1>1, <2>1, FreshSchema, KeysAre
  <2> QED BY <1>1, <2>1, <2>3, <2>4, KeysAre DEF Sound
<1> QED BY <1>1, <1>3, <1>4

\* What is written loads again as it was.
LEMMA SerializedParses ==
  ASSUME NEW cfg \in Cfgs, Sound(cfg), NEW out, out = Serialized(cfg)
  PROVE  \A k \in Keys \ {"_schema"} : Parsed(out)[k] = cfg[k]
<1>1. /\ out \in Contents
      /\ \A m \in DOMAIN out : /\ out[m].value # NoValue
                               /\ out[m].key # "_schema" => out[m].value = cfg[out[m].key]
      /\ \A k \in Keys \ {"_schema"} : cfg[k] \notin {NoValue, Default[k]} => HasKey(out, k)
  BY SerializedLines
<1>2. PICK new : new = Parsed(out)
  OBVIOUS
<1>3. /\ EnvHeaders # NoValue => new["otlp_headers"] = EnvHeaders
      /\ \A k \in Keys \ {"_schema"} : k # "otlp_headers" \/ EnvHeaders = NoValue =>
           new[k] = IF HasKey(out, k) THEN Setting(k, LastValue(out, k)) ELSE Default[k]
  BY <1>1, <1>2, ParsedIs
<1>4. ASSUME NEW k \in Keys \ {"_schema"}, k # "otlp_headers" \/ EnvHeaders = NoValue
      PROVE  new[k] = cfg[k]
  <2>1. CASE HasKey(out, k)
    <3>1. PICK m \in DOMAIN out : out[m].key = k /\ LastValue(out, k) = out[m].value
      BY <1>1, <2>1, LastLine
    <3>2. LastValue(out, k) = cfg[k] /\ cfg[k] # NoValue
      BY <1>1, <1>4, <3>1
    <3>3. Setting(k, cfg[k]) = cfg[k]
      BY <1>4, <3>2 DEF Sound, Setting
    <3> QED BY <1>3, <1>4, <2>1, <3>2, <3>3
  <2>2. CASE ~ HasKey(out, k)
    <3>1. cfg[k] \in {NoValue, Default[k]}
      BY <1>1, <1>4, <2>2
    <3>2. cfg[k] = Default[k]
      BY <1>4, <3>1 DEF Sound
    <3> QED BY <1>3, <1>4, <2>2, <3>2
  <2> QED BY <2>1, <2>2
<1> QED BY <1>2, <1>3, <1>4 DEF Sound

LEMMA SerializedFresh ==
  ASSUME NEW cfg \in Cfgs, cfg["_schema"] # "2", NEW out, out = Serialized(cfg)
  PROVE  out \in Contents /\ Fresh(out)
<1>1. /\ out \in Contents /\ HasKey(out, "_schema")
      /\ \A m \in DOMAIN out : /\ out[m].key \in Keys /\ out[m].value # NoValue
                               /\ out[m].key = "_schema" => out[m].value = Current
  BY SerializedLines
<1> QED BY <1>1, ConfigAssumption DEF Fresh, Damaged

-------------------------------------------------------------------------------
(* A process that runs alone.  Where it stands says what the configuration *)
(* is to the file its command found, and where that file is by now.        *)

OnDisk(file) == file = config \/ \E n \in Names : backup[n] = file

\* Backups are of files, so where there was none, there are none.
NoneToBackUp(q) ==
  config = Absent \/ proc[q].orig = Absent => \A n \in Names : backup[n] = Absent

\* What was found stays on disk until the load is done.
Preserved(q) ==
  proc[q].pc \notin {"idle", "done"} /\ proc[q].then # "done" => OnDisk(proc[q].orig)

\* What stat, validate, repair, schema, parse and edit look at: the file that was found,
\* what was made of it, or what the onboarding of a launch wrote.
Reading(q) ==
  LET a == proc[q].orig
      new == a = Absent /\ proc[q].cmd = "launch" /\ Fresh(config)
  IN  /\ At(q, "stat") => config = a
      /\ At(q, "validate") => config = a \/ new
      /\ At(q, "repair") => a # Absent /\ config = a /\ Damaged(a)
      /\ At(q, "schema") => \/ new
                            \/ a # Absent /\ config = a /\ ~ Damaged(a)
                            \/ a # Absent /\ config = Repaired(a) /\ Damaged(a)
      /\ At(q, "parse") => new \/ (a # Absent /\ Ready(a, config))
      /\ At(q, "edit") => /\ a # Absent /\ Ready(a, config)
                          /\ proc[q].cmd # "launch" /\ proc[q].cfg = Parsed(config)

\* What a rewrite makes of the file it is to replace.
Rewrites(q) ==
  LET a == proc[q].orig
  IN  \/ proc[q].then = "schema" /\ Damaged(a) /\ proc[q].data = Repaired(a)
      \/ proc[q].then \in {"migrate", "parse"} /\ ~ Damaged(a) /\ SchemaOf(a) \notin {Current, "2"}

\* A backup in the making.
Copying(q) ==
  /\ proc[q].pc \in {"copy", "copyOpen", "copyWrite", "migrate"} =>
       /\ proc[q].orig # Absent /\ config = proc[q].orig /\ Rewrites(q)
       /\ proc[q].then \in {"schema", "migrate"}
  /\ proc[q].pc \in {"copyOpen", "copyWrite"} => proc[q].copied = proc[q].orig
  /\ At(q, "copyWrite") => backup[proc[q].target] = <<>>
  /\ At(q, "migrate") =>
       proc[q].then = "migrate" /\ \E n \in Names : backup[n] = proc[q].orig

\* What --rotate-key and --setup write of what they loaded from file.
Edited(file, data, cfg) ==
  /\ Tidy(file) => Fresh(data)
  /\ \A k \in Keys \ {"_schema"} : Parsed(data)[k] = cfg[k]
  /\ Damaged(file) \/ SchemaOf(file) # "2"

\* A rewrite in the making.
Writing(q) ==
  /\ proc[q].pc \in {"open", "write"} =>
       \/ /\ proc[q].orig # Absent /\ Rewrites(q) /\ proc[q].then \in {"schema", "parse"}
          /\ proc[q].then = "parse" => proc[q].data = Migrated(proc[q].orig)
          /\ \E n \in Names : backup[n] = proc[q].orig
       \/ /\ proc[q].orig = Absent /\ Fresh(proc[q].data)
          /\ \/ proc[q].then = "validate" /\ proc[q].cmd = "launch"
             \/ proc[q].then = "done"
       \/ /\ proc[q].orig # Absent /\ proc[q].then = "done" /\ proc[q].cmd # "launch"
          /\ Edited(proc[q].orig, proc[q].data, proc[q].cfg)
  /\ At(q, "write") => config = <<>>

\* What a command has left.
Left(q) ==
  LET a == proc[q].orig
  IN  At(q, "done") =>
        /\ config \in Contents
        /\ a = Absent \/ Tidy(a) => Fresh(config)
        /\ a # Absent /\ proc[q].cmd = "launch" => Ready(a, config) /\ proc[q].cfg = Parsed(config)
        /\ a # Absent /\ proc[q].cmd # "launch" =>
             \A k \in Keys \ {"_schema"} : Parsed(config)[k] = proc[q].cfg[k]

AloneInv(q) ==
  /\ TypeInv
  /\ NoneToBackUp(q) /\ Preserved(q) /\ Reading(q) /\ Copying(q) /\ Writing(q) /\ Left(q)

\* What a step of q makes of its record: fields is the new one.
LEMMA Moved ==
  ASSUME TypeInv, NEW q \in Procs, NEW s, Becomes(q, s)
  PROVE  proc'[q] = s
  BY DEF TypeInv, TypeOK, Becomes

LEMMA AloneInit == ASSUME NEW q \in Procs PROVE Init => AloneInv(q)
<1> SUFFICES ASSUME Init PROVE AloneInv(q)
  OBVIOUS
<1>1. proc[q] = NewProc /\ \A n \in Names : backup[n] = Absent
  BY DEF Init
<1> QED BY <1>1, InitType
        DEF NewProc, AloneInv, NoneToBackUp, Preserved, Reading, Copying, Writing, Left, At

LEMMA AloneBegin ==
  ASSUME NEW q \in Procs, AloneInv(q), Begin(q)
  PROVE  AloneInv(q)'
<1>1. /\ proc'[q].pc = "stat" /\ proc'[q].orig = config /\ proc'[q].then = "idle"
      /\ config' = config /\ backup' = backup
  BY DEF Begin, AloneInv, TypeInv, TypeOK, NewProc, OnlyReads
<1>2. TypeInv'
  BY BeginType DEF AloneInv
<1>3. NoneToBackUp(q)' /\ Preserved(q)'
  BY <1>1 DEF AloneInv, NoneToBackUp, Preserved, OnDisk
<1>4. Reading(q)' /\ Copying(q)' /\ Writing(q)' /\ Left(q)'
  BY <1>1 DEF Reading, Copying, Writing, Left, At
<1> QED BY <1>2, <1>3, <1>4 DEF AloneInv

LEMMA AloneCrash ==
  ASSUME NEW q \in Procs, AloneInv(q), Crash(q)
  PROVE  AloneInv(q)'
<1>1. /\ proc'[q].pc = "crashed" /\ proc'[q].orig = proc[q].orig /\ proc'[q].then = proc[q].then
      /\ config' = config /\ backup' = backup
  BY ProcType, Moved DEF Crash, AloneInv, Proc, OnlyReads
<1>2. TypeInv'
  BY EditType DEF AloneInv
<1>3. proc[q].pc \notin {"idle", "done"}
  BY DEF Crash, Active, Ended
<1>4. NoneToBackUp(q)' /\ Preserved(q)'
  BY <1>1, <1>3 DEF AloneInv, NoneToBackUp, Preserved, OnDisk
<1>5. Reading(q)' /\ Copying(q)' /\ Writing(q)' /\ Left(q)'
  BY <1>1 DEF Reading, Copying, Writing, Left, At
<1> QED BY <1>2, <1>4, <1>5 DEF AloneInv

\* A step that only reads keeps what was found where it is.
LEMMA StillOnDisk ==
  ASSUME NEW q \in Procs, AloneInv(q), OnlyReads, proc'[q].orig = proc[q].orig,
         OnDisk(proc[q].orig) \/ proc'[q].pc = "done" \/ proc'[q].then = "done"
  PROVE  NoneToBackUp(q)' /\ Preserved(q)'
<1>1. config' = config /\ backup' = backup
  BY DEF OnlyReads
<1> QED BY <1>1 DEF AloneInv, NoneToBackUp, Preserved, OnDisk

LEMMA AloneStat ==
  ASSUME NEW q \in Procs, AloneInv(q), Stat(q)
  PROVE  AloneInv(q)'
<1> DEFINE a == proc[q].orig
<1>0. /\ proc[q] \in Proc /\ config = a /\ TypeInv /\ At(q, "stat")
      /\ config \in Contents \cup {Absent}
  BY ProcType DEF Stat, AloneInv, Reading
<1>1. TypeInv' /\ config' = config /\ backup' = backup /\ OnlyReads
  BY StatType DEF AloneInv, Stat, OnlyReads
<1>2. CASE config = Absent
  <2>1. PICK ref \in Refs, effort \in Efforts, auto \in {NoValue, "1"} :
          LET cfg == Onboarded(Default, ref, effort, auto)
          IN  Becomes(q, [proc[q] EXCEPT !.pc = "open", !.cfg = cfg, !.data = Serialized(cfg),
                            !.then = IF proc[q].cmd = "launch" THEN "validate" ELSE "done"])
    BY <1>2 DEF Stat
  <2>2. PICK cfg \in Cfgs : cfg = Onboarded(Default, ref, effort, auto) /\ cfg["_schema"] = Current
    BY OnboardedType, DefaultType
  <2>3. PICK data : data = Serialized(cfg) /\ Fresh(data)
    BY <2>2, SerializedFresh DEF Current
  <2>4. Becomes(q, [proc[q] EXCEPT !.pc = "open", !.cfg = cfg, !.data = data,
                      !.then = IF proc[q].cmd = "launch" THEN "validate" ELSE "done"])
    BY <2>1, <2>2, <2>3
  <2>5. /\ proc'[q].pc = "open" /\ proc'[q].orig = Absent /\ proc'[q].data = data
        /\ \/ proc'[q].then = "validate" /\ proc'[q].cmd = "launch"
           \/ proc'[q].then = "done"
    <3> DEFINE s == [proc[q] EXCEPT !.pc = "open", !.cfg = cfg, !.data = data,
                       !.then = IF proc[q].cmd = "launch" THEN "validate" ELSE "done"]
    <3>1. /\ s.pc = "open" /\ s.orig = Absent /\ s.data = data /\ s.cmd = proc[q].cmd
          /\ s.then = IF proc[q].cmd = "launch" THEN "validate" ELSE "done"
      BY <1>0, <1>2 DEF Proc
    <3>2. Becomes(q, s)
      BY <2>4
    <3> HIDE DEF s
    <3>3. proc'[q] = s
      BY <1>0, <3>2, Moved
    <3> QED BY <3>1, <3>3
  <2>6. NoneToBackUp(q)' /\ Preserved(q)'
    BY <1>0, <1>1, <1>2, <2>5, StillOnDisk DEF OnDisk
  <2>7. Reading(q)' /\ Copying(q)' /\ Left(q)'
    BY <2>5 DEF Reading, Copying, Left, At
  <2>8. Writing(q)'
    BY <2>3, <2>5 DEF Writing, At
  <2> QED BY <1>1, <2>6, <2>7, <2>8 DEF AloneInv
<1>3. CASE config # Absent
  <2>1. Becomes(q, [proc[q] EXCEPT !.pc = "validate"])
    BY <1>3 DEF Stat
  <2>2. proc'[q].pc = "validate" /\ proc'[q].orig = a
    BY <1>0, <2>1, Moved DEF Proc
  <2>3. NoneToBackUp(q)' /\ Preserved(q)'
    BY <1>0, <1>1, <2>2, StillOnDisk DEF OnDisk
  <2>4. Reading(q)' /\ Copying(q)' /\ Writing(q)' /\ Left(q)'
    BY <1>0, <1>1, <2>2 DEF Reading, Copying, Writing, Left, At
  <2> QED BY <1>1, <2>3, <2>4 DEF AloneInv
<1> QED BY <1>2, <1>3

LEMMA AloneValidate ==
  ASSUME NEW q \in Procs, AloneInv(q), Validate(q)
  PROVE  AloneInv(q)'
<1> DEFINE a == proc[q].orig
           new == a = Absent /\ proc[q].cmd = "launch" /\ Fresh(config)
<1>0. /\ proc[q] \in Proc /\ (config = a \/ new) /\ TypeInv /\ At(q, "validate")
      /\ config \in Contents
  BY ProcType DEF Validate, AloneInv, Reading, At, Past, PCs, Ended
<1>1. TypeInv' /\ config' = config /\ backup' = backup /\ OnlyReads
  BY LoadType DEF AloneInv, Validate, OnlyReads
<1>2. Becomes(q, [proc[q] EXCEPT !.pc = IF Damaged(config) THEN "repair" ELSE "schema"])
  BY DEF Validate
<1>3. /\ proc'[q].pc = (IF Damaged(config) THEN "repair" ELSE "schema")
      /\ proc'[q].orig = a /\ proc'[q].cmd = proc[q].cmd /\ proc'[q].then = proc[q].then
  BY <1>0, <1>2, Moved DEF Proc
<1>4. a = Absent \/ a = config
  BY <1>0
<1>5. Fresh(config) => ~ Damaged(config)
  BY DEF Fresh
<1>6. a # Absent \/ new
  BY <1>0, ConfigAssumption
<1>7. NoneToBackUp(q)' /\ Preserved(q)'
  BY <1>0, <1>1, <1>3, StillOnDisk DEF AloneInv, Preserved, At
<1>8. Reading(q)'
  BY <1>0, <1>1, <1>3, <1>4, <1>5, <1>6 DEF Reading, At
<1>9. Copying(q)' /\ Writing(q)' /\ Left(q)'
  BY <1>3 DEF Copying, Writing, Left, At
<1> QED BY <1>1, <1>7, <1>8, <1>9 DEF AloneInv

LEMMA AloneRepair ==
  ASSUME NEW q \in Procs, AloneInv(q), RepairConfig(q)
  PROVE  AloneInv(q)'
<1> DEFINE a == proc[q].orig
<1>0. /\ proc[q] \in Proc /\ TypeInv /\ a # Absent /\ config = a /\ Damaged(a)
  BY ProcType DEF RepairConfig, AloneInv, Reading
<1>1. TypeInv' /\ config' = config /\ backup' = backup /\ OnlyReads
  BY LoadType DEF AloneInv, RepairConfig, OnlyReads
<1>2. PICK stamp, data :
        /\ stamp \in Stamps /\ data = Repaired(config)
        /\ Becomes(q, [proc[q] EXCEPT !.pc = "copy", !.target = stamp, !.data = data,
                                      !.then = "schema"])
  BY DEF RepairConfig
<1>3. /\ proc'[q].pc = "copy" /\ proc'[q].orig = a
      /\ proc'[q].then = "schema" /\ proc'[q].data = data
  BY <1>0, <1>2, Moved DEF Proc
<1>4. NoneToBackUp(q)' /\ Preserved(q)'
  BY <1>0, <1>1, <1>3, StillOnDisk DEF OnDisk
<1>5. Reading(q)' /\ Writing(q)' /\ Left(q)'
  BY <1>3 DEF Reading, Writing, Left, At
<1>6. Copying(q)'
  BY <1>0, <1>1, <1>2, <1>3 DEF Copying, Rewrites, At
<1> QED BY <1>1, <1>4, <1>5, <1>6 DEF AloneInv

LEMMA AloneMigrate ==
  ASSUME NEW q \in Procs, AloneInv(q), MigrateConfig(q)
  PROVE  AloneInv(q)'
<1> DEFINE a == proc[q].orig
           new == a = Absent /\ proc[q].cmd = "launch" /\ Fresh(config)
<1>0. /\ proc[q] \in Proc /\ TypeInv /\ config \in Contents /\ At(q, "schema")
      /\ \/ new
         \/ a # Absent /\ config = a /\ ~ Damaged(a)
         \/ a # Absent /\ config = Repaired(a) /\ Damaged(a)
  BY ProcType DEF MigrateConfig, AloneInv, Reading, At, Past, PCs, Ended
<1>1. TypeInv' /\ config' = config /\ backup' = backup /\ OnlyReads
  BY LoadType DEF AloneInv, MigrateConfig, OnlyReads
<1>2. SchemaOf(config) = Current \/ (a # Absent /\ config = a /\ ~ Damaged(a))
  <2>1. CASE new
    BY <1>0, <2>1, FreshSchema
  <2>2. CASE a # Absent /\ config = Repaired(a)
    <3>1. a \in Contents
      BY <1>0, <2>2 DEF Proc
    <3> QED BY <1>0, <2>2, <3>1, RepairedLines, SchemaOfAll
  <2> QED BY <1>0, <2>1, <2>2
<1>3. CASE SchemaOf(config) = Current
  <2>1. Becomes(q, [proc[q] EXCEPT !.pc = "parse"])
    BY <1>3 DEF MigrateConfig, Current
  <2>2. /\ proc'[q].pc = "parse" /\ proc'[q].orig = a
        /\ proc'[q].cmd = proc[q].cmd /\ proc'[q].then = proc[q].then
    BY <1>0, <2>1, Moved DEF Proc
  <2>3. NoneToBackUp(q)' /\ Preserved(q)'
    BY <1>0, <1>1, <2>2, StillOnDisk DEF AloneInv, Preserved, At
  <2>4. new \/ (a # Absent /\ Ready(a, config))
    BY <1>0, <1>3 DEF Ready
  <2>5. Reading(q)'
    BY <1>1, <2>2, <2>4 DEF Reading, At
  <2>6. Copying(q)' /\ Writing(q)' /\ Left(q)'
    BY <2>2 DEF Copying, Writing, Left, At
  <2> QED BY <1>1, <2>3, <2>5, <2>6 DEF AloneInv
<1>4. CASE SchemaOf(config) # Current
  <2>1. \/ Becomes(q, [proc[q] EXCEPT !.pc = "failed"])
        \/ /\ SchemaOf(config) # "2"
           /\ Becomes(q, [proc[q] EXCEPT !.pc = "copy", !.target = "v0", !.then = "migrate"])
    BY <1>4 DEF MigrateConfig
  <2>2. /\ proc'[q].orig = a
        /\ \/ proc'[q].pc = "failed"
           \/ SchemaOf(a) # "2" /\ proc'[q].pc = "copy" /\ proc'[q].then = "migrate"
    BY <1>0, <1>2, <1>4, <2>1, Moved DEF Proc
  <2>3. NoneToBackUp(q)' /\ Preserved(q)'
    BY <1>1, <1>2, <1>4, <2>2, StillOnDisk DEF OnDisk
  <2>4. Reading(q)' /\ Writing(q)' /\ Left(q)'
    BY <2>2 DEF Reading, Writing, Left, At
  <2>5. Copying(q)'
    BY <1>1, <1>2, <1>4, <2>2 DEF Copying, Rewrites, At
  <2> QED BY <1>1, <2>3, <2>4, <2>5 DEF AloneInv
<1> QED BY <1>3, <1>4

LEMMA AloneMigrateFromV ==
  ASSUME NEW q \in Procs, AloneInv(q), MigrateFromV(q)
  PROVE  AloneInv(q)'
<1> DEFINE a == proc[q].orig
<1>0. /\ proc[q] \in Proc /\ TypeInv /\ a # Absent /\ config = a
      /\ ~ Damaged(a) /\ SchemaOf(a) \notin {Current, "2"}
      /\ \E n \in Names : backup[n] = a
  BY ProcType DEF MigrateFromV, AloneInv, Copying, Rewrites, At
<1>1. TypeInv' /\ config' = config /\ backup' = backup /\ OnlyReads
  BY LoadType DEF AloneInv, MigrateFromV, OnlyReads
<1>2. PICK data :
        /\ data = Migrated(config)
        /\ Becomes(q, [proc[q] EXCEPT !.pc = "open", !.data = data, !.then = "parse"])
  BY DEF MigrateFromV
<1>3. /\ proc'[q].pc = "open" /\ proc'[q].orig = a
      /\ proc'[q].then = "parse" /\ proc'[q].data = data
  <2> DEFINE s == [proc[q] EXCEPT !.pc = "open", !.data = data, !.then = "parse"]
  <2>1. s.pc = "open" /\ s.orig = a /\ s.then = "parse" /\ s.data = data
    BY <1>0 DEF Proc
  <2> HIDE DEF s
  <2>2. proc'[q] = s
    BY <1>0, <1>2, Moved DEF s
  <2> QED BY <2>1, <2>2
<1>4. NoneToBackUp(q)' /\ Preserved(q)'
  BY <1>0, <1>1, <1>3, StillOnDisk DEF OnDisk
<1>5. Reading(q)' /\ Copying(q)' /\ Left(q)'
  BY <1>3 DEF Reading, Copying, Left, At
<1>6. Writing(q)'
  BY <1>0, <1>1, <1>2, <1>3 DEF Writing, Rewrites, At
<1> QED BY <1>1, <1>4, <1>5, <1>6 DEF AloneInv

LEMMA ReadyParses ==
  ASSUME NEW a \in Contents, NEW b, Ready(a, b)
  PROVE  ~ ParseFails(b)
<1>1. CASE ~ Damaged(a)
  <2>1. b = a \/ b = Migrated(a)
    BY <1>1 DEF Ready
  <2>2. \A i \in DOMAIN a : a[i].key # NoKey
    BY <1>1 DEF Damaged
  <2>3. \A m \in DOMAIN b : b[m].key = "_schema" \/ \E i \in DOMAIN a : b[m] = a[i]
    BY <2>1, MigratedLines
  <2> QED BY <2>2, <2>3, NoKeyUnknown DEF ParseFails, HasKey
<1>2. CASE Damaged(a)
  BY <1>2, RepairedLines, NoKeyUnknown DEF Ready, ParseFails, HasKey
<1> QED BY <1>1, <1>2

LEMMA AloneParse ==
  ASSUME NEW q \in Procs, AloneInv(q), Parse(q)
  PROVE  AloneInv(q)'
<1> DEFINE a == proc[q].orig
           new == a = Absent /\ proc[q].cmd = "launch" /\ Fresh(config)
<1>0. /\ proc[q] \in Proc /\ TypeInv /\ At(q, "parse")
      /\ new \/ (a # Absent /\ Ready(a, config))
  BY ProcType DEF Parse, AloneInv, Reading
<1>1. TypeInv' /\ config' = config /\ backup' = backup /\ OnlyReads
  BY LoadType DEF AloneInv, Parse, OnlyReads
<1>2. ~ ParseFails(config)
  <2>1. CASE new
    BY <2>1 DEF Fresh, Damaged, ParseFails, HasKey
  <2>2. CASE a # Absent /\ Ready(a, config)
    <3>1. a \in Contents
      BY <1>0, <2>2 DEF Proc
    <3> QED BY <2>2, <3>1, ReadyParses
  <2> QED BY <1>0, <2>1, <2>2
<1>3. PICK cfg :
        /\ cfg = Parsed(config)
        /\ Becomes(q, [proc[q] EXCEPT !.cfg = cfg,
                                      !.pc = IF proc[q].cmd = "launch" THEN "done" ELSE "edit"])
  BY <1>2 DEF Parse
<1>4. /\ proc'[q].pc = (IF proc[q].cmd = "launch" THEN "done" ELSE "edit")
      /\ proc'[q].orig = a /\ proc'[q].cmd = proc[q].cmd /\ proc'[q].then = proc[q].then
      /\ proc'[q].cfg = cfg
  <2> DEFINE s == [proc[q] EXCEPT !.cfg = cfg,
                                  !.pc = IF proc[q].cmd = "launch" THEN "done" ELSE "edit"]
  <2>1. /\ s.pc = (IF proc[q].cmd = "launch" THEN "done" ELSE "edit") /\ s.cfg = cfg
        /\ s.orig = a /\ s.cmd = proc[q].cmd /\ s.then = proc[q].then
    BY <1>0 DEF Proc
  <2> HIDE DEF s
  <2>2. proc'[q] = s
    BY <1>0, <1>3, Moved DEF s
  <2> QED BY <2>1, <2>2
<1>5. NoneToBackUp(q)' /\ Preserved(q)'
  BY <1>0, <1>1, <1>4, StillOnDisk DEF AloneInv, Preserved, At
<1>6. Reading(q)' /\ Copying(q)' /\ Writing(q)'
  BY <1>0, <1>1, <1>3, <1>4 DEF Reading, Copying, Writing, At
<1>7. Left(q)'
  <2>1. a = Absent \/ Tidy(a) => Fresh(config)
    <3>1. CASE a # Absent /\ Ready(a, config) /\ Tidy(a)
      <4>1. a \in Contents
        BY <1>0, <3>1 DEF Proc
      <4> QED BY <3>1, <4>1, ReadyFresh
    <3> QED BY <1>0, <3>1
  <2>2. config \in Contents
    BY <1>0, ProcType DEF Past, PCs, Ended, At
  <2> QED BY <1>0, <1>1, <1>3, <1>4, <2>1, <2>2 DEF Left, At
<1> QED BY <1>1, <1>5, <1>6, <1>7 DEF AloneInv

LEMMA AloneKeep ==
  ASSUME NEW q \in Procs, AloneInv(q), KeepConfig(q)
  PROVE  AloneInv(q)'
<1> DEFINE a == proc[q].orig
<1>0. /\ proc[q] \in Proc /\ TypeInv /\ a # Absent /\ Ready(a, config)
      /\ proc[q].cmd # "launch" /\ proc[q].cfg = Parsed(config)
  BY ProcType DEF KeepConfig, AloneInv, Reading
<1>1. TypeInv' /\ config' = config /\ backup' = backup /\ OnlyReads
  BY EditType DEF AloneInv, KeepConfig, OnlyReads
<1>2. /\ proc'[q].pc = "done" /\ proc'[q].orig = a
      /\ proc'[q].cmd = proc[q].cmd /\ proc'[q].cfg = proc[q].cfg
  BY <1>0, Moved DEF KeepConfig, Proc
<1>3. NoneToBackUp(q)' /\ Preserved(q)'
  BY <1>1, <1>2, StillOnDisk
<1>4. Reading(q)' /\ Copying(q)' /\ Writing(q)'
  BY <1>2 DEF Reading, Copying, Writing, At
<1>5. Left(q)'
  <2>1. a \in Contents
    BY <1>0 DEF Proc
  <2>2. Tidy(a) => Fresh(config)
    BY <1>0, <2>1, ReadyFresh
  <2>3. config \in Contents
    BY <1>0, ProcType DEF KeepConfig, Past, PCs, Ended, At
  <2> QED BY <1>0, <1>1, <1>2, <2>2, <2>3 DEF Left, At
<1> QED BY <1>1, <1>3, <1>4, <1>5 DEF AloneInv

LEMMA AloneEdit ==
  ASSUME NEW q \in Procs, AloneInv(q), Edit(q)
  PROVE  AloneInv(q)'
<1> DEFINE a == proc[q].orig
<1>0. /\ proc[q] \in Proc /\ TypeInv /\ a # Absent /\ Ready(a, config)
      /\ proc[q].cmd # "launch" /\ proc[q].cfg = Parsed(config)
  BY ProcType DEF Edit, AloneInv, Reading
<1>a. a \in Contents
  BY <1>0 DEF Proc
<1>c. config \in Contents
  BY <1>0, <1>a, ReadyKeeps
<1>1. TypeInv' /\ config' = config /\ backup' = backup /\ OnlyReads
  BY EditType DEF AloneInv, Edit, OnlyReads
<1>2. PICK ref, effort, auto, cfg :
        /\ ref \in Refs /\ effort \in Efforts /\ auto \in {NoValue, "1"}
        /\ \/ cfg = Onboarded(proc[q].cfg, ref, effort, auto)
           \/ cfg = Rotated(proc[q].cfg, ref)
        /\ Becomes(q, [proc[q] EXCEPT !.pc = "open", !.cfg = cfg, !.data = Serialized(cfg),
                                      !.then = "done"])
  BY DEF Edit
<1>3. PICK data : data = Serialized(cfg)
  OBVIOUS
<1>4. /\ proc'[q].pc = "open" /\ proc'[q].orig = a /\ proc'[q].cmd = proc[q].cmd
      /\ proc'[q].then = "done" /\ proc'[q].cfg = cfg /\ proc'[q].data = data
  <2> DEFINE s == [proc[q] EXCEPT !.pc = "open", !.cfg = cfg, !.data = data, !.then = "done"]
  <2>1. /\ s.pc = "open" /\ s.orig = a /\ s.cmd = proc[q].cmd
        /\ s.then = "done" /\ s.cfg = cfg /\ s.data = data
    BY <1>0 DEF Proc
  <2> HIDE DEF s
  <2>2. proc'[q] = s
    BY <1>0, <1>2, <1>3, Moved DEF s
  <2> QED BY <2>1, <2>2
<1>5. NoneToBackUp(q)' /\ Preserved(q)'
  BY <1>1, <1>4, StillOnDisk
<1>6. Reading(q)' /\ Copying(q)' /\ Left(q)'
  BY <1>4 DEF Reading, Copying, Left, At
<1>7. Edited(a, data, cfg)
  <2>1. /\ cfg \in Cfgs /\ Sound(cfg)
        /\ Fresh(config) => cfg["_schema"] = Current
    <3>1. cfg = Onboarded(Parsed(config), ref, effort, auto) \/ cfg = Rotated(Parsed(config), ref)
      BY <1>0, <1>2
    <3>2. ref \in Refs /\ effort \in Efforts /\ auto \in {NoValue, "1"}
      BY <1>2
    <3> QED BY <1>c, <3>1, <3>2, EditSound
  <2>2. \A k \in Keys \ {"_schema"} : Parsed(data)[k] = cfg[k]
    BY <1>3, <2>1, SerializedParses
  <2>3. ASSUME Tidy(a) PROVE Fresh(data)
    <3>1. cfg["_schema"] = Current
      BY <1>0, <1>a, <2>1, <2>3, ReadyFresh
    <3> QED BY <1>3, <2>1, <3>1, SerializedFresh DEF Current
  <2>4. Damaged(a) \/ SchemaOf(a) # "2"
    BY <1>0 DEF Ready, Current
  <2> QED BY <2>2, <2>3, <2>4 DEF Edited
<1>8. Writing(q)'
  BY <1>0, <1>4, <1>7 DEF Writing, At
<1> QED BY <1>1, <1>5, <1>6, <1>8 DEF AloneInv

\* Where a backup is made, the configuration is still what was found.
LEMMA CopyingIs ==
  ASSUME NEW q \in Procs, AloneInv(q), proc[q].pc \in {"copy", "copyOpen", "copyWrite"}
  PROVE  /\ proc[q] \in Proc /\ proc[q].target \in Names
         /\ proc[q].orig # Absent /\ config = proc[q].orig /\ Rewrites(q)
         /\ proc[q].then \in {"schema", "migrate"}
         /\ backup \in [Names -> Contents \cup {Absent}]
<1>1. proc[q] \in Proc /\ backup \in [Names -> Contents \cup {Absent}]
  BY ProcType DEF AloneInv
<1>2. proc[q].target \in Names
  BY <1>1 DEF Proc
<1> QED BY <1>1, <1>2 DEF AloneInv, Copying

LEMMA AloneCopyRead ==
  ASSUME NEW q \in Procs, AloneInv(q), CopyRead(q)
  PROVE  AloneInv(q)'
<1>0. /\ proc[q] \in Proc /\ TypeInv /\ proc[q].orig # Absent /\ config = proc[q].orig
      /\ Rewrites(q) /\ proc[q].then \in {"schema", "migrate"}
  BY CopyingIs DEF CopyRead, At, AloneInv
<1>1. TypeInv' /\ config' = config /\ backup' = backup /\ OnlyReads
  BY CopyType DEF AloneInv, CopyRead, OnlyReads
<1>2. Becomes(q, [proc[q] EXCEPT !.pc = "copyOpen", !.copied = config])
  BY DEF CopyRead
<1>3. /\ proc'[q].pc = "copyOpen" /\ proc'[q].copied = config
      /\ proc'[q].orig = proc[q].orig /\ proc'[q].then = proc[q].then
      /\ proc'[q].data = proc[q].data
  <2> DEFINE s == [proc[q] EXCEPT !.pc = "copyOpen", !.copied = config]
  <2>1. /\ s.pc = "copyOpen" /\ s.copied = config
        /\ s.orig = proc[q].orig /\ s.then = proc[q].then /\ s.data = proc[q].data
    BY <1>0 DEF Proc
  <2> HIDE DEF s
  <2>2. proc'[q] = s
    BY <1>0, <1>2, Moved DEF s
  <2> QED BY <2>1, <2>2
<1>4. NoneToBackUp(q)' /\ Preserved(q)'
  BY <1>0, <1>1, <1>3, StillOnDisk DEF OnDisk
<1>5. Reading(q)' /\ Writing(q)' /\ Left(q)'
  BY <1>3 DEF Reading, Writing, Left, At
<1>6. Copying(q)'
  BY <1>0, <1>1, <1>3 DEF Copying, Rewrites, At
<1> QED BY <1>1, <1>4, <1>5, <1>6 DEF AloneInv

LEMMA AloneCopyOpen ==
  ASSUME NEW q \in Procs, AloneInv(q), CopyOpen(q)
  PROVE  AloneInv(q)'
<1>0. /\ proc[q] \in Proc /\ TypeInv /\ proc[q].orig # Absent /\ config = proc[q].orig
      /\ Rewrites(q) /\ proc[q].then \in {"schema", "migrate"}
      /\ proc[q].target \in Names /\ backup \in [Names -> Contents \cup {Absent}]
      /\ proc[q].copied = proc[q].orig
  BY CopyingIs DEF CopyOpen, At, AloneInv, Copying
<1>1. TypeInv' /\ config' = config /\ backup' = [backup EXCEPT ![proc[q].target] = <<>>]
  BY CopyType DEF AloneInv, CopyOpen
<1>2. Becomes(q, [proc[q] EXCEPT !.pc = "copyWrite"])
  BY DEF CopyOpen
<1>3. /\ proc'[q].pc = "copyWrite" /\ proc'[q].copied = proc[q].copied
      /\ proc'[q].orig = proc[q].orig /\ proc'[q].then = proc[q].then
      /\ proc'[q].data = proc[q].data /\ proc'[q].target = proc[q].target
  BY <1>0, <1>2, Moved DEF Proc
<1>4. backup'[proc[q].target] = <<>>
  BY <1>0, <1>1
<1>5. NoneToBackUp(q)' /\ Preserved(q)'
  BY <1>0, <1>1, <1>3 DEF NoneToBackUp, Preserved, OnDisk
<1>6. Reading(q)' /\ Writing(q)' /\ Left(q)'
  BY <1>3 DEF Reading, Writing, Left, At
<1>7. Copying(q)'
  BY <1>0, <1>1, <1>3, <1>4 DEF Copying, Rewrites, At
<1> QED BY <1>1, <1>5, <1>6, <1>7 DEF AloneInv

LEMMA AloneCopyWrite ==
  ASSUME NEW q \in Procs, AloneInv(q), CopyWrite(q)
  PROVE  AloneInv(q)'
<1>0. /\ proc[q] \in Proc /\ TypeInv /\ proc[q].orig # Absent /\ config = proc[q].orig
      /\ Rewrites(q) /\ proc[q].then \in {"schema", "migrate"}
      /\ proc[q].target \in Names /\ backup \in [Names -> Contents \cup {Absent}]
      /\ proc[q].copied = proc[q].orig /\ backup[proc[q].target] = <<>>
  BY CopyingIs DEF CopyWrite, At, AloneInv, Copying
<1>1. TypeInv' /\ config' = config
  BY CopyType DEF AloneInv, CopyWrite
<1>2. backup' = [backup EXCEPT ![proc[q].target] = proc[q].orig]
  <2>1. PICK file \in Overlays(backup[proc[q].target], proc[q].copied) :
          backup' = [backup EXCEPT ![proc[q].target] = file]
    BY DEF CopyWrite
  <2>2. file = proc[q].orig
    BY <1>0, <2>1, OverlaysEmpty
  <2> QED BY <2>1, <2>2
<1>3. Becomes(q, [proc[q] EXCEPT !.pc = IF proc[q].then = "migrate" THEN "migrate" ELSE "open"])
  BY DEF CopyWrite
<1>4. /\ proc'[q].pc = (IF proc[q].then = "migrate" THEN "migrate" ELSE "open")
      /\ proc'[q].orig = proc[q].orig /\ proc'[q].then = proc[q].then
      /\ proc'[q].data = proc[q].data
  BY <1>0, <1>3, Moved DEF Proc
<1>5. \E n \in Names : backup'[n] = proc[q].orig
  BY <1>0, <1>2
<1>6. NoneToBackUp(q)' /\ Preserved(q)'
  BY <1>0, <1>1, <1>4, <1>5 DEF NoneToBackUp, Preserved, OnDisk
<1>7. Reading(q)' /\ Left(q)'
  BY <1>4 DEF Reading, Left, At
<1>8. Copying(q)' /\ Writing(q)'
  BY <1>0, <1>1, <1>4, <1>5 DEF Copying, Writing, Rewrites, At
<1> QED BY <1>1, <1>6, <1>7, <1>8 DEF AloneInv

LEMMA AloneOpen ==
  ASSUME NEW q \in Procs, AloneInv(q), Open(q)
  PROVE  AloneInv(q)'
<1>0. proc[q] \in Proc /\ TypeInv /\ At(q, "open") /\ "v0" \in Names
  BY ProcType DEF Open, AloneInv, Names
<1>1. TypeInv' /\ config' = <<>> /\ backup' = backup
  BY WriteType DEF AloneInv, Open
<1>2. Becomes(q, [proc[q] EXCEPT !.pc = "write"])
  BY DEF Open
<1>3. /\ proc'[q].pc = "write" /\ proc'[q].orig = proc[q].orig /\ proc'[q].then = proc[q].then
      /\ proc'[q].data = proc[q].data /\ proc'[q].cmd = proc[q].cmd
      /\ proc'[q].cfg = proc[q].cfg
  BY <1>0, <1>2, Moved DEF Proc
<1>4. NoneToBackUp(q)'
  BY <1>1, <1>3, EmptyFile, ConfigAssumption DEF AloneInv, NoneToBackUp
<1>5. Writing(q)'
  BY <1>0, <1>1, <1>3 DEF AloneInv, Writing, Rewrites, At
<1>6. Preserved(q)'
  <2>1. \/ \E n \in Names : backup[n] = proc[q].orig
        \/ proc[q].orig = Absent
        \/ proc[q].then = "done"
    BY <1>0 DEF AloneInv, Writing, At
  <2>2. proc[q].orig = Absent => backup["v0"] = proc[q].orig
    BY <1>0 DEF AloneInv, NoneToBackUp
  <2> QED BY <1>0, <1>1, <1>3, <2>1, <2>2 DEF Preserved, OnDisk
<1>7. Reading(q)' /\ Copying(q)' /\ Left(q)'
  BY <1>3 DEF Reading, Copying, Left, At
<1> QED BY <1>1, <1>4, <1>5, <1>6, <1>7 DEF AloneInv

LEMMA AloneWrite ==
  ASSUME NEW q \in Procs, AloneInv(q), Write(q)
  PROVE  AloneInv(q)'
<1> DEFINE a == proc[q].orig
           data == proc[q].data
           then == proc[q].then
<1>0. /\ proc[q] \in Proc /\ TypeInv /\ At(q, "write") /\ "v0" \in Names /\ config = <<>>
      /\ proc[q].data \in Contents
  BY ProcType DEF Write, AloneInv, Writing, Names, Proc
<1>1. TypeInv' /\ config' = data /\ backup' = backup
  BY <1>0, WriteType, OverlaysEmpty DEF AloneInv, Write
<1>2. /\ proc'[q].pc = then /\ proc'[q].orig = a /\ proc'[q].then = then
      /\ proc'[q].cmd = proc[q].cmd /\ proc'[q].cfg = proc[q].cfg
  <2>1. Becomes(q, [proc[q] EXCEPT !.pc = proc[q].then])
    BY DEF Write
  <2> QED BY <1>0, <2>1, Moved DEF Proc
<1>3. \/ /\ a # Absent /\ Rewrites(q) /\ then \in {"schema", "parse"}
         /\ then = "parse" => data = Migrated(a)
         /\ \E n \in Names : backup[n] = a
      \/ /\ a = Absent /\ Fresh(data)
         /\ (then = "validate" /\ proc[q].cmd = "launch") \/ then = "done"
      \/ a # Absent /\ then = "done" /\ proc[q].cmd # "launch" /\ Edited(a, data, proc[q].cfg)
  BY <1>0 DEF AloneInv, Writing, At
<1>4. NoneToBackUp(q)'
  BY <1>0, <1>1, <1>2, ConfigAssumption DEF AloneInv, NoneToBackUp
<1>5. Preserved(q)'
  <2>1. a = Absent => backup["v0"] = a
    BY <1>0 DEF AloneInv, NoneToBackUp
  <2> QED BY <1>0, <1>1, <1>2, <1>3, <2>1 DEF Preserved, OnDisk
<1>6. Reading(q)'
  <2>1. CASE then = "schema"
    BY <1>1, <1>2, <1>3, <2>1 DEF Reading, Rewrites, At
  <2>2. CASE then = "parse"
    BY <1>1, <1>2, <1>3, <2>2 DEF Reading, Rewrites, Ready, At
  <2>3. CASE then \in {"validate", "done"}
    BY <1>1, <1>2, <1>3, <2>3 DEF Reading, At
  <2> QED BY <1>3, <2>1, <2>2, <2>3
<1>7. Left(q)'
  BY <1>0, <1>1, <1>2, <1>3 DEF Left, Edited, At
<1>8. Copying(q)' /\ Writing(q)'
  BY <1>2, <1>3 DEF Copying, Writing, At
<1> QED BY <1>1, <1>4, <1>5, <1>6, <1>7, <1>8 DEF AloneInv

LEMMA AloneNext ==
  ASSUME NEW q, Procs = {q}, AloneInv(q), [Next]_vars
  PROVE  AloneInv(q)'
<1>1. CASE UNCHANGED vars
  <2>1. TypeInv'
    BY NextType DEF AloneInv
  <2>2. config' = config /\ backup' = backup /\ proc' = proc
    BY <1>1 DEF vars
  <2> QED BY <2>1, <2>2 DEF AloneInv, NoneToBackUp, Preserved, Reading, Copying, Writing, Left,
                            OnDisk, Rewrites, At
<1>2. CASE Begin(q) \/ Crash(q)
  BY <1>2, AloneBegin, AloneCrash
<1>3. CASE Stat(q) \/ Validate(q) \/ RepairConfig(q) \/ MigrateConfig(q) \/ MigrateFromV(q)
  BY <1>3, AloneStat, AloneValidate, AloneRepair, AloneMigrate, AloneMigrateFromV
<1>4. CASE Parse(q) \/ KeepConfig(q) \/ Edit(q)
  BY <1>4, AloneParse, AloneKeep, AloneEdit
<1>5. CASE CopyRead(q) \/ CopyOpen(q) \/ CopyWrite(q) \/ Open(q) \/ Write(q)
  BY <1>5, AloneCopyRead, AloneCopyOpen, AloneCopyWrite, AloneOpen, AloneWrite
<1> QED BY <1>1, <1>2, <1>3, <1>4, <1>5 DEF Next, Step

LEMMA AloneAlways ==
  ASSUME NEW q, Procs = {q}
  PROVE  Spec => []AloneInv(q)
<1>1. Init => AloneInv(q)
  BY AloneInit
<1>2. AloneInv(q) /\ [Next]_vars => AloneInv(q)'
  BY AloneNext
<1> QED BY <1>1, <1>2, PTL DEF Spec

-------------------------------------------------------------------------------
(* What follows for a process that runs one command after the other *)

\* However a load is cut off, between whichever two of its reads, truncations and
\* writes, the file it found is the configuration or a backup, byte for byte.
THEOREM OriginalIsKept ==
  ASSUME NEW q, Procs = {q}
  PROVE  Spec => []OriginalOnDisk
<1>1. AloneInv(q) => OriginalOnDisk
  BY DEF AloneInv, Preserved, OnDisk, OriginalOnDisk, Loading, At
<1> QED BY <1>1, AloneAlways, PTL

\* Through repair, migration and parsing, a load takes each setting from the last line
\* of its key, of a file of any length, unless the environment overrides it.
THEOREM LoadsAreFaithful ==
  ASSUME NEW q, Procs = {q}, EnvHeaders = NoValue
  PROVE  Spec => []LoadFaithful
<1>1. ASSUME AloneInv(q) PROVE LoadFaithful
  <2> DEFINE a == proc[q].orig
  <2>1. SUFFICES ASSUME At(q, "edit") \/ (Completed(q) /\ proc[q].cmd = "launch")
                 PROVE  Faithful(a, proc[q].cfg)
    BY DEF LoadFaithful, Faithful
  <2>2. a # Absent /\ Ready(a, config) /\ proc[q].cfg = Parsed(config)
    BY <1>1, <2>1 DEF AloneInv, Reading, Left, Completed, At
  <2>3. a \in Contents
    BY <1>1, <2>2, ProcType DEF AloneInv, Proc
  <2> QED BY <2>2, <2>3, ReadyFaithful
<1> QED BY <1>1, AloneAlways, PTL

\* The file a command leaves is accepted by the next one as it is.
THEOREM CleanFileIsLeft ==
  ASSUME NEW q, Procs = {q}
  PROVE  Spec => []LeavesCleanFile
<1>1. ASSUME AloneInv(q) PROVE LeavesCleanFile
  <2> DEFINE a == proc[q].orig
  <2>1. SUFFICES ASSUME At(q, "done"), a # Absent => Tidy(a)
                 PROVE  ~ Damaged(config) /\ SchemaOf(config) = Current
    BY DEF LeavesCleanFile, Tidy
  <2>2. Fresh(config)
    BY <1>1, <2>1 DEF AloneInv, Left
  <2>3. config \in Contents
    BY <1>1, <2>1 DEF AloneInv, Left
  <2> QED BY <2>2, <2>3, FreshSchema
<1> QED BY <1>1, AloneAlways, PTL

\* What --rotate-key and --setup leave on disk loads as what they had in memory.
THEOREM EditsKeepSettings ==
  ASSUME NEW q, Procs = {q}
  PROVE  Spec => []EditKeepsSettings
<1>1. AloneInv(q) => EditKeepsSettings
  BY DEF AloneInv, Left, EditKeepsSettings, Completed, At
<1> QED BY <1>1, AloneAlways, PTL

\* No step writes to the disk once a well-formed file of a newer schema was found.
THEOREM NewerIsUntouched ==
  ASSUME NEW q, Procs = {q}
  PROVE  Spec => NewerSchemaUntouched
<1>1. ASSUME AloneInv(q), proc[q].orig # Absent, ~ Damaged(proc[q].orig),
             SchemaOf(proc[q].orig) = "2", Step(q)
      PROVE  OnlyReads
  <2>1. proc[q].pc \notin {"copyOpen", "copyWrite", "open", "write"}
    BY <1>1 DEF AloneInv, Copying, Writing, Rewrites, Edited
  <2>2. \/ Stat(q) \/ Validate(q) \/ RepairConfig(q) \/ MigrateConfig(q) \/ MigrateFromV(q)
        \/ Parse(q) \/ KeepConfig(q) \/ Edit(q) \/ CopyRead(q)
    BY <1>1, <2>1 DEF Step, CopyOpen, CopyWrite, Open, Write, At
  <2> QED BY <2>2 DEF Stat, Validate, RepairConfig, MigrateConfig, MigrateFromV, Parse,
                      KeepConfig, Edit, CopyRead
<1>2. AloneInv(q) /\ [Next]_vars =>
        [\A p \in Procs :
           /\ proc[p].orig # Absent /\ ~ Damaged(proc[p].orig) /\ SchemaOf(proc[p].orig) = "2"
           /\ Step(p)
           => OnlyReads]_vars
  BY <1>1
<1> QED BY <1>2, AloneAlways, PTL DEF Spec, NewerSchemaUntouched
===============================================================================
