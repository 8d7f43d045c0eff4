------------------------------ MODULE DataProofs ------------------------------
(***************************************************************************)
(* The data the programs keep, for any number of sensors and any window:   *)
(* data.txt, which one run of central leaves to the next, and the ring of  *)
(* measurements a sensor takes its typical value from.  Both rest on a     *)
(* sorted sequence, whose existence is proved here first.                  *)
(***************************************************************************)
EXTENDS Persistence, SensorNode, FiniteSetTheorems, TLAPS
-----------------------------------------------------------------------------
(* Sorting.                                                                 *)

\* Every vector of numbers can be sorted: the place of an element is the number of
\* elements that are smaller, or equal and not after it.
LEMMA SortingExists ==
    ASSUME NEW n \in Nat, NEW s \in [1..n -> Nat]
    PROVE  \E p \in [1..n -> 1..n] : InOrderOf(s, p)
<1> DEFINE D == 1..n
           Before(j, i) == s[j] < s[i] \/ (s[j] = s[i] /\ j <= i)
           Upto(i) == {j \in D : Before(j, i)}
           rank == [i \in D |-> Cardinality(Upto(i))]
<1>1. IsFiniteSet(D) /\ Cardinality(D) = n
  BY FS_Interval
<1>2. \A i \in D : s[i] \in Nat /\ i \in Nat
  OBVIOUS
<1>3. ASSUME NEW i \in D
      PROVE  IsFiniteSet(Upto(i)) /\ rank[i] \in 1..n
  <2>1. Upto(i) \in SUBSET D /\ i \in Upto(i)
    BY <1>2
  <2>2. IsFiniteSet(Upto(i)) /\ Cardinality(Upto(i)) <= n
    BY <1>1, <2>1, FS_Subset
  <2>3. Cardinality(Upto(i)) \in Nat /\ Cardinality(Upto(i)) # 0
    BY <2>1, <2>2, FS_CardinalityType, FS_EmptySet
  <2> QED BY <2>2, <2>3
<1>4. ASSUME NEW i \in D, NEW k \in D, i # k, Before(i, k)
      PROVE  rank[i] < rank[k]
  <2>1. \A j \in D : Before(j, i) => Before(j, k)
    BY <1>2, <1>4
  <2>2. ~Before(k, i) /\ Before(k, k)
    BY <1>2, <1>4
  <2>3. Upto(i) \in SUBSET Upto(k) /\ Upto(i) # Upto(k)
    BY <2>1, <2>2
  <2>4. Cardinality(Upto(i)) <= Cardinality(Upto(k)) /\ Cardinality(Upto(i)) # Cardinality(Upto(k))
    BY <1>3, <2>3, FS_Subset
  <2>5. rank[i] \in 1..n /\ rank[k] \in 1..n
    BY <1>3
  <2> QED BY <2>4, <2>5
<1>5. \A i, k \in D : Before(i, k) \/ Before(k, i)
  BY <1>2
<1> HIDE DEF rank
<1>6. rank \in [D -> D]
  BY <1>3 DEF rank
<1> HIDE DEF Before
<1>7. rank \in Injection(D, D)
  <2>1. ASSUME NEW i \in D, NEW k \in D, i # k
        PROVE  rank[i] # rank[k]
    <3>1. rank[i] \in Nat /\ rank[k] \in Nat
      BY <1>6
    <3>2. rank[i] < rank[k] \/ rank[k] < rank[i]
      BY <1>4, <1>5, <2>1
    <3> QED BY <3>1, <3>2
  <2> QED BY <1>6, <2>1 DEF Injection, IsInjective
<1>8. \A k \in D : \E i \in D : rank[i] = k
  <2>1. rank \in Surjection(D, D)
    BY <1>1, <1>7, FS_Injection
  <2> QED BY <2>1 DEF Surjection
<1> DEFINE p == [k \in D |-> CHOOSE i \in D : rank[i] = k]
<1>9. \A k \in D : p[k] \in D /\ rank[p[k]] = k
  BY <1>8
<1> HIDE DEF p
<1>10. p \in [D -> D]
  BY <1>9 DEF p
<1>11. \A i \in D : \E j \in D : p[j] = i
  <2>1. \A i \in D : p[rank[i]] = i
    BY <1>6, <1>7, <1>9 DEF Injection, IsInjective
  <2> QED BY <1>6, <2>1
<1>12. ASSUME NEW i \in D, NEW j \in D, i < j
       PROVE  s[p[i]] <= s[p[j]]
  <2>1. Before(p[i], p[j])
    <3>1. p[i] # p[j]
      BY <1>9, <1>12
    <3>2. ~(rank[p[j]] < rank[p[i]])
      BY <1>9, <1>12
    <3> QED BY <1>4, <1>5, <1>9, <3>1, <3>2
  <2> QED BY <1>2, <1>9, <2>1 DEF Before
<1> QED BY <1>10, <1>11, <1>12 DEF InOrderOf

\* What std::sort leaves: the same elements at other places, in order.
LEMMA SortedFacts ==
    ASSUME NEW n \in Nat, NEW s \in [1..n -> Nat]
    PROVE  \E p \in [1..n -> 1..n] :
              InOrderOf(s, p) /\ Sorted(s) = [i \in 1..n |-> s[p[i]]]
<1>1. DOMAIN s = 1..n
  OBVIOUS
<1> DEFINE p == CHOOSE q \in [1..n -> 1..n] : InOrderOf(s, q)
<1>2. p \in [1..n -> 1..n] /\ InOrderOf(s, p)
  BY SortingExists
<1>3. Sorted(s) = [i \in 1..n |-> s[p[i]]]
  BY <1>1 DEF Sorted
<1> QED BY <1>2, <1>3

\* A loop over a std::map meets every key once.
LEMMA AscendingFacts ==
    ASSUME NEW S \in SUBSET Nat, IsFiniteSet(S)
    PROVE  /\ Cardinality(S) \in Nat
           /\ Ascending(S) \in [1..Cardinality(S) -> S]
           /\ \A i, j \in 1..Cardinality(S) : Ascending(S)[i] = Ascending(S)[j] => i = j
           /\ \A x \in S : \E i \in 1..Cardinality(S) : Ascending(S)[i] = x
<1> DEFINE n == Cardinality(S)
           D == 1..n
<1>1. n \in Nat /\ ExistsBijection(D, S)
  BY FS_CardinalityType
<1>2. IsFiniteSet(D) /\ Cardinality(D) = n
  BY <1>1, FS_Interval
<1>3. PICK f \in Bijection(D, S) : TRUE
  BY <1>1 DEF ExistsBijection
<1> HIDE DEF n
<1>4. f \in [D -> S] /\ \A i, j \in D : f[i] = f[j] => i = j
  BY <1>3 DEF Bijection, Injection, IsInjective
<1>5. PICK p \in [D -> D] : InOrderOf(f, p)
  <2>1. f \in [1..n -> Nat]
    BY <1>4
  <2> QED BY <1>1, <2>1, SortingExists
<1>6. \A i, j \in D : p[i] = p[j] => i = j
  <2>1. p \in Surjection(D, D)
    BY <1>4, <1>5 DEF InOrderOf, Surjection
  <2>2. p \in Injection(D, D)
    BY <1>2, <2>1, FS_SurjSameCardinalityImpliesInj
  <2> QED BY <2>2 DEF Injection, IsInjective
<1>7. \E t \in [D -> S] : \A i, j \in D : i < j => t[i] < t[j]
  <2> DEFINE t == [i \in D |-> f[p[i]]]
  <2>1. t \in [D -> S]
    BY <1>4, <1>5
  <2>2. ASSUME NEW i \in D, NEW j \in D, i < j
        PROVE  t[i] < t[j]
    <3>1. f[p[i]] <= f[p[j]]
      BY <1>4, <1>5, <2>2 DEF InOrderOf
    <3>2. i # j
      BY <1>1, <2>2
    <3>3. f[p[i]] # f[p[j]] /\ f[p[i]] \in Nat /\ f[p[j]] \in Nat
      BY <1>4, <1>5, <1>6, <3>2
    <3> QED BY <3>1, <3>3
  <2> HIDE DEF t
  <2> QED BY <2>1, <2>2
<1> DEFINE a == Ascending(S)
<1>8. a \in [D -> S] /\ \A i, j \in D : i < j => a[i] < a[j]
  BY <1>7 DEF Ascending, n
<1> HIDE DEF a
<1>9. \A i, j \in D : a[i] = a[j] => i = j
  <2> SUFFICES ASSUME NEW i \in D, NEW j \in D, i # j PROVE a[i] # a[j]
    OBVIOUS
  <2>1. i < j \/ j < i
    BY <1>1
  <2>2. a[i] \in Nat /\ a[j] \in Nat
    BY <1>8
  <2> QED BY <1>8, <2>1, <2>2
<1>10. a \in Surjection(D, S)
  <2>1. a \in Injection(D, S)
    BY <1>8, <1>9 DEF Injection, IsInjective
  <2> QED BY <1>2, <2>1, FS_Injection DEF n
<1> QED BY <1>1, <1>8, <1>9, <1>10 DEF Surjection, a, n
-----------------------------------------------------------------------------
(* data.txt.                                                                *)

Line == Addr \X Threshold
Lists == UNION {[S -> Threshold] : S \in SUBSET Addr}

AddressesOf(s) == {s[i][1] : i \in DOMAIN s}

\* No address has two lines.
OnePerAddress(s) == \A i, j \in DOMAIN s : s[i][1] = s[j][1] => i = j

PersistenceTypeOK ==
    /\ phase \in {"down", "init", "run", "last"}
    /\ list \in Lists /\ IsFiniteSet(DOMAIN list)
    /\ flight \in [Addr -> SUBSET (Threshold \ {DefaultThreshold})]
    /\ waiting \subseteq Addr
    /\ file \in Seq(Line) /\ lines \in Seq(Line) /\ rest \in Seq(Line)
    /\ save \in {"idle", "open", "lines"}

\* What is written, with what is still to be written, describes one list.
FileIsAMap ==
    /\ OnePerAddress(IF save = "lines" THEN file \o lines ELSE file)
    /\ save = "open" => OnePerAddress(lines)

\* Nothing is saved before the file has been read.
OnlyRunningSaves ==
    /\ phase \in {"down", "init"} => save = "idle"
    /\ phase = "down" => DOMAIN list = {}

\* init_from_file has registered what it has read, and nothing else is registered.
RestoredSoFar ==
    phase = "init" =>
        /\ file # <<>>
        /\ AddressesOf(rest) \subseteq AddressesOf(file)
        /\ DOMAIN list \subseteq AddressesOf(file)
        /\ AddressesOf(file) \subseteq DOMAIN list \cup AddressesOf(rest)

PersistenceInv ==
    /\ PersistenceTypeOK
    /\ FileIsAMap
    /\ OnlyRunningSaves
    /\ RestoredSoFar
    /\ DefaultMeansUnconfirmed

\* A list is a function on the registered addresses.
LEMMA ListsFacts ==
    /\ \A l : l \in Lists <=> /\ DOMAIN l \subseteq Addr
                              /\ l = [a \in DOMAIN l |-> l[a]]
                              /\ \A a \in DOMAIN l : l[a] \in Threshold
    /\ Lists = Durable!Lists
    /\ Nobody \in Lists /\ DOMAIN Nobody = {} /\ Nobody = Durable!Nobody
    /\ \A l : l \in Lists /\ DOMAIN l = {} => l = Nobody
<1>1. ASSUME NEW l
      PROVE  l \in Lists <=> /\ DOMAIN l \subseteq Addr
                             /\ l = [a \in DOMAIN l |-> l[a]]
                             /\ \A a \in DOMAIN l : l[a] \in Threshold
  <2>1. ASSUME l \in Lists
        PROVE  /\ DOMAIN l \subseteq Addr
               /\ l = [a \in DOMAIN l |-> l[a]]
               /\ \A a \in DOMAIN l : l[a] \in Threshold
    <3>1. PICK S \in SUBSET Addr : l \in [S -> Threshold]
      BY <2>1 DEF Lists
    <3> QED BY <3>1
  <2>2. ASSUME DOMAIN l \subseteq Addr, l = [a \in DOMAIN l |-> l[a]],
               \A a \in DOMAIN l : l[a] \in Threshold
        PROVE  l \in Lists
    <3>1. l \in [DOMAIN l -> Threshold]
      BY <2>2
    <3> QED BY <2>2, <3>1 DEF Lists
  <2> QED BY <2>1, <2>2
<1>2. Lists = Durable!Lists
  BY DEF Lists, Durable!Lists
<1>3. DOMAIN Nobody = {} /\ Nobody \in Lists
  <2>1. Nobody \in [{} -> Threshold] /\ DOMAIN Nobody = {}
    BY DEF Nobody
  <2> QED BY <2>1 DEF Lists
<1>4. Nobody = Durable!Nobody
  BY DEF Nobody, Durable!Nobody
<1>5. ASSUME NEW l \in Lists, DOMAIN l = {} PROVE l = Nobody
  BY <1>1, <1>5 DEF Nobody
<1> QED BY <1>1, <1>2, <1>3, <1>4, <1>5

\* A line is an address and a threshold.
LEMMA LineFacts ==
    ASSUME NEW s \in Seq(Line)
    PROVE  /\ DOMAIN s = 1..Len(s) /\ Len(s) \in Nat
           /\ \A i \in DOMAIN s : s[i] = <<s[i][1], s[i][2]>> /\ s[i][1] \in Addr /\ s[i][2] \in Threshold
           /\ AddressesOf(s) \subseteq Addr
<1>1. DOMAIN s = 1..Len(s) /\ Len(s) \in Nat /\ \A i \in DOMAIN s : s[i] \in Line
  OBVIOUS
<1>2. \A x \in Line : x = <<x[1], x[2]>> /\ x[1] \in Addr /\ x[2] \in Threshold
  BY DEF Line
<1> QED BY <1>1, <1>2 DEF AddressesOf

\* The list that lines describe.
LEMMA ListOfFacts ==
    ASSUME NEW s \in Seq(Line)
    PROVE  /\ DOMAIN ListOf(s) = AddressesOf(s)
           /\ ListOf(s) \in Lists
           /\ OnePerAddress(s) => \A i \in DOMAIN s : ListOf(s)[s[i][1]] = s[i][2]
<1> DEFINE place(a) == CHOOSE j \in DOMAIN s : s[j][1] = a
<1>1. ListOf(s) = [a \in AddressesOf(s) |-> s[place(a)][2]]
  BY DEF ListOf, AddressesOf
<1>2. \A a \in AddressesOf(s) : place(a) \in DOMAIN s /\ s[place(a)][1] = a
  BY DEF AddressesOf
<1> HIDE DEF place
<1>3. ListOf(s) \in [AddressesOf(s) -> Threshold]
  BY <1>1, <1>2, LineFacts
<1>4. ListOf(s) \in Lists
  BY <1>3, LineFacts DEF Lists
<1>5. ASSUME OnePerAddress(s), NEW i \in DOMAIN s
      PROVE  ListOf(s)[s[i][1]] = s[i][2]
  <2>1. s[i][1] \in AddressesOf(s)
    BY DEF AddressesOf
  <2>2. place(s[i][1]) = i
    BY <1>2, <1>5, <2>1 DEF OnePerAddress
  <2> QED BY <1>1, <2>1, <2>2
<1> QED BY <1>1, <1>4, <1>5

\* write_to_file writes one line for every sensor, and the lines describe the list.
LEMMA LinesOfFacts ==
    ASSUME NEW l \in Lists, IsFiniteSet(DOMAIN l)
    PROVE  /\ LinesOf(l) \in Seq(Line)
           /\ OnePerAddress(LinesOf(l))
           /\ ListOf(LinesOf(l)) = l
<1> DEFINE S == DOMAIN l
           n == Cardinality(S)
           s == LinesOf(l)
           key == Ascending(S)
<1>1. S \in SUBSET Addr /\ S \in SUBSET Nat /\ l \in [S -> Threshold]
  BY ListsFacts, PersistenceAssumption
<1>2. /\ n \in Nat
      /\ key \in [1..n -> S]
      /\ \A i, j \in 1..n : key[i] = key[j] => i = j
      /\ \A x \in S : \E i \in 1..n : key[i] = x
  BY <1>1, AscendingFacts
<1>3. s = [i \in 1..n |-> <<key[i], l[key[i]]>>]
  BY DEF LinesOf
<1> HIDE DEF n, s, key
<1>4. DOMAIN s = 1..n /\ \A i \in 1..n : s[i] = <<key[i], l[key[i]]>> /\ s[i] \in Line
  <2>1. \A i \in 1..n : key[i] \in Addr /\ l[key[i]] \in Threshold
    BY <1>1, <1>2
  <2> QED BY <1>3, <2>1 DEF Line
<1>5. s \in Seq(Line)
  <2>1. s \in [1..n -> Line]
    BY <1>3, <1>4
  <2> QED BY <1>2, <2>1
<1>6. OnePerAddress(s)
  BY <1>2, <1>4 DEF OnePerAddress
<1>7. AddressesOf(s) = S
  <2>1. \A i \in 1..n : s[i][1] = key[i]
    BY <1>4
  <2>2. \A x : x \in AddressesOf(s) <=> \E i \in 1..n : x = key[i]
    BY <1>4, <2>1 DEF AddressesOf
  <2>3. \A x : x \in S <=> \E i \in 1..n : x = key[i]
    BY <1>2
  <2> QED BY <2>2, <2>3
<1>8. ListOf(s) = l
  <2>1. ListOf(s) \in Lists /\ DOMAIN ListOf(s) = S
    BY <1>5, <1>7, ListOfFacts
  <2>2. ASSUME NEW a \in S PROVE ListOf(s)[a] = l[a]
    <3>1. PICK i \in 1..n : key[i] = a
      BY <1>2
    <3>2. s[i][1] = a /\ s[i][2] = l[a]
      BY <1>4, <3>1
    <3> QED BY <1>4, <1>5, <1>6, <3>2, ListOfFacts
  <2>3. ListOf(s) = [a \in S |-> ListOf(s)[a]] /\ l = [a \in S |-> l[a]]
    BY <2>1, ListsFacts
  <2> QED BY <2>2, <2>3
<1> QED BY <1>5, <1>6, <1>8 DEF s

\* The first lines of a file describe a part of the list.
LEMMA PrefixFacts ==
    ASSUME NEW s \in Seq(Line), NEW t \in Seq(Line), OnePerAddress(s \o t)
    PROVE  /\ OnePerAddress(s)
           /\ AddressesOf(s) \subseteq AddressesOf(s \o t)
           /\ ListOf(s) = [a \in AddressesOf(s) |-> ListOf(s \o t)[a]]
<1> DEFINE u == s \o t
<1>1. u \in Seq(Line) /\ \A i \in DOMAIN s : i \in DOMAIN u /\ u[i] = s[i]
  OBVIOUS
<1> HIDE DEF u
<1>2. OnePerAddress(s)
  BY <1>1 DEF OnePerAddress, u
<1>3. AddressesOf(s) \subseteq AddressesOf(u)
  BY <1>1 DEF AddressesOf
<1>4. ASSUME NEW a \in AddressesOf(s) PROVE ListOf(s)[a] = ListOf(u)[a]
  <2>1. PICK i \in DOMAIN s : a = s[i][1]
    BY DEF AddressesOf
  <2>2. ListOf(s)[a] = s[i][2]
    BY <1>2, <2>1, ListOfFacts
  <2>3. ListOf(u)[a] = u[i][2]
    BY <1>1, <2>1, ListOfFacts DEF u
  <2> QED BY <1>1, <2>1, <2>2, <2>3
<1>5. ListOf(s) = [a \in AddressesOf(s) |-> ListOf(s)[a]]
  BY ListOfFacts, ListsFacts
<1> QED BY <1>2, <1>3, <1>4, <1>5 DEF u

\* Reading the first line leaves the others.
LEMMA HeadAndTail ==
    ASSUME NEW s \in Seq(Line), s # <<>>
    PROVE  AddressesOf(s) = {Head(s)[1]} \cup AddressesOf(Tail(s))
<1> DEFINE t == Tail(s)
<1>1. /\ Len(s) \in Nat \ {0} /\ DOMAIN s = 1..Len(s) /\ DOMAIN t = 1..(Len(s) - 1)
      /\ Head(s) = s[1] /\ \A i \in 1..(Len(s) - 1) : t[i] = s[i + 1]
  OBVIOUS
<1> HIDE DEF t
<1>2. ASSUME NEW i \in DOMAIN s, i # 1 PROVE i - 1 \in DOMAIN t /\ t[i - 1] = s[i]
  BY <1>1, <1>2
<1>3. \A i \in DOMAIN t : i + 1 \in DOMAIN s /\ t[i] = s[i + 1]
  BY <1>1
<1>4. 1 \in DOMAIN s
  BY <1>1
<1>5. \A x : x \in AddressesOf(s) => x = Head(s)[1] \/ x \in AddressesOf(t)
  BY <1>1, <1>2 DEF AddressesOf
<1>6. \A x : x \in AddressesOf(t) => x \in AddressesOf(s)
  BY <1>3 DEF AddressesOf
<1>7. Head(s)[1] \in AddressesOf(s)
  BY <1>1, <1>4 DEF AddressesOf
<1> QED BY <1>5, <1>6, <1>7 DEF t

\* Writing the next line moves it from one sequence to the other.
LEMMA WrittenAndUnwritten ==
    ASSUME NEW s \in Seq(Line), NEW t \in Seq(Line), t # <<>>
    PROVE  Append(s, Head(t)) \o Tail(t) = s \o t
OBVIOUS

\* The last line of a file that has one.
LEMMA LastLine ==
    ASSUME NEW s \in Seq(Line), s # <<>>
    PROVE  /\ Last(s)[1] \in Addr /\ Last(s)[2] \in Threshold
           /\ Last(s)[1] \in AddressesOf(s)
<1>1. Len(s) \in DOMAIN s
  OBVIOUS
<1> QED BY <1>1, LineFacts DEF Last, AddressesOf

\* Communicator::add_sensor, whatever it was called for.
LEMMA AddSensorFacts ==
    ASSUME PersistenceTypeOK, DefaultMeansUnconfirmed,
           NEW a \in Addr, NEW t \in Threshold, add_sensor(a, t)
    PROVE  /\ list' \in Lists /\ IsFiniteSet(DOMAIN list')
           /\ DOMAIN list' = DOMAIN list \cup {a}
           /\ flight' \in [Addr -> SUBSET (Threshold \ {DefaultThreshold})]
           /\ waiting' \subseteq Addr
           /\ DefaultMeansUnconfirmed'
<1> DEFINE S == DOMAIN list \cup {a}
<1>1. /\ list \in Lists /\ DOMAIN list \subseteq Addr
      /\ \A b \in DOMAIN list : list[b] \in Threshold
  BY ListsFacts DEF PersistenceTypeOK
<1>2. list' = [b \in S |-> IF b \in DOMAIN list THEN list[b] ELSE DefaultThreshold]
  BY DEF add_sensor, Emplace
<1>3. DOMAIN list' = S /\ list' \in [S -> Threshold] /\ S \in SUBSET Addr
  BY <1>1, <1>2, PersistenceAssumption
<1>4. list' \in Lists
  BY <1>3 DEF Lists
<1>5. IsFiniteSet(DOMAIN list')
  <2>1. IsFiniteSet(DOMAIN list)
    BY DEF PersistenceTypeOK
  <2>2. IsFiniteSet(DOMAIN list \cup {a})
    BY <2>1, FS_AddElement
  <2> QED BY <1>3, <2>2
<1>6. /\ flight' \in [Addr -> SUBSET (Threshold \ {DefaultThreshold})]
      /\ waiting' \subseteq Addr
  BY DEF add_sensor, Ask, PersistenceTypeOK
<1>7. DefaultMeansUnconfirmed'
  <2>1. fresh' = fresh \cup ({a} \ DOMAIN list)
    BY DEF add_sensor
  <2> SUFFICES ASSUME NEW b \in S, list'[b] = DefaultThreshold PROVE b \in fresh'
    BY <1>3 DEF DefaultMeansUnconfirmed
  <2>2. CASE b \in DOMAIN list
    BY <1>2, <2>1, <2>2 DEF DefaultMeansUnconfirmed
  <2>3. CASE b \notin DOMAIN list
    BY <2>1, <2>3
  <2> QED BY <2>2, <2>3
<1> QED BY <1>3, <1>4, <1>5, <1>6, <1>7

\* An answer that is stored, or not.
LEMMA AnsweredFacts ==
    ASSUME PersistenceTypeOK, DefaultMeansUnconfirmed,
           NEW a \in Addr, NEW t \in Threshold, Answered(a, t)
    PROVE  /\ list' \in Lists /\ DOMAIN list' = DOMAIN list
           /\ flight' \in [Addr -> SUBSET (Threshold \ {DefaultThreshold})]
           /\ waiting' \subseteq Addr
           /\ DefaultMeansUnconfirmed'
<1>1. t # DefaultThreshold
  BY DEF Answered, PersistenceTypeOK
<1>2. /\ flight' \in [Addr -> SUBSET (Threshold \ {DefaultThreshold})]
      /\ waiting' \subseteq Addr
  BY DEF Answered, PersistenceTypeOK
<1>3. /\ list \in Lists /\ list = [b \in DOMAIN list |-> list[b]] /\ DOMAIN list \subseteq Addr
      /\ \A b \in DOMAIN list : list[b] \in Threshold
  BY ListsFacts DEF PersistenceTypeOK
<1>4. CASE a \in waiting /\ a \in DOMAIN list
  <2>1. list' = [list EXCEPT ![a] = t] /\ fresh' = fresh \ {a}
    BY <1>4 DEF Answered
  <2>2. /\ DOMAIN list' = DOMAIN list /\ list'[a] = t
        /\ \A b \in DOMAIN list : b # a => list'[b] = list[b]
    BY <1>3, <1>4, <2>1
  <2>3. list' \in [DOMAIN list -> Threshold]
    BY <1>3, <2>1
  <2>4. list' \in Lists
    BY <1>3, <2>3 DEF Lists
  <2>5. DefaultMeansUnconfirmed'
    BY <1>1, <2>1, <2>2 DEF DefaultMeansUnconfirmed
  <2> QED BY <1>2, <2>2, <2>4, <2>5
<1>5. CASE ~(a \in waiting /\ a \in DOMAIN list)
  BY <1>2, <1>3, <1>5 DEF Answered, DefaultMeansUnconfirmed
<1> QED BY <1>4, <1>5

\* Nothing is registered and nothing is saved before the first start.
LEMMA PersistenceInitInv == Init => PersistenceInv
<1> SUFFICES ASSUME Init PROVE PersistenceInv
  OBVIOUS
<1>1. <<>> \in Seq(Line) /\ DOMAIN <<>> = {}
  OBVIOUS
<1>2. list \in Lists /\ DOMAIN list = {} /\ IsFiniteSet(DOMAIN list)
  BY ListsFacts, FS_EmptySet DEF Init
<1>3. PersistenceTypeOK
  BY <1>1, <1>2 DEF Init, PersistenceTypeOK
<1>4. FileIsAMap
  BY <1>1 DEF Init, FileIsAMap, OnePerAddress
<1> QED BY <1>2, <1>3, <1>4
        DEF Init, PersistenceInv, OnlyRunningSaves, RestoredSoFar, DefaultMeansUnconfirmed

\* Every step of the users, the sensors, the saver, the reader and a crash keeps the
\* invariant.
LEMMA PersistenceNextInv == PersistenceInv /\ [Next]_vars => PersistenceInv'
<1> SUFFICES ASSUME PersistenceInv, [Next]_vars PROVE PersistenceInv'
  OBVIOUS
<1>0. /\ PersistenceTypeOK /\ FileIsAMap /\ OnlyRunningSaves /\ RestoredSoFar
      /\ DefaultMeansUnconfirmed
  BY DEF PersistenceInv
<1>1. ASSUME NEW a \in Addr, NEW t \in Threshold, UserAdds(a, t) PROVE PersistenceInv'
  <2>1. add_sensor(a, t) /\ phase = "run" /\ UNCHANGED <<phase, file, save, lines, rest>>
    BY <1>1 DEF UserAdds, fileVars
  <2>2. PersistenceTypeOK' /\ DefaultMeansUnconfirmed'
    BY <1>0, <2>1, AddSensorFacts DEF PersistenceTypeOK
  <2>3. FileIsAMap' /\ OnlyRunningSaves' /\ RestoredSoFar'
    BY <1>0, <2>1 DEF FileIsAMap, OnlyRunningSaves, RestoredSoFar
  <2> QED BY <2>2, <2>3 DEF PersistenceInv
<1>2. ASSUME NEW a \in Addr, NEW t \in Threshold, UserSetsThreshold(a, t) \/ Lose(a, t)
      PROVE PersistenceInv'
  <2>1. UNCHANGED <<phase, list, file, save, lines, rest, fresh>>
    BY <1>2 DEF UserSetsThreshold, Lose, fileVars
  <2>2. /\ flight' \in [Addr -> SUBSET (Threshold \ {DefaultThreshold})]
        /\ waiting' \subseteq Addr
    BY <1>0, <1>2 DEF UserSetsThreshold, Lose, Ask, PersistenceTypeOK
  <2>3. PersistenceTypeOK'
    BY <1>0, <2>1, <2>2 DEF PersistenceTypeOK
  <2> QED BY <1>0, <2>1, <2>3
          DEF PersistenceInv, FileIsAMap, OnlyRunningSaves, RestoredSoFar, DefaultMeansUnconfirmed
<1>3. ASSUME NEW a \in Addr, NEW t \in Threshold, Answered(a, t) PROVE PersistenceInv'
  <2>1. phase # "down" /\ UNCHANGED <<phase, file, save, lines, rest>>
    BY <1>3 DEF Answered, fileVars
  <2>2. PersistenceTypeOK' /\ DefaultMeansUnconfirmed' /\ DOMAIN list' = DOMAIN list
    BY <1>0, <1>3, <2>1, AnsweredFacts DEF PersistenceTypeOK
  <2>3. FileIsAMap' /\ OnlyRunningSaves' /\ RestoredSoFar'
    BY <1>0, <2>1, <2>2 DEF FileIsAMap, OnlyRunningSaves, RestoredSoFar
  <2> QED BY <2>2, <2>3 DEF PersistenceInv
<1>4. ASSUME NEW a \in Addr, UserErases(a) PROVE PersistenceInv'
  <2>1. /\ phase = "run" /\ UNCHANGED <<phase, flight, waiting, file, save, lines, rest, fresh>>
        /\ list' = [b \in DOMAIN list \ {a} |-> list[b]]
    BY <1>4 DEF UserErases, fileVars
  <2>2. list' \in [DOMAIN list \ {a} -> Threshold] /\ DOMAIN list \ {a} \in SUBSET Addr
    BY <1>0, <2>1, ListsFacts DEF PersistenceTypeOK
  <2>3. list' \in Lists /\ IsFiniteSet(DOMAIN list')
    <3>1. IsFiniteSet(DOMAIN list)
      BY <1>0 DEF PersistenceTypeOK
    <3>2. IsFiniteSet(DOMAIN list \ {a})
      BY <3>1, FS_RemoveElement
    <3>3. DOMAIN list' = DOMAIN list \ {a}
      BY <2>2
    <3> QED BY <2>2, <3>2, <3>3 DEF Lists
  <2>4. PersistenceTypeOK'
    BY <1>0, <2>1, <2>3 DEF PersistenceTypeOK
  <2>5. DefaultMeansUnconfirmed'
    BY <1>0, <2>1, <2>2 DEF DefaultMeansUnconfirmed
  <2> QED BY <1>0, <2>1, <2>4, <2>5
          DEF PersistenceInv, FileIsAMap, OnlyRunningSaves, RestoredSoFar
<1>5. ASSUME CopyList PROVE PersistenceInv'
  <2>1. /\ phase \in {"run", "last"} /\ save = "idle" /\ save' = "open" /\ lines' = LinesOf(list)
        /\ UNCHANGED <<phase, list, flight, waiting, file, rest, fresh>>
    BY <1>5 DEF CopyList, Saves
  <2>2. lines' \in Seq(Line) /\ OnePerAddress(lines')
    BY <1>0, <2>1, LinesOfFacts DEF PersistenceTypeOK
  <2>3. PersistenceTypeOK'
    BY <1>0, <2>1, <2>2 DEF PersistenceTypeOK
  <2>4. FileIsAMap'
    BY <1>0, <2>1, <2>2 DEF FileIsAMap
  <2> QED BY <1>0, <2>1, <2>3, <2>4
          DEF PersistenceInv, OnlyRunningSaves, RestoredSoFar, DefaultMeansUnconfirmed
<1>6. ASSUME OpenFile PROVE PersistenceInv'
  <2>1. /\ save = "open" /\ save' = "lines" /\ file' = <<>>
        /\ UNCHANGED <<phase, list, flight, waiting, lines, rest, fresh>>
    BY <1>6 DEF OpenFile
  <2>2. phase \notin {"down", "init"}
    BY <1>0, <2>1 DEF OnlyRunningSaves
  <2>3. <<>> \in Seq(Line) /\ lines \in Seq(Line) /\ <<>> \o lines = lines
    BY <1>0 DEF PersistenceTypeOK
  <2>4. PersistenceTypeOK'
    BY <1>0, <2>1, <2>3 DEF PersistenceTypeOK
  <2>5. FileIsAMap'
    BY <1>0, <2>1, <2>3 DEF FileIsAMap
  <2> QED BY <1>0, <2>1, <2>2, <2>4, <2>5
          DEF PersistenceInv, OnlyRunningSaves, RestoredSoFar, DefaultMeansUnconfirmed
<1>7. ASSUME WriteLine PROVE PersistenceInv'
  <2>1. /\ save = "lines" /\ lines # <<>> /\ file' = Append(file, Head(lines)) /\ lines' = Tail(lines)
        /\ UNCHANGED <<phase, list, flight, waiting, save, rest, fresh>>
    BY <1>7 DEF WriteLine, NextLine
  <2>2. phase \notin {"down", "init"}
    BY <1>0, <2>1 DEF OnlyRunningSaves
  <2>3. file' \in Seq(Line) /\ lines' \in Seq(Line)
    BY <1>0, <2>1 DEF PersistenceTypeOK
  <2>4. file' \o lines' = file \o lines
    BY <1>0, <2>1, WrittenAndUnwritten DEF PersistenceTypeOK
  <2>5. PersistenceTypeOK'
    BY <1>0, <2>1, <2>3 DEF PersistenceTypeOK
  <2>6. FileIsAMap'
    BY <1>0, <2>1, <2>4 DEF FileIsAMap
  <2> QED BY <1>0, <2>1, <2>2, <2>5, <2>6
          DEF PersistenceInv, OnlyRunningSaves, RestoredSoFar, DefaultMeansUnconfirmed
<1>8. ASSUME CloseFile PROVE PersistenceInv'
  <2>1. /\ save = "lines" /\ lines = <<>> /\ save' = "idle" /\ UNCHANGED <<flight, file, lines, rest>>
        /\ \/ /\ phase' = "down" /\ list' = Nobody /\ waiting' = {} /\ fresh' = {}
           \/ UNCHANGED <<phase, list, waiting, fresh>>
    BY <1>8 DEF CloseFile, SaveReturns
  <2>2. phase \notin {"down", "init"}
    BY <1>0, <2>1 DEF OnlyRunningSaves
  <2>3. file \o lines = file
    BY <1>0, <2>1 DEF PersistenceTypeOK
  <2>4. list' \in Lists /\ IsFiniteSet(DOMAIN list') /\ (phase' = "down" => DOMAIN list' = {})
    BY <1>0, <2>1, <2>2, ListsFacts, FS_EmptySet DEF PersistenceTypeOK
  <2>5. PersistenceTypeOK'
    BY <1>0, <2>1, <2>4 DEF PersistenceTypeOK
  <2>6. FileIsAMap'
    BY <1>0, <2>1, <2>3 DEF FileIsAMap
  <2>7. DefaultMeansUnconfirmed'
    BY <1>0, <2>1, ListsFacts DEF DefaultMeansUnconfirmed
  <2> QED BY <2>1, <2>2, <2>4, <2>5, <2>6, <2>7 DEF PersistenceInv, OnlyRunningSaves, RestoredSoFar
<1>15. ASSUME OpenFails PROVE PersistenceInv'
  <2>1. /\ save = "open" /\ save' = "idle" /\ lines' = <<>> /\ UNCHANGED <<flight, file, rest>>
        /\ \/ /\ phase' = "down" /\ list' = Nobody /\ waiting' = {} /\ fresh' = {}
           \/ UNCHANGED <<phase, list, waiting, fresh>>
    BY <1>15 DEF OpenFails, SaveReturns
  <2>2. phase \notin {"down", "init"}
    BY <1>0, <2>1 DEF OnlyRunningSaves
  <2>3. <<>> \in Seq(Line) /\ file \in Seq(Line)
    BY <1>0 DEF PersistenceTypeOK
  <2>4. list' \in Lists /\ IsFiniteSet(DOMAIN list') /\ (phase' = "down" => DOMAIN list' = {})
    BY <1>0, <2>1, <2>2, ListsFacts, FS_EmptySet DEF PersistenceTypeOK
  <2>5. PersistenceTypeOK'
    BY <1>0, <2>1, <2>3, <2>4 DEF PersistenceTypeOK
  <2>6. FileIsAMap'
    BY <1>0, <2>1, <2>3 DEF FileIsAMap
  <2>7. DefaultMeansUnconfirmed'
    BY <1>0, <2>1, ListsFacts DEF DefaultMeansUnconfirmed
  <2> QED BY <2>1, <2>2, <2>4, <2>5, <2>6, <2>7 DEF PersistenceInv, OnlyRunningSaves, RestoredSoFar
<1>9. ASSUME ReadLine PROVE PersistenceInv'
  <2>1. /\ phase = "init" /\ rest # <<>> /\ add_sensor(Head(rest)[1], Head(rest)[2])
        /\ rest' = Tail(rest) /\ UNCHANGED <<phase, file, save, lines>>
    BY <1>9 DEF ReadLine, fileVars
  <2>2. rest \in Seq(Line) /\ Head(rest) \in Line /\ Tail(rest) \in Seq(Line)
    BY <1>0, <2>1 DEF PersistenceTypeOK
  <2>3. Head(rest)[1] \in Addr /\ Head(rest)[2] \in Threshold
    BY <2>2 DEF Line
  <2>4. PersistenceTypeOK' /\ DefaultMeansUnconfirmed' /\ DOMAIN list' = DOMAIN list \cup {Head(rest)[1]}
    BY <1>0, <2>1, <2>2, <2>3, AddSensorFacts DEF PersistenceTypeOK
  <2>5. AddressesOf(rest) = {Head(rest)[1]} \cup AddressesOf(Tail(rest))
    BY <2>1, <2>2, HeadAndTail
  <2>6. RestoredSoFar'
    BY <1>0, <2>1, <2>4, <2>5 DEF RestoredSoFar
  <2> QED BY <1>0, <2>1, <2>4, <2>6 DEF PersistenceInv, FileIsAMap, OnlyRunningSaves
<1>10. ASSUME ReadLastLineAgain PROVE PersistenceInv'
  <2>1. /\ phase = "init" /\ add_sensor(Last(file)[1], Last(file)[2])
        /\ phase' = "run" /\ UNCHANGED <<file, save, lines, rest>>
    BY <1>10 DEF ReadLastLineAgain, fileVars
  <2>2. file \in Seq(Line) /\ file # <<>>
    BY <1>0, <2>1 DEF PersistenceTypeOK, RestoredSoFar
  <2>3. Last(file)[1] \in Addr /\ Last(file)[2] \in Threshold
    BY <2>2, LastLine
  <2>4. PersistenceTypeOK' /\ DefaultMeansUnconfirmed'
    BY <1>0, <2>1, <2>3, AddSensorFacts DEF PersistenceTypeOK
  <2> QED BY <1>0, <2>1, <2>4 DEF PersistenceInv, FileIsAMap, OnlyRunningSaves, RestoredSoFar
<1>11. ASSUME StartEmpty \/ ThreadsJoined PROVE PersistenceInv'
  <2>1. phase' \in {"run", "last"} /\ UNCHANGED <<list, flight, waiting, file, save, lines, rest, fresh>>
    BY <1>11 DEF StartEmpty, ThreadsJoined, fileVars
  <2>2. PersistenceTypeOK'
    BY <1>0, <2>1 DEF PersistenceTypeOK
  <2> QED BY <1>0, <2>1, <2>2
          DEF PersistenceInv, FileIsAMap, OnlyRunningSaves, RestoredSoFar, DefaultMeansUnconfirmed
<1>12. ASSUME StartFromFile PROVE PersistenceInv'
  <2>1. /\ phase = "down" /\ phase' = (IF file = <<>> THEN "run" ELSE "init") /\ rest' = file
        /\ UNCHANGED <<list, flight, waiting, file, save, lines, fresh>>
    BY <1>12 DEF StartFromFile, fileVars
  <2>2. PersistenceTypeOK'
    BY <1>0, <2>1 DEF PersistenceTypeOK
  <2>3. RestoredSoFar'
    BY <1>0, <2>1 DEF RestoredSoFar, OnlyRunningSaves
  <2> QED BY <1>0, <2>1, <2>2, <2>3
          DEF PersistenceInv, FileIsAMap, OnlyRunningSaves, DefaultMeansUnconfirmed
<1>13. ASSUME Crash PROVE PersistenceInv'
  <2>1. /\ phase' = "down" /\ list' = Nobody /\ waiting' = {} /\ save' = "idle"
        /\ lines' = <<>> /\ rest' = <<>> /\ UNCHANGED <<flight, file>>
    BY <1>13 DEF Crash
  <2>2. list' \in Lists /\ IsFiniteSet(DOMAIN list') /\ DOMAIN list' = {} /\ <<>> \in Seq(Line)
    BY <2>1, ListsFacts, FS_EmptySet
  <2>3. PersistenceTypeOK'
    BY <1>0, <2>1, <2>2 DEF PersistenceTypeOK
  <2>4. OnePerAddress(file)
    BY <1>0, PrefixFacts DEF FileIsAMap, PersistenceTypeOK
  <2> QED BY <2>1, <2>2, <2>3, <2>4
          DEF PersistenceInv, FileIsAMap, OnlyRunningSaves, RestoredSoFar, DefaultMeansUnconfirmed
<1>14. ASSUME UNCHANGED vars PROVE PersistenceInv'
  <2>1. PersistenceTypeOK'
    BY <1>0, <1>14 DEF vars, PersistenceTypeOK
  <2> QED BY <1>0, <1>14, <2>1
          DEF vars, PersistenceInv, FileIsAMap, OnlyRunningSaves, RestoredSoFar, DefaultMeansUnconfirmed
<1> QED BY <1>1, <1>2, <1>3, <1>4, <1>5, <1>6, <1>7, <1>8, <1>9, <1>10, <1>11, <1>12, <1>13, <1>14, <1>15
        DEF Next, Saver, Reader

\* The invariant holds in every state, through any number of starts and crashes.
THEOREM PersistenceInvariance == Spec => []PersistenceInv
BY PersistenceInitInv, PersistenceNextInv, PTL DEF Spec

\* An entry shows the threshold of a new one only until its sensor confirms another.
THEOREM DefaultMeansUnconfirmedTheorem == Spec => []DefaultMeansUnconfirmed
<1>1. PersistenceInv => DefaultMeansUnconfirmed
  BY DEF PersistenceInv
<1> QED BY <1>1, PersistenceInvariance, PTL

\* Every step is one of DurableList, or none that it sees.
LEMMA DurableStep ==
    ASSUME PersistenceInv, [Next]_vars
    PROVE  [Durable!DNext]_(Durable!dvars)
<1>0. /\ PersistenceTypeOK /\ FileIsAMap /\ OnlyRunningSaves /\ RestoredSoFar
      /\ DefaultMeansUnconfirmed /\ PersistenceInv'
  BY PersistenceNextInv DEF PersistenceInv
<1>f. /\ file \in Seq(Line) /\ lines \in Seq(Line)
      /\ list \in Durable!Lists /\ list' \in Durable!Lists
      /\ DOMAIN ListOf(file) = AddressesOf(file)
  BY <1>0, ListsFacts, ListOfFacts DEF PersistenceTypeOK, PersistenceInv
\* The list changes while central runs, and nothing else.
<1>c. ASSUME phase \in {"run", "last"}, UNCHANGED <<phase, file, save, lines>>
      PROVE  Durable!Change
  BY <1>f, <1>c DEF Durable!Change
\* The same while the file is read: sensors come back.
<1>r. ASSUME phase = "init", phase' \in {"init", "run"}, UNCHANGED <<file, save, lines>>,
             DOMAIN list \subseteq DOMAIN list', DOMAIN list' \subseteq AddressesOf(file),
             phase' = "run" => DOMAIN list' = AddressesOf(file)
      PROVE  Durable!Restore
  <2>1. save = "idle"
    BY <1>0, <1>r DEF OnlyRunningSaves
  <2> QED BY <1>f, <1>r, <2>1 DEF Durable!Restore
<1>1. ASSUME NEW a \in Addr, NEW t \in Threshold, UserAdds(a, t) PROVE Durable!Change
  BY <1>1, <1>c DEF UserAdds, fileVars
<1>2. ASSUME NEW a \in Addr, NEW t \in Threshold, UserSetsThreshold(a, t) \/ Lose(a, t)
      PROVE UNCHANGED Durable!dvars
  BY <1>2 DEF UserSetsThreshold, Lose, fileVars, Durable!dvars
<1>3. ASSUME NEW a \in Addr, NEW t \in Threshold, Answered(a, t)
      PROVE Durable!Change \/ Durable!Restore
  <2>1. UNCHANGED <<phase, file, save, lines>> /\ phase # "down"
    BY <1>3 DEF Answered, fileVars
  <2>2. DOMAIN list' = DOMAIN list
    BY <1>0, <1>3, AnsweredFacts
  <2>3. CASE phase = "init"
    BY <1>0, <1>r, <2>1, <2>2, <2>3 DEF RestoredSoFar
  <2>4. CASE phase \in {"run", "last"}
    BY <1>c, <2>1, <2>4
  <2> QED BY <1>0, <2>1, <2>3, <2>4 DEF PersistenceTypeOK
<1>4. ASSUME NEW a \in Addr, UserErases(a) PROVE Durable!Change
  BY <1>4, <1>c DEF UserErases, fileVars
<1>5. ASSUME CopyList PROVE Durable!Begin
  <2>1. /\ phase \in {"run", "last"} /\ save = "idle" /\ save' = "open" /\ lines' = LinesOf(list)
        /\ UNCHANGED <<phase, list, file>>
    BY <1>5 DEF CopyList, Saves
  <2>2. ListOf(lines') = list
    BY <1>0, <2>1, LinesOfFacts DEF PersistenceTypeOK
  <2> QED BY <2>1, <2>2 DEF Durable!Begin
<1>6. ASSUME OpenFile PROVE Durable!TakeEffect
  <2>1. /\ save = "open" /\ save' = "lines" /\ file' = <<>>
        /\ UNCHANGED <<phase, list, lines>>
    BY <1>6 DEF OpenFile
  <2>2. ListOf(lines) # NoSave
    BY <1>f, ListOfFacts, PersistenceAssumption DEF Lists
  <2>3. file' \o lines' = lines
    BY <1>f, <2>1
  <2> QED BY <2>1, <2>2, <2>3 DEF Durable!TakeEffect
<1>7. ASSUME WriteLine PROVE UNCHANGED Durable!dvars
  <2>1. /\ save = "lines" /\ lines # <<>> /\ file' = Append(file, Head(lines)) /\ lines' = Tail(lines)
        /\ UNCHANGED <<phase, list, save>>
    BY <1>7 DEF WriteLine, NextLine
  <2>2. file' \o lines' = file \o lines
    BY <1>f, <2>1, WrittenAndUnwritten
  <2> QED BY <2>1, <2>2 DEF Durable!dvars
<1>8. ASSUME CloseFile PROVE Durable!Settle \/ Durable!End
  <2>1. save = "lines" /\ lines = <<>> /\ save' = "idle" /\ UNCHANGED <<file, lines>>
    BY <1>8 DEF CloseFile, SaveReturns
  <2>2. phase \in {"run", "last"}
    BY <1>0, <2>1 DEF OnlyRunningSaves, PersistenceTypeOK
  <2>3. file \o lines = file
    BY <1>f, <2>1
  <2>4. CASE phase # "last"
    <3>1. UNCHANGED <<phase, list>>
      BY <1>8, <2>4 DEF CloseFile, SaveReturns
    <3> QED BY <2>1, <2>3, <3>1 DEF Durable!Settle
  <2>5. CASE phase = "last"
    <3>1. phase' = "down" /\ list' = Durable!Nobody
      BY <1>8, <2>5, ListsFacts DEF CloseFile, SaveReturns
    <3>2. ListOf(file) = Durable!Restrict(ListOf(file), DOMAIN ListOf(file))
      BY <1>f, ListOfFacts, ListsFacts DEF Durable!Restrict
    <3> QED BY <2>1, <2>3, <2>5, <3>1, <3>2 DEF Durable!End
  <2> QED BY <2>4, <2>5
<1>15. ASSUME OpenFails PROVE Durable!Fail \/ Durable!End
  <2>1. save = "open" /\ save' = "idle" /\ UNCHANGED file
    BY <1>15 DEF OpenFails, SaveReturns
  <2>2. phase \in {"run", "last"}
    BY <1>0, <2>1 DEF OnlyRunningSaves, PersistenceTypeOK
  <2>3. ListOf(lines) # NoSave
    BY <1>f, ListOfFacts, PersistenceAssumption DEF Lists
  <2>4. CASE phase # "last"
    <3>1. UNCHANGED <<phase, list>>
      BY <1>15, <2>4 DEF OpenFails, SaveReturns
    <3> QED BY <2>1, <2>3, <3>1 DEF Durable!Fail
  <2>5. CASE phase = "last"
    <3>1. phase' = "down" /\ list' = Durable!Nobody
      BY <1>15, <2>5, ListsFacts DEF OpenFails, SaveReturns
    <3>2. ListOf(file) = Durable!Restrict(ListOf(file), DOMAIN ListOf(file))
      BY <1>f, ListOfFacts, ListsFacts DEF Durable!Restrict
    <3> QED BY <2>1, <2>5, <3>1, <3>2 DEF Durable!End
  <2> QED BY <2>4, <2>5
<1>9. ASSUME ReadLine PROVE Durable!Restore
  <2>1. /\ phase = "init" /\ rest # <<>> /\ add_sensor(Head(rest)[1], Head(rest)[2])
        /\ UNCHANGED <<phase, file, save, lines>>
    BY <1>9 DEF ReadLine, fileVars
  <2>2. rest \in Seq(Line) /\ Head(rest) \in Line
    BY <1>0, <2>1 DEF PersistenceTypeOK
  <2>3. DOMAIN list' = DOMAIN list \cup {Head(rest)[1]}
    BY <1>0, <2>1, <2>2, AddSensorFacts DEF Line
  <2>4. Head(rest)[1] \in AddressesOf(file)
    BY <1>0, <2>1, <2>2, HeadAndTail DEF RestoredSoFar
  <2> QED BY <1>0, <1>r, <2>1, <2>3, <2>4 DEF RestoredSoFar
<1>10. ASSUME ReadLastLineAgain PROVE Durable!Restore
  <2>1. /\ phase = "init" /\ rest = <<>> /\ add_sensor(Last(file)[1], Last(file)[2])
        /\ phase' = "run" /\ UNCHANGED <<file, save, lines>>
    BY <1>10 DEF ReadLastLineAgain, fileVars
  <2>2. /\ Last(file)[1] \in Addr /\ Last(file)[2] \in Threshold
        /\ Last(file)[1] \in AddressesOf(file)
    BY <1>0, <1>f, <2>1, LastLine DEF RestoredSoFar
  <2>3. DOMAIN list' = DOMAIN list \cup {Last(file)[1]}
    BY <1>0, <2>1, <2>2, AddSensorFacts
  <2>4. AddressesOf(rest) = {}
    BY <2>1 DEF AddressesOf
  <2>5. DOMAIN list' = AddressesOf(file)
    BY <1>0, <2>1, <2>2, <2>3, <2>4 DEF RestoredSoFar
  <2> QED BY <1>0, <1>r, <2>1, <2>3, <2>5
<1>11. ASSUME StartEmpty \/ StartFromFile PROVE Durable!Start
  <2>1. phase = "down" /\ phase' \in {"init", "run"} /\ UNCHANGED <<list, file, save, lines>>
    BY <1>11 DEF StartEmpty, StartFromFile, fileVars
  <2> QED BY <2>1 DEF Durable!Start
<1>12. ASSUME ThreadsJoined PROVE UNCHANGED Durable!dvars
  <2>1. phase = "run" /\ phase' = "last" /\ UNCHANGED <<list, file, save, lines>>
    BY <1>12 DEF ThreadsJoined, fileVars
  <2> QED BY <2>1 DEF Durable!dvars
<1>13. ASSUME Crash PROVE Durable!End
  <2>1. /\ phase \in {"init", "run", "last"} /\ phase' = "down" /\ list' = Durable!Nobody
        /\ save' = "idle" /\ file' = file
    BY <1>0, <1>13, ListsFacts DEF Crash, PersistenceTypeOK
  <2>2. CASE save # "lines"
    <3>1. ListOf(file) = Durable!Restrict(ListOf(file), DOMAIN ListOf(file))
      BY <1>f, ListOfFacts, ListsFacts DEF Durable!Restrict
    <3> QED BY <2>1, <2>2, <3>1 DEF Durable!End
  <2>3. CASE save = "lines"
    <3> DEFINE S == AddressesOf(file)
               all == ListOf(file \o lines)
    <3>1. ListOf(file) = Durable!Restrict(all, S) /\ S \subseteq AddressesOf(file \o lines)
      BY <1>0, <1>f, <2>3, PrefixFacts DEF FileIsAMap, Durable!Restrict
    <3>2. S \in SUBSET DOMAIN all
      <4>1. file \o lines \in Seq(Line)
        BY <1>f
      <4> QED BY <3>1, <4>1, ListOfFacts
    <3> QED BY <2>1, <2>3, <3>1, <3>2 DEF Durable!End
  <2> QED BY <2>2, <2>3
<1>14. ASSUME UNCHANGED vars PROVE UNCHANGED Durable!dvars
  BY <1>14 DEF vars, Durable!dvars
<1> QED BY <1>1, <1>2, <1>3, <1>4, <1>5, <1>6, <1>7, <1>8, <1>9, <1>10, <1>11, <1>12, <1>13, <1>14,
        <1>15 DEF Next, Saver, Reader, Durable!DNext

\* The file that is rewritten line by line keeps the promises of DurableList: a save
\* takes effect at once and as a whole, and only the end of the program during a save
\* loses something of what was saved.
THEOREM SavesAreAtomicTheorem == Spec => SavesAreAtomic
<1>1. Init => Durable!DInit
  <2> SUFFICES ASSUME Init PROVE Durable!DInit
    OBVIOUS
  <2>1. phase = "down" /\ list = Durable!Nobody /\ save = "idle" /\ file = <<>>
    BY ListsFacts DEF Init
  <2>2. ListOf(<<>>) = Durable!Nobody
    <3>1. <<>> \in Seq(Line) /\ AddressesOf(<<>>) = {}
      BY DEF AddressesOf
    <3> QED BY <3>1, ListOfFacts, ListsFacts
  <2> QED BY <2>1, <2>2 DEF Durable!DInit
<1>2. PersistenceInv /\ [Next]_vars => [Durable!DNext]_(Durable!dvars)
  BY DurableStep
<1> QED BY <1>1, <1>2, PersistenceInvariance, PTL DEF Spec, SavesAreAtomic, Durable!DurableSpec
-----------------------------------------------------------------------------
(* The median.                                                              *)

\* Set B of places of D holds the ones that f takes to A.
TakenTo(D, f, B, A) ==
    A \subseteq D /\ B \subseteq D /\ \A i \in D : i \in B <=> f[i] \in A

\* A bijection of the places maps a set of places to one of the same size.
LEMMA CountSame ==
    ASSUME NEW D, IsFiniteSet(D), NEW f \in Bijection(D, D), NEW A, NEW B,
           TakenTo(D, f, B, A)
    PROVE  IsFiniteSet(A) /\ IsFiniteSet(B) /\ Cardinality(B) = Cardinality(A)
<1> DEFINE g == [i \in B |-> f[i]]
<1>1. /\ f \in [D -> D]
      /\ \A i, j \in D : f[i] = f[j] => i = j
      /\ \A j \in D : \E i \in D : f[i] = j
  BY DEF Bijection, Injection, Surjection, IsInjective
<1>2. IsFiniteSet(A) /\ IsFiniteSet(B)
  BY FS_Subset DEF TakenTo
<1>3. /\ g \in [B -> A]
      /\ \A i, j \in B : g[i] = g[j] => i = j
      /\ \A j \in A : \E i \in B : g[i] = j
  BY <1>1 DEF TakenTo
<1> HIDE DEF g
<1>4. g \in Bijection(B, A)
  BY <1>3 DEF Bijection, Injection, Surjection, IsInjective
<1>5. ExistsBijection(B, A)
  BY <1>4 DEF ExistsBijection
<1> QED BY <1>2, <1>5, FS_Bijection

\* The abstract specification counts with the same operator.
LEMMA SameCardinality == \A S : SM!Cardinality(S) = Cardinality(S)
BY DEF SM!Cardinality, Cardinality

\* The element at place k of the sorted vector is the one of rank k of any sequence
\* of the same elements.
LEMMA RankedIsSorted ==
    ASSUME NEW n \in Nat, NEW a \in [1..n -> Nat], NEW w \in [1..n -> Nat],
           NEW f \in Bijection(1..n, 1..n), \A i \in 1..n : w[i] = a[f[i]],
           NEW k \in 1..n
    PROVE  SM!Ranked(w, k) = Sorted(a)[k] /\ Sorted(a)[k] \in Nat
<1> DEFINE D == 1..n
           t == Sorted(a)
           v == t[k]
           Less(x) == {i \in DOMAIN w : w[i] < x}
           Most(x) == {i \in DOMAIN w : w[i] <= x}
           LessSorted(x) == {i \in D : t[i] < x}
           MostSorted(x) == {i \in D : t[i] <= x}
<1>1. PICK p \in [D -> D] : InOrderOf(a, p) /\ t = [i \in D |-> a[p[i]]]
  BY SortedFacts
<1>2. IsFiniteSet(D) /\ Cardinality(D) = n /\ DOMAIN w = D /\ DOMAIN a = D
  BY FS_Interval
<1>3. p \in Bijection(D, D) /\ f \in Bijection(D, D)
  <2>1. p \in Surjection(D, D)
    BY <1>1, <1>2 DEF InOrderOf, Surjection
  <2>2. p \in Injection(D, D)
    BY <1>2, <2>1, FS_SurjSameCardinalityImpliesInj
  <2> QED BY <2>1, <2>2 DEF Bijection
<1>4. /\ t \in [D -> Nat] /\ \A i \in D : t[i] = a[p[i]]
      /\ \A i, j \in D : i < j => t[i] <= t[j]
  BY <1>1 DEF InOrderOf
<1> HIDE DEF t
<1>5. v \in Nat
  BY <1>4
<1>6. ASSUME NEW A, NEW B, NEW C, TakenTo(D, f, B, A), TakenTo(D, p, C, A)
      PROVE  /\ IsFiniteSet(B) /\ IsFiniteSet(C) /\ Cardinality(B) = Cardinality(C)
             /\ Cardinality(B) \in Nat
  <2> HIDE DEF D
  <2>1. IsFiniteSet(B) /\ Cardinality(B) = Cardinality(A)
    BY <1>2, <1>3, <1>6, CountSame
  <2>2. IsFiniteSet(C) /\ Cardinality(C) = Cardinality(A)
    BY <1>2, <1>3, <1>6, CountSame
  <2> QED BY <2>1, <2>2, FS_CardinalityType
<1>7. f \in [D -> D]
  BY DEF Bijection, Injection
<1>8. ASSUME NEW x \in Nat
      PROVE  /\ IsFiniteSet(Less(x)) /\ IsFiniteSet(LessSorted(x))
             /\ Cardinality(Less(x)) = Cardinality(LessSorted(x))
             /\ Cardinality(Less(x)) \in Nat
  <2> DEFINE A == {i \in D : a[i] < x}
  <2>1. TakenTo(D, f, Less(x), A) /\ TakenTo(D, p, LessSorted(x), A)
    BY <1>2, <1>4, <1>7 DEF TakenTo
  <2> HIDE DEF A, Less, LessSorted
  <2> QED BY <1>6, <2>1
<1>9. ASSUME NEW x \in Nat
      PROVE  /\ IsFiniteSet(Most(x)) /\ IsFiniteSet(MostSorted(x))
             /\ Cardinality(Most(x)) = Cardinality(MostSorted(x))
             /\ Cardinality(Most(x)) \in Nat
  <2> DEFINE A == {i \in D : a[i] <= x}
  <2>1. TakenTo(D, f, Most(x), A) /\ TakenTo(D, p, MostSorted(x), A)
    BY <1>2, <1>4, <1>7 DEF TakenTo
  <2> HIDE DEF A, Most, MostSorted
  <2> QED BY <1>6, <2>1
<1>10. LessSorted(v) \in SUBSET (1..(k - 1))
  <2>1. ASSUME NEW i \in D, t[i] < v PROVE i \in 1..(k - 1)
    <3>1. t[i] \in Nat
      BY <1>4
    <3> HIDE DEF v
    <3>2. t[i] < v
      BY <2>1
    <3>3. ~(v <= t[i])
      BY <1>5, <3>1, <3>2
    <3>4. i # k /\ ~(k < i)
      BY <1>4, <1>5, <3>1, <3>3 DEF v
    <3> QED BY <3>4
  <2> QED BY <2>1
<1>11. 1..k \in SUBSET MostSorted(v)
  <2> SUFFICES ASSUME NEW i \in 1..k PROVE i \in D /\ t[i] <= t[k]
    OBVIOUS
  <2>1. i \in D /\ (i < k \/ i = k)
    OBVIOUS
  <2>2. t[k] \in Nat
    BY <1>4
  <2> QED BY <1>4, <2>1, <2>2
<1>12. \A x \in Nat, y \in Nat : x < y => Most(x) \subseteq Less(y)
  BY <1>2
<1>13. v \in {w[i] : i \in DOMAIN w}
  <2>1. p[k] \in D /\ v = a[p[k]]
    BY <1>1, <1>4
  <2>2. PICK i \in D : f[i] = p[k]
    BY <2>1 DEF Bijection, Surjection
  <2> QED BY <1>2, <2>1, <2>2
<1>14. SM!Ranked(w, k) = CHOOSE x \in {w[i] : i \in DOMAIN w} :
                            /\ Cardinality(Less(x)) < k
                            /\ k <= Cardinality(Most(x))
  BY SameCardinality DEF SM!Ranked
<1> HIDE DEF v, Less, Most, LessSorted, MostSorted
<1>15. Cardinality(Less(v)) < k
  <2>1. IsFiniteSet(1..(k - 1)) /\ Cardinality(1..(k - 1)) = k - 1
    BY FS_Interval
  <2>2. Cardinality(LessSorted(v)) <= k - 1
    BY <1>10, <2>1, FS_Subset
  <2>3. Cardinality(Less(v)) <= k - 1 /\ Cardinality(Less(v)) \in Nat
    BY <1>5, <1>8, <2>2
  <2> QED BY <2>3
<1>16. k <= Cardinality(Most(v))
  <2>1. Cardinality(1..k) = k
    BY FS_Interval
  <2>2. k <= Cardinality(MostSorted(v))
    BY <1>5, <1>9, <1>11, <2>1, FS_Subset
  <2> QED BY <1>5, <1>9, <2>2
<1>17. ASSUME NEW x \in Nat, NEW y \in Nat, x < y,
              k <= Cardinality(Most(x)), Cardinality(Less(y)) < k
       PROVE  FALSE
  <2>1. Most(x) \in SUBSET Less(y)
    BY <1>12, <1>17
  <2>2. Cardinality(Most(x)) <= Cardinality(Less(y))
    BY <1>8, <2>1, FS_Subset
  <2>3. Cardinality(Most(x)) \in Nat /\ Cardinality(Less(y)) \in Nat
    BY <1>8, <1>9
  <2> QED BY <1>17, <2>2, <2>3
<1>18. ASSUME NEW x \in {w[i] : i \in DOMAIN w},
              Cardinality(Less(x)) < k, k <= Cardinality(Most(x))
       PROVE  x = v
  <2>1. x \in Nat
    BY <1>2
  <2>2. ~(x < v) /\ ~(v < x)
    BY <1>5, <1>15, <1>16, <1>17, <1>18, <2>1
  <2> QED BY <1>5, <2>1, <2>2
<1>19. SM!Ranked(w, k) = v
  BY <1>13, <1>14, <1>15, <1>16, <1>18
<1> QED BY <1>5, <1>19 DEF v, t

\* The place in the ring of the i-th oldest of n measurements.
Place(pt, n, i) == (pt + Window - n + i - 1) % Window

\* The pointer and the number of measurements of a ring, before and after it is full.
Ring(r, pt, n) ==
    /\ r \in [0..Window-1 -> Nat] /\ pt \in 0..Window-1 /\ n \in 0..Window
    /\ n < Window => pt = n

\* The remainder of what goes round the ring at most once.
LEMMA RoundTheRing ==
    \A x \in 0..(2 * Window - 1) : x % Window = IF x < Window THEN x ELSE x - Window
BY SensorNodeAssumption

\* A ring that is not full starts at 0, a full one at the pointer.
LEMMA PlaceFacts ==
    ASSUME NEW r, NEW pt, NEW n, Ring(r, pt, n), NEW i \in 1..n
    PROVE  /\ n < Window => Place(pt, n, i) = i - 1
           /\ n = Window /\ pt + i - 1 < Window => Place(pt, n, i) = pt + i - 1
           /\ n = Window /\ ~(pt + i - 1 < Window) => Place(pt, n, i) = pt + i - 1 - Window
           /\ Place(pt, n, i) \in 0..n-1
           /\ i \in Int /\ n \in Int /\ pt \in Int /\ Window \in Int
<1>1. /\ Window \in Nat \ {0} /\ pt \in 0..Window-1 /\ n \in 0..Window
      /\ n < Window => pt = n
  BY SensorNodeAssumption DEF Ring
<1>2. \A x \in 0..(2 * Window - 1) : x % Window = IF x < Window THEN x ELSE x - Window
  BY RoundTheRing
<1>3. PICK x \in 0..(2 * Window - 1) : x = pt + Window - n + i - 1
  BY <1>1
<1>4. Place(pt, n, i) = x % Window
  BY <1>3 DEF Place
<1>5. CASE n < Window
  <2>1. x = Window + (i - 1) /\ i - 1 \in 0..n-1
    BY <1>1, <1>3, <1>5
  <2> QED BY <1>1, <1>2, <1>4, <1>5, <2>1
<1>6. CASE n = Window
  <2>1. x = pt + i - 1
    BY <1>1, <1>3, <1>6
  <2> QED BY <1>1, <1>2, <1>4, <1>6, <2>1
<1> QED BY <1>1, <1>5, <1>6

\* calculate_median on a ring gives the median of its measurements in the order in
\* which they were made.
LEMMA MedianFacts ==
    ASSUME NEW r, NEW pt, NEW n, Ring(r, pt, n), n # 0,
           NEW w, w = [i \in 1..n |-> r[Place(pt, n, i)]]
    PROVE  calculate_median(r, n) = SM!Median(w) /\ calculate_median(r, n) \in Nat
<1> DEFINE D == 1..n
           a == [i \in D |-> r[i-1]]
           f == [i \in D |-> Place(pt, n, i) + 1]
           t == Sorted(a)
<1>1. /\ Window \in Nat \ {0} /\ pt \in 0..Window-1 /\ n \in 1..Window
      /\ n < Window => pt = n
      /\ r \in [0..Window-1 -> Nat]
  BY SensorNodeAssumption DEF Ring
<1>2. \A i \in D : /\ n < Window => Place(pt, n, i) = i - 1
                   /\ n = Window /\ pt + i - 1 < Window => Place(pt, n, i) = pt + i - 1
                   /\ n = Window /\ ~(pt + i - 1 < Window)
                        => Place(pt, n, i) = pt + i - 1 - Window
                   /\ Place(pt, n, i) \in 0..n-1
  BY PlaceFacts
<1>3. a \in [D -> Nat] /\ w \in [D -> Nat]
  BY <1>1, <1>2
<1>4. f \in [D -> D] /\ \A i \in D : w[i] = a[f[i]]
  <2>1. ASSUME NEW i \in D PROVE f[i] \in D /\ w[i] = a[f[i]]
    <3>1. PICK j \in 0..n-1 : j = Place(pt, n, i)
      BY <1>2
    <3>2. f[i] = j + 1 /\ j + 1 \in D /\ (j + 1) - 1 = j
      BY <1>1, <3>1
    <3>3. w[i] = r[j] /\ a[j + 1] = r[(j + 1) - 1]
      BY <3>1, <3>2
    <3> QED BY <3>2, <3>3
  <2> QED BY <2>1
<1>5. ASSUME NEW j \in D PROVE \E i \in D : f[i] = j
  <2>1. CASE n < Window
    BY <1>1, <1>2, <2>1
  <2>2. CASE n = Window /\ j > pt
    <3>1. j - pt \in D /\ pt + (j - pt) - 1 < Window
      BY <1>1, <2>2
    <3>2. f[j - pt] = j
      BY <1>1, <1>2, <2>2, <3>1
    <3> QED BY <3>1, <3>2
  <2>3. CASE n = Window /\ j <= pt
    <3>1. j - pt + Window \in D /\ ~(pt + (j - pt + Window) - 1 < Window)
      BY <1>1, <2>3
    <3>2. f[j - pt + Window] = j
      BY <1>1, <1>2, <2>3, <3>1
    <3> QED BY <3>1, <3>2
  <2> QED BY <1>1, <2>1, <2>2, <2>3
<1>6. f \in Bijection(D, D)
  <2>1. f \in Surjection(D, D)
    BY <1>4, <1>5 DEF Surjection
  <2>2. IsFiniteSet(D)
    BY <1>1, FS_Interval
  <2> HIDE DEF D, f
  <2>3. f \in Injection(D, D)
    BY <2>1, <2>2, FS_SurjSameCardinalityImpliesInj
  <2> QED BY <2>1, <2>3 DEF Bijection
<1>7. n \in Nat /\ D = 1..n
  BY <1>1
<1>8. \A k \in D : SM!Ranked(w, k) = t[k] /\ t[k] \in Nat
  <2> HIDE DEF a, f
  <2> QED BY <1>3, <1>4, <1>6, <1>7, RankedIsSorted
<1>9. Len(w) = n
  BY <1>3, <1>7
<1>10. SM!Median(w) = (SM!Ranked(w, (n + 1) \div 2) + SM!Ranked(w, (n + 2) \div 2)) \div 2
  BY <1>9 DEF SM!Median
<1>11. calculate_median(r, n) = IF n % 2 = 1 THEN t[n \div 2 + 1]
                                ELSE (t[n \div 2] + t[n \div 2 + 1]) \div 2
  BY DEF calculate_median
<1> HIDE DEF t
<1>12. CASE n % 2 = 1
  <2>1. (n + 1) \div 2 = n \div 2 + 1 /\ (n + 2) \div 2 = n \div 2 + 1 /\ n \div 2 + 1 \in D
    BY <1>1, <1>12
  <2>2. \A x \in Nat : (x + x) \div 2 = x
    OBVIOUS
  <2> QED BY <1>8, <1>10, <1>11, <1>12, <2>1, <2>2
<1>13. CASE n % 2 # 1
  <2>1. /\ (n + 1) \div 2 = n \div 2 /\ (n + 2) \div 2 = n \div 2 + 1
        /\ n \div 2 \in D /\ n \div 2 + 1 \in D
    BY <1>1, <1>13
  <2>2. \A x, y \in Nat : (x + y) \div 2 \in Nat
    OBVIOUS
  <2> QED BY <1>8, <1>10, <1>11, <1>13, <2>1, <2>2
<1> QED BY <1>12, <1>13

\* What Append gives.
LEMMA AppendedIs ==
    ASSUME NEW s \in Seq(Nat), NEW t \in Seq(Nat), NEW v \in Nat,
           Len(t) = Len(s) + 1, \A i \in 1..Len(s) : t[i] = s[i], t[Len(s) + 1] = v
    PROVE  t = Append(s, v)
<1>1. Append(s, v) \in Seq(Nat) /\ Len(Append(s, v)) = Len(s) + 1
  OBVIOUS
<1>2. \A i \in 1..Len(s) + 1 : Append(s, v)[i] = t[i]
  OBVIOUS
<1> QED BY <1>1, <1>2

\* The measurements of a ring, oldest first.
WindowOf(r, pt, n) == [i \in 1..n |-> r[Place(pt, n, i)]]

\* What Measure does to the ring.
Measured(r, pt, n, v, r2, pt2, n2) ==
    /\ r2 = [r EXCEPT ![pt] = v]
    /\ pt2 = (pt + 1) % Window
    /\ n2 = IF n < Window THEN n + 1 ELSE n

\* The ring stays one.
LEMMA MeasuredRing ==
    ASSUME NEW r, NEW pt, NEW n, Ring(r, pt, n), NEW v \in Nat,
           NEW r2, NEW pt2, NEW n2, Measured(r, pt, n, v, r2, pt2, n2)
    PROVE  /\ Ring(r2, pt2, n2) /\ n2 # 0
           /\ pt2 = IF pt + 1 < Window THEN pt + 1 ELSE 0
           /\ n2 = IF n < Window THEN n + 1 ELSE n
           /\ r2[pt] = v
           /\ \A j \in 0..Window-1 : j # pt => r2[j] = r[j]
<1>1. /\ Window \in Nat \ {0} /\ pt \in 0..Window-1 /\ n \in 0..Window
      /\ n < Window => pt = n
      /\ r \in [0..Window-1 -> Nat]
  BY SensorNodeAssumption DEF Ring
<1>2. pt2 = IF pt + 1 < Window THEN pt + 1 ELSE 0
  <2>1. pt2 = (pt + 1) % Window
    BY DEF Measured
  <2>2. \A x \in 0..(2 * Window - 1) : x % Window = IF x < Window THEN x ELSE x - Window
    BY RoundTheRing
  <2>3. PICK x \in 0..(2 * Window - 1) : x = pt + 1
    BY <1>1
  <2>4. pt2 = x % Window
    BY <2>1, <2>3
  <2>5. pt2 = IF x < Window THEN x ELSE x - Window
    BY <2>2, <2>4
  <2> QED BY <1>1, <2>3, <2>5
<1>3. n2 = IF n < Window THEN n + 1 ELSE n
  BY DEF Measured
<1>4. /\ r2 \in [0..Window-1 -> Nat] /\ r2[pt] = v
      /\ \A j \in 0..Window-1 : j # pt => r2[j] = r[j]
  BY <1>1 DEF Measured
<1>5. pt2 \in 0..Window-1 /\ n2 \in 0..Window /\ (n2 < Window => pt2 = n2) /\ n2 # 0
  BY <1>1, <1>2, <1>3
<1> QED BY <1>2, <1>3, <1>4, <1>5 DEF Ring

\* A ring holds a sequence of n measurements.
LEMMA WindowFacts ==
    ASSUME NEW r, NEW pt, NEW n, Ring(r, pt, n)
    PROVE  /\ WindowOf(r, pt, n) \in Seq(Nat) /\ Len(WindowOf(r, pt, n)) = n
           /\ \A i \in 1..n : WindowOf(r, pt, n)[i] = r[Place(pt, n, i)]
<1>1. /\ Window \in Nat \ {0} /\ n \in Nat /\ n <= Window /\ r \in [0..Window-1 -> Nat]
  BY SensorNodeAssumption DEF Ring
<1>2. \A i \in 1..n : Place(pt, n, i) \in 0..n-1
  BY PlaceFacts
<1>3. \A i \in 1..n : r[Place(pt, n, i)] \in Nat
  BY <1>1, <1>2
<1> QED BY <1>1, <1>3 DEF WindowOf

\* The measurements change as in the abstract specification: the new one at the end,
\* the oldest one gone from a full ring.
LEMMA MeasuredWindow ==
    ASSUME NEW r, NEW pt, NEW n, Ring(r, pt, n), NEW v \in Nat,
           NEW r2, NEW pt2, NEW n2, Measured(r, pt, n, v, r2, pt2, n2),
           NEW w, w = WindowOf(r, pt, n), NEW w2, w2 = WindowOf(r2, pt2, n2)
    PROVE  w2 = IF Len(w) < Window THEN Append(w, v) ELSE Append(Tail(w), v)
<1>1. /\ Window \in Nat \ {0} /\ pt \in 0..Window-1 /\ n \in 0..Window
      /\ n < Window => pt = n
  BY SensorNodeAssumption DEF Ring
<1>2. Ring(r2, pt2, n2)
  BY MeasuredRing
<1>3. /\ pt2 = IF pt + 1 < Window THEN pt + 1 ELSE 0
      /\ n2 = IF n < Window THEN n + 1 ELSE n
      /\ r2[pt] = v
      /\ \A j \in 0..Window-1 : j # pt => r2[j] = r[j]
  BY MeasuredRing
<1>4. /\ w \in Seq(Nat) /\ Len(w) = n
      /\ \A i \in 1..n : w[i] = r[Place(pt, n, i)]
  BY WindowFacts
<1>5. /\ w2 \in Seq(Nat) /\ Len(w2) = n2
      /\ \A i \in 1..n2 : w2[i] = r2[Place(pt2, n2, i)]
  BY <1>2, WindowFacts
<1>6. \A i \in 1..n : /\ n < Window => Place(pt, n, i) = i - 1
                      /\ n = Window /\ pt + i - 1 < Window => Place(pt, n, i) = pt + i - 1
                      /\ n = Window /\ ~(pt + i - 1 < Window)
                            => Place(pt, n, i) = pt + i - 1 - Window
  BY PlaceFacts
<1>7. \A i \in 1..n2 : /\ n2 < Window => Place(pt2, n2, i) = i - 1
                       /\ n2 = Window /\ pt2 + i - 1 < Window
                            => Place(pt2, n2, i) = pt2 + i - 1
                       /\ n2 = Window /\ ~(pt2 + i - 1 < Window)
                            => Place(pt2, n2, i) = pt2 + i - 1 - Window
  BY <1>2, PlaceFacts
<1>8. CASE n < Window
  <2>1. n2 = n + 1 /\ pt = n
    BY <1>1, <1>3, <1>8
  <2>2. ASSUME NEW i \in 1..n2 PROVE w2[i] = r2[i - 1]
    <3>1. Place(pt2, n2, i) = i - 1
      BY <1>1, <1>3, <1>7, <1>8, <2>1
    <3> QED BY <1>5, <3>1
  <2>3. \A i \in 1..n : w[i] = r[i - 1]
    BY <1>4, <1>6, <1>8
  <2>4. \A i \in 1..n : w2[i] = w[i]
    <3> TAKE i \in 1..n
    <3>1. i \in 1..n2 /\ i - 1 \in 0..Window-1 /\ i - 1 # pt
      BY <1>1, <1>8, <2>1
    <3>2. w2[i] = r2[i - 1] /\ w[i] = r[i - 1]
      BY <2>2, <2>3, <3>1
    <3> QED BY <1>3, <3>1, <3>2
  <2>5. w2[n + 1] = v
    <3>1. n + 1 \in 1..n2 /\ (n + 1) - 1 = pt
      BY <1>1, <2>1
    <3> QED BY <1>3, <2>2, <3>1
  <2>6. w2 = Append(w, v)
    <3>1. Len(w2) = Len(w) + 1
      BY <1>4, <1>5, <2>1
    <3> QED BY <1>4, <1>5, <2>4, <2>5, <3>1, AppendedIs
  <2> QED BY <1>4, <1>8, <2>6
<1>9. CASE n = Window
  <2>1. n2 = Window
    BY <1>1, <1>3, <1>9
  <2>2. ASSUME NEW i \in 1..(Window - 1)
        PROVE  w2[i] = w[i + 1]
    <3>1. i + 1 \in 1..n /\ i \in 1..n2
      BY <1>1, <1>9, <2>1
    <3>2. Place(pt2, n2, i) = Place(pt, n, i + 1) /\ Place(pt, n, i + 1) # pt
          /\ Place(pt, n, i + 1) \in 0..Window-1
      <4>1. CASE pt + i < Window
        BY <1>1, <1>3, <1>6, <1>7, <1>9, <2>1, <3>1, <4>1
      <4>2. CASE ~(pt + i < Window)
        BY <1>1, <1>3, <1>6, <1>7, <1>9, <2>1, <3>1, <4>2
      <4> QED BY <4>1, <4>2
    <3>3. w2[i] = r2[Place(pt2, n2, i)] /\ w[i + 1] = r[Place(pt, n, i + 1)]
      BY <1>4, <1>5, <3>1
    <3> QED BY <1>3, <3>2, <3>3
  <2>3. w2[Window] = v
    <3>1. Window \in 1..n2
      BY <1>1, <2>1
    <3>2. Place(pt2, n2, Window) = pt
      BY <1>1, <1>3, <1>7, <2>1, <3>1
    <3> QED BY <1>3, <1>5, <3>1, <3>2
  <2>4. w2 = Append(Tail(w), v)
    <3>1. /\ Tail(w) \in Seq(Nat) /\ Len(Tail(w)) = Window - 1
          /\ \A i \in 1..(Window - 1) : Tail(w)[i] = w[i + 1]
      <4>1. w # <<>> /\ Len(w) = Window
        BY <1>1, <1>4, <1>9
      <4>2. Tail(w) \in Seq(Nat) /\ Len(Tail(w)) = Len(w) - 1
        BY <1>4, <4>1
      <4>3. \A i \in 1..(Len(w) - 1) : Tail(w)[i] = w[i + 1]
        BY <1>4, <4>1
      <4> QED BY <4>1, <4>2, <4>3
    <3>2. Len(w2) = Len(Tail(w)) + 1 /\ Len(Tail(w)) + 1 = Window
      BY <1>1, <1>5, <2>1, <3>1
    <3>3. \A i \in 1..Len(Tail(w)) : w2[i] = Tail(w)[i]
      BY <2>2, <3>1
    <3>4. PICK u \in Seq(Nat) : u = Tail(w)
      BY <3>1
    <3> QED BY <1>5, <2>3, <3>2, <3>3, <3>4, AppendedIs
  <2> QED BY <1>1, <1>4, <1>9, <2>4
<1> QED BY <1>1, <1>8, <1>9
-----------------------------------------------------------------------------
(* The sensor program.                                                      *)

NodeTypeOK ==
    /\ Ring(last60, pointer, amount)
    /\ current_value \in Nat /\ typical \in Nat /\ threshold \in Nat
    /\ updating \in {"measure", "median", "compare", "alarm"}
    /\ setting \in {"receive", "ended"}
    /\ inbox \subseteq Asked \cup {NaN}
    /\ reading \in {"receive", "current", "typical"}
    /\ got \in [current : Nat, typical : Nat]

\* Outside the two statements between the store of current_value and the store of
\* typical, typical is the median of the ring.
TypicalIsUpToDate ==
    updating # "median"
        => typical = IF amount = 0 THEN 0 ELSE calculate_median(last60, amount)

\* calculate_median is never called for an empty array.
MedianOfSome == updating # "measure" => amount # 0

\* As long as nothing is measured, what main has read is still so.
CalmReading ==
    reading # "receive" /\ calm =>
        /\ updating # "median"
        /\ reading = "current" => got.current = current_value
        /\ reading = "typical" => got.typical = typical

\* The text that is about to be sent is about the latest measurement.
AlarmIsTrue ==
    updating = "alarm" =>
        /\ alarmStr = [current |-> current_value, typical |-> typical]
        /\ current_value > threshold \/ changed

NodeInv ==
    /\ NodeTypeOK
    /\ TypicalIsUpToDate
    /\ MedianOfSome
    /\ CalmReading
    /\ AlarmIsTrue

\* The program starts with an empty ring and no typical value.
LEMMA NodeInitInv == NodeInit => NodeInv
<1> SUFFICES ASSUME NodeInit PROVE NodeInv
  OBVIOUS
<1>1. Ring(last60, pointer, amount)
  BY SensorNodeAssumption DEF NodeInit, Ring
<1>2. NodeTypeOK
  BY <1>1, SMT DEF NodeInit, NodeTypeOK, Nothing
<1>3. TypicalIsUpToDate /\ MedianOfSome /\ CalmReading
  BY DEF NodeInit, TypicalIsUpToDate, MedianOfSome, CalmReading
<1>4. AlarmIsTrue
  BY DEF NodeInit, AlarmIsTrue
<1> QED BY <1>2, <1>3, <1>4 DEF NodeInv

\* calculate_median of the ring, as the thread calls it.
LEMMA StoredMedian ==
    ASSUME Ring(last60, pointer, amount), amount # 0
    PROVE  /\ calculate_median(last60, amount)
                = SM!Median(WindowOf(last60, pointer, amount))
           /\ calculate_median(last60, amount) \in Nat
<1>1. PICK w : w = WindowOf(last60, pointer, amount)
  OBVIOUS
<1>2. w = [i \in 1..amount |-> last60[Place(pointer, amount, i)]]
  BY <1>1 DEF WindowOf
<1> QED BY <1>1, <1>2, MedianFacts

\* What Measure does to the ring's variables.
LEMMA MeasureMeasures ==
    ASSUME NEW v \in Value, NodeTypeOK, Measure(v)
    PROVE  /\ v \in Nat
           /\ Measured(last60, pointer, amount, v, last60', pointer', amount')
           /\ Ring(last60, pointer, amount)'
           /\ amount' # 0
<1>1. v \in Nat
  BY SensorNodeAssumption
<1>2. Measured(last60, pointer, amount, v, last60', pointer', amount')
  BY DEF Measured, Measure, NextAmount
<1>3. Ring(last60, pointer, amount)
  BY DEF NodeTypeOK
<1>4. Ring(last60', pointer', amount') /\ amount' # 0
  BY <1>1, <1>2, <1>3, MeasuredRing
<1> QED BY <1>1, <1>2, <1>4 DEF Ring

\* Every step of the three threads preserves the invariant.
LEMMA NodeNextInv == NodeInv /\ [NodeNext]_nodeVars => NodeInv'
<1> SUFFICES ASSUME NodeInv, [NodeNext]_nodeVars PROVE NodeInv'
  OBVIOUS
<1> USE DEF ring, updateVars, settingVars, readingVars
<1>0. /\ NodeTypeOK /\ TypicalIsUpToDate /\ MedianOfSome /\ CalmReading
      /\ AlarmIsTrue
  BY DEF NodeInv
<1>1. ASSUME NEW v \in Value, Measure(v) PROVE NodeInv'
  <2>1. v \in Nat /\ Ring(last60, pointer, amount)' /\ amount' # 0
    BY <1>0, <1>1, MeasureMeasures
  <2>2. /\ updating' = "median" /\ calm' = FALSE /\ current_value' = v
        /\ UNCHANGED <<typical, threshold, setting, inbox, reading, got>>
    BY <1>1 DEF Measure
  <2>3. NodeTypeOK'
    BY <1>0, <2>1, <2>2 DEF NodeTypeOK
  <2>4. TypicalIsUpToDate' /\ MedianOfSome' /\ CalmReading'
    BY <2>1, <2>2 DEF TypicalIsUpToDate, MedianOfSome, CalmReading
  <2>5. AlarmIsTrue'
    BY <2>2 DEF AlarmIsTrue
  <2> QED BY <2>3, <2>4, <2>5 DEF NodeInv
<1>2. CASE StoreMedian
  <2>1. /\ updating = "median" /\ updating' = "compare"
        /\ typical' = calculate_median(last60, amount)
        /\ UNCHANGED <<last60, pointer, amount, current_value, threshold, setting, inbox,
                       reading, got, calm>>
    BY <1>2 DEF StoreMedian
  <2>2. amount # 0 /\ Ring(last60, pointer, amount)
    BY <1>0, <2>1 DEF MedianOfSome, NodeTypeOK
  <2>3. typical' \in Nat
    BY <2>1, <2>2, StoredMedian
  <2>4. NodeTypeOK'
    BY <1>0, <2>1, <2>3 DEF NodeTypeOK, Ring
  <2>5. TypicalIsUpToDate' /\ MedianOfSome'
    BY <2>1, <2>2 DEF TypicalIsUpToDate, MedianOfSome
  <2>6. CalmReading'
    BY <1>0, <2>1 DEF CalmReading
  <2>7. AlarmIsTrue'
    BY <2>1 DEF AlarmIsTrue
  <2> QED BY <2>4, <2>5, <2>6, <2>7 DEF NodeInv
<1>3. CASE Compare
  <2>1. /\ updating = "compare" /\ updating' \in {"alarm", "measure"}
        /\ updating' = "alarm" => /\ current_value > threshold
                                  /\ alarmStr' = [current |-> current_value,
                                                  typical |-> typical]
        /\ UNCHANGED <<last60, pointer, amount, current_value, typical, threshold,
                       setting, inbox, reading, got, calm>>
    BY <1>3 DEF Compare, AlarmText
  <2>2. NodeTypeOK'
    BY <1>0, <2>1 DEF NodeTypeOK, Ring
  <2>3. TypicalIsUpToDate' /\ MedianOfSome' /\ CalmReading'
    BY <1>0, <2>1 DEF TypicalIsUpToDate, MedianOfSome, CalmReading
  <2>4. AlarmIsTrue'
    BY <2>1 DEF AlarmIsTrue
  <2> QED BY <2>2, <2>3, <2>4 DEF NodeInv
<1>a. CASE AlarmDone
  <2>1. /\ updating = "alarm" /\ updating' = "measure"
        /\ UNCHANGED <<last60, pointer, amount, current_value, typical, threshold,
                       setting, inbox, reading, got, calm>>
    BY <1>a DEF AlarmDone
  <2>2. NodeTypeOK'
    BY <1>0, <2>1 DEF NodeTypeOK, Ring
  <2>3. TypicalIsUpToDate' /\ MedianOfSome' /\ CalmReading' /\ AlarmIsTrue'
    BY <1>0, <2>1 DEF TypicalIsUpToDate, MedianOfSome, CalmReading, AlarmIsTrue
  <2> QED BY <2>2, <2>3 DEF NodeInv
<1>4. ASSUME NEW t \in Asked \cup {NaN}, CentralSends(t) PROVE NodeInv'
  <2>1. /\ inbox' = {t}
        /\ UNCHANGED <<updateVars, threshold, setting, readingVars, calm, changed>>
    BY <1>4 DEF CentralSends
  <2>2. NodeTypeOK'
    BY <1>0, <2>1 DEF NodeTypeOK, Ring
  <2>3. TypicalIsUpToDate' /\ MedianOfSome' /\ CalmReading' /\ AlarmIsTrue'
    BY <1>0, <2>1 DEF TypicalIsUpToDate, MedianOfSome, CalmReading, AlarmIsTrue
  <2> QED BY <2>2, <2>3 DEF NodeInv
<1>5. ASSUME NEW t \in Asked \cup {NaN}, LoseText(t) PROVE NodeInv'
  <2>1. /\ inbox' = inbox \ {t}
        /\ UNCHANGED <<updateVars, threshold, setting, readingVars, calm, changed>>
    BY <1>5 DEF LoseText
  <2>2. NodeTypeOK'
    BY <1>0, <2>1 DEF NodeTypeOK, Ring
  <2>3. TypicalIsUpToDate' /\ MedianOfSome' /\ CalmReading' /\ AlarmIsTrue'
    BY <1>0, <2>1 DEF TypicalIsUpToDate, MedianOfSome, CalmReading, AlarmIsTrue
  <2> QED BY <2>2, <2>3 DEF NodeInv
<1>6. ASSUME NEW t \in Asked \cup {NaN}, set_threshold(t) PROVE NodeInv'
  <2>1. /\ t \in inbox /\ inbox' = inbox \ {t}
        /\ UNCHANGED <<updateVars, readingVars, calm>>
    BY <1>6 DEF set_threshold
  <2>2. CASE t = NaN /\ setting' = "ended" /\ UNCHANGED <<threshold, changed>>
    <3>1. NodeTypeOK'
      BY <1>0, <2>1, <2>2 DEF NodeTypeOK, Ring
    <3>2. TypicalIsUpToDate' /\ MedianOfSome' /\ CalmReading' /\ AlarmIsTrue'
      BY <1>0, <2>1, <2>2 DEF TypicalIsUpToDate, MedianOfSome, CalmReading, AlarmIsTrue
    <3> QED BY <3>1, <3>2 DEF NodeInv
  <2>3. CASE /\ t # NaN /\ UNCHANGED setting
             /\ \/ threshold' = t \div 10 /\ changed' = TRUE
                \/ UNCHANGED <<threshold, changed>>
    <3>1. t \in Nat /\ t \div 10 \in Nat
      BY <2>3, SensorNodeAssumption
    <3>2. threshold' \in Nat
      BY <1>0, <2>3, <3>1 DEF NodeTypeOK
    <3>3. NodeTypeOK'
      BY <1>0, <2>1, <2>3, <3>2 DEF NodeTypeOK, Ring
    <3>4. TypicalIsUpToDate' /\ MedianOfSome' /\ CalmReading'
      BY <1>0, <2>1 DEF TypicalIsUpToDate, MedianOfSome, CalmReading
    <3>5. AlarmIsTrue'
      <4>1. CASE changed' = TRUE
        BY <1>0, <2>1, <4>1 DEF AlarmIsTrue
      <4>2. CASE UNCHANGED <<threshold, changed>>
        BY <1>0, <2>1, <4>2 DEF AlarmIsTrue
      <4> QED BY <2>3, <4>1, <4>2
    <3> QED BY <3>3, <3>4, <3>5 DEF NodeInv
  <2> QED BY <1>6, <2>2, <2>3 DEF set_threshold, EndsThread
<1>7. ASSUME NEW x \in {"current", "typical"}, ReadFirst(x) PROVE NodeInv'
  <2>1. /\ reading' = x /\ calm' = (updating # "median")
        /\ UNCHANGED <<updateVars, settingVars, changed>>
    BY <1>7 DEF ReadFirst
  <2>2. /\ got' \in [current : Nat, typical : Nat]
        /\ x = "current" => got'.current = current_value
        /\ x = "typical" => got'.typical = typical
    BY <1>0, <1>7 DEF ReadFirst, NodeTypeOK
  <2>3. NodeTypeOK'
    BY <1>0, <2>1, <2>2 DEF NodeTypeOK, Ring
  <2>4. TypicalIsUpToDate' /\ MedianOfSome' /\ AlarmIsTrue'
    BY <1>0, <2>1 DEF TypicalIsUpToDate, MedianOfSome, AlarmIsTrue
  <2>5. CalmReading'
    BY <2>1, <2>2 DEF CalmReading
  <2> QED BY <2>3, <2>4, <2>5 DEF NodeInv
<1>8. CASE SendAnswer
  <2>1. /\ reading' = "receive" /\ got' = Nothing
        /\ UNCHANGED <<updateVars, settingVars, calm, changed>>
    BY <1>8 DEF SendAnswer
  <2>2. NodeTypeOK'
    BY <1>0, <2>1 DEF NodeTypeOK, Ring, Nothing
  <2>3. TypicalIsUpToDate' /\ MedianOfSome' /\ CalmReading' /\ AlarmIsTrue'
    BY <1>0, <2>1 DEF TypicalIsUpToDate, MedianOfSome, CalmReading, AlarmIsTrue
  <2> QED BY <2>2, <2>3 DEF NodeInv
<1>9. CASE UNCHANGED nodeVars
  <2>1. NodeTypeOK'
    BY <1>0, <1>9 DEF NodeTypeOK, Ring, nodeVars
  <2>2. TypicalIsUpToDate' /\ MedianOfSome' /\ CalmReading' /\ AlarmIsTrue'
    BY <1>0, <1>9 DEF nodeVars, TypicalIsUpToDate, MedianOfSome, CalmReading, AlarmIsTrue
  <2> QED BY <2>1, <2>2 DEF NodeInv
<1> QED BY <1>1, <1>2, <1>3, <1>4, <1>5, <1>6, <1>7, <1>8, <1>9, <1>a
        DEF NodeNext, SendAlarm, AlarmFails

\* The ring is one in every state, typical is its median except while it is about to
\* be stored, and the histories tell what they are for.
THEOREM NodeInvariance == NodeSpec => []NodeInv
BY NodeInitInv, NodeNextInv, PTL DEF NodeSpec

\* An alarm is the latest value with the median that goes with it, and the value was
\* above the threshold, whatever the other threads do between the comparison and it.
THEOREM AlarmIsOnePairTheorem == NodeSpec => AlarmIsOnePair
<1> DEFINE OnePair ==
        SendAlarm =>
          /\ told' = [current |-> current_value, typical |-> calculate_median(last60, amount)]
          /\ told'.current > threshold \/ changed
<1>1. NodeInv /\ [NodeNext]_nodeVars => [OnePair]_nodeVars
  <2> SUFFICES ASSUME NodeInv, SendAlarm
               PROVE  /\ told' = [current |-> current_value,
                                  typical |-> calculate_median(last60, amount)]
                      /\ told'.current > threshold \/ changed
    OBVIOUS
  <2>1. updating = "alarm" /\ told' = alarmStr
    BY DEF SendAlarm, AlarmDone
  <2>2. /\ alarmStr = [current |-> current_value, typical |-> typical]
        /\ current_value > threshold \/ changed
    BY <2>1 DEF NodeInv, AlarmIsTrue
  <2>3. typical = calculate_median(last60, amount)
    BY <2>1 DEF NodeInv, TypicalIsUpToDate, MedianOfSome
  <2> QED BY <2>1, <2>2, <2>3
<1> QED BY <1>1, NodeInvariance, PTL DEF NodeSpec, AlarmIsOnePair

\* An answer that no measurement interrupts is a value and the median that goes with
\* it, in whichever order main reads the two atomics.
THEOREM CalmAnswerIsOnePairTheorem == NodeSpec => CalmAnswerIsOnePair
<1> DEFINE OnePair == SendAnswer /\ calm =>
              Answer = [current |-> current_value,
                        typical |-> IF amount = 0 THEN 0
                                    ELSE calculate_median(last60, amount)]
<1>1. NodeInv /\ [NodeNext]_nodeVars => [OnePair]_nodeVars
  <2> SUFFICES ASSUME NodeInv, SendAnswer, calm
               PROVE  Answer = [current |-> current_value,
                                typical |-> IF amount = 0 THEN 0
                                            ELSE calculate_median(last60, amount)]
    OBVIOUS
  <2>1. /\ reading \in {"current", "typical"} /\ updating # "median"
        /\ reading = "current" => got.current = current_value
        /\ reading = "typical" => got.typical = typical
        /\ got \in [current : Nat, typical : Nat]
    BY DEF NodeInv, NodeTypeOK, CalmReading, SendAnswer
  <2>2. typical = IF amount = 0 THEN 0 ELSE calculate_median(last60, amount)
    BY <2>1 DEF NodeInv, TypicalIsUpToDate
  <2>3. Answer = [current |-> current_value, typical |-> typical]
    BY <2>1 DEF Answer
  <2> QED BY <2>2, <2>3
<1> QED BY <1>1, NodeInvariance, PTL DEF NodeSpec, CalmAnswerIsOnePair

\* The refinement mapping's window.
Latest == [i \in 1..amount |-> last60[(pointer + Window - amount + i - 1) % Window]]

\* It is the sequence the lemmas on rings are about.
LEMMA LatestIsWindow ==
    /\ Latest = WindowOf(last60, pointer, amount)
    /\ Latest' = WindowOf(last60', pointer', amount')
BY DEF Latest, WindowOf, Place

\* A step of the sensor program measures or stores the median of the latest
\* measurements, or is none of the abstract specification's.
LEMMA MedianStep ==
    NodeInv /\ [NodeNext]_nodeVars => [SM!MNext]_<<Latest, current_value, typical>>
<1> SUFFICES ASSUME NodeInv, [NodeNext]_nodeVars
             PROVE  [SM!MNext]_<<Latest, current_value, typical>>
  OBVIOUS
<1> USE DEF ring, updateVars, settingVars, readingVars
<1>0. NodeTypeOK /\ MedianOfSome /\ Ring(last60, pointer, amount)
  BY DEF NodeInv, NodeTypeOK
<1>1. ASSUME NEW v \in Value, Measure(v) PROVE SM!MNext
  <2>1. v \in Nat /\ Measured(last60, pointer, amount, v, last60', pointer', amount')
    BY <1>0, <1>1, MeasureMeasures
  <2>2. Latest' = IF Len(Latest) < Window THEN Append(Latest, v)
                  ELSE Append(Tail(Latest), v)
    BY <1>0, <2>1, LatestIsWindow, MeasuredWindow
  <2>3. current_value' = v /\ UNCHANGED typical
    BY <1>1 DEF Measure
  <2>4. SM!Measure(v)
    BY <2>2, <2>3 DEF SM!Measure, Latest
  <2> QED BY <2>4 DEF SM!MNext
<1>2. CASE StoreMedian
  <2>1. /\ updating = "median" /\ typical' = calculate_median(last60, amount)
        /\ UNCHANGED <<last60, pointer, amount, current_value>>
    BY <1>2 DEF StoreMedian
  <2>2. amount # 0
    BY <1>0, <2>1 DEF MedianOfSome
  <2>3. typical' = SM!Median(Latest)
    BY <1>0, <2>1, <2>2, StoredMedian, LatestIsWindow
  <2>4. Latest # <<>>
    <3>1. Len(Latest) = amount
      BY <1>0, LatestIsWindow, WindowFacts
    <3> QED BY <2>2, <3>1
  <2>5. UNCHANGED <<Latest, current_value>>
    BY <2>1 DEF Latest
  <2>6. SM!Update
    BY <2>3, <2>4, <2>5 DEF SM!Update, Latest
  <2> QED BY <2>6 DEF SM!MNext
<1>3. ASSUME UNCHANGED <<last60, pointer, amount, current_value, typical>>
      PROVE  UNCHANGED <<Latest, current_value, typical>>
  BY <1>3 DEF Latest
<1>4. CASE Compare \/ SendAlarm \/ AlarmFails
  BY <1>3, <1>4 DEF Compare, SendAlarm, AlarmFails, AlarmDone
<1>5. ASSUME NEW t \in Asked \cup {NaN}, CentralSends(t) \/ LoseText(t) \/ set_threshold(t)
      PROVE  UNCHANGED <<Latest, current_value, typical>>
  BY <1>3, <1>5 DEF CentralSends, LoseText, set_threshold
<1>6. ASSUME NEW x \in {"current", "typical"}, ReadFirst(x)
      PROVE  UNCHANGED <<Latest, current_value, typical>>
  BY <1>3, <1>6 DEF ReadFirst
<1>7. CASE SendAnswer
  BY <1>3, <1>7 DEF SendAnswer
<1>8. CASE UNCHANGED nodeVars
  BY <1>3, <1>8 DEF nodeVars
<1> QED BY <1>1, <1>2, <1>4, <1>5, <1>6, <1>7, <1>8 DEF NodeNext

\* The sensor program implements the sliding median: for every size of the ring and
\* every sequence of measurements, wherever the ring has its end.
THEOREM TypicalIsMedianTheorem == NodeSpec => TypicalIsMedian
<1>1. NodeInit => SM!MInit
  <2> SUFFICES ASSUME NodeInit PROVE SM!MInit
    OBVIOUS
  <2>1. amount = 0 /\ current_value = 40 /\ typical = 0
    BY DEF NodeInit
  <2>2. Latest = <<>>
    BY <2>1 DEF Latest
  <2> QED BY <2>1, <2>2 DEF SM!MInit, Latest
<1>2. NodeInv /\ [NodeNext]_nodeVars => [SM!MNext]_<<Latest, current_value, typical>>
  BY MedianStep
<1> QED BY <1>1, <1>2, NodeInvariance, PTL
        DEF NodeSpec, TypicalIsMedian, SM!MedianSpec, Latest
=============================================================================
