---------------------------- MODULE SearchProofs ----------------------------
(***************************************************************************)
(* Theorems about Search, for any number of branches, rounds, searches and *)
(* scripts, any scores and sizes.  First what the operators of the model   *)
(* return: the order of the branches, and the fold that updates the        *)
(* archive.  Then the pool, the scores of a search, and the archive.       *)
(***************************************************************************)
EXTENDS Search, SequenceTheorems, FiniteSetTheorems, FunctionTheorems, WellFoundedInduction, TLAPS

-----------------------------------------------------------------------------
(* Every set of naturals that is not empty has a least element.            *)
LEMMA LeastNumber ==
    ASSUME NEW T \in SUBSET Nat, T # {}
    PROVE  \E x \in T : \A y \in T : x <= y
  <1>1. PICK x \in T : \A y \in T : ~(<<y, x>> \in OpToRel(<, Nat))
    BY NatLessThanWellFounded, WFMin
  <1>2. \A y \in T : ~(y < x)
    BY <1>1 DEF OpToRel
  <1> QED BY <1>2

(* Results that can be compared: each of a branch of its own.              *)
Comparable(rs) ==
    /\ IsFiniteSet(rs)
    /\ \A r \in rs : r.total \in Int /\ r.branch \in Int
    /\ \A q, r \in rs : q.branch = r.branch => q = r

(* How many are above r.                                                   *)
Superiors(rs, r) == {q \in rs : Above(q, r)}

(* Above is a strict total order of results that can be compared.          *)
LEMMA AboveIsOrder ==
    ASSUME NEW rs, Comparable(rs)
    PROVE  /\ \A r \in rs : ~Above(r, r)
           /\ \A p, q, r \in rs : Above(p, q) /\ Above(q, r) => Above(p, r)
           /\ \A q, r \in rs : q # r => Above(q, r) \/ Above(r, q)
  BY SMT DEF Comparable, Above

(* Who is above has fewer above itself.                                    *)
LEMMA FewerSuperiors ==
    ASSUME NEW rs, Comparable(rs), NEW q \in rs, NEW r \in rs, Above(q, r)
    PROVE  Cardinality(Superiors(rs, q)) < Cardinality(Superiors(rs, r))
  <1>1. Superiors(rs, q) \subseteq Superiors(rs, r)
    BY AboveIsOrder DEF Superiors
  <1>2. q \in Superiors(rs, r) /\ q \notin Superiors(rs, q)
    BY AboveIsOrder DEF Superiors
  <1>3. IsFiniteSet(Superiors(rs, r)) /\ IsFiniteSet(Superiors(rs, q))
    BY FS_Subset DEF Superiors, Comparable
  <1>4. /\ Cardinality(Superiors(rs, q)) <= Cardinality(Superiors(rs, r))
        /\ Cardinality(Superiors(rs, q)) # Cardinality(Superiors(rs, r))
    BY <1>1, <1>2, <1>3, FS_Subset
  <1>5. Cardinality(Superiors(rs, q)) \in Nat /\ Cardinality(Superiors(rs, r)) \in Nat
    BY <1>3, FS_CardinalityType
  <1> QED BY <1>4, <1>5

(* The place of each result in the order, and the result of each place:    *)
(* there is a sorted sequence.                                             *)
LEMMA SortedExists ==
    ASSUME NEW rs, Comparable(rs)
    PROVE  \E s \in [1..Cardinality(rs) -> rs] :
               \A i, j \in DOMAIN s : i < j => Above(s[i], s[j])
  <1> DEFINE n == Cardinality(rs)
             place == [r \in rs |-> Cardinality(Superiors(rs, r)) + 1]
             s == [i \in 1..n |-> CHOOSE r \in rs : place[r] = i]
  <1>1. n \in Nat
    BY FS_CardinalityType DEF Comparable
  <1>2. place \in [rs -> 1..n]
    <2> SUFFICES ASSUME NEW r \in rs PROVE place[r] \in 1..n
      OBVIOUS
    <2>1. Superiors(rs, r) \subseteq rs /\ r \notin Superiors(rs, r)
      BY AboveIsOrder DEF Superiors
    <2>2. IsFiniteSet(rs) /\ IsFiniteSet(Superiors(rs, r))
      BY <2>1, FS_Subset DEF Comparable
    <2>3. Cardinality(Superiors(rs, r)) <= n /\ Cardinality(Superiors(rs, r)) # n
      BY <2>1, <2>2, FS_Subset
    <2>4. Cardinality(Superiors(rs, r)) \in Nat
      BY <2>2, FS_CardinalityType
    <2> QED BY <1>1, <2>3, <2>4
  <1>3. ASSUME NEW q \in rs, NEW r \in rs, Above(q, r) PROVE place[q] < place[r]
    <2>1. Cardinality(Superiors(rs, q)) < Cardinality(Superiors(rs, r))
      BY <1>3, FewerSuperiors
    <2>2. place[q] \in Int /\ place[r] \in Int
      BY <1>2
    <2>3. /\ place[q] = Cardinality(Superiors(rs, q)) + 1
          /\ place[r] = Cardinality(Superiors(rs, r)) + 1
      OBVIOUS
    <2>4. IsFiniteSet(Superiors(rs, q)) /\ IsFiniteSet(Superiors(rs, r))
      BY FS_Subset DEF Superiors, Comparable
    <2>5. /\ Cardinality(Superiors(rs, q)) \in Nat
          /\ Cardinality(Superiors(rs, r)) \in Nat
      BY <2>4, FS_CardinalityType
    <2> HIDE DEF place
    <2> QED BY <2>1, <2>3, <2>5
  <1>4. \A q, r \in rs : place[q] = place[r] => q = r
    <2> SUFFICES ASSUME NEW q \in rs, NEW r \in rs, place[q] = place[r], q # r
                 PROVE  FALSE
      OBVIOUS
    <2>1. Above(q, r) \/ Above(r, q)
      BY AboveIsOrder
    <2>2. place[q] \in Int /\ place[r] \in Int
      BY <1>2
    <2> QED BY <1>3, <2>1, <2>2
  <1>5. place \in Injection(rs, 1..n)
    BY <1>2, <1>4 DEF Injection, IsInjective
  <1>6. IsFiniteSet(1..n) /\ Cardinality(1..n) = n
    BY <1>1, FS_Interval
  <1>7. place \in Surjection(rs, 1..n)
    BY <1>5, <1>6, FS_Injection
  <1>8. \A i \in 1..n : \E r \in rs : place[r] = i
    BY <1>7 DEF Surjection
  <1> HIDE DEF place
  <1>9. \A i \in 1..n : s[i] \in rs /\ place[s[i]] = i
    BY <1>8
  <1>10. s \in [1..n -> rs]
    BY <1>9
  <1>11. ASSUME NEW i \in 1..n, NEW j \in 1..n, i < j PROVE Above(s[i], s[j])
    <2>1. s[i] \in rs /\ s[j] \in rs /\ place[s[i]] = i /\ place[s[j]] = j
      BY <1>9
    <2>2. s[i] # s[j] /\ ~Above(s[j], s[i])
      BY <1>1, <1>3, <1>11, <2>1
    <2> QED BY <2>1, <2>2, AboveIsOrder
  <1> QED BY <1>10, <1>11

(* The branches sorted: all of them, each in one place.                    *)
LEMMA SortedFacts ==
    ASSUME NEW rs, Comparable(rs)
    PROVE  /\ Cardinality(rs) \in Nat
           /\ Sorted(rs) \in [1..Cardinality(rs) -> rs]
           /\ \A i, j \in 1..Cardinality(rs) :
                  i < j => Above(Sorted(rs)[i], Sorted(rs)[j])
           /\ \A i, j \in 1..Cardinality(rs) : Sorted(rs)[i] = Sorted(rs)[j] => i = j
           /\ \A r \in rs : \E i \in 1..Cardinality(rs) : Sorted(rs)[i] = r
  <1> DEFINE n == Cardinality(rs)
             s == Sorted(rs)
  <1>1. n \in Nat /\ IsFiniteSet(rs)
    BY FS_CardinalityType DEF Comparable
  <1>2. /\ s \in [1..n -> rs]
        /\ \A i, j \in DOMAIN s : i < j => Above(s[i], s[j])
    BY SortedExists DEF Sorted
  <1> HIDE DEF s
  <1>3. ASSUME NEW i \in 1..n, NEW j \in 1..n, s[i] = s[j], i # j PROVE FALSE
    <2>1. s[i] \in rs /\ s[j] \in rs /\ (Above(s[i], s[j]) \/ Above(s[j], s[i]))
      BY <1>1, <1>2, <1>3
    <2> QED BY <1>3, <2>1, AboveIsOrder
  <1>4. s \in Injection(1..n, rs)
    BY <1>2, <1>3 DEF Injection, IsInjective
  <1>5. Cardinality(1..n) = n
    BY <1>1, FS_Interval
  <1>6. s \in Surjection(1..n, rs)
    BY <1>1, <1>4, <1>5, FS_Injection
  <1>7. \A r \in rs : \E i \in 1..n : s[i] = r
    BY <1>6 DEF Surjection
  <1> QED BY <1>1, <1>2, <1>3, <1>7 DEF s

(* The first of the sorted branches is above all others: max finds one.    *)
LEMMA BestIsFirst ==
    ASSUME NEW rs, Comparable(rs), rs # {}
    PROVE  /\ 1 \in 1..Cardinality(rs)
           /\ Best(rs) \in rs
           /\ \A q \in rs : q.total <= Best(rs).total
           /\ Best(rs) = Sorted(rs)[1]
  <1> DEFINE n == Cardinality(rs)
             s == Sorted(rs)
  <1>1. PICK r \in rs : TRUE
    OBVIOUS
  <1>2. n \in Nat /\ 1 \in 1..n /\ s[1] \in rs
    <2>1. PICK i \in 1..n : s[i] = r
      BY SortedFacts
    <2>2. n \in Nat /\ s \in [1..n -> rs]
      BY SortedFacts
    <2> QED BY <2>1, <2>2
  <1>3. ASSUME NEW q \in rs, q # s[1] PROVE Above(s[1], q)
    <2>1. PICK i \in 1..n : s[i] = q
      BY SortedFacts
    <2>2. 1 < i
      BY <1>2, <1>3, <2>1
    <2> QED BY <1>2, <2>1, <2>2, SortedFacts
  <1> HIDE DEF s
  <1>4. \A q \in rs \ {s[1]} : Above(s[1], q)
    BY <1>3
  <1>5. /\ Best(rs) \in rs
        /\ \A q \in rs \ {Best(rs)} : Above(Best(rs), q)
    BY <1>2, <1>4 DEF Best
  <1>6. Best(rs) = s[1]
    BY <1>2, <1>4, <1>5, AboveIsOrder
  <1>7. ASSUME NEW q \in rs PROVE q.total <= Best(rs).total
    <2>1. q.total \in Int /\ Best(rs).total \in Int
      BY <1>5 DEF Comparable
    <2> QED BY <1>5, <2>1 DEF Above
  <1> QED BY <1>2, <1>5, <1>6, <1>7 DEF s

(* Results of different branches can be compared.                          *)
LEMMA BranchesCompare ==
    ASSUME NEW n \in Nat, NEW rs,
           \A r \in rs : r.total \in Int /\ r.branch \in 1..n,
           \A q, r \in rs : q.branch = r.branch => q = r
    PROVE  Comparable(rs)
  <1> DEFINE of == [r \in rs |-> r.branch]
  <1>1. of \in Injection(rs, 1..n)
    BY DEF Injection, IsInjective
  <1>2. IsFiniteSet(1..n)
    BY FS_Interval
  <1>3. IsFiniteSet(rs)
    BY <1>1, <1>2, FS_Injection
  <1> QED BY <1>3 DEF Comparable

(* A part of what can be compared can be.                                  *)
LEMMA PartCompares ==
    ASSUME NEW rs, Comparable(rs), NEW qs \in SUBSET rs
    PROVE  Comparable(qs)
  BY FS_Subset DEF Comparable

(* The best of those that count is above all, discarded ones included.     *)
LEMMA BestOfValid ==
    ASSUME NEW rs, Comparable(rs), rs # {}
    PROVE  /\ Best(Valid(rs)) \in rs
           /\ \A q \in rs : q.total <= Best(Valid(rs)).total
  <1> DEFINE ok == {r \in rs : r.total > Failed}
  <1>1. CASE ok = {}
    BY <1>1, BestIsFirst DEF Valid
  <1>2. CASE ok # {}
    <2>1. Valid(rs) = ok
      BY <1>2 DEF Valid
    <2>2. Comparable(ok)
      BY PartCompares
    <2>3. Best(ok) \in ok /\ \A q \in ok : q.total <= Best(ok).total
      BY <1>2, <2>2, BestIsFirst
    <2>4. ASSUME NEW q \in rs, q \notin ok PROVE q.total <= Best(ok).total
      <3>1. q.total \in Int /\ Best(ok).total \in Int
        BY <2>3 DEF Comparable
      <3> QED BY <2>3, <2>4, <3>1 DEF Failed
    <2> QED BY <2>1, <2>3, <2>4
  <1> QED BY <1>1, <1>2

(* What is put into the archive: at most Elite results, none discarded,    *)
(* the best first.                                                         *)
LEMMA TopFacts ==
    ASSUME NEW rs, Comparable(rs)
    PROVE  /\ TopResults(rs) \in Seq(rs)
           /\ \A r \in rs : r.total > Failed =>
                  /\ Len(TopResults(rs)) >= 1
                  /\ r.total <= TopResults(rs)[1].total
  <1> DEFINE ok == {r \in rs : r.total > Failed}
             n == Cardinality(ok)
             s == Sorted(ok)
             k == IF n < Elite THEN n ELSE Elite
  <1>1. Comparable(ok)
    BY PartCompares
  <1>2. n \in Nat /\ s \in [1..n -> ok]
    BY <1>1, SortedFacts
  <1>3. s \in Seq(ok) /\ Len(s) = n
    BY <1>2
  <1>4. k \in Nat /\ k <= n /\ Elite >= 1
    BY <1>2, Sizes
  <1>5. TopResults(rs) = SubSeq(s, 1, k)
    BY <1>3 DEF TopResults, FirstOf
  <1>a. /\ ok \subseteq rs
        /\ \A r \in rs : r.total > Failed => r \in ok
    OBVIOUS
  <1> HIDE DEF s, k, n, ok
  <1>6. /\ SubSeq(s, 1, k) \in Seq(ok) /\ Len(SubSeq(s, 1, k)) = k
        /\ \A i \in 1..k : SubSeq(s, 1, k)[i] = s[i]
    <2>1. 1 \in Int /\ k \in Int /\ \A i \in 1..k : s[i] \in ok
      BY <1>2, <1>4
    <2>2. /\ SubSeq(s, 1, k) \in Seq(ok)
          /\ Len(SubSeq(s, 1, k)) = IF 1 <= k THEN k - 1 + 1 ELSE 0
          /\ \A i \in 1..(k - 1 + 1) : SubSeq(s, 1, k)[i] = s[1 + i - 1]
      BY <2>1, SubSeqProperties
    <2>3. k - 1 + 1 = k /\ \A i \in 1..k : 1 + i - 1 = i
      BY <1>4
    <2> QED BY <1>4, <2>2, <2>3
  <1>7. SubSeq(s, 1, k) \in Seq(rs)
    BY <1>6, <1>a
  <1>8. ASSUME NEW r \in rs, r.total > Failed PROVE k >= 1 /\ r.total <= s[1].total
    <2>1. r \in ok /\ ok # {}
      BY <1>8, <1>a
    <2>2. 1 \in 1..n /\ r.total <= s[1].total
      BY <1>1, <2>1, BestIsFirst DEF s, n
    <2> QED BY <1>2, <1>4, <2>2 DEF k
  <1> QED BY <1>4, <1>5, <1>6, <1>7, <1>8

-----------------------------------------------------------------------------
(* An archive that has one entry of each niche, none above m.              *)
OneEach(arc, m) ==
    /\ arc \in Seq(Entries)
    /\ \A i, j \in DOMAIN arc : arc[i].niche = arc[j].niche => i = j
    /\ \A i \in DOMAIN arc : arc[i].total <= m

Holds(arc, m) == \E i \in DOMAIN arc : arc[i].total = m

(* The entries of an archive are what they should be.                      *)
LEMMA EntryTypes ==
    ASSUME NEW arc \in Seq(Entries)
    PROVE  /\ Len(arc) \in Nat /\ DOMAIN arc = 1..Len(arc)
           /\ \A i \in DOMAIN arc :
                  arc[i] \in Entries /\ arc[i].niche \in Niche /\ arc[i].total \in Int
  <1>1. /\ Len(arc) \in Nat /\ DOMAIN arc = 1..Len(arc)
        /\ \A i \in DOMAIN arc : arc[i] \in Entries
    OBVIOUS
  <1> QED BY <1>1 DEF Entries

(* A result goes to its niche, and takes the place of a worse one.         *)
LEMMA InsertKeeps ==
    ASSUME NEW m \in Int, NEW arc, OneEach(arc, m), NEW r \in Results, r.total <= m
    PROVE  /\ OneEach(Insert(arc, r), m)
           /\ Holds(arc, m) \/ r.total = m => Holds(Insert(arc, r), m)
  <1> DEFINE entry == [niche |-> r.niche, total |-> r.total]
             at == {i \in DOMAIN arc : arc[i].niche = r.niche}
             new == Insert(arc, r)
  <1>1. /\ arc \in Seq(Entries) /\ entry \in Entries
        /\ entry.niche = r.niche /\ entry.total = r.total /\ r.total \in Int
        /\ \A i \in DOMAIN arc : arc[i] \in Entries /\ arc[i].total \in Int
    <2>1. r.niche \in Niche /\ r.total \in Int
      BY DEF Results
    <2> QED BY <2>1, EntryTypes DEF OneEach, Entries
  <1>2. CASE at = {}
    <2>1. new = Append(arc, entry)
      BY <1>2 DEF Insert
    <2> HIDE DEF new, entry
    <2>2. /\ new \in Seq(Entries) /\ DOMAIN new = 1..(Len(arc) + 1)
          /\ DOMAIN arc = 1..Len(arc) /\ Len(arc) \in Nat
          /\ \A i \in 1..Len(arc) : new[i] = arc[i]
          /\ new[Len(arc) + 1] = entry
      BY <1>1, <2>1, AppendProperties
    <2>3. \A i \in 1..(Len(arc) + 1) : i \in 1..Len(arc) \/ i = Len(arc) + 1
      BY <2>2
    <2>4. \A i \in DOMAIN arc : arc[i].niche # r.niche
      BY <1>2
    <2>5. OneEach(new, m)
      BY <1>1, <2>2, <2>3, <2>4 DEF OneEach
    <2>6. Holds(arc, m) \/ r.total = m => Holds(new, m)
      BY <1>1, <2>2 DEF Holds
    <2> QED BY <2>5, <2>6 DEF new
  <1>3. CASE at # {}
    <2>1. PICK k \in DOMAIN arc : arc[k].niche = r.niche
      BY <1>3
    <2>2. \A i \in DOMAIN arc : arc[i].niche = r.niche => i = k
      BY <2>1 DEF OneEach
    <2>3. new = [i \in DOMAIN arc |->
                    IF i \in at /\ r.total > arc[i].total THEN entry ELSE arc[i]]
      BY <1>3 DEF Insert
    <2>4. \A i \in DOMAIN arc : i \in at <=> i = k
      BY <2>1, <2>2
    <2>5. new = [i \in DOMAIN arc |->
                    IF i = k /\ r.total > arc[k].total THEN entry ELSE arc[i]]
      BY <2>3, <2>4
    <2> HIDE DEF new, entry, at
    <2>6. /\ new \in Seq(Entries) /\ DOMAIN new = DOMAIN arc
          /\ \A i \in DOMAIN arc : new[i].niche = arc[i].niche
          /\ \A i \in DOMAIN arc : i # k => new[i] = arc[i]
          /\ new[k] = IF r.total > arc[k].total THEN entry ELSE arc[k]
      BY <1>1, <2>1, <2>5
    <2>7. OneEach(new, m)
      BY <1>1, <2>1, <2>6 DEF OneEach
    <2>8. ASSUME NEW i \in DOMAIN arc, arc[i].total = m PROVE new[i].total = m
      BY <1>1, <2>1, <2>6, <2>8
    <2>9. ASSUME r.total = m PROVE new[k].total = m
      BY <1>1, <2>1, <2>6, <2>9 DEF OneEach
    <2> QED BY <2>1, <2>6, <2>7, <2>8, <2>9 DEF Holds, new
  <1> QED BY <1>2, <1>3

(* The entries in the order of their scores: cutting keeps the best.       *)
LEMMA TrimmedKeeps ==
    ASSUME NEW m \in Int, NEW arc, OneEach(arc, m)
    PROVE  /\ OneEach(Trimmed(arc), m)
           /\ Len(Trimmed(arc)) <= MaxSize
           /\ Holds(arc, m) => Holds(Trimmed(arc), m)
  <1>1. CASE Len(arc) <= MaxSize
    BY <1>1 DEF Trimmed
  <1>2. CASE ~(Len(arc) <= MaxSize)
    <2> DEFINE mark(i) == [branch |-> i, total |-> arc[i].total]
               marks == {mark(i) : i \in DOMAIN arc}
               order == Sorted(marks)
               new == [k \in 1..MaxSize |-> arc[order[k].branch]]
    <2>1. /\ Len(arc) \in Nat /\ DOMAIN arc = 1..Len(arc) /\ MaxSize \in Nat
          /\ MaxSize >= 1 /\ MaxSize <= Len(arc)
          /\ \A i \in DOMAIN arc : arc[i] \in Entries /\ arc[i].total \in Int
      BY <1>2, Sizes, EntryTypes DEF OneEach
    <2>2. /\ \A r \in marks : r.total \in Int /\ r.branch \in 1..Len(arc)
          /\ \A q, r \in marks : q.branch = r.branch => q = r
      BY <2>1
    <2>3. \A r \in marks : r.branch \in DOMAIN arc /\ r.total = arc[r.branch].total
      OBVIOUS
    <2>4. \A i \in DOMAIN arc : mark(i) \in marks /\ mark(i).branch = i
      OBVIOUS
    <2>5. Trimmed(arc) = new
      BY <1>2 DEF Trimmed
    <2> HIDE DEF marks, mark
    <2>6. Comparable(marks)
      BY <2>1, <2>2, BranchesCompare
    <2> DEFINE n == Cardinality(marks)
    <2>7. /\ n \in Nat /\ order \in [1..n -> marks]
          /\ \A i, j \in 1..n : order[i] = order[j] => i = j
      BY <2>6, SortedFacts
    <2>8. MaxSize <= n
      <3> DEFINE in == [i \in 1..Len(arc) |-> mark(i)]
      <3>1. in \in Injection(1..Len(arc), marks)
        BY <2>1, <2>4 DEF Injection, IsInjective
      <3>2. Cardinality(1..Len(arc)) = Len(arc)
        BY <2>1, FS_Interval
      <3>3. Cardinality(1..Len(arc)) <= n
        BY <3>1, <2>6, FS_Injection DEF Comparable
      <3> QED BY <2>1, <2>7, <3>2, <3>3
    <2> HIDE DEF order, n
    <2>9. \A k \in 1..MaxSize : k \in 1..n /\ order[k] \in marks
      BY <2>1, <2>7, <2>8
    <2>10. /\ \A k \in 1..MaxSize : order[k].branch \in DOMAIN arc
           /\ \A k, l \in 1..MaxSize : order[k].branch = order[l].branch => k = l
      BY <2>2, <2>3, <2>7, <2>9
    <2>11. new \in Seq(Entries) /\ DOMAIN new = 1..MaxSize /\ Len(new) = MaxSize
      BY <2>1, <2>10
    <2>12. OneEach(new, m)
      BY <2>10, <2>11 DEF OneEach
    <2>13. ASSUME NEW i \in DOMAIN arc, arc[i].total = m PROVE new[1].total = m
      <3>1. mark(i) \in marks /\ mark(i).branch = i
        BY <2>4
      <3>2. mark(i).total = m
        BY <2>3, <2>13, <3>1
      <3>3. order[1] = Best(marks) /\ Best(marks) \in marks /\ m <= Best(marks).total
        BY <2>6, <3>1, <3>2, BestIsFirst DEF order
      <3>4. /\ Best(marks).branch \in DOMAIN arc
            /\ Best(marks).total = arc[Best(marks).branch].total
        BY <2>3, <3>3
      <3>5. arc[Best(marks).branch].total <= m /\ arc[Best(marks).branch].total \in Int
        BY <2>1, <3>4 DEF OneEach
      <3>6. new[1] = arc[Best(marks).branch]
        BY <2>1, <3>3
      <3> QED BY <3>3, <3>4, <3>5, <3>6
    <2>14. Holds(arc, m) => Holds(new, m)
      BY <2>1, <2>11, <2>13 DEF Holds
    <2> HIDE DEF new
    <2> QED BY <2>1, <2>5, <2>11, <2>12, <2>14
  <1> QED BY <1>1, <1>2

(* What update goes through, f being what it went through: the archive,    *)
(* and then the archive with each result inserted.                         *)
Inserting(arc, rs, k, f) ==
    [n \in 0..k |-> IF n = 0 THEN arc ELSE Insert(f[n - 1], rs[n])]

(* Inserting one result after another is well defined.                     *)
LEMMA InsertAll ==
    ASSUME NEW arc, NEW rs, NEW k \in Nat
    PROVE  \E f : f = Inserting(arc, rs, k, f)
  <1> USE DEF Inserting
  <1> DEFINE P(l) == \E f : f = Inserting(arc, rs, l, f)
             T == {l \in Nat : ~P(l)}
  <1>1. P(0)
    <2> DEFINE f == [n \in 0..0 |-> arc]
    <2>1. f = [n \in 0..0 |-> IF n = 0 THEN arc ELSE Insert(f[n - 1], rs[n])]
      OBVIOUS
    <2> QED BY <2>1
  <1>2. ASSUME NEW l \in Nat, P(l) PROVE P(l + 1)
    <2>1. PICK f : f = [n \in 0..l |->
                          IF n = 0 THEN arc ELSE Insert(f[n - 1], rs[n])]
      BY <1>2
    <2> DEFINE g == [n \in 0..(l + 1) |->
                       IF n = l + 1 THEN Insert(f[l], rs[l + 1]) ELSE f[n]]
               h == [n \in 0..(l + 1) |->
                       IF n = 0 THEN arc ELSE Insert(g[n - 1], rs[n])]
    <2>2. ASSUME NEW n \in 0..(l + 1) PROVE g[n] = h[n]
      <3>1. CASE n = 0
        <4>1. g[n] = f[n] /\ f[n] = arc
          BY <2>1, <3>1
        <4> QED BY <3>1, <4>1
      <3>2. CASE n = l + 1
        <4>1. g[n] = Insert(f[l], rs[l + 1]) /\ g[l] = f[l] /\ n # 0 /\ n - 1 = l
          BY <3>2
        <4>2. h[n] = Insert(g[l], rs[l + 1])
          BY <3>2, <4>1
        <4> QED BY <4>1, <4>2
      <3>3. CASE n # 0 /\ n # l + 1
        <4>1. n \in 0..l /\ n - 1 \in 0..l
          BY <3>3
        <4>2. f[n] = Insert(f[n - 1], rs[n])
          BY <2>1, <3>3, <4>1
        <4>3. g[n] = f[n] /\ g[n - 1] = f[n - 1]
          BY <3>3, <4>1
        <4> QED BY <3>3, <4>2, <4>3
      <3> QED BY <3>1, <3>2, <3>3
    <2>3. g = h
      BY <2>2
    <2> QED BY <2>3
  <1> HIDE DEF P, Inserting
  <1>3. ASSUME T # {} PROVE FALSE
    <2>1. PICK l \in T : \A y \in T : l <= y
      BY <1>3, LeastNumber
    <2>2. l # 0 /\ l \in Nat
      BY <1>1, <2>1
    <2>3. l - 1 \in Nat /\ l - 1 \notin T
      BY <2>1, <2>2
    <2>4. P(l - 1)
      BY <2>3
    <2>5. P((l - 1) + 1)
      BY <1>2, <2>3, <2>4
    <2>6. (l - 1) + 1 = l
      BY <2>2
    <2> QED BY <2>1, <2>5, <2>6
  <1> QED BY <1>3 DEF P

(* update puts one result after another into the archive and then cuts it: *)
(* niches stay different, and the best of what was there and of what comes *)
(* first among the results stays.                                          *)
LEMMA UpdateKeeps ==
    ASSUME NEW m \in Int, NEW arc, OneEach(arc, m), NEW rs \in Seq(Results),
           \A i \in 1..Len(rs) : rs[i].total <= m
    PROVE  /\ OneEach(Update(arc, rs), m)
           /\ Len(Update(arc, rs)) <= MaxSize
           /\ Holds(arc, m) => Holds(Update(arc, rs), m)
           /\ Len(rs) >= 1 /\ rs[1].total = m => Holds(Update(arc, rs), m)
  <1> DEFINE f == CHOOSE g : g = Inserting(arc, rs, Len(rs), g)
  <1>1. Len(rs) \in Nat /\ \A i \in 1..Len(rs) : rs[i] \in Results
    OBVIOUS
  <1>2. f = Inserting(arc, rs, Len(rs), f)
    BY <1>1, InsertAll
  <1>3. Update(arc, rs) = Trimmed(f[Len(rs)])
    BY DEF Update, Inserting
  <1> HIDE DEF f
  <1>4. /\ f[0] = arc
        /\ \A n \in 1..Len(rs) : f[n] = Insert(f[n - 1], rs[n])
    BY <1>1, <1>2 DEF Inserting
  <1> DEFINE P(n) == /\ OneEach(f[n], m)
                     /\ Holds(arc, m) => Holds(f[n], m)
                     /\ n >= 1 /\ rs[1].total = m => Holds(f[n], m)
             T == {n \in 0..Len(rs) : ~P(n)}
  <1>5. P(0)
    BY <1>4
  <1>6. ASSUME NEW n \in 1..Len(rs), P(n - 1) PROVE P(n)
    <2>1. f[n] = Insert(f[n - 1], rs[n]) /\ rs[n] \in Results /\ rs[n].total <= m
      BY <1>1, <1>4
    <2>2. /\ OneEach(f[n], m)
          /\ Holds(f[n - 1], m) \/ rs[n].total = m => Holds(f[n], m)
      BY <1>6, <2>1, InsertKeeps
    <2>3. n = 1 \/ n - 1 >= 1
      BY <1>1
    <2> QED BY <1>6, <2>2, <2>3
  <1> HIDE DEF P
  <1>7. ASSUME T # {} PROVE FALSE
    <2>1. T \in SUBSET Nat
      BY <1>1
    <2>2. PICK l \in T : \A y \in T : l <= y
      BY <1>7, <2>1, LeastNumber
    <2>3. l \in 0..Len(rs) /\ l # 0 /\ ~P(l)
      BY <1>5, <2>2
    <2>4. l \in 1..Len(rs) /\ l - 1 \in 0..Len(rs) /\ l - 1 \notin T
      BY <1>1, <2>2, <2>3
    <2>5. P(l - 1)
      BY <2>4
    <2> QED BY <1>6, <2>3, <2>4, <2>5
  <1>8. P(Len(rs))
    BY <1>1, <1>7
  <1> QED BY <1>3, <1>8, TrimmedKeeps DEF P

-----------------------------------------------------------------------------
(* What is read when the future of a branch is done.                       *)
ValueOf(b) == IF fut[b] = "notified" THEN Result(b, Failed) ELSE came[b]
Gone == {"finished", "notified"}

(* The states of a future.                                                 *)
Futures == {"none", "pending", "running", "captured", "inside", "printed", "outside",
            "closing", "finished", "cancelled", "notified"}

(* A branch runs, and has come to something when its program has ended.    *)
Live == {"running", "captured", "inside", "printed", "outside", "closing"}
Back == {"outside", "closing", "finished"}
Going == {"inside", "printed"}

(* Futures are there as long as the search is, and what they hold is of    *)
(* their branch and of the round.                                          *)
CameInv ==
    /\ \A b \in Branch : fut[b] = "none" <=> phase = "idle"
    /\ \A b \in Branch : fut[b] \in Back =>
          came[b] \in Results /\ came[b].branch = b /\ came[b].round = round

(* As long as no two branches were executed at once: one is, if any; it    *)
(* has what it has put in place, nobody else's output in its buffer and    *)
(* the process's directory to go back to; and all come to their own.       *)
Alone ==
    /\ \A b, c \in Executed : b = c
    /\ \A b \in Branch : fut[b] \in Going => cwd = b /\ kept[b].cwd = 0
    /\ (\A b \in Branch : fut[b] \notin Going) => cwd = 0
    /\ \A b \in Branch : fut[b] \in {"captured", "inside", "printed"} => out = b
    /\ \A b \in Branch :
          fut[b] \in {"pending", "running", "captured", "inside"} => buf[b] = {}
    /\ \A b \in Branch : fut[b] = "printed" => buf[b] = {b}
    /\ \A b \in Branch : fut[b] \in Back => came[b] = Outcome(b)
ApartInv == apart => Alone

(* The pool and the results: a branch that has a result is done and keeps  *)
(* it; nothing is cancelled before a perfect result is there; and a winner *)
(* is chosen when all have come.                                           *)
PoolInv ==
    /\ \A b \in Branch : b > taken => fut[b] \in {"none", "pending", "cancelled"}
    /\ \A b \in Branch : results[b] # None => fut[b] \in Gone /\ results[b] = ValueOf(b)
    /\ \A i \in DOMAIN done : fut[done[i]] \in Gone
    /\ early = 0 => /\ phase # "cancel"
                    /\ \A b \in Branch : fut[b] \notin {"cancelled", "notified"}
    /\ early # 0 => results[early] # None /\ results[early].total >= Perfect
    /\ phase = "submit" => results = Fresh /\ early = 0
    /\ phase = "next" =>
         /\ \A b \in Branch : results[b] # None
         /\ chosen = Best(Valid({results[b] : b \in Branch}))

(* The scores of a search: the best total so far is the best winner's or,  *)
(* while a round goes on, one of its results'; and the winners' totals are *)
(* in the history, the best for the first time in the round it is of.      *)
SoFar ==
    /\ \A b \in Branch : results[b] # None =>
          top.call # None /\ results[b].total <= top.call
    /\ best # None => top.call # None /\ best.total <= top.call
    /\ top.call # None =>
          \/ best # None /\ best.total = top.call
          \/ \E b \in Branch : results[b] # None /\ results[b].total = top.call

InHistory ==
    /\ Len(history) = IF phase = "next" THEN round ELSE round - 1
    /\ best = None => history = <<>>
    /\ best # None =>
         /\ best.round \in DOMAIN history
         /\ history[best.round] = best.total
         /\ \A i \in DOMAIN history :
                /\ history[i] <= best.total
                /\ i < best.round => history[i] < best.total

ScoreInv ==
    /\ phase # "idle" => SoFar /\ InHistory
    /\ phase = "next" => best # None /\ best.total = top.call
    /\ seed # None =>
         phase = "idle" /\ seed.of.total = top.call /\ seed.of.round = seed.round

(* The archive: the best branch there ever was is in it, or still among    *)
(* the results of the round.                                               *)
ArchiveInv ==
    /\ OneEach(archive, top.ever) /\ Len(archive) <= MaxSize
    /\ \A b \in Branch : results[b] # None => results[b].total <= top.ever
    /\ top.ever > Failed =>
         \/ Holds(archive, top.ever)
         \/ /\ phase \in {"collect", "cancel"}
            /\ \E b \in Branch : results[b] # None /\ results[b].total = top.ever

IInv == TypeOK /\ PoolInv /\ CameInv /\ ApartInv /\ ScoreInv /\ ArchiveInv

(* What a branch may come to is a result of its own and of this round.     *)
LEMMA OutcomeType ==
    ASSUME TypeOK, phase # "idle", NEW b \in Branch
    PROVE  /\ \A s \in Scripts : /\ Like(b, s) \in Results
                                 /\ Like(b, s).branch = b /\ Like(b, s).round = round
           /\ Result(b, Failed) \in Results
           /\ Result(b, Failed).branch = b /\ Result(b, Failed).round = round
  <1>1. script[b] \in Scripts /\ round \in Nat /\ Failed \in Int
    BY DEF TypeOK, Failed
  <1>2. \A s \in Scripts : s.niche \in Niche /\ Total(s) \in Int
    BY Scores DEF Niche
  <1>3. ASSUME NEW s \in Scripts
        PROVE  /\ Like(b, s) \in Results
               /\ Like(b, s).branch = b /\ Like(b, s).round = round
    <2> DEFINE v == IF s.raises \/ Pruned(s) THEN Failed ELSE Total(s)
    <2>1. v \in Int
      BY <1>1, <1>2
    <2>2. Like(b, s) = [round |-> round, branch |-> b, niche |-> s.niche, total |-> v]
      BY DEF Like
    <2> HIDE DEF v
    <2> QED BY <1>1, <1>2, <2>1, <2>2 DEF Results
  <1> QED BY <1>1, <1>2, <1>3 DEF Result, Results

(* So is what is read of it.                                               *)
LEMMA ValueType ==
    ASSUME TypeOK, CameInv, phase # "idle", NEW b \in Branch, fut[b] \in Gone
    PROVE  /\ ValueOf(b) \in Results
           /\ ValueOf(b).branch = b /\ ValueOf(b).round = round
  BY OutcomeType DEF ValueOf, Gone, Back, CameInv

(* A result is not None, and has a number for its total.                   *)
LEMMA ResultFacts ==
    ASSUME NEW r \in Results
    PROVE  r # None /\ r.total \in Int /\ r.round \in Nat /\ r.branch \in Branch
  BY NoneApart DEF Results

(* When every branch of a round has come, their results can be compared.   *)
LEMMA AllCame ==
    ASSUME TypeOK, PoolInv, CameInv, phase # "idle",
           \A b \in Branch : results[b] # None,
           NEW rs, rs = {results[b] : b \in Branch}
    PROVE  /\ Comparable(rs) /\ rs # {} /\ rs \subseteq Results
           /\ \A r \in rs : r.round = round
           /\ Best(Valid(rs)) \in rs
           /\ \A q \in rs : q.total <= Best(Valid(rs)).total
  <1>1. \A b \in Branch : /\ results[b] \in Results /\ results[b].branch = b
                          /\ results[b].round = round
    BY ValueType DEF TypeOK, PoolInv
  <1>2. rs \subseteq Results
    BY <1>1
  <1>3. \A r \in rs : r.total \in Int /\ r.branch \in 1..Branches
    BY <1>2, ResultFacts DEF Branch
  <1>4. \A q, r \in rs : q.branch = r.branch => q = r
    BY <1>1
  <1>5. Branches \in Nat /\ 1 \in Branch
    BY Sizes DEF Branch
  <1>6. Comparable(rs)
    BY <1>3, <1>4, <1>5, BranchesCompare
  <1>7. rs # {} /\ \A r \in rs : r.round = round
    BY <1>1, <1>5
  <1> QED BY <1>2, <1>6, <1>7, BestOfValid

(* What Collect does, in the words of the invariant.                       *)
LEMMA Collected ==
    ASSUME TypeOK, PoolInv, CameInv, Collect
    PROVE  \E b \in Branch :
             /\ fut[b] \in Gone /\ ValueOf(b) \in Results
             /\ results' = [results EXCEPT ![b] = ValueOf(b)]
             /\ early' \in {early, b}
             /\ early' # early => early = 0
             /\ early' = b /\ early = 0 => ValueOf(b).total >= Perfect
             /\ phase' = IF early' = early THEN phase ELSE "cancel"
             /\ top' = [call |-> Higher(top.call, ValueOf(b).total),
                        ever |-> Higher(top.ever, ValueOf(b).total)]
  <1> DEFINE b == Head(done)
  <1>1. done \in Seq(Branch) /\ done # <<>> /\ phase # "idle"
    BY DEF TypeOK, Collect
  <1>2. b \in Branch /\ 1 \in DOMAIN done /\ b = done[1]
    BY <1>1
  <1>3. fut[b] \in Gone /\ ValueOf(b) \in Results
    BY <1>1, <1>2, ValueType DEF PoolInv
  <1>4. 0 \notin Branch
    BY DEF Branch
  <1> QED BY <1>2, <1>3, <1>4 DEF Collect, ValueOf

(* as_completed only puts what is done in another order.                   *)
LEMMA Watched ==
    ASSUME TypeOK, Watch
    PROVE  /\ done' \in Seq(Branch)
           /\ \A i \in DOMAIN done' : \E j \in DOMAIN done : done'[i] = done[j]
  <1>1. done \in Seq(Branch) /\ Branches \in Nat
    BY Sizes DEF TypeOK
  <1>2. ToSet(done) \subseteq Branch
    BY <1>1 DEF ToSet
  <1>3. IsFiniteSet(ToSet(done))
    BY <1>1, <1>2, FS_Interval, FS_Subset DEF Branch
  <1> DEFINE n == Cardinality(ToSet(done))
  <1>4. n \in Nat /\ done' \in [1..n -> ToSet(done)]
    BY <1>3, FS_CardinalityType DEF Watch, SetToSeqs
  <1> HIDE DEF n
  <1>5. done' \in Seq(Branch) /\ DOMAIN done' = 1..n
    BY <1>2, <1>4
  <1>6. \A i \in 1..n : done'[i] \in ToSet(done)
    BY <1>4
  <1> QED BY <1>5, <1>6 DEF ToSet

(* What a search updates the archive with.                                 *)
LEMMA Selected ==
    ASSUME IInv, Select, NEW rs, rs = {results[b] : b \in Branch}
    PROVE  /\ chosen' = Best(Valid(rs)) /\ chosen' \in Results
           /\ chosen'.round = round
           /\ \A b \in Branch : results[b] \in Results /\ results[b].total <= chosen'.total
           /\ \E b \in Branch : chosen' = results[b]
           /\ OneEach(archive', top.ever) /\ Len(archive') <= MaxSize
           /\ top.ever > Failed => Holds(archive', top.ever)
  <1>1. phase # "idle" /\ \A b \in Branch : results[b] # None
    BY DEF Select
  <1>2. /\ Comparable(rs) /\ rs # {} /\ rs \subseteq Results
        /\ \A r \in rs : r.round = round
        /\ Best(Valid(rs)) \in rs
        /\ \A q \in rs : q.total <= Best(Valid(rs)).total
    BY <1>1, AllCame DEF IInv
  <1>3. chosen' = Best(Valid(rs)) /\ archive' = Update(archive, TopResults(rs))
    BY DEF Select
  <1> DEFINE ts == TopResults(rs)
             m == top.ever
  <1>4. m \in Int /\ OneEach(archive, m) /\ \A r \in rs : r.total <= m
    BY <1>1 DEF IInv, TypeOK, ArchiveInv
  <1>5. ts \in Seq(rs) /\ \A r \in rs : r.total > Failed =>
                              Len(ts) >= 1 /\ r.total <= ts[1].total
    BY <1>2, TopFacts
  <1> HIDE DEF ts, m
  <1>6. ts \in Seq(Results) /\ \A i \in 1..Len(ts) : ts[i] \in rs /\ ts[i].total <= m
    BY <1>2, <1>4, <1>5
  <1>7. /\ OneEach(Update(archive, ts), m) /\ Len(Update(archive, ts)) <= MaxSize
        /\ Holds(archive, m) => Holds(Update(archive, ts), m)
        /\ Len(ts) >= 1 /\ ts[1].total = m => Holds(Update(archive, ts), m)
    BY <1>4, <1>6, UpdateKeeps
  <1>8. ASSUME m > Failed, ~Holds(archive, m)
        PROVE  Len(ts) >= 1 /\ ts[1].total = m
    <2>1. PICK b \in Branch : results[b] # None /\ results[b].total = m
      BY <1>8 DEF IInv, ArchiveInv, m
    <2>2. results[b] \in rs /\ Len(ts) >= 1 /\ m <= ts[1].total
      BY <1>5, <1>8, <2>1
    <2>3. ts[1] \in rs /\ ts[1].total <= m
      BY <1>6, <2>2
    <2>4. ts[1].total \in Int
      BY <1>2, <2>3, ResultFacts
    <2> QED BY <1>4, <2>2, <2>3, <2>4
  <1> QED BY <1>2, <1>3, <1>7, <1>8 DEF ts, m

(* What a step of a branch leaves alone, and what it may change.           *)
LEMMA Ran ==
    ASSUME IInv, NEW k \in Branch, Runs(k)
    PROVE  /\ fut[k] \in Live /\ phase # "idle"
           /\ UNCHANGED <<phase, script, taken, results, early, cut, chosen, round,
                          history, best, archive, seed, calls, top>>
           /\ \E p \in (Live \ {"running"}) \cup {"finished"} :
                 /\ fut' = [fut EXCEPT ![k] = p]
                 /\ done' = IF p = "finished" THEN Append(done, k) ELSE done
                 /\ p \in Back => came'[k] \in Results
                 /\ p \in Back => came'[k].branch = k /\ came'[k].round = round
           /\ came' \in [Branch -> Results \cup {None}]
           /\ \A b \in Branch \ {k} : came'[b] = came[b]
  <1>1. /\ TypeOK /\ CameInv /\ Blends \subseteq Scripts
        /\ came \in [Branch -> Results \cup {None}]
    BY Sizes DEF IInv, TypeOK
  <1>2. fut[k] \in Live
    BY DEF Runs, Capture, Chdir, Prints, ChdirBack, Release, Finish, Live
  <1>3. phase # "idle"
    BY <1>1, <1>2 DEF CameInv, Live
  <1>4. UNCHANGED <<phase, script, taken, results, early, cut, chosen, round,
                    history, best, archive, seed, calls, top>>
    BY DEF Runs, Capture, Chdir, Prints, ChdirBack, Release, Finish, runnerVars,
           runVars, searchVars
  <1>5. script[k] \in Scripts
    BY <1>1, <1>3 DEF TypeOK
  <1> DEFINE Puts == \E r \in Results : /\ r.branch = k /\ r.round = round
                                        /\ came' = [came EXCEPT ![k] = r]
             Steps(p) == /\ fut' = [fut EXCEPT ![k] = p]
                         /\ done' = IF p = "finished" THEN Append(done, k) ELSE done
                         /\ \/ came' = came /\ (p \in Back => fut[k] \in Back)
                            \/ Puts
  <1>6. /\ came' = [came EXCEPT ![k] = Result(k, Failed)] => Puts
        /\ \A s \in Scripts : came' = [came EXCEPT ![k] = Like(k, s)] => Puts
    BY <1>1, <1>3, OutcomeType
  <1> HIDE DEF Puts
  <1>7. \E p \in (Live \ {"running"}) \cup {"finished"} : Steps(p)
    <2>1. CASE Capture(k)
      <3>1. CASE cwd = Nowhere
        BY <1>6, <2>1, <3>1 DEF Capture, Goto, Live
      <3>2. CASE cwd # Nowhere
        BY <2>1, <3>2 DEF Capture, Goto, Live, Back
      <3> QED BY <3>1, <3>2
    <2>2. CASE Chdir(k)
      <3>1. CASE cwd = Nowhere
        BY <1>6, <2>2, <3>1 DEF Chdir, Goto, Live
      <3>2. CASE cwd # Nowhere
        BY <2>2, <3>2 DEF Chdir, Goto, Live, Back
      <3> QED BY <3>1, <3>2
    <2>3. CASE Prints(k)
      <3>1. /\ fut' = [fut EXCEPT ![k] = "printed"] /\ done' = done /\ came' = came
            /\ "printed" \in Live \ {"running"} /\ "printed" \notin Back
        BY <2>3 DEF Prints, Goto, Live, Back
      <3>2. Steps("printed")
        BY <3>1
      <3> QED BY <3>1, <3>2
    <2>4. CASE ChdirBack(k)
      <3>1. \/ came' = [came EXCEPT ![k] = Result(k, Failed)]
            \/ \E s \in Scripts : came' = [came EXCEPT ![k] = Like(k, s)]
        BY <1>1, <1>5, <2>4 DEF ChdirBack
      <3>2. Puts
        BY <1>6, <3>1
      <3> QED BY <2>4, <3>2 DEF ChdirBack, Goto, Live
    <2>5. CASE Release(k)
      BY <2>5 DEF Release, Goto, Live, Back
    <2>6. CASE Finish(k)
      BY <2>6 DEF Finish, Goto, Back
    <2> QED BY <2>1, <2>2, <2>3, <2>4, <2>5, <2>6 DEF Runs
  <1>8. PICK p \in (Live \ {"running"}) \cup {"finished"} : Steps(p)
    BY <1>7
  <1>9. /\ came' \in [Branch -> Results \cup {None}]
        /\ \A b \in Branch \ {k} : came'[b] = came[b]
        /\ p \in Back => /\ came'[k] \in Results
                         /\ came'[k].branch = k /\ came'[k].round = round
    BY <1>1, <1>8 DEF Puts, CameInv
  <1> QED BY <1>2, <1>3, <1>4, <1>8, <1>9

-----------------------------------------------------------------------------
(* Types                                                                   *)

LEMMA InitInv == Init => IInv
  <1> SUFFICES ASSUME Init PROVE IInv
    OBVIOUS
  <1>1. Branches \in Nat /\ MaxSize \in Nat /\ Calls \in Nat /\ Failed \in Int
    BY Sizes DEF Failed
  <1>2. TypeOK
    BY <1>1 DEF Init, TypeOK, Fresh, Unkept, Nowhere
  <1>3. PoolInv
    BY DEF Init, PoolInv, Fresh
  <1>6. CameInv
    BY DEF Init, CameInv, Back
  <1>7. ApartInv
    BY DEF Init, ApartInv, Alone, Executed, Going, Back
  <1>4. ScoreInv
    BY DEF Init, ScoreInv
  <1>5. ArchiveInv
    BY <1>1 DEF Init, ArchiveInv, OneEach, Fresh
  <1> QED BY <1>2, <1>3, <1>4, <1>5, <1>6, <1>7 DEF IInv

(* The seed names the round its branch is of.                              *)
LEMMA Seeded ==
    ASSUME IInv, Seed
    PROVE  /\ best \in Results /\ best.total = top.call
           /\ seed' = [of |-> best, round |-> best.round]
  <1>1. best \in Results /\ best.total = top.call /\ SoFar /\ InHistory
    BY NoneApart DEF Seed, IInv, TypeOK, ScoreInv
  <1>2. /\ history \in Seq(Int) /\ best # None
        /\ \A i \in DOMAIN history : history[i] \in Int /\ i \in Int
    BY <1>1, ResultFacts DEF IInv, TypeOK
  <1> DEFINE first(i) == /\ \A j \in DOMAIN history : history[i] >= history[j]
                         /\ \A j \in 1..(i - 1) : history[i] > history[j]
  <1>3. best.round \in DOMAIN history /\ first(best.round)
    BY <1>1, <1>2 DEF InHistory
  <1>4. ASSUME NEW i \in DOMAIN history, first(i) PROVE i = best.round
    <2>1. DOMAIN history = 1..Len(history) /\ Len(history) \in Nat
      BY <1>2
    <2>2. history[i] = history[best.round]
      BY <1>2, <1>3, <1>4
    <2>3. /\ best.round \in 1..Len(history) /\ i \in 1..Len(history)
          /\ history[i] \in Int
      BY <1>2, <1>3, <2>1
    <2>4. ASSUME i < best.round PROVE FALSE
      <3>1. i \in 1..(best.round - 1)
        BY <2>1, <2>3, <2>4
      <3> QED BY <1>3, <2>2, <2>3, <3>1
    <2>5. ASSUME best.round < i PROVE FALSE
      <3>1. best.round \in 1..(i - 1)
        BY <2>1, <2>3, <2>5
      <3> QED BY <1>4, <2>2, <2>3, <3>1
    <2> QED BY <2>1, <2>3, <2>4, <2>5
  <1>5. best.round = CHOOSE i \in DOMAIN history : first(i)
    BY <1>3, <1>4
  <1>6. seed' = [of |-> best, round |-> CHOOSE i \in DOMAIN history : first(i)]
    BY DEF Seed
  <1> QED BY <1>1, <1>5, <1>6

(* Every step keeps the types.                                             *)
LEMMA TypeStep == IInv /\ [Next]_vars => TypeOK'
  <1> SUFFICES ASSUME IInv, [Next]_vars PROVE TypeOK'
    OBVIOUS
  <1>0. /\ Branches \in Nat /\ Calls \in Nat /\ Fresh \in [Branch -> Results \cup {None}]
        /\ Fresh \in [Branch -> Scripts \cup {None}]
        /\ TypeOK /\ Branch = 1..Branches
    BY Sizes DEF Fresh, IInv, Branch
  <1>a. ASSUME Submit, round' \in Nat, history' \in Seq(Int),
               best' \in Results \cup {None}, archive' = archive,
               seed' \in {seed, None}, calls' \in 0..Calls,
               top' \in [call : Int \cup {None}, ever : Int]
        PROVE  TypeOK'
    <2>1. /\ phase' = "submit" /\ script' \in [Branch -> Scripts]
          /\ fut' = [b \in Branch |-> "pending"] /\ taken' = 0 /\ done' = <<>>
          /\ out' = out /\ cwd' = cwd /\ apart' = apart /\ kept' = Unkept
          /\ buf' = [b \in Branch |-> {}] /\ came' = Fresh /\ results' = Fresh
          /\ early' = 0 /\ cut' = 1 /\ chosen' = None
      BY <1>a DEF Submit, Forget
    <2>2. Unkept \in [Branch -> [out : Nowhere..Branches, cwd : Nowhere..Branches]]
      BY <1>0 DEF Unkept, Nowhere
    <2>3. /\ {out, cwd} \subseteq Nowhere..Branches /\ apart \in BOOLEAN
          /\ archive \in Seq(Entries) /\ seed \in {None} \cup [of : Results, round : Nat]
      BY <1>0 DEF TypeOK
    <2>4. script' \in [Branch -> Scripts \cup {None}]
      BY <2>1
    <2>5. 1 \in 1..(Branches + 1) /\ 0 \in 0..Branches
      BY <1>0
    <2>6. /\ fut' \in [Branch -> {"none", "pending", "running", "captured", "inside",
                                 "printed", "outside", "closing", "finished",
                                 "cancelled", "notified"}]
          /\ buf' \in [Branch -> SUBSET Branch] /\ done' \in Seq(Branch)
          /\ came' \in [Branch -> Results \cup {None}]
          /\ results' \in [Branch -> Results \cup {None}]
      BY <1>0, <2>1
    <2>7. /\ {out', cwd'} \subseteq Nowhere..Branches /\ apart' \in BOOLEAN
          /\ archive' \in Seq(Entries)
          /\ seed' \in {None} \cup [of : Results, round : Nat]
      BY <1>a, <2>1, <2>3
    <2> HIDE DEF Nowhere
    <2> QED BY <1>a, <2>1, <2>2, <2>4, <2>5, <2>6, <2>7 DEF TypeOK
  <1>b. ASSUME Return, round' = 0, archive' = archive, calls' = calls, top' = top,
               seed' \in {None} \cup [of : Results, round : Nat]
        PROVE  TypeOK'
    BY <1>0, <1>b DEF Return, Forget, TypeOK, Unkept, Nowhere
  <1>1. CASE Begin
    <2>1. calls' \in 0..Calls
      BY <1>0, <1>1 DEF Begin, TypeOK
    <2>2. top \in [call : Int \cup {None}, ever : Int]
      BY <1>0 DEF TypeOK
    <2>3. top' \in [call : Int \cup {None}, ever : Int]
      BY <1>1, <2>2 DEF Begin
    <2> QED BY <1>a, <1>1, <2>1, <2>3 DEF Begin
  <1>2. CASE Take
    <2>1. taken + 1 \in Branch /\ taken' \in 0..Branches
      BY <1>0, <1>2 DEF Take, TypeOK
    <2>2. \E st \in {"notified", "running"} : fut' = [fut EXCEPT ![taken + 1] = st]
      BY <1>2 DEF Take
    <2>3. fut' \in [Branch -> Futures]
      BY <1>0, <2>1, <2>2 DEF TypeOK, Futures
    <2>4. done' \in {done, Append(done, taken + 1)}
      BY <1>2 DEF Take
    <2>5. done' \in Seq(Branch)
      <3>1. done \in Seq(Branch)
        BY <1>0 DEF TypeOK
      <3> QED BY <2>1, <2>4, <3>1, AppendProperties
    <2> QED BY <1>0, <1>2, <2>1, <2>3, <2>5 DEF Take, TypeOK, runVars, searchVars, shareVars, Futures
  <1>3. ASSUME NEW b \in Branch, Runs(b) PROVE TypeOK'
    <2>1. fut' \in [Branch -> Futures] /\ done' \in Seq(Branch)
      <3>1. PICK p \in (Live \ {"running"}) \cup {"finished"} :
               /\ fut' = [fut EXCEPT ![b] = p]
               /\ done' = IF p = "finished" THEN Append(done, b) ELSE done
        BY <1>3, Ran
      <3>2. fut \in [Branch -> Futures] /\ done \in Seq(Branch) /\ p \in Futures
        BY <1>0 DEF TypeOK, Live, Futures
      <3> QED BY <3>1, <3>2, AppendProperties
    <2>2. /\ {out', cwd'} \subseteq Nowhere..Branches /\ apart' \in BOOLEAN
          /\ kept' \in [Branch -> [out : Nowhere..Branches, cwd : Nowhere..Branches]]
          /\ buf' \in [Branch -> SUBSET Branch]
      <3>1. /\ out \in Nowhere..Branches /\ cwd \in Nowhere..Branches /\ apart \in BOOLEAN
            /\ kept \in [Branch -> [out : Nowhere..Branches, cwd : Nowhere..Branches]]
            /\ buf \in [Branch -> SUBSET Branch] /\ Nowhere \in Nowhere..Branches
            /\ 0 \in Nowhere..Branches /\ b \in Nowhere..Branches
        BY <1>0 DEF TypeOK, Nowhere
      <3> HIDE DEF Nowhere
      <3>2. CASE Capture(b)
        BY <3>1, <3>2 DEF Capture
      <3>3. CASE Chdir(b)
        BY <3>1, <3>3 DEF Chdir
      <3>4. CASE Prints(b)
        BY <3>1, <3>4 DEF Prints
      <3>5. CASE ChdirBack(b)
        BY <3>1, <3>5 DEF ChdirBack
      <3>6. CASE Release(b)
        BY <3>1, <3>6 DEF Release
      <3>7. CASE Finish(b)
        BY <3>1, <3>7 DEF Finish
      <3> QED BY <1>3, <3>2, <3>3, <3>4, <3>5, <3>6, <3>7 DEF Runs
    <2>3. came' \in [Branch -> Results \cup {None}]
      BY <1>3, Ran
    <2>4. UNCHANGED <<phase, script, taken, results, early, cut, chosen, round,
                      history, best, archive, seed, calls, top>>
      BY <1>3, Ran
    <2> QED BY <1>0, <2>1, <2>2, <2>3, <2>4 DEF TypeOK, Futures
  <1>4. CASE Watch
    <2>1. done' \in Seq(Branch)
      BY <1>0, <1>4, Watched
    <2> QED BY <1>0, <1>4, <2>1 DEF Watch, TypeOK, poolVars, shareVars, runVars, searchVars
  <1>5. CASE Collect
    <2>1. PICK b \in Branch :
             /\ ValueOf(b) \in Results
             /\ results' = [results EXCEPT ![b] = ValueOf(b)]
             /\ early' \in {early, b}
             /\ phase' = IF early' = early THEN phase ELSE "cancel"
             /\ top' = [call |-> Higher(top.call, ValueOf(b).total),
                        ever |-> Higher(top.ever, ValueOf(b).total)]
      BY <1>0, <1>5, Collected DEF IInv
    <2>2. results' \in [Branch -> Results \cup {None}] /\ early' \in 0..Branches
      BY <1>0, <2>1 DEF TypeOK
    <2>3. ValueOf(b).total \in Int
      BY <2>1, ResultFacts
    <2>4. top' \in [call : Int \cup {None}, ever : Int]
      BY <1>0, <2>1, <2>3 DEF TypeOK, Higher
    <2>5. done' \in Seq(Branch)
      BY <1>0, <1>5, HeadTailProperties DEF TypeOK, Collect
    <2>6. phase' \in {"collect", "cancel"} /\ phase = "collect"
      BY <1>5, <2>1 DEF Collect
    <2> QED BY <1>0, <1>5, <2>2, <2>4, <2>5, <2>6 DEF Collect, TypeOK, poolVars, shareVars, searchVars
  <1>6. CASE Cancel
    <2>1. cut' \in 1..(Branches + 1) /\ phase' \in {"collect", "cancel"} /\ phase # "idle"
      BY <1>0, <1>6 DEF Cancel, TypeOK
    <2>2. fut' \in [Branch -> Futures]
      <3>1. fut \in [Branch -> Futures] /\ "cancelled" \in Futures
        BY <1>0 DEF TypeOK, Futures
      <3>2. fut' = fut \/ fut' = [fut EXCEPT ![cut] = "cancelled"]
        BY <1>6 DEF Cancel
      <3> QED BY <3>1, <3>2
    <2> QED BY <1>0, <1>6, <2>1, <2>2 DEF Cancel, TypeOK, shareVars, searchVars, Futures
  <1>7. CASE Select
    <2>1. chosen' \in Results /\ archive' \in Seq(Entries)
      BY <1>7, Selected DEF OneEach
    <2>2. history' = Append(history, chosen'.total)
      BY <1>7 DEF Select
    <2>3. chosen'.total \in Int
      BY <2>1, ResultFacts
    <2>4. history' \in Seq(Int)
      BY <1>0, <2>2, <2>3, AppendProperties DEF TypeOK
    <2>5. best' \in Results \cup {None}
      BY <1>0, <1>7, <2>1 DEF Select, TypeOK
    <2> QED BY <1>0, <1>7, <2>1, <2>4, <2>5 DEF Select, TypeOK, poolVars, shareVars, runVars
  <1>8. CASE NextRound
    <2>1. CASE Submit
      BY <1>a, <1>0, <1>8, <2>1 DEF NextRound, TypeOK, Submit, Return, Forget
    <2>2. CASE Return
      BY <1>b, <1>0, <1>8, <2>2 DEF NextRound, TypeOK, Submit, Return, Forget
    <2> QED BY <1>8, <2>1, <2>2 DEF NextRound
  <1>9. CASE Seed
    <2>1. seed' \in [of : Results, round : Nat]
      BY <1>9, Seeded, ResultFacts
    <2> QED BY <1>b, <1>9, <2>1 DEF Seed
  <1>10. CASE UNCHANGED vars
    BY <1>0, <1>10 DEF vars, TypeOK, poolVars, shareVars, runVars, searchVars
  <1> QED BY <1>1, <1>2, <1>3, <1>4, <1>5, <1>6, <1>7, <1>8, <1>9, <1>10 DEF Next

-----------------------------------------------------------------------------
(* The pool and the scores                                                 *)

(* Every step keeps what is said of the pool.                              *)
LEMMA PoolStep == IInv /\ [Next]_vars => PoolInv'
  <1> SUFFICES ASSUME IInv, [Next]_vars PROVE PoolInv'
    OBVIOUS
  <1>0. /\ PoolInv /\ TypeOK /\ CameInv /\ fut = [b \in Branch |-> fut[b]]
        /\ results \in [Branch -> Results \cup {None}]
        /\ Branches \in Nat /\ Branch = 1..Branches /\ taken \in Nat
    <2>1. PoolInv /\ TypeOK /\ CameInv
      BY DEF IInv
    <2>2. fut = [b \in Branch |-> fut[b]]
      BY <2>1 DEF TypeOK
    <2>3. results \in [Branch -> Results \cup {None}] /\ taken \in 0..Branches
      BY <2>1 DEF TypeOK
    <2> QED BY <2>1, <2>2, <2>3, Sizes DEF Branch
  <1>a. ASSUME Submit PROVE PoolInv'
    BY <1>0, <1>a DEF Submit, Forget, PoolInv, Fresh
  <1>b. ASSUME Return PROVE PoolInv'
    BY <1>0, <1>b DEF Return, Forget, PoolInv, Fresh
  <1>1. CASE Begin
    BY <1>a, <1>1 DEF Begin
  <1>2. CASE Take
    <2> DEFINE k == taken + 1
    <2>1. k \in Branch /\ taken' = k /\ fut[k] \notin Gone /\ results[k] = None
      BY <1>0, <1>2 DEF Take, PoolInv, Gone
    <2>2. /\ phase' = phase /\ results' = results /\ early' = early /\ chosen' = chosen
          /\ script' = script /\ round' = round /\ came' = came
      BY <1>2 DEF Take, shareVars, runVars, searchVars
    <2>3. \/ /\ fut[k] = "cancelled" /\ fut' = [fut EXCEPT ![k] = "notified"]
             /\ done' = Append(done, k)
          \/ /\ fut' = [fut EXCEPT ![k] = "running"] /\ done' = done
      BY <1>2 DEF Take
    <2> HIDE DEF k
    <2>4. \A b \in Branch : b # k => fut'[b] = fut[b] /\ ValueOf(b)' = ValueOf(b)
      BY <1>0, <2>2, <2>3 DEF ValueOf, Result
    <2>5. \A b \in Branch : b > taken' => fut'[b] \in {"none", "pending", "cancelled"}
      BY <1>0, <2>1, <2>4 DEF PoolInv, k
    <2>6. \A b \in Branch : results'[b] # None =>
                               fut'[b] \in Gone /\ results'[b] = ValueOf(b)'
      BY <1>0, <2>1, <2>2, <2>4 DEF PoolInv
    <2>7. \A i \in DOMAIN done' : fut'[done'[i]] \in Gone
      <3>1. done \in Seq(Branch)
        BY <1>0 DEF TypeOK
      <3>2. ASSUME NEW i \in DOMAIN done PROVE done[i] \in Branch /\ done[i] # k
        <4>1. done[i] \in Branch
          BY <3>1
        <4>2. fut[done[i]] \in Gone
          BY <1>0 DEF PoolInv
        <4> QED BY <2>1, <4>1, <4>2
      <3>3. \A i \in DOMAIN done : fut'[done[i]] \in Gone
        BY <1>0, <2>4, <3>2 DEF PoolInv
      <3>4. CASE done' = done
        BY <3>3, <3>4
      <3>5. CASE done' = Append(done, k) /\ fut' = [fut EXCEPT ![k] = "notified"]
        <4>1. fut'[k] \in Gone
          BY <1>0, <2>1, <3>5 DEF Gone
        <4>2. \A i \in DOMAIN done' : \/ i \in DOMAIN done /\ done'[i] = done[i]
                                      \/ done'[i] = k
          BY <2>1, <3>1, <3>5, AppendProperties
        <4> QED BY <3>3, <4>1, <4>2
      <3> QED BY <2>3, <3>4, <3>5
    <2>8. early' = 0 => /\ phase' # "cancel"
                        /\ \A b \in Branch : fut'[b] \notin {"cancelled", "notified"}
      BY <1>0, <2>1, <2>2, <2>3 DEF PoolInv
    <2> QED BY <1>0, <2>2, <2>5, <2>6, <2>7, <2>8 DEF PoolInv, Fresh
  <1>3. ASSUME NEW k \in Branch, Runs(k) PROVE PoolInv'
    <2>1. /\ fut[k] \in Live /\ phase' = phase /\ results' = results /\ early' = early
          /\ chosen' = chosen /\ script' = script /\ round' = round /\ taken' = taken
          /\ \A b \in Branch \ {k} : came'[b] = came[b]
      BY <1>3, Ran
    <2>2. PICK p \in (Live \ {"running"}) \cup {"finished"} :
             /\ fut' = [fut EXCEPT ![k] = p]
             /\ done' = IF p = "finished" THEN Append(done, k) ELSE done
      BY <1>3, Ran
    <2>3. results[k] = None /\ ~(k > taken) /\ p \notin {"cancelled", "notified"}
      BY <1>0, <2>1, <2>2 DEF PoolInv, Gone, Live
    <2>4. \A b \in Branch : b # k => fut'[b] = fut[b] /\ ValueOf(b)' = ValueOf(b)
      BY <1>0, <2>1, <2>2 DEF ValueOf, Result
    <2>5. \A b \in Branch : b > taken' => fut'[b] \in {"none", "pending", "cancelled"}
      BY <1>0, <2>1, <2>3, <2>4 DEF PoolInv
    <2>6. \A b \in Branch : results'[b] # None =>
                               fut'[b] \in Gone /\ results'[b] = ValueOf(b)'
      BY <1>0, <2>1, <2>3, <2>4 DEF PoolInv
    <2>7. \A i \in DOMAIN done' : fut'[done'[i]] \in Gone
      <3>1. done \in Seq(Branch)
        BY <1>0 DEF TypeOK
      <3>2. \A i \in DOMAIN done : done[i] \in Branch /\ done[i] # k
        <4>1. \A i \in DOMAIN done : done[i] \in Branch
          BY <3>1
        <4>2. \A i \in DOMAIN done : fut[done[i]] \in Gone
          BY <1>0 DEF PoolInv
        <4> QED BY <2>1, <4>1, <4>2 DEF Live, Gone
      <3>3. \A i \in DOMAIN done : fut'[done[i]] \in Gone
        BY <1>0, <2>4, <3>2 DEF PoolInv
      <3>4. CASE p # "finished"
        BY <2>2, <3>3, <3>4
      <3>5. CASE p = "finished"
        <4>1. fut'[k] \in Gone /\ done' = Append(done, k)
          BY <1>0, <2>2, <3>5 DEF Gone
        <4>2. \A i \in DOMAIN done' : \/ i \in DOMAIN done /\ done'[i] = done[i]
                                      \/ done'[i] = k
          BY <3>1, <4>1, AppendProperties
        <4> QED BY <3>3, <4>1, <4>2
      <3> QED BY <3>4, <3>5
    <2>8. early' = 0 => /\ phase' # "cancel"
                        /\ \A b \in Branch : fut'[b] \notin {"cancelled", "notified"}
      BY <1>0, <2>1, <2>2, <2>3 DEF PoolInv
    <2> QED BY <1>0, <2>1, <2>5, <2>6, <2>7, <2>8 DEF PoolInv, Fresh
  <1>4. CASE Watch
    <2>1. /\ fut' = fut /\ taken' = taken /\ results' = results /\ early' = early
          /\ script' = script /\ round' = round /\ phase' = "collect" /\ came' = came
      BY <1>4 DEF Watch, poolVars, shareVars, runVars, searchVars
    <2>2. \A b \in Branch : ValueOf(b)' = ValueOf(b)
      BY <2>1 DEF ValueOf, Result
    <2>3. \A i \in DOMAIN done' : \E j \in DOMAIN done : done'[i] = done[j]
      BY <1>0, <1>4, Watched
    <2>4. \A i \in DOMAIN done' : fut'[done'[i]] \in Gone
      BY <1>0, <2>1, <2>3 DEF PoolInv
    <2> QED BY <1>0, <2>1, <2>2, <2>4 DEF PoolInv
  <1>5. CASE Collect
    <2>1. PICK b \in Branch :
             /\ fut[b] \in Gone /\ ValueOf(b) \in Results
             /\ results' = [results EXCEPT ![b] = ValueOf(b)]
             /\ early' \in {early, b}
             /\ early' # early => early = 0
             /\ early' = b /\ early = 0 => ValueOf(b).total >= Perfect
             /\ phase' = IF early' = early THEN phase ELSE "cancel"
      BY <1>0, <1>5, Collected
    <2>2. /\ fut' = fut /\ taken' = taken /\ script' = script /\ round' = round
          /\ phase = "collect" /\ done # <<>> /\ done' = Tail(done) /\ came' = came
      BY <1>5 DEF Collect, poolVars, shareVars, searchVars
    <2>3. \A c \in Branch : ValueOf(c)' = ValueOf(c)
      BY <2>2 DEF ValueOf, Result
    <2>4. \A c \in Branch : results'[c] # None =>
                               fut'[c] \in Gone /\ results'[c] = ValueOf(c)'
      BY <1>0, <2>1, <2>2, <2>3 DEF PoolInv
    <2>5. \A i \in DOMAIN done' : fut'[done'[i]] \in Gone
      <3>1. done \in Seq(Branch)
        BY <1>0 DEF TypeOK
      <3>2. \A i \in DOMAIN done' : i + 1 \in DOMAIN done /\ done'[i] = done[i + 1]
        BY <2>2, <3>1, HeadTailProperties
      <3> QED BY <1>0, <2>2, <3>2 DEF PoolInv
    <2>6. results'[b] # None /\ b # 0 /\ results'[b] = ValueOf(b)
      BY <1>0, <2>1, ResultFacts
    <2>7. early' # 0 => results'[early'] # None /\ results'[early'].total >= Perfect
      <3>1. CASE early' = early /\ early # b
        <4>1. early' # 0 => early \in Branch
          BY <1>0, <3>1 DEF TypeOK
        <4> QED BY <1>0, <2>1, <3>1, <4>1 DEF PoolInv
      <3>2. CASE early' = early /\ early = b
        BY <1>0, <2>1, <2>6, <3>2 DEF PoolInv
      <3>3. CASE early' = b /\ early' # early
        BY <2>1, <2>6, <3>3
      <3> QED BY <2>1, <3>1, <3>2, <3>3
    <2>8. phase' \in {"collect", "cancel"} /\ (early' = 0 => phase' = "collect" /\ early = 0)
      BY <2>1, <2>2, <2>6
    <2>9. early' = 0 => \A c \in Branch : fut'[c] \notin {"cancelled", "notified"}
      BY <1>0, <2>2, <2>8 DEF PoolInv
    <2> QED BY <1>0, <2>2, <2>4, <2>5, <2>7, <2>8, <2>9 DEF PoolInv
  <1>6. CASE Cancel
    <2>1. /\ phase = "cancel" /\ phase' \in {"cancel", "collect"} /\ early' = early
          /\ results' = results /\ done' = done /\ taken' = taken
          /\ script' = script /\ round' = round /\ came' = came
          /\ \/ fut' = fut
             \/ fut[cut] = "pending" /\ fut' = [fut EXCEPT ![cut] = "cancelled"]
      BY <1>6 DEF Cancel, shareVars, searchVars
    <2>2. early # 0
      BY <1>0, <2>1 DEF PoolInv
    <2>3. \A b \in Branch : \/ fut'[b] = fut[b]
                            \/ fut[b] = "pending" /\ fut'[b] = "cancelled"
      BY <1>0, <2>1
    <2>4. \A b \in Branch : fut[b] \in Gone => fut'[b] \in Gone /\ ValueOf(b)' = ValueOf(b)
      BY <2>1, <2>3 DEF ValueOf, Result, Gone
    <2>5. \A i \in DOMAIN done' : done'[i] \in Branch /\ fut'[done'[i]] \in Gone
      <3>1. \A i \in DOMAIN done : done[i] \in Branch
        <4>1. done \in Seq(Branch)
          BY <1>0 DEF TypeOK
        <4> QED BY <4>1
      <3> QED BY <1>0, <2>1, <2>4, <3>1 DEF PoolInv
    <2>6. \A b \in Branch : b > taken' => fut'[b] \in {"none", "pending", "cancelled"}
      BY <1>0, <2>1, <2>3 DEF PoolInv
    <2> QED BY <1>0, <2>1, <2>2, <2>4, <2>5, <2>6 DEF PoolInv
  <1>7. CASE Select
    <2>1. /\ fut' = fut /\ taken' = taken /\ script' = script /\ round' = round
          /\ phase = "collect" /\ phase' = "next" /\ done' = done /\ early' = early
          /\ results' = results /\ came' = came
          /\ \A b \in Branch : results[b] # None
          /\ chosen' = Best(Valid({results[b] : b \in Branch}))
      BY <1>7 DEF Select, poolVars, shareVars, runVars
    <2>2. \A b \in Branch : ValueOf(b)' = ValueOf(b)
      BY <2>1 DEF ValueOf, Result
    <2> QED BY <1>0, <2>1, <2>2 DEF PoolInv
  <1>8. CASE NextRound
    BY <1>a, <1>b, <1>8 DEF NextRound
  <1>9. CASE Seed
    BY <1>b, <1>9 DEF Seed
  <1>10. CASE UNCHANGED vars
    <2>1. /\ fut' = fut /\ taken' = taken /\ script' = script /\ round' = round
          /\ phase' = phase /\ done' = done /\ early' = early /\ results' = results
          /\ chosen' = chosen /\ came' = came
      BY <1>10 DEF vars, poolVars, shareVars, runVars, searchVars
    <2>2. \A b \in Branch : ValueOf(b)' = ValueOf(b)
      BY <2>1 DEF ValueOf, Result
    <2>3. PoolInv
      BY <1>0
    <2> QED BY <2>1, <2>2, <2>3 DEF PoolInv, Fresh
  <1> QED BY <1>1, <1>2, <1>3, <1>4, <1>5, <1>6, <1>7, <1>8, <1>9, <1>10 DEF Next

(* Every step keeps what is said of the scores.                            *)
LEMMA ScoreStep == IInv /\ [Next]_vars => ScoreInv'
  <1> SUFFICES ASSUME IInv, [Next]_vars PROVE ScoreInv'
    OBVIOUS
  <1>0. /\ PoolInv /\ TypeOK /\ CameInv /\ ScoreInv
        /\ results \in [Branch -> Results \cup {None}]
        /\ best \in Results \cup {None} /\ top.call \in Int \cup {None}
        /\ history \in Seq(Int) /\ round \in Nat
        /\ phase # "idle" => seed = None /\ SoFar /\ InHistory
    BY DEF IInv, TypeOK, ScoreInv
  <1>a. ASSUME phase' = phase, results' = results, best' = best, seed' = seed,
               top' = top, history' = history, round' = round
        PROVE  ScoreInv'
    BY <1>0, <1>a DEF ScoreInv, SoFar, InHistory
  <1>b. ASSUME phase # "next", phase' # "next", (phase = "idle") = (phase' = "idle"),
               results' = results, best' = best, seed' = seed,
               top' = top, history' = history, round' = round
        PROVE  ScoreInv'
    BY <1>0, <1>b DEF ScoreInv, SoFar, InHistory
  <1>1. CASE Begin
    <2>1. /\ results' = Fresh /\ phase' = "submit" /\ round' = 1 /\ history' = <<>>
          /\ best' = None /\ seed' = None /\ top'.call = None
      BY <1>0, <1>1 DEF Begin, Submit, Forget, TypeOK
    <2> QED BY <2>1 DEF ScoreInv, SoFar, InHistory, Fresh
  <1>2. CASE Take
    BY <1>a, <1>2 DEF Take, runVars, searchVars
  <1>3. ASSUME NEW k \in Branch, Runs(k) PROVE ScoreInv'
    BY <1>a, <1>3, Ran
  <1>4. CASE Watch
    BY <1>b, <1>4 DEF Watch, runVars, searchVars
  <1>5. CASE Collect
    <2>1. PICK b \in Branch :
             /\ fut[b] \in Gone /\ ValueOf(b) \in Results
             /\ results' = [results EXCEPT ![b] = ValueOf(b)]
             /\ phase' = IF early' = early THEN phase ELSE "cancel"
             /\ top' = [call |-> Higher(top.call, ValueOf(b).total),
                        ever |-> Higher(top.ever, ValueOf(b).total)]
      BY <1>0, <1>5, Collected
    <2> DEFINE r == ValueOf(b)
    <2>2. /\ phase = "collect" /\ phase' \in {"collect", "cancel"}
          /\ best' = best /\ seed' = seed /\ history' = history /\ round' = round
      BY <1>5, <2>1 DEF Collect, searchVars
    <2>3. r \in Results /\ r # None /\ r.total \in Int
      BY <2>1, ResultFacts
    <2>4. results[b] # None => results[b] = r
      BY <1>0 DEF PoolInv
    <2>5. \A c \in Branch : results'[c] = IF c = b THEN r ELSE results[c]
      BY <1>0, <2>1
    <2> HIDE DEF r
    <2>6. \A c \in Branch : results[c] # None =>
             results[c].total \in Int /\ results'[c] = results[c]
      BY <1>0, <2>4, <2>5, ResultFacts
    <2>7. best # None => best.total \in Int
      BY <1>0, ResultFacts
    <2>8. /\ top'.call \in Int /\ r.total <= top'.call
          /\ top.call # None => top.call <= top'.call
          /\ top'.call = r.total \/ (top.call # None /\ top'.call = top.call)
          /\ top'.call # None
      <3>1. top'.call = Higher(top.call, r.total) /\ None \notin Int
        BY <2>1, NoneApart DEF r
      <3>2. CASE top.call = None
        <4>1. top'.call = r.total
          BY <3>1, <3>2 DEF Higher
        <4> QED BY <2>3, <3>1, <3>2, <4>1
      <3>3. CASE top.call # None
        <4>1. top.call \in Int
          BY <1>0, <3>3
        <4>2. top'.call = IF r.total > top.call THEN r.total ELSE top.call
          BY <3>1, <3>3 DEF Higher
        <4> QED BY <2>3, <3>1, <4>1, <4>2
      <3> QED BY <3>2, <3>3
    <2>9. SoFar'
      BY <1>0, <2>2, <2>3, <2>5, <2>6, <2>7, <2>8 DEF SoFar
    <2>10. InHistory'
      BY <1>0, <2>2 DEF InHistory
    <2> QED BY <1>0, <2>2, <2>9, <2>10 DEF ScoreInv
  <1>6. CASE Cancel
    BY <1>b, <1>6 DEF Cancel, searchVars
  <1>7. CASE Select
    <2> DEFINE r == chosen'
    <2>1. /\ r \in Results /\ r.round = round
          /\ \A b \in Branch : results[b] \in Results /\ results[b].total <= r.total
          /\ \E b \in Branch : r = results[b]
      BY <1>7, Selected
    <2>2. /\ phase = "collect" /\ phase' = "next" /\ results' = results /\ round' = round
          /\ seed' = seed /\ top' = top /\ history' = Append(history, r.total)
          /\ best' = IF best = None \/ r.total > best.total THEN r ELSE best
      BY <1>7 DEF Select, Better, runVars
    <2> HIDE DEF r
    <2>3. /\ r # None /\ r.total \in Int
          /\ best # None => best.total \in Int /\ best.round \in Nat
          /\ \A b \in Branch : results[b] # None /\ results[b].total \in Int
      BY <1>0, <2>1, ResultFacts
    <2>4. /\ top.call # None /\ top.call \in Int /\ r.total <= top.call
          /\ best # None => best.total <= top.call
          /\ (best # None /\ best.total = top.call) \/ r.total = top.call
      <3>1. /\ \A b \in Branch : top.call # None /\ results[b].total <= top.call
            /\ best # None => best.total <= top.call
            /\ top.call # None =>
                  \/ best # None /\ best.total = top.call
                  \/ \E b \in Branch : results[b].total = top.call
        BY <1>0, <2>2, <2>3 DEF SoFar
      <3>2. top.call # None /\ top.call \in Int /\ r.total <= top.call
        BY <1>0, <2>1, <3>1
      <3> QED BY <2>1, <2>3, <3>1, <3>2
    <2>5. best' # None /\ best'.total = top'.call
      BY <2>2, <2>3, <2>4
    <2>6. SoFar'
      BY <1>0, <2>2, <2>3, <2>4, <2>5 DEF SoFar
    <2>7. InHistory'
      <3>1. /\ Len(history) = round - 1 /\ Len(history) \in Nat
            /\ DOMAIN history = 1..Len(history)
        BY <1>0, <2>2 DEF InHistory
      <3>2. /\ Len(history') = round /\ DOMAIN history' = 1..round
            /\ history'[round] = r.total
            /\ \A i \in DOMAIN history : i # round /\ history'[i] = history[i]
                                         /\ history[i] \in Int
            /\ \A i \in DOMAIN history' : i \in DOMAIN history \/ i = round
        BY <1>0, <2>2, <2>3, <3>1, AppendProperties
      <3>3. round \in DOMAIN history' /\ \A i \in DOMAIN history : i \in Int /\ i < round
        BY <1>0, <3>1, <3>2
      <3>4. best = None => \A i \in DOMAIN history : FALSE
        BY <1>0, <2>2 DEF InHistory
      <3>5. best # None =>
              /\ best.round \in DOMAIN history /\ history[best.round] = best.total
              /\ \A i \in DOMAIN history : /\ history[i] <= best.total
                                           /\ i < best.round => history[i] < best.total
        BY <1>0, <2>2 DEF InHistory
      <3>6. CASE best = None \/ r.total > best.total
        <4>1. best' = r /\ best'.round = round
          BY <2>1, <2>2, <3>6
        <4>2. \A i \in DOMAIN history : history[i] < r.total
          BY <2>3, <3>2, <3>4, <3>5, <3>6
        <4>3. \A i \in DOMAIN history' : /\ history'[i] <= r.total
                                         /\ i < round => history'[i] < r.total
          BY <2>3, <3>2, <4>2
        <4> QED BY <2>2, <2>5, <3>2, <3>3, <4>1, <4>3 DEF InHistory
      <3>7. CASE best # None /\ ~(r.total > best.total)
        <4>1. best' = best /\ r.total <= best.total
          BY <2>2, <2>3, <3>7
        <4>2. best.round \in DOMAIN history' /\ history'[best.round] = best.total
          BY <3>1, <3>2, <3>5, <3>7
        <4>3. \A i \in DOMAIN history' :
                 /\ history'[i] <= best.total
                 /\ i < best.round => history'[i] < best.total
          BY <3>2, <3>3, <3>5, <3>7, <4>1
        <4> QED BY <2>2, <3>2, <3>7, <4>1, <4>2, <4>3 DEF InHistory
      <3> QED BY <3>6, <3>7
    <2> QED BY <1>0, <2>2, <2>5, <2>6, <2>7 DEF ScoreInv
  <1>8. CASE NextRound
    <2>1. /\ phase = "next" /\ seed' = seed /\ top' = top /\ seed = None
          /\ best # None /\ best.total = top.call
      BY <1>0, <1>8 DEF NextRound, ScoreInv
    <2>2. CASE Submit
      <3>1. /\ results' = Fresh /\ phase' = "submit" /\ round' = round + 1
            /\ history' = history /\ best' = best
        BY <1>8, <2>1, <2>2 DEF NextRound, Submit, Return, Forget
      <3>2. SoFar'
        BY <1>0, <2>1, <3>1 DEF SoFar, Fresh
      <3>3. InHistory'
        BY <1>0, <2>1, <3>1 DEF InHistory
      <3> QED BY <2>1, <3>1, <3>2, <3>3 DEF ScoreInv
    <2>3. CASE Return
      BY <2>1, <2>3 DEF ScoreInv, Return
    <2> QED BY <1>8, <2>2, <2>3 DEF NextRound
  <1>9. CASE Seed
    <2>1. /\ best.total = top.call /\ seed' = [of |-> best, round |-> best.round]
          /\ phase' = "idle" /\ top' = top
      BY <1>9, Seeded DEF Seed, Return
    <2> QED BY <2>1 DEF ScoreInv
  <1>10. CASE UNCHANGED vars
    BY <1>a, <1>10 DEF vars, poolVars, runVars, searchVars
  <1> QED BY <1>1, <1>2, <1>3, <1>4, <1>5, <1>6, <1>7, <1>8, <1>9, <1>10 DEF Next

(* Every step keeps what is said of the archive.                           *)
LEMMA ArchiveStep == IInv /\ [Next]_vars => ArchiveInv'
  <1> SUFFICES ASSUME IInv, [Next]_vars PROVE ArchiveInv'
    OBVIOUS
  <1>0. /\ PoolInv /\ TypeOK /\ CameInv /\ ArchiveInv
        /\ results \in [Branch -> Results \cup {None}] /\ top.ever \in Int
    BY DEF IInv, TypeOK
  <1>a. ASSUME results' = results, archive' = archive, top' = top,
               phase' = phase \/ phase \notin {"collect", "cancel"}
                              \/ phase' \in {"collect", "cancel"}
        PROVE  ArchiveInv'
    BY <1>0, <1>a DEF ArchiveInv
  <1>b. ASSUME phase \in {"idle", "next"}, archive' = archive, results' = Fresh,
               top'.ever = top.ever
        PROVE  ArchiveInv'
    BY <1>0, <1>b DEF ArchiveInv, Fresh
  <1>1. CASE Begin
    <2>1. top'.ever = top.ever
      BY <1>0, <1>1 DEF Begin, TypeOK
    <2> QED BY <1>b, <1>1, <2>1 DEF Begin, Submit, Forget
  <1>2. CASE Take
    BY <1>a, <1>2 DEF Take, runVars, searchVars
  <1>3. ASSUME NEW k \in Branch, Runs(k) PROVE ArchiveInv'
    BY <1>a, <1>3, Ran
  <1>4. CASE Watch
    BY <1>a, <1>4 DEF Watch, runVars, searchVars
  <1>5. CASE Collect
    <2>1. PICK b \in Branch :
             /\ fut[b] \in Gone /\ ValueOf(b) \in Results
             /\ results' = [results EXCEPT ![b] = ValueOf(b)]
             /\ phase' = IF early' = early THEN phase ELSE "cancel"
             /\ top' = [call |-> Higher(top.call, ValueOf(b).total),
                        ever |-> Higher(top.ever, ValueOf(b).total)]
      BY <1>0, <1>5, Collected
    <2> DEFINE r == ValueOf(b)
    <2>2. phase' \in {"collect", "cancel"} /\ archive' = archive
      BY <1>5, <2>1 DEF Collect, searchVars
    <2>3. r \in Results /\ r # None /\ r.total \in Int
      BY <2>1, ResultFacts
    <2>4. results[b] # None => results[b] = r
      BY <1>0 DEF PoolInv
    <2>5. \A c \in Branch : results'[c] = IF c = b THEN r ELSE results[c]
      BY <1>0, <2>1
    <2>6. top'.ever = IF r.total > top.ever THEN r.total ELSE top.ever
      BY <1>0, <2>1, NoneApart DEF Higher
    <2> HIDE DEF r
    <2>7. \A c \in Branch : results[c] # None =>
             results[c].total \in Int /\ results'[c] = results[c]
      BY <1>0, <2>4, <2>5, ResultFacts
    <2>8. /\ top'.ever \in Int /\ top.ever <= top'.ever /\ r.total <= top'.ever
          /\ top'.ever = r.total \/ top'.ever = top.ever
      BY <1>0, <2>3, <2>6
    <2>9. OneEach(archive, top'.ever)
      <3>1. OneEach(archive, top.ever) /\ archive \in Seq(Entries)
        BY <1>0 DEF ArchiveInv, OneEach
      <3>2. \A i \in DOMAIN archive : archive[i].total \in Int
        BY <3>1, EntryTypes
      <3> QED BY <1>0, <2>8, <3>1, <3>2 DEF OneEach
    <2>10. \A c \in Branch : results'[c] # None => results'[c].total <= top'.ever
      BY <1>0, <2>5, <2>7, <2>8 DEF ArchiveInv
    <2>11. CASE top'.ever = r.total
      BY <1>0, <2>2, <2>3, <2>5, <2>9, <2>10, <2>11 DEF ArchiveInv
    <2>12. CASE top'.ever = top.ever
      BY <1>0, <2>2, <2>7, <2>9, <2>10, <2>12 DEF ArchiveInv
    <2> QED BY <2>8, <2>11, <2>12
  <1>6. CASE Cancel
    BY <1>a, <1>6 DEF Cancel, searchVars
  <1>7. CASE Select
    <2>1. /\ OneEach(archive', top.ever) /\ Len(archive') <= MaxSize
          /\ top.ever > Failed => Holds(archive', top.ever)
      BY <1>7, Selected
    <2>2. results' = results /\ top' = top
      BY <1>7 DEF Select, runVars
    <2> QED BY <1>0, <2>1, <2>2 DEF ArchiveInv
  <1>8. CASE NextRound
    BY <1>b, <1>8 DEF NextRound, Submit, Return, Forget
  <1>9. CASE Seed
    BY <1>b, <1>9 DEF Seed, Return, Forget
  <1>10. CASE UNCHANGED vars
    BY <1>a, <1>10 DEF vars, poolVars, runVars, searchVars
  <1> QED BY <1>1, <1>2, <1>3, <1>4, <1>5, <1>6, <1>7, <1>8, <1>9, <1>10 DEF Next

-----------------------------------------------------------------------------
(* What the branches come to                                               *)

(* Every step leaves what a branch has come to its own and of this round.  *)
LEMMA CameStep == IInv /\ [Next]_vars => CameInv'
  <1> SUFFICES ASSUME IInv, [Next]_vars PROVE CameInv'
    OBVIOUS
  <1>0. /\ TypeOK /\ CameInv /\ fut = [b \in Branch |-> fut[b]]
        /\ Branches \in Nat /\ Branch = 1..Branches
    <2>1. TypeOK /\ CameInv
      BY DEF IInv
    <2> QED BY <2>1, Sizes DEF TypeOK, Branch
  <1>a. ASSUME phase # "idle", phase' # "idle", came' = came, round' = round,
               \A b \in Branch : fut'[b] = fut[b] \/ fut'[b] \notin Back \cup {"none"}
        PROVE  CameInv'
    BY <1>0, <1>a DEF CameInv
  <1>b. ASSUME Submit PROVE CameInv'
    BY <1>b DEF Submit, CameInv, Back
  <1>c. ASSUME Return PROVE CameInv'
    BY <1>c DEF Return, CameInv, Back
  <1>1. CASE Begin
    BY <1>b, <1>1 DEF Begin
  <1>2. CASE Take
    <2>1. phase # "idle" /\ phase' = phase /\ came' = came /\ round' = round
      BY <1>2 DEF Take, shareVars, searchVars
    <2>2. \E st \in {"notified", "running"} : fut' = [fut EXCEPT ![taken + 1] = st]
      BY <1>2 DEF Take
    <2> QED BY <1>0, <1>a, <2>1, <2>2 DEF Back
  <1>3. ASSUME NEW k \in Branch, Runs(k) PROVE CameInv'
    <2>1. /\ phase # "idle" /\ phase' = phase /\ round' = round
          /\ \A b \in Branch \ {k} : came'[b] = came[b]
      BY <1>3, Ran
    <2>2. PICK p \in (Live \ {"running"}) \cup {"finished"} :
             /\ fut' = [fut EXCEPT ![k] = p]
             /\ p \in Back => came'[k] \in Results
             /\ p \in Back => came'[k].branch = k /\ came'[k].round = round
      BY <1>3, Ran
    <2>3. p # "none"
      BY <2>2 DEF Live
    <2> QED BY <1>0, <2>1, <2>2, <2>3 DEF CameInv
  <1>4. CASE Watch
    BY <1>a, <1>4 DEF Watch, poolVars, shareVars, searchVars
  <1>5. CASE Collect
    <2>1. phase # "idle" /\ phase' # "idle" /\ fut' = fut
      BY <1>5 DEF Collect, poolVars
    <2> QED BY <1>a, <1>5, <2>1 DEF Collect, shareVars, searchVars
  <1>6. CASE Cancel
    <2>1. /\ phase # "idle" /\ phase' # "idle" /\ came' = came /\ round' = round
          /\ fut' = fut \/ fut' = [fut EXCEPT ![cut] = "cancelled"]
      BY <1>6 DEF Cancel, shareVars, searchVars
    <2> QED BY <1>0, <1>a, <2>1 DEF Back
  <1>7. CASE Select
    BY <1>a, <1>7 DEF Select, poolVars, shareVars
  <1>8. CASE NextRound
    BY <1>b, <1>c, <1>8 DEF NextRound
  <1>9. CASE Seed
    BY <1>c, <1>9 DEF Seed
  <1>10. CASE UNCHANGED vars
    BY <1>0, <1>10 DEF CameInv, vars, poolVars, shareVars, searchVars
  <1> QED BY <1>1, <1>2, <1>3, <1>4, <1>5, <1>6, <1>7, <1>8, <1>9, <1>10 DEF Next

(* A step of a branch, as long as none has been executed at the same time, *)
(* leaves it alone with sys.stdout and the working directory.              *)
LEMMA RunsAlone ==
    ASSUME IInv, Alone, apart', NEW k \in Branch, Runs(k)
    PROVE  Alone'
  <1>0. /\ TypeOK /\ CameInv /\ fut = [b \in Branch |-> fut[b]]
        /\ kept = [b \in Branch |-> kept[b]] /\ buf = [b \in Branch |-> buf[b]]
        /\ came = [b \in Branch |-> came[b]]
        /\ \A b \in Branch : kept[b] = [out |-> kept[b].out, cwd |-> kept[b].cwd]
        /\ \A b \in Branch : b # Nowhere /\ b # 0 /\ 0 # Nowhere
    <2>1. TypeOK /\ CameInv
      BY DEF IInv
    <2>2. /\ fut = [b \in Branch |-> fut[b]] /\ buf = [b \in Branch |-> buf[b]]
          /\ came = [b \in Branch |-> came[b]]
      BY <2>1 DEF TypeOK
    <2>3. kept \in [Branch -> [out : Nowhere..Branches, cwd : Nowhere..Branches]]
      BY <2>1 DEF TypeOK
    <2>4. /\ kept = [b \in Branch |-> kept[b]]
          /\ \A b \in Branch : kept[b] = [out |-> kept[b].out, cwd |-> kept[b].cwd]
      BY <2>3
    <2>5. \A b \in Branch : b # Nowhere /\ b # 0 /\ 0 # Nowhere
      BY DEF Branch, Nowhere
    <2> QED BY <2>1, <2>2, <2>4, <2>5
  <1>1. script' = script /\ round' = round /\ \A b \in Branch : Outcome(b)' = Outcome(b)
    <2>1. script' = script /\ round' = round
      BY Ran
    <2> QED BY <2>1 DEF Outcome, Like
  <1> DEFINE sts == {"captured", "inside", "printed", "outside"}
  <1>2. /\ \A b \in Branch : b \in Executed <=> fut[b] \in sts
        /\ \A b \in Branch : (b \in Executed)' <=> fut'[b] \in sts
        /\ Executed \subseteq Branch /\ Executed' \subseteq Branch
    BY DEF Executed
  <1>3. /\ \A b, c \in Executed : b = c
        /\ \A b \in Branch : fut[b] \in Going => cwd = b /\ kept[b].cwd = 0
        /\ (\A b \in Branch : fut[b] \notin Going) => cwd = 0
        /\ \A b \in Branch : fut[b] \in {"captured", "inside", "printed"} => out = b
        /\ \A b \in Branch :
              fut[b] \in {"pending", "running", "captured", "inside"} => buf[b] = {}
        /\ \A b \in Branch : fut[b] = "printed" => buf[b] = {b}
        /\ \A b \in Branch : fut[b] \in Back => came[b] = Outcome(b)
    BY DEF Alone
  <1>4. cwd # Nowhere
    BY <1>0, <1>3
  <1>5. CASE Capture(k)
    <2>1. /\ fut[k] = "running" /\ fut' = [fut EXCEPT ![k] = "captured"]
          /\ Executed = {} /\ out' = k /\ cwd' = cwd /\ buf' = buf /\ came' = came
          /\ kept' = [kept EXCEPT ![k].out = out]
      BY <1>4, <1>5 DEF Capture, Goto
    <2>2. \A b \in Branch : fut'[b] \in sts <=> b = k
      BY <1>0, <1>2, <2>1
    <2>3. \A b \in Branch : fut'[b] \notin Going /\ fut[b] \notin Going
      BY <1>0, <1>2, <2>1, <2>2 DEF Going
    <2>4. \A b, c \in Executed' : b = c
      BY <1>2, <2>2
    <2> QED BY <1>0, <1>1, <1>3, <2>1, <2>2, <2>3, <2>4 DEF Alone, Back
  <1>6. CASE Chdir(k)
    <2>1. /\ fut[k] = "captured" /\ fut' = [fut EXCEPT ![k] = "inside"]
          /\ out' = out /\ cwd' = k /\ buf' = buf /\ came' = came
          /\ kept' = [kept EXCEPT ![k].cwd = cwd]
      BY <1>4, <1>6 DEF Chdir, Goto
    <2>2. \A b \in Branch : fut[b] \in sts <=> b = k
      BY <1>2, <1>3, <2>1
    <2>3. /\ \A b \in Branch : fut'[b] \in sts <=> b = k
          /\ \A b \in Branch : fut[b] \notin Going
      BY <1>0, <2>1, <2>2 DEF Going
    <2>4. cwd = 0 /\ kept'[k].cwd = 0
      BY <1>0, <1>3, <2>1, <2>3
    <2>5. \A b, c \in Executed' : b = c
      BY <1>2, <2>3
    <2>6. \A b \in Branch : fut'[b] \in Going <=> b = k
      BY <1>0, <2>1, <2>3 DEF Going
    <2> QED BY <1>0, <1>1, <1>3, <2>1, <2>3, <2>4, <2>5, <2>6 DEF Alone, Back
  <1>7. CASE Prints(k)
    <2>1. /\ fut[k] = "inside" /\ fut' = [fut EXCEPT ![k] = "printed"]
          /\ out' = out /\ cwd' = cwd /\ kept' = kept /\ came' = came
          /\ buf' = IF out \in Branch THEN [buf EXCEPT ![out] = @ \cup {k}] ELSE buf
      BY <1>7 DEF Prints, Goto
    <2>2. out = k /\ buf[k] = {} /\ buf' = [buf EXCEPT ![k] = {k}]
      BY <1>0, <1>3, <2>1
    <2>3. \A b, c \in Executed' : b = c
      BY <1>0, <1>2, <1>3, <2>1
    <2>4. \A b \in Branch : fut'[b] \in Going <=> fut[b] \in Going
      BY <1>0, <2>1 DEF Going
    <2> QED BY <1>0, <1>1, <1>3, <2>1, <2>2, <2>3, <2>4 DEF Alone, Back
  <1>8. CASE ChdirBack(k)
    <2>1. fut[k] = "printed" /\ kept[k].cwd = 0 /\ buf[k] = {k} /\ cwd = k
      BY <1>3, <1>8 DEF ChdirBack, Going
    <2>2. /\ fut' = [fut EXCEPT ![k] = "outside"] /\ out' = out /\ cwd' = 0
          /\ came' = [came EXCEPT ![k] = Outcome(k)]
          /\ buf' = [buf EXCEPT ![k] = {}] /\ kept' = [kept EXCEPT ![k].cwd = 0]
      BY <1>0, <1>8, <2>1 DEF ChdirBack, Goto, Outcome
    <2>3. \A b \in Branch : fut[b] \in sts <=> b = k
      BY <1>2, <1>3, <2>1
    <2>4. \A b \in Branch : /\ fut'[b] \in sts <=> b = k
                            /\ fut'[b] \notin Going
      BY <1>0, <2>2, <2>3 DEF Going
    <2>5. \A b, c \in Executed' : b = c
      BY <1>2, <2>4
    <2>6. \A b \in Branch : fut'[b] \in Back => came'[b] = Outcome(b)
      BY <1>0, <1>3, <2>2
    <2> QED BY <1>0, <1>1, <1>3, <2>2, <2>4, <2>5, <2>6 DEF Alone, Back
  <1>9. CASE Release(k)
    <2>1. /\ fut[k] = "outside" /\ fut' = [fut EXCEPT ![k] = "closing"]
          /\ cwd' = cwd /\ buf' = buf /\ came' = came
          /\ kept' = [kept EXCEPT ![k].out = 0]
      BY <1>9 DEF Release, Goto
    <2>2. \A b \in Branch : fut[b] \in sts <=> b = k
      BY <1>2, <1>3, <2>1
    <2>3. \A b \in Branch : fut'[b] \notin sts /\ fut[b] \notin Going /\ fut'[b] \notin Going
      BY <1>0, <2>1, <2>2 DEF Going
    <2>4. \A b, c \in Executed' : b = c
      BY <1>2, <2>3
    <2> QED BY <1>0, <1>1, <1>3, <2>1, <2>3, <2>4 DEF Alone, Back
  <1>10. CASE Finish(k)
    <2>1. /\ fut[k] = "closing" /\ fut' = [fut EXCEPT ![k] = "finished"]
          /\ buf' = buf /\ came' = came
          /\ out' = IF out = k THEN Nowhere ELSE out
          /\ cwd' = IF cwd = k THEN Nowhere ELSE cwd
          /\ \A b \in Branch :
                kept'[b].cwd = IF kept[b].cwd = k THEN Nowhere ELSE kept[b].cwd
      BY <1>10 DEF Finish, Goto
    <2>2. \A b \in Branch : fut'[b] # fut[b] => b = k
      BY <1>0, <2>1
    <2>3. cwd # k
      BY <1>0, <1>3, <2>1 DEF Going
    <2>4. \A b, c \in Executed' : b = c
      BY <1>0, <1>2, <1>3, <2>1
    <2>5. \A b \in Branch : fut'[b] \in Going <=> fut[b] \in Going
      BY <1>0, <2>1 DEF Going
    <2>6. \A b \in Branch :
             fut'[b] \in {"captured", "inside", "printed"} =>
                 b # k /\ fut[b] = fut'[b]
      BY <1>0, <2>1
    <2> QED BY <1>0, <1>1, <1>3, <2>1, <2>2, <2>3, <2>4, <2>5, <2>6 DEF Alone, Back
  <1> QED BY <1>5, <1>6, <1>7, <1>8, <1>9, <1>10 DEF Runs

(* Every step keeps the branches alone as long as they are.                *)
LEMMA ApartStep == IInv /\ [Next]_vars => ApartInv'
  <1> SUFFICES ASSUME IInv, [Next]_vars, apart' PROVE Alone'
    BY DEF ApartInv
  <1>0. /\ TypeOK /\ PoolInv /\ CameInv /\ ApartInv /\ fut = [b \in Branch |-> fut[b]]
        /\ Branches \in Nat /\ Branch = 1..Branches
    <2>1. TypeOK /\ PoolInv /\ CameInv /\ ApartInv
      BY DEF IInv
    <2> QED BY <2>1, Sizes DEF TypeOK, Branch
  <1> DEFINE busy == {"captured", "inside", "printed", "outside", "closing",
                      "finished"}
  <1>a. ASSUME apart' = apart, out' = out, cwd' = cwd, kept' = kept, buf' = buf,
               came' = came, script' = script, round' = round,
               \A b \in Branch : \/ fut'[b] = fut[b]
                                 \/ /\ fut[b] \notin busy /\ fut'[b] \notin busy
                                    /\ fut[b] = "pending" \/ fut'[b] = "notified"
        PROVE  Alone'
    <2>1. Alone
      BY <1>0, <1>a DEF ApartInv
    <2>2. Executed' = Executed
      BY <1>a DEF Executed
    <2>3. \A b \in Branch : Outcome(b)' = Outcome(b)
      BY <1>a DEF Outcome, Like
    <2>4. \A b \in Branch : /\ fut'[b] \in Going <=> fut[b] \in Going
                            /\ fut'[b] \in Back <=> fut[b] \in Back
      BY <1>a DEF Going, Back
    <2> QED BY <1>a, <2>1, <2>2, <2>3, <2>4 DEF Alone
  <1>b. ASSUME Forget, phase \in {"idle", "next"},
               \/ fut' = [b \in Branch |-> "pending"]
               \/ fut' = [b \in Branch |-> "none"]
        PROVE  Alone'
    <2>1. Alone /\ cwd' = cwd /\ buf' = [b \in Branch |-> {}]
      BY <1>0, <1>b DEF ApartInv, Forget
    <2>2. \A b \in Branch : fut[b] \notin Going
      BY <1>0, <1>b DEF CameInv, PoolInv, Gone, Going
    <2>3. cwd' = 0
      BY <2>1, <2>2 DEF Alone
    <2>4. \A b \in Branch : fut'[b] \in {"pending", "none"}
      BY <1>b
    <2>5. Executed' = {}
      BY <2>4 DEF Executed
    <2> QED BY <2>1, <2>3, <2>4, <2>5 DEF Alone, Going, Back
  <1>1. CASE Begin
    BY <1>b, <1>1 DEF Begin, Submit
  <1>2. CASE Take
    <2>1. /\ apart' = apart /\ out' = out /\ cwd' = cwd /\ kept' = kept /\ buf' = buf
          /\ came' = came /\ script' = script /\ round' = round
      BY <1>2 DEF Take, shareVars, searchVars
    <2>2. \/ fut[taken + 1] = "cancelled" /\ fut' = [fut EXCEPT ![taken + 1] = "notified"]
          \/ fut[taken + 1] # "cancelled" /\ fut' = [fut EXCEPT ![taken + 1] = "running"]
      BY <1>2 DEF Take
    <2>3. taken + 1 \in Branch /\ taken + 1 > taken /\ phase # "idle" /\ phase # "next"
      BY <1>0, <1>2 DEF Take, TypeOK
    <2>4. fut[taken + 1] \in {"none", "pending", "cancelled"}
      BY <1>0, <2>3 DEF PoolInv
    <2>5. fut[taken + 1] # "none"
      BY <1>0, <2>3 DEF CameInv
    <2> QED BY <1>0, <1>a, <2>1, <2>2, <2>4, <2>5
  <1>3. ASSUME NEW k \in Branch, Runs(k) PROVE Alone'
    <2>1. apart
      BY <1>0, <1>3 DEF Runs, Capture, Chdir, Prints, ChdirBack, Release, Finish, TypeOK
    <2> QED BY <1>0, <1>3, <2>1, RunsAlone DEF ApartInv
  <1>4. CASE Watch
    BY <1>a, <1>4 DEF Watch, poolVars, shareVars, searchVars
  <1>5. CASE Collect
    BY <1>a, <1>5 DEF Collect, poolVars, shareVars, searchVars
  <1>6. CASE Cancel
    <2>1. /\ apart' = apart /\ out' = out /\ cwd' = cwd /\ kept' = kept /\ buf' = buf
          /\ came' = came /\ script' = script /\ round' = round
          /\ \/ fut' = fut
             \/ fut[cut] = "pending" /\ fut' = [fut EXCEPT ![cut] = "cancelled"]
      BY <1>6 DEF Cancel, shareVars, searchVars
    <2> QED BY <1>0, <1>a, <2>1
  <1>7. CASE Select
    BY <1>a, <1>7 DEF Select, poolVars, shareVars
  <1>8. CASE NextRound
    BY <1>b, <1>8 DEF NextRound, Submit, Return
  <1>9. CASE Seed
    BY <1>b, <1>9 DEF Seed, Return
  <1>10. CASE UNCHANGED vars
    BY <1>a, <1>10 DEF vars, poolVars, shareVars, searchVars
  <1> QED BY <1>1, <1>2, <1>3, <1>4, <1>5, <1>6, <1>7, <1>8, <1>9, <1>10 DEF Next

(* Every step keeps the invariant, and so every behaviour has it.          *)
LEMMA StepInv == IInv /\ [Next]_vars => IInv'
  BY TypeStep, PoolStep, CameStep, ApartStep, ScoreStep, ArchiveStep DEF IInv

LEMMA Invariance == Spec => []IInv
  BY InitInv, StepInv, PTL DEF Spec

-----------------------------------------------------------------------------
(* What follows                                                            *)

(* The variables of a search keep their types.                             *)
THEOREM TypeCorrect == Spec => []TypeOK
  <1>1. IInv => TypeOK
    BY DEF IInv
  <1> QED BY <1>1, Invariance, PTL

(* However the branches of a round come in, the winner is the first of the *)
(* best of what they came to, and if a perfect one had the others          *)
(* cancelled, a perfect one that no branch that ran surpasses.  It is the  *)
(* one of a sequential search as long as no two branches were executed at  *)
(* once: then every branch came to its own.                                *)
THEOREM OrderIsIrrelevant == Spec => []WinnerIsBest
  <1>1. ASSUME IInv, phase = "next"
        PROVE  /\ early = 0 => chosen = Best(Valid({came[b] : b \in Branch}))
               /\ early # 0 =>
                    /\ chosen.total >= Perfect
                    /\ \A b \in Branch : fut[b] = "finished" =>
                           came[b].total <= chosen.total
               /\ apart => \A b \in Branch : fut[b] = "finished" => came[b] = Outcome(b)
    <2> DEFINE rs == {results[b] : b \in Branch}
    <2>1. /\ TypeOK /\ PoolInv /\ CameInv /\ phase # "idle" /\ early \in 0..Branches
          /\ \A b \in Branch : results[b] # None /\ results[b] = ValueOf(b)
          /\ chosen = Best(Valid(rs))
      BY <1>1 DEF IInv, PoolInv, TypeOK
    <2>2. /\ rs \subseteq Results /\ chosen \in rs
          /\ \A q \in rs : q.total <= chosen.total
      BY <2>1, AllCame
    <2>3. ASSUME early = 0 PROVE rs = {came[b] : b \in Branch}
      <3>1. \A b \in Branch : results[b] = came[b]
        BY <2>1, <2>3 DEF PoolInv, ValueOf
      <3> QED BY <3>1
    <2>4. ASSUME early # 0 PROVE chosen.total >= Perfect
      <3>1. early \in Branch
        BY <2>1, <2>4 DEF Branch
      <3>2. results[early] \in rs /\ results[early].total >= Perfect
        BY <2>1, <2>4, <3>1 DEF PoolInv
      <3>3. /\ results[early].total \in Int /\ chosen.total \in Int /\ Perfect \in Int
            /\ results[early].total <= chosen.total
        BY <2>2, <3>2, ResultFacts, Sizes DEF Perfect
      <3> HIDE DEF rs
      <3> QED BY <3>2, <3>3
    <2>5. ASSUME NEW b \in Branch, fut[b] = "finished"
          PROVE  came[b].total <= chosen.total
      <3>1. results[b] = came[b] /\ results[b] \in rs
        BY <2>1, <2>5 DEF ValueOf
      <3> QED BY <2>2, <3>1
    <2>6. ASSUME apart, NEW b \in Branch, fut[b] = "finished"
          PROVE  came[b] = Outcome(b)
      BY <1>1, <2>6 DEF IInv, ApartInv, Alone, Back
    <2> QED BY <2>1, <2>3, <2>4, <2>5, <2>6
  <1>2. IInv => WinnerIsBest
    BY <1>1 DEF WinnerIsBest
  <1> QED BY <1>2, Invariance, PTL

(* The engine goes on from the best branch of all rounds, and the note in  *)
(* the prompt names the round that branch is of.                           *)
THEOREM BestIsSeeded == Spec => []SeedIsBest
  <1>1. IInv => SeedIsBest
    BY DEF IInv, ScoreInv, SeedIsBest
  <1> QED BY <1>1, Invariance, PTL

(* However often a prompt is searched for and its archive is updated and   *)
(* cut, the best branch there ever was stays in it, and niches differ.     *)
THEOREM BestIsKept == Spec => []ArchiveKeepsBest
  <1>1. IInv => ArchiveKeepsBest
    BY DEF IInv, ArchiveInv, OneEach, Holds, ArchiveKeepsBest
  <1> QED BY <1>1, Invariance, PTL
=============================================================================
