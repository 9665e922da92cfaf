----------------------------- MODULE Releases_proof -----------------------------
(***************************************************************************)
(* Theorems about releases: that the migrations are sorted, that a plan's  *)
(* steps come in their order, that whatever happens in a sequence of       *)
(* releases the version in service finds what it needs, and that what the  *)
(* page says of the outcome is true.                                       *)
(*                                                                         *)
(* The prover takes no induction theorem whose parameter is an operator.   *)
(* Where a recursive function is concerned, the least number for which a   *)
(* claim fails is shown not to exist.                                      *)
(***************************************************************************)
EXTENDS ReleaseSequence, OutcomeStatus, SequenceTheorems, FiniteSetTheorems, TLAPS

(***************************************************************************)
(* What is kept of a sequence (Array.filter): the members that are in the  *)
(* set, in their order.                                                    *)
(***************************************************************************)

\* A set of numbers has a least one.  What follows is proved by induction on numbers
\* in this form: the least number for which it fails.
Below == {p \in Nat \X Nat : p[1] < p[2]}

LEMMA Least ==
  ASSUME NEW T \in SUBSET Nat, T # {}
  PROVE  \E m \in T : \A k \in T : m <= k
  <1>1. IsWellFoundedOn(Below, Nat)
    <2>1. OpToRel(<, Nat) = Below
      BY DEF OpToRel, Below
    <2> QED
      BY NatLessThanWellFounded, <2>1
  <1>2. PICK m \in T : \A k \in T : <<k, m>> \notin Below
    BY <1>1, WFMin
  <1>3. ASSUME NEW k \in T PROVE m <= k
    <2>1. <<k, m>> \in Nat \X Nat /\ <<k, m>>[1] = k /\ <<k, m>>[2] = m
      OBVIOUS
    <2>2. ~(k < m)
      BY <1>2, <2>1 DEF Below
    <2> QED
      BY <2>2
  <1> QED
    BY <1>3

\* The minimum of the community modules is that number.
LEMMA MinIsLeast ==
  ASSUME NEW T \in SUBSET Nat, T # {}
  PROVE  Min(T) \in T /\ \A k \in T : Min(T) <= k
  BY Least DEF Min

\* The recursive function that Only takes its value from exists.
LEMMA KeptExists ==
  ASSUME NEW seq, Len(seq) \in Nat, NEW set
  PROVE  Kept(seq, set) =
           [n \in 0..Len(seq) |->
             IF n = 0 THEN <<>>
             ELSE IF seq[n] \in set THEN Append(Kept(seq, set)[n - 1], seq[n])
                  ELSE Kept(seq, set)[n - 1]]
  <1> DEFINE Value(f, n) == IF n = 0 THEN <<>>
                            ELSE IF seq[n] \in set THEN Append(f[n - 1], seq[n]) ELSE f[n - 1]
             Is(f, k) == f = [n \in 0..k |-> Value(f, n)]
             Bad == {k \in Nat : ~ \E f : Is(f, k)}
  <1>1. Bad = {}
    <2> SUFFICES ASSUME Bad # {} PROVE FALSE
      OBVIOUS
    <2>1. PICK m \in Bad : \A k \in Bad : m <= k
      <3>1. Bad \in SUBSET Nat
        OBVIOUS
      <3> HIDE DEF Bad
      <3> QED
        BY <3>1, Least
    <2>2. CASE m = 0
      <3>1. Is([n \in 0..0 |-> <<>>], 0)
        OBVIOUS
      <3> QED
        BY <2>2, <3>1
    <2>3. CASE m # 0
      <3>1. m - 1 \in Nat /\ m - 1 \notin Bad
        <4>1. m \in Nat
          OBVIOUS
        <4> HIDE DEF Bad
        <4> QED
          BY <2>1, <2>3, <4>1
      <3>2. PICK g : Is(g, m - 1)
        BY <3>1
      <3> DEFINE h == [n \in 0..m |-> IF n = m THEN Value(g, m) ELSE g[n]]
      <3>3. ASSUME NEW n \in 0..m PROVE h[n] = Value(h, n)
        <4>1. n = 0 \/ n - 1 \in 0..(m - 1)
          OBVIOUS
        <4>2. n # 0 => h[n - 1] = g[n - 1]
          BY <4>1
        <4>3. n # m => g[n] = Value(g, n)
          <5>1. n # m => n \in 0..(m - 1)
            OBVIOUS
          <5> QED
            BY <3>2, <5>1
        <4>4. h[n] = Value(g, n)
          BY <4>3
        <4> QED
          BY <4>2, <4>4
      <3>4. Is(h, m)
        <4> HIDE DEF Value
        <4>1. h = [n \in 0..m |-> h[n]]
          OBVIOUS
        <4> HIDE DEF h
        <4> QED
          BY <3>3, <4>1
      <3> QED
        BY <3>4
    <2> QED
      BY <2>2, <2>3
  <1>2. \E f : Is(f, Len(seq))
    BY <1>1
  <1> QED
    BY <1>2 DEF Kept

\* The function that filters, unfolded.
LEMMA KeptValue ==
  ASSUME NEW seq, Len(seq) \in Nat, NEW set
  PROVE  /\ Kept(seq, set)[0] = <<>>
         /\ \A n \in 1..Len(seq) :
              Kept(seq, set)[n] = IF seq[n] \in set THEN Append(Kept(seq, set)[n - 1], seq[n])
                                  ELSE Kept(seq, set)[n - 1]
  <1> DEFINE f == Kept(seq, set)
             Value(n) == IF n = 0 THEN <<>>
                         ELSE IF seq[n] \in set THEN Append(f[n - 1], seq[n]) ELSE f[n - 1]
  <1>1. f = [n \in 0..Len(seq) |-> Value(n)]
    BY KeptExists
  <1> HIDE DEF f
  <1>2. \A n \in 0..Len(seq) : f[n] = Value(n)
    <2> HIDE DEF Value
    <2> QED
      BY <1>1
  <1>3. 0 \in 0..Len(seq) /\ \A n \in 1..Len(seq) : n \in 0..Len(seq) /\ n # 0
    OBVIOUS
  <1>4. f[0] = <<>> /\ \A n \in 1..Len(seq) :
          f[n] = IF seq[n] \in set THEN Append(f[n - 1], seq[n]) ELSE f[n - 1]
    BY <1>2, <1>3
  <1> QED
    BY <1>4 DEF f

\* What has been kept of the first n elements: those in the set, in their order.
Keeps(seq, set, n) ==
  LET kept == Kept(seq, set)[n]
  IN /\ \A S : seq \in Seq(S) => kept \in Seq(S)
     /\ \A i \in 1..Len(kept) : kept[i] \in set /\ \E a \in 1..n : seq[a] = kept[i]
     /\ \A a \in 1..n : seq[a] \in set => \E i \in 1..Len(kept) : kept[i] = seq[a]
     /\ \A i, j \in 1..Len(kept) :
          i < j => \E a, b \in 1..n : a < b /\ seq[a] = kept[i] /\ seq[b] = kept[j]

\* One more member.
LEMMA KeepsNext ==
  ASSUME NEW T, NEW seq \in Seq(T), NEW set, NEW n \in 1..Len(seq), Keeps(seq, set, n - 1)
  PROVE  Keeps(seq, set, n)
  <1> DEFINE old == Kept(seq, set)[n - 1]
             new == Kept(seq, set)[n]
  <1>1. new = IF seq[n] \in set THEN Append(old, seq[n]) ELSE old
    BY KeptValue
  <1>2. old \in Seq(T) /\ seq[n] \in T
    BY DEF Keeps
  <1>3. \A S : seq \in Seq(S) => old \in Seq(S) /\ seq[n] \in S
    BY DEF Keeps
  <1>4. /\ \A i \in 1..Len(old) : old[i] \in set /\ \E a \in 1..(n - 1) : seq[a] = old[i]
        /\ \A a \in 1..(n - 1) : seq[a] \in set => \E i \in 1..Len(old) : old[i] = seq[a]
        /\ \A i, j \in 1..Len(old) :
             i < j => \E a, b \in 1..(n - 1) : a < b /\ seq[a] = old[i] /\ seq[b] = old[j]
    BY DEF Keeps
  <1> HIDE DEF old, new
  <1>5. CASE seq[n] \notin set
    <2>1. new = old
      BY <1>1, <1>5
    <2> QED
      BY <1>3, <1>4, <1>5, <2>1 DEF Keeps, new
  <1>6. CASE seq[n] \in set
    <2>1. /\ Len(new) = Len(old) + 1 /\ Len(old) \in Nat
          /\ \A i \in 1..Len(old) : new[i] = old[i]
          /\ new[Len(old) + 1] = seq[n]
      BY <1>1, <1>2, <1>6, AppendProperties, LenProperties
    <2>2. \A S : seq \in Seq(S) => new \in Seq(S)
      BY <1>1, <1>3, <1>6, AppendProperties
    <2>3. \A i \in 1..Len(new) : i \in 1..Len(old) \/ i = Len(old) + 1
      BY <2>1
    <2>4. \A i \in 1..Len(new) : new[i] \in set /\ \E a \in 1..n : seq[a] = new[i]
      <3> SUFFICES ASSUME NEW i \in 1..Len(new)
                   PROVE  new[i] \in set /\ \E a \in 1..n : seq[a] = new[i]
        OBVIOUS
      <3>1. CASE i \in 1..Len(old)
        <4>1. PICK a \in 1..(n - 1) : seq[a] = old[i]
          BY <1>4, <3>1
        <4> QED
          BY <1>4, <2>1, <3>1, <4>1
      <3>2. CASE i = Len(old) + 1
        BY <1>6, <2>1, <3>2
      <3> QED
        BY <2>3, <3>1, <3>2
    <2>5. \A a \in 1..n : seq[a] \in set => \E i \in 1..Len(new) : new[i] = seq[a]
      <3> SUFFICES ASSUME NEW a \in 1..n, seq[a] \in set
                   PROVE  \E i \in 1..Len(new) : new[i] = seq[a]
        OBVIOUS
      <3>1. CASE a = n
        BY <2>1, <3>1
      <3>2. CASE a # n
        <4>1. PICK i \in 1..Len(old) : old[i] = seq[a]
          BY <1>4, <3>2
        <4> QED
          BY <2>1, <4>1
      <3> QED
        BY <3>1, <3>2
    <2>6. ASSUME NEW i \in 1..Len(new), NEW j \in 1..Len(new), i < j
          PROVE  \E a, b \in 1..n : a < b /\ seq[a] = new[i] /\ seq[b] = new[j]
      <3>1. i \in 1..Len(old)
        BY <2>1, <2>6
      <3>2. CASE j \in 1..Len(old)
        <4>1. PICK a \in 1..(n - 1), b \in 1..(n - 1) :
                a < b /\ seq[a] = old[i] /\ seq[b] = old[j]
          BY <1>4, <2>6, <3>1, <3>2
        <4> QED
          BY <2>1, <3>1, <3>2, <4>1
      <3>3. CASE j = Len(old) + 1
        <4>1. PICK a \in 1..(n - 1) : seq[a] = old[i]
          BY <1>4, <3>1
        <4> QED
          BY <2>1, <3>1, <3>3, <4>1
      <3> QED
        BY <2>3, <3>2, <3>3
    <2> QED
      BY <2>2, <2>4, <2>5, <2>6 DEF Keeps, new
  <1> QED
    BY <1>5, <1>6

\* Array.filter keeps the members in the set, each in its place among the others.
LEMMA OnlyIs ==
  ASSUME NEW T, NEW seq \in Seq(T), NEW set
  PROVE  Keeps(seq, set, Len(seq))
  <1> DEFINE Bad == {n \in Nat : n <= Len(seq) /\ ~Keeps(seq, set, n)}
  <1>1. Keeps(seq, set, 0)
    <2>1. Kept(seq, set)[0] = <<>>
      BY KeptValue
    <2> QED
      BY <2>1 DEF Keeps
  <1>2. Bad = {}
    <2> SUFFICES ASSUME Bad # {} PROVE FALSE
      OBVIOUS
    <2>1. Bad \in SUBSET Nat
      OBVIOUS
    <2>2. PICK m \in Bad : \A k \in Bad : m <= k
      <3> HIDE DEF Bad
      <3> QED
        BY <2>1, Least
    <2>3. m \in 1..Len(seq) /\ ~Keeps(seq, set, m)
      BY <1>1
    <2>4. Keeps(seq, set, m - 1)
      BY <2>2, <2>3
    <2> QED
      BY <2>3, <2>4, KeepsNext
  <1> QED
    BY <1>2

--------------------------------------------------------------------------------
(***************************************************************************)
(* sortReleaseMigrationsByDependencies: every script once, none before one *)
(* that it waits for.                                                      *)
(***************************************************************************)

\* The function that sorts, unfolded.
LEMMA SortingExists ==
  ASSUME NEW scripts, Len(scripts) \in Nat
  PROVE  Sorting(scripts) =
           [n \in 0..Len(scripts) |->
             IF n = 0 THEN <<>>
             ELSE Append(Sorting(scripts)[n - 1], ReadyScript(scripts, Sorting(scripts)[n - 1]))]
  <1> DEFINE Value(f, n) == IF n = 0 THEN <<>>
                            ELSE Append(f[n - 1], ReadyScript(scripts, f[n - 1]))
             Is(f, k) == f = [n \in 0..k |-> Value(f, n)]
             Bad == {k \in Nat : ~ \E f : Is(f, k)}
  <1>1. Bad = {}
    <2> SUFFICES ASSUME Bad # {} PROVE FALSE
      OBVIOUS
    <2>1. PICK m \in Bad : \A k \in Bad : m <= k
      <3>1. Bad \in SUBSET Nat
        OBVIOUS
      <3> HIDE DEF Bad
      <3> QED
        BY <3>1, Least
    <2>2. CASE m = 0
      <3>1. Is([n \in 0..0 |-> <<>>], 0)
        OBVIOUS
      <3> QED
        BY <2>2, <3>1
    <2>3. CASE m # 0
      <3>1. m - 1 \in Nat /\ m - 1 \notin Bad
        <4>1. m \in Nat
          OBVIOUS
        <4> HIDE DEF Bad
        <4> QED
          BY <2>1, <2>3, <4>1
      <3>2. PICK g : Is(g, m - 1)
        BY <3>1
      <3> DEFINE h == [n \in 0..m |-> IF n = m THEN Value(g, m) ELSE g[n]]
      <3>3. ASSUME NEW n \in 0..m PROVE h[n] = Value(h, n)
        <4>1. n = 0 \/ n - 1 \in 0..(m - 1)
          OBVIOUS
        <4>2. n # 0 => h[n - 1] = g[n - 1]
          BY <4>1
        <4>3. n # m => g[n] = Value(g, n)
          <5>1. n # m => n \in 0..(m - 1)
            OBVIOUS
          <5> QED
            BY <3>2, <5>1
        <4>4. h[n] = Value(g, n)
          BY <4>3
        <4> QED
          BY <4>2, <4>4
      <3>4. Is(h, m)
        <4> HIDE DEF Value
        <4>1. h = [n \in 0..m |-> h[n]]
          OBVIOUS
        <4> HIDE DEF h
        <4> QED
          BY <3>3, <4>1
      <3> QED
        BY <3>4
    <2> QED
      BY <2>2, <2>3
  <1>2. \E f : Is(f, Len(scripts))
    BY <1>1
  <1> QED
    BY <1>2 DEF Sorting

LEMMA SortingValue ==
  ASSUME NEW scripts, Len(scripts) \in Nat
  PROVE  /\ Sorting(scripts)[0] = <<>>
         /\ \A n \in 1..Len(scripts) :
              Sorting(scripts)[n] =
                Append(Sorting(scripts)[n - 1], ReadyScript(scripts, Sorting(scripts)[n - 1]))
  <1> DEFINE f == Sorting(scripts)
             Value(n) == IF n = 0 THEN <<>> ELSE Append(f[n - 1], ReadyScript(scripts, f[n - 1]))
  <1>1. f = [n \in 0..Len(scripts) |-> Value(n)]
    BY SortingExists
  <1> HIDE DEF f
  <1>2. \A n \in 0..Len(scripts) : f[n] = Value(n)
    <2> HIDE DEF Value
    <2> QED
      BY <1>1
  <1>3. 0 \in 0..Len(scripts) /\ \A n \in 1..Len(scripts) : n \in 0..Len(scripts) /\ n # 0
    OBVIOUS
  <1>4. f[0] = <<>> /\ \A n \in 1..Len(scripts) :
          f[n] = Append(f[n - 1], ReadyScript(scripts, f[n - 1]))
    BY <1>2, <1>3
  <1> QED
    BY <1>4 DEF f

\* Without a cycle one of the remaining scripts waits for none of them.
LEMMA ReadyIs ==
  ASSUME NEW T, NEW scripts \in Seq(T), NEW done, ~Cyclic(ToSet(scripts)),
         ToSet(scripts) \ ToSet(done) # {}
  PROVE  /\ ReadyScript(scripts, done) \in ToSet(scripts) \ ToSet(done)
         /\ Predecessors(ReadyScript(scripts, done), ToSet(scripts) \ ToSet(done)) = {}
  <1> DEFINE remaining == ToSet(scripts) \ ToSet(done)
             Free(s) == s \in remaining /\ Predecessors(s, remaining) = {}
             Found == {i \in 1..Len(scripts) : Free(scripts[i])}
  <1>1. PICK s \in remaining : Predecessors(s, remaining) = {}
    <2>1. remaining \in (SUBSET ToSet(scripts)) \ {{}}
      OBVIOUS
    <2> QED
      BY <2>1 DEF Cyclic
  <1>2. PICK i \in DOMAIN scripts : scripts[i] = s
    BY DEF ToSet
  <1>3. Found # {} /\ Found \in SUBSET Nat
    <2>1. Free(s)
      BY <1>1
    <2>2. Found \in SUBSET Nat
      OBVIOUS
    <2>3. i \in 1..Len(scripts) /\ scripts[i] = s
      BY <1>2
    <2> HIDE DEF Free
    <2> QED
      BY <2>1, <2>2, <2>3
  <1> HIDE DEF Found
  <1>4. Min(Found) \in Found
    BY <1>3, MinIsLeast
  <1>5. ReadyScript(scripts, done) = scripts[Min(Found)]
    BY <1>3 DEF ReadyScript, SelectInSeq, Found
  <1> QED
    BY <1>4, <1>5 DEF Found

\* The first n scripts of the sorted ones: different scripts, each after those it waits for.
Sorts(scripts, n) ==
  LET sorted == Sorting(scripts)[n]
  IN /\ sorted \in Seq(ToSet(scripts)) /\ Len(sorted) = n
     /\ \A i, j \in 1..n : i < j => sorted[i] # sorted[j]
     /\ \A i \in 1..n : \A s \in Predecessors(sorted[i], ToSet(scripts)) :
          \E j \in 1..(i - 1) : sorted[j] = s

\* No script occurs twice.
Distinct(seq) == \A i, j \in DOMAIN seq : seq[i] = seq[j] => i = j

\* So many numbers.
LEMMA CardinalityTo ==
  ASSUME NEW n \in Nat
  PROVE  IsFiniteSet(1..n) /\ Cardinality(1..n) = n
  <1>1. 1 \in Int /\ n \in Int
    OBVIOUS
  <1>2. IsFiniteSet(1..n) /\ Cardinality(1..n) = IF 1 > n THEN 0 ELSE n - 1 + 1
    BY <1>1, FS_Interval
  <1> QED
    BY <1>2

\* As long as the result is shorter than the input, something remains.
LEMMA SomeRemain ==
  ASSUME NEW T, NEW scripts \in Seq(T), Distinct(scripts),
         NEW done \in Seq(T), Len(done) < Len(scripts)
  PROVE  ToSet(scripts) \ ToSet(done) # {}
  <1> SUFFICES ASSUME \A i \in DOMAIN scripts : \E j \in DOMAIN done : done[j] = scripts[i]
               PROVE  FALSE
    BY DEF ToSet
  <1> DEFINE f == [i \in 1..Len(scripts) |-> CHOOSE j \in 1..Len(done) : done[j] = scripts[i]]
  <1>1. \A i \in 1..Len(scripts) : f[i] \in 1..Len(done) /\ done[f[i]] = scripts[i]
    OBVIOUS
  <1>2. f \in [1..Len(scripts) -> 1..Len(done)]
    BY <1>1
  <1>3. /\ IsFiniteSet(1..Len(scripts)) /\ Cardinality(1..Len(scripts)) = Len(scripts)
        /\ IsFiniteSet(1..Len(done)) /\ Cardinality(1..Len(done)) = Len(done)
    <2>1. Len(scripts) \in Nat /\ Len(done) \in Nat /\ 1 \in Int
      OBVIOUS
    <2> QED
      BY <2>1, CardinalityTo
  <1> HIDE DEF f
  <1> DEFINE A == 1..Len(scripts)
             B == 1..Len(done)
  <1>4. \E i, j \in A : i # j /\ f[i] = f[j]
    <2>1. /\ IsFiniteSet(A) /\ IsFiniteSet(B) /\ Cardinality(B) < Cardinality(A)
          /\ f \in [A -> B]
      BY <1>2, <1>3
    <2> HIDE DEF A, B
    <2> QED
      BY <2>1, FS_PigeonHole
  <1> QED
    BY <1>1, <1>4 DEF Distinct

\* One more script, which those before it cannot be.
LEMMA SortsNext ==
  ASSUME NEW T, NEW scripts \in Seq(T), Distinct(scripts), ~Cyclic(ToSet(scripts)),
         NEW n \in 1..Len(scripts), Sorts(scripts, n - 1)
  PROVE  Sorts(scripts, n)
  <1> DEFINE old == Sorting(scripts)[n - 1]
             new == Sorting(scripts)[n]
             ready == ReadyScript(scripts, old)
  <1>1. new = Append(old, ready)
    BY SortingValue
  <1>2. /\ old \in Seq(ToSet(scripts)) /\ Len(old) = n - 1
        /\ \A i, j \in 1..(n - 1) : i < j => old[i] # old[j]
        /\ \A i \in 1..(n - 1) : \A s \in Predecessors(old[i], ToSet(scripts)) :
             \E j \in 1..(i - 1) : old[j] = s
    BY DEF Sorts
  <1> HIDE DEF old, new
  <1>3. ToSet(scripts) \ ToSet(old) # {}
    <2>1. old \in Seq(T)
      <3>1. \A i \in 1..Len(old) : old[i] \in T
        BY <1>2 DEF ToSet
      <3> QED
        BY <1>2, <3>1
    <2> QED
      BY <1>2, <2>1, SomeRemain
  <1>4. /\ ready \in ToSet(scripts) \ ToSet(old)
        /\ Predecessors(ready, ToSet(scripts) \ ToSet(old)) = {}
    BY <1>3, ReadyIs
  <1> HIDE DEF ready
  <1>5. /\ new \in Seq(ToSet(scripts)) /\ Len(new) = n /\ new[n] = ready
        /\ \A i \in 1..(n - 1) : new[i] = old[i]
    BY <1>1, <1>2, <1>4, AppendProperties
  <1>6. \A i, j \in 1..n : i < j => new[i] # new[j]
    <2> SUFFICES ASSUME NEW i \in 1..n, NEW j \in 1..n, i < j PROVE new[i] # new[j]
      OBVIOUS
    <2>1. i \in 1..(n - 1) /\ (j \in 1..(n - 1) \/ j = n)
      OBVIOUS
    <2>2. old[i] \in ToSet(old)
      BY <1>2, <2>1 DEF ToSet
    <2> QED
      BY <1>2, <1>4, <1>5, <2>1, <2>2
  <1>7. ASSUME NEW i \in 1..n, NEW s \in Predecessors(new[i], ToSet(scripts))
        PROVE  \E j \in 1..(i - 1) : new[j] = s
    <2>1. CASE i = n
      <3>1. s \in Predecessors(ready, ToSet(scripts))
        BY <1>5, <2>1
      <3>2. s \in ToSet(old)
        BY <1>4, <3>1 DEF Predecessors
      <3>3. PICK j \in 1..(n - 1) : old[j] = s
        BY <1>2, <3>2 DEF ToSet
      <3> QED
        BY <1>5, <2>1, <3>3
    <2>2. CASE i # n
      <3>1. i \in 1..(n - 1) /\ new[i] = old[i]
        BY <1>5, <2>2
      <3>2. PICK j \in 1..(i - 1) : old[j] = s
        BY <1>2, <1>7, <3>1
      <3>3. j \in 1..(n - 1)
        BY <3>1
      <3> QED
        BY <1>5, <3>2, <3>3
    <2> QED
      BY <2>1, <2>2
  <1> QED
    BY <1>5, <1>6, <1>7 DEF Sorts, new

\* Every script once, and none before one it waits for.
THEOREM MigrationsSorted ==
  ASSUME NEW T, NEW scripts \in Seq(T), Distinct(scripts), ~Cyclic(ToSet(scripts))
  PROVE  /\ ByDependency(scripts) \in Seq(ToSet(scripts))
         /\ ToSet(ByDependency(scripts)) = ToSet(scripts)
         /\ \A i \in DOMAIN ByDependency(scripts) :
              \A s \in Predecessors(ByDependency(scripts)[i], ToSet(scripts)) :
                \E j \in 1..(i - 1) : ByDependency(scripts)[j] = s
  <1> DEFINE Bad == {n \in Nat : n <= Len(scripts) /\ ~Sorts(scripts, n)}
  <1>1. Sorts(scripts, 0)
    <2>1. Sorting(scripts)[0] = <<>>
      BY SortingValue
    <2> QED
      BY <2>1 DEF Sorts
  <1>2. Bad = {}
    <2> SUFFICES ASSUME Bad # {} PROVE FALSE
      OBVIOUS
    <2>1. Bad \in SUBSET Nat
      OBVIOUS
    <2>2. PICK m \in Bad : \A k \in Bad : m <= k
      <3> HIDE DEF Bad
      <3> QED
        BY <2>1, Least
    <2>3. m \in 1..Len(scripts) /\ ~Sorts(scripts, m)
      BY <1>1
    <2>4. Sorts(scripts, m - 1)
      BY <2>2, <2>3
    <2> QED
      BY <2>3, <2>4, SortsNext
  <1> DEFINE sorted == ByDependency(scripts)
             L == Len(scripts)
  <1>3. /\ sorted \in Seq(ToSet(scripts)) /\ Len(sorted) = L
        /\ \A i, j \in 1..L : i < j => sorted[i] # sorted[j]
        /\ \A i \in 1..L : \A s \in Predecessors(sorted[i], ToSet(scripts)) :
             \E j \in 1..(i - 1) : sorted[j] = s
    <2>1. Sorts(scripts, L)
      BY <1>2
    <2> QED
      BY <2>1 DEF Sorts, ByDependency
  <1> HIDE DEF sorted, Bad
  <1>4. ASSUME NEW a \in 1..L, scripts[a] \notin ToSet(sorted) PROVE FALSE
    <2> DEFINE others == (1..L) \ {a}
               f == [i \in 1..L |-> CHOOSE b \in others : scripts[b] = sorted[i]]
    <2>1. ASSUME NEW i \in 1..L PROVE \E b \in others : scripts[b] = sorted[i]
      <3>1. sorted[i] \in ToSet(scripts) /\ sorted[i] \in ToSet(sorted)
        BY <1>3 DEF ToSet
      <3>2. PICK b \in 1..L : scripts[b] = sorted[i]
        BY <3>1 DEF ToSet
      <3> QED
        BY <1>4, <3>1, <3>2
    <2>2. \A i \in 1..L : f[i] \in others /\ scripts[f[i]] = sorted[i]
      BY <2>1
    <2>3. f \in [1..L -> others]
      BY <2>2
    <2>4. /\ IsFiniteSet(1..L) /\ Cardinality(1..L) = L
          /\ IsFiniteSet(others) /\ Cardinality(others) = L - 1
      <3>1. IsFiniteSet(1..L) /\ Cardinality(1..L) = L
        <4>1. L \in Nat
          OBVIOUS
        <4> QED
          BY <4>1, CardinalityTo
      <3> QED
        BY <3>1, FS_RemoveElement
    <2> HIDE DEF f, others
    <2>5. \E i, j \in 1..L : i # j /\ f[i] = f[j]
      <3>1. Cardinality(others) < Cardinality(1..L)
        BY <2>4
      <3> QED
        BY <2>3, <2>4, <3>1, FS_PigeonHole
    <2>6. PICK i \in 1..L, j \in 1..L : i # j /\ f[i] = f[j]
      BY <2>5
    <2>7. sorted[i] = sorted[j] /\ (i < j \/ j < i)
      BY <2>2, <2>6
    <2> QED
      BY <1>3, <2>7
  <1>5. ToSet(sorted) = ToSet(scripts)
    <2>1. ToSet(scripts) \subseteq ToSet(sorted)
      BY <1>4 DEF ToSet
    <2>2. ToSet(sorted) \subseteq ToSet(scripts)
      BY <1>3 DEF ToSet
    <2> QED
      BY <2>1, <2>2
  <1>6. DOMAIN sorted = 1..L
    BY <1>3
  <1> QED
    BY <1>3, <1>5, <1>6 DEF sorted

--------------------------------------------------------------------------------
(***************************************************************************)
(* The migrations between the baseline and the target commit.              *)
(***************************************************************************)

\* The members of what is kept.
LEMMA OnlyMembers ==
  ASSUME NEW T, NEW seq \in Seq(T), NEW set
  PROVE  /\ Only(seq, set) \in Seq(T)
         /\ ToSet(Only(seq, set)) = ToSet(seq) \cap set
         /\ \A i, j \in DOMAIN Only(seq, set) :
              i < j => \E a, b \in DOMAIN seq :
                         a < b /\ seq[a] = Only(seq, set)[i] /\ seq[b] = Only(seq, set)[j]
  <1> DEFINE kept == Only(seq, set)
  <1>1. /\ kept \in Seq(T)
        /\ \A i \in 1..Len(kept) :
             kept[i] \in set /\ \E a \in 1..Len(seq) : seq[a] = kept[i]
        /\ \A a \in 1..Len(seq) : seq[a] \in set => \E i \in 1..Len(kept) : kept[i] = seq[a]
        /\ \A i, j \in 1..Len(kept) :
             i < j => \E a, b \in 1..Len(seq) : a < b /\ seq[a] = kept[i] /\ seq[b] = kept[j]
    <2>1. Keeps(seq, set, Len(seq))
      BY OnlyIs
    <2> QED
      BY <2>1 DEF Keeps, Only
  <1>2. DOMAIN kept = 1..Len(kept) /\ DOMAIN seq = 1..Len(seq)
    BY <1>1
  <1> HIDE DEF kept
  <1>3. ToSet(kept) \subseteq ToSet(seq) \cap set
    <2> SUFFICES ASSUME NEW i \in 1..Len(kept) PROVE kept[i] \in ToSet(seq) \cap set
      BY <1>2 DEF ToSet
    <2> QED
      BY <1>1, <1>2 DEF ToSet
  <1>4. ToSet(seq) \cap set \subseteq ToSet(kept)
    <2> SUFFICES ASSUME NEW a \in 1..Len(seq), seq[a] \in set PROVE seq[a] \in ToSet(kept)
      BY <1>2 DEF ToSet
    <2> QED
      BY <1>1, <1>2 DEF ToSet
  <1>5. ToSet(kept) = ToSet(seq) \cap set
    BY <1>3, <1>4
  <1>6. \A i, j \in DOMAIN kept :
          i < j => \E a, b \in DOMAIN seq : a < b /\ seq[a] = kept[i] /\ seq[b] = kept[j]
    <2> SUFFICES ASSUME NEW i \in DOMAIN kept, NEW j \in DOMAIN kept, i < j
                 PROVE  \E a, b \in DOMAIN seq :
                          a < b /\ seq[a] = kept[i] /\ seq[b] = kept[j]
      OBVIOUS
    <2>1. PICK a \in 1..Len(seq), b \in 1..Len(seq) :
            a < b /\ seq[a] = kept[i] /\ seq[b] = kept[j]
      BY <1>1, <1>2
    <2> QED
      BY <1>2, <2>1
  <1> QED
    BY <1>1, <1>5, <1>6 DEF kept

\* What is kept of distinct scripts is distinct.
LEMMA OnlyDistinct ==
  ASSUME NEW T, NEW seq \in Seq(T), NEW set, Distinct(seq)
  PROVE  Distinct(Only(seq, set))
  <1> DEFINE kept == Only(seq, set)
  <1>1. /\ kept \in Seq(T)
        /\ \A i, j \in DOMAIN kept :
              i < j => \E a, b \in DOMAIN seq : a < b /\ seq[a] = kept[i] /\ seq[b] = kept[j]
    BY OnlyMembers
  <1> HIDE DEF kept
  <1>2. ASSUME NEW i \in DOMAIN kept, NEW j \in DOMAIN kept, i < j, kept[i] = kept[j]
        PROVE  FALSE
    <2>1. PICK a \in DOMAIN seq, b \in DOMAIN seq : a < b /\ seq[a] = kept[i] /\ seq[b] = kept[j]
      BY <1>1, <1>2
    <2> QED
      BY <1>2, <2>1 DEF Distinct
  <1>3. \A i, j \in DOMAIN kept : i = j \/ i < j \/ j < i
    BY <1>1
  <1> QED
    BY <1>2, <1>3 DEF Distinct, kept

\* Every script comes after the one it expects, or that one is known already.
Follows(scripts, known) ==
  \A i \in DOMAIN scripts :
    Expects[scripts[i]] \in Migration =>
      Expects[scripts[i]] \in known \/ \E j \in 1..i : scripts[j] = Expects[scripts[i]]

\* The scripts of a set, sorted, follow those already known.
LEMMA SortedFollow ==
  ASSUME NEW set, NEW known, ~Cyclic(Migration \cap set),
         \A s \in Migration \cap set :
           Expects[s] \in Migration => Expects[s] \in known \cup set
  PROVE  /\ ByDependency(Only(MigrationPaths, set)) \in Seq(Migration)
         /\ ToSet(ByDependency(Only(MigrationPaths, set))) = Migration \cap set
         /\ Follows(ByDependency(Only(MigrationPaths, set)), known)
  <1> DEFINE scripts == Only(MigrationPaths, set)
             sorted == ByDependency(scripts)
  <1>1. scripts \in Seq(STRING) /\ Distinct(scripts) /\ ToSet(scripts) = Migration \cap set
    <2>1. MigrationPaths \in Seq(STRING) /\ Distinct(MigrationPaths)
      BY MigrationAssumption DEF Distinct
    <2> QED
      BY <2>1, OnlyMembers, OnlyDistinct DEF Migration
  <1> HIDE DEF scripts
  <1>2. /\ sorted \in Seq(Migration \cap set) /\ ToSet(sorted) = Migration \cap set
        /\ \A i \in DOMAIN sorted : \A s \in Predecessors(sorted[i], Migration \cap set) :
             \E j \in 1..(i - 1) : sorted[j] = s
    BY <1>1, MigrationsSorted
  <1> HIDE DEF sorted
  <1>3. \A i \in DOMAIN sorted : sorted[i] \in Migration \cap set /\ i \in 1..i
    BY <1>2
  <1>4. sorted \in Seq(Migration)
    <2>1. \A i \in 1..Len(sorted) : sorted[i] \in Migration
      BY <1>2
    <2> QED
      BY <1>2, <2>1
  <1>5. ASSUME NEW i \in DOMAIN sorted, Expects[sorted[i]] \in Migration,
               Expects[sorted[i]] \notin known
        PROVE  \E j \in 1..i : sorted[j] = Expects[sorted[i]]
    <2>1. Expects[sorted[i]] \in Migration \cap set
      BY <1>3, <1>5
    <2>2. CASE Expects[sorted[i]] = sorted[i]
      BY <1>3, <2>2
    <2>3. CASE Expects[sorted[i]] # sorted[i]
      <3>1. Expects[sorted[i]] \in Predecessors(sorted[i], Migration \cap set)
        BY <2>1, <2>3 DEF Predecessors
      <3>2. PICK j \in 1..(i - 1) : sorted[j] = Expects[sorted[i]]
        BY <1>2, <3>1
      <3>3. j \in 1..i
        BY <1>2, <3>2
      <3> QED
        BY <3>2, <3>3
    <2> QED
      BY <2>2, <2>3
  <1> QED
    BY <1>2, <1>4, <1>5 DEF Follows, sorted, scripts

\* What is not refused lies behind the baseline.
LEMMA NotRefused ==
  ASSUME NEW baseline \in Commit, NEW commit \in Commit, ~DirectionRefused(baseline, commit)
  PROVE  baseline \in Past[commit]
  <1> SUFFICES ASSUME baseline \notin Past[commit] PROVE FALSE
    OBVIOUS
  <1>1. baseline # "none" /\ baseline # commit /\ baseline \notin Past[commit] \ {commit}
    BY CommitAssumption, PastAssumption
  <1>2. Direction(baseline, commit) \in {"rollback", "diverged"}
    BY <1>1 DEF Direction
  <1> QED
    BY <1>2 DEF DirectionRefused

\* The migrations of a release lead from the baseline to the commit.
THEOREM MigrationsLead ==
  ASSUME NEW baseline \in Commit, NEW commit \in Commit, NEW branch, NEW force,
         ~Refused(baseline, commit, branch, "game", force)
  PROVE  /\ baseline \in Past[commit]
         /\ Migrations(baseline, commit) \in Seq(Migration)
         /\ ScriptsUpTo(commit) \subseteq
              ScriptsUpTo(baseline) \cup ToSet(Migrations(baseline, commit))
         /\ Follows(Migrations(baseline, commit), ScriptsUpTo(baseline))
  <1> DEFINE set == ChangedPaths(baseline, commit, "game")
  <1>1. baseline \in Past[commit] /\ ~Cyclic(ToSet(ChangedScripts(baseline, commit)))
    BY NotRefused DEF Refused
  <1>2. ToSet(ChangedScripts(baseline, commit)) = Migration \cap set
    BY MigrationAssumption, OnlyMembers DEF ChangedScripts, Migration
  <1>3. set = (UNION {Files[c] : c \in Past[commit] \ Past[baseline]}) \cap RuntimePaths["game"]
    <2>1. Past[baseline] \ Past[commit] = {}
      BY <1>1, PastAssumption
    <2>2. baseline # "none"
      BY CommitAssumption
    <2> QED
      BY <2>1, <2>2 DEF ChangedPaths, Difference
  <1> HIDE DEF set
  <1>4. /\ Past[commit] \subseteq Commit /\ Past[baseline] \subseteq Past[commit]
        /\ \A c \in Past[commit] : Migration \cap Files[c] \subseteq RuntimePaths["game"]
    BY <1>1, PastAssumption, FilesAssumption
  <1>5. ScriptsUpTo(commit) \subseteq ScriptsUpTo(baseline) \cup set
    BY <1>3, <1>4 DEF ScriptsUpTo
  <1>6. Migration \cap set \subseteq ScriptsUpTo(commit)
    BY <1>3, <1>4 DEF ScriptsUpTo
  <1>7. \A s \in Migration \cap set :
          Expects[s] \in Migration => Expects[s] \in ScriptsUpTo(baseline) \cup set
    BY <1>5, <1>6, ExpectsAssumption
  <1>8. ~Cyclic(Migration \cap set)
    BY <1>1, <1>2
  <1>9. Migrations(baseline, commit) = ByDependency(Only(MigrationPaths, set))
    BY DEF Migrations, ChangedScripts, set
  <1>10. ScriptsUpTo(commit) \subseteq Migration
    BY DEF ScriptsUpTo
  <1> QED
    BY <1>1, <1>5, <1>7, <1>8, <1>9, <1>10, SortedFollow

--------------------------------------------------------------------------------
(***************************************************************************)
(* The plans. Most of a plan's steps are of no concern to the invariant.   *)
(* The others have a rank, and every piece of a plan has those that it is  *)
(* to have, in the order of their ranks.                                   *)
(***************************************************************************)

\* The steps that matter, in the order in which every plan has them.
Rank(k) ==
  CASE k = "publish-image" -> 1
    [] k = "stage-game-static-assets" -> 2
    [] k = "backup-game-release" -> 3
    [] k = "codegraph-offline-cutover" -> 4
    [] k = "technology-offline-cutover" -> 5
    [] k = "apply-database-migrations" -> 6
    [] k = "pre-deploy-checklist" -> 7
    [] k = "update-remote-compose" -> 8
    [] k = "pause-meelok-services" -> 9
    [] k = "deploy-stack" -> 10
    [] k = "deploy-forum-compose" -> 11
    [] k = "commit-game-cutover" -> 12
    [] k = "verify-tradepool-release" -> 13
    [] k = "restore-meelok-services" -> 14
    [] k = "accept-game-standby-candidate" -> 15
    [] k = "game-config-compensation" -> 16
    [] k = "game-rollback-decision" -> 17
    [] k = "game-fatal-rollback-decision" -> 18
    [] k = "game-rollback-command" -> 19
    [] OTHER -> 0

\* A step has a key.
Proper(k) == k # ""

\* Of whatever members.
IsSeq(s) == \E S : s \in Seq(S)

\* Those of the marked steps that a sequence has are the given ones, their ranks are
\* above the first number and up to the second, and they come in their order.
Marked(s, marks, low, high) ==
  /\ IsSeq(s)
  /\ \A i \in 1..Len(s) : Proper(s[i]) /\ (Rank(s[i]) # 0 => s[i] \in marks)
  /\ \A k \in marks :
       Rank(k) # 0 /\ low < Rank(k) /\ Rank(k) <= high /\ \E i \in 1..Len(s) : s[i] = k
  /\ \A i, j \in 1..Len(s) :
       i < j /\ Rank(s[i]) # 0 /\ Rank(s[j]) # 0 => Rank(s[i]) < Rank(s[j])

\* Facts about concatenation, for sequences of whatever members.
LEMMA SeqHasLength ==
  ASSUME NEW s, IsSeq(s)
  PROVE  Len(s) \in Nat /\ DOMAIN s = 1..Len(s)
  BY DEF IsSeq

LEMMA ConcatIs ==
  ASSUME NEW s, IsSeq(s), NEW t, IsSeq(t)
  PROVE  /\ IsSeq(s \o t) /\ Len(s \o t) = Len(s) + Len(t)
         /\ \A i \in 1..Len(s) + Len(t) :
              (s \o t)[i] = IF i <= Len(s) THEN s[i] ELSE t[i - Len(s)]
  <1>1. PICK S : s \in Seq(S)
    BY DEF IsSeq
  <1>2. PICK T : t \in Seq(T)
    BY DEF IsSeq
  <1>3. s \in Seq(S \cup T) /\ t \in Seq(S \cup T)
    BY <1>1, <1>2, SeqMonotonic
  <1> QED
    BY <1>3, ConcatProperties DEF IsSeq

LEMMA RankType == \A k : Rank(k) \in Nat
  BY DEF Rank

\* Pieces put together have their marks together.
LEMMA PlainMarked ==
  ASSUME NEW s, IsSeq(s), \A i \in 1..Len(s) : Proper(s[i]) /\ Rank(s[i]) = 0,
         NEW low, NEW high
  PROVE  Marked(s, {}, low, high)
  BY DEF Marked

LEMMA WhenMarked ==
  ASSUME NEW c, NEW s, NEW marks, NEW low, NEW high, Marked(s, marks, low, high)
  PROVE  Marked(When(c, s), IF c THEN marks ELSE {}, low, high)
  <1>1. CASE c
    BY <1>1 DEF When
  <1>2. CASE ~c
    <2>1. When(c, s) = <<>>
      BY <1>2 DEF When
    <2>2. IsSeq(<<>>) /\ \A i \in 1..Len(<<>>) : FALSE
      BY EmptySeq DEF IsSeq
    <2>3. Marked(<<>>, {}, low, high)
      BY <2>2, PlainMarked
    <2> QED
      BY <1>2, <2>1, <2>3
  <1> QED
    BY <1>1, <1>2

LEMMA WiderMarked ==
  ASSUME NEW s, NEW marks, NEW low \in Nat, NEW high \in Nat, Marked(s, marks, low, high),
         NEW l \in Nat, NEW h \in Nat, l <= low, high <= h
  PROVE  Marked(s, marks, l, h)
  <1>1. \A k \in marks : low < Rank(k) /\ Rank(k) <= high
    BY DEF Marked
  <1>2. \A k \in marks : l < Rank(k) /\ Rank(k) <= h
    BY <1>1, RankType
  <1> QED
    BY <1>2 DEF Marked

LEMMA ConcatMarked ==
  ASSUME NEW low \in Nat, NEW mid \in Nat, NEW high \in Nat, low <= mid, mid <= high,
         NEW s, NEW m, Marked(s, m, low, mid), NEW t, NEW n, Marked(t, n, mid, high)
  PROVE  Marked(s \o t, m \cup n, low, high)
  <1> DEFINE u == s \o t
  <1>1. IsSeq(s) /\ IsSeq(t) /\ Len(s) \in Nat /\ Len(t) \in Nat
    <2>1. IsSeq(s)
      BY DEF Marked
    <2>2. IsSeq(t)
      BY DEF Marked
    <2> QED
      BY <2>1, <2>2, SeqHasLength
  <1>2. /\ IsSeq(u) /\ Len(u) = Len(s) + Len(t)
        /\ \A i \in 1..Len(s) + Len(t) : u[i] = IF i <= Len(s) THEN s[i] ELSE t[i - Len(s)]
    BY <1>1, ConcatIs
  <1> HIDE DEF u
  <1>3. /\ \A i \in 1..Len(s) : i \in 1..Len(u) /\ u[i] = s[i]
        /\ \A i \in 1..Len(t) : i + Len(s) \in 1..Len(u) /\ u[i + Len(s)] = t[i]
        /\ \A i \in 1..Len(u) : \/ i \in 1..Len(s)
                                \/ i > Len(s) /\ i - Len(s) \in 1..Len(t) /\ u[i] = t[i - Len(s)]
    <2>1. \A i \in 1..Len(s) : i \in 1..Len(u) /\ u[i] = s[i]
      BY <1>1, <1>2
    <2>2. ASSUME NEW i \in 1..Len(t) PROVE i + Len(s) \in 1..Len(u) /\ u[i + Len(s)] = t[i]
      <3>1. i + Len(s) \in 1..(Len(s) + Len(t)) /\ ~(i + Len(s) <= Len(s))
        BY <1>1
      <3>2. i + Len(s) - Len(s) = i
        BY <1>1
      <3> QED
        BY <1>2, <3>1, <3>2
    <2>3. ASSUME NEW i \in 1..Len(u), i \notin 1..Len(s)
          PROVE  i > Len(s) /\ i - Len(s) \in 1..Len(t) /\ u[i] = t[i - Len(s)]
      BY <1>1, <1>2, <2>3
    <2> QED
      BY <2>1, <2>2, <2>3
  <1>4. /\ \A i \in 1..Len(s) : Proper(s[i]) /\ (Rank(s[i]) # 0 => s[i] \in m)
        /\ \A k \in m : /\ Rank(k) # 0 /\ low < Rank(k) /\ Rank(k) <= mid
                        /\ \E i \in 1..Len(s) : s[i] = k
        /\ \A i, j \in 1..Len(s) :
             i < j /\ Rank(s[i]) # 0 /\ Rank(s[j]) # 0 => Rank(s[i]) < Rank(s[j])
        /\ \A i \in 1..Len(t) : Proper(t[i]) /\ (Rank(t[i]) # 0 => t[i] \in n)
        /\ \A k \in n : /\ Rank(k) # 0 /\ mid < Rank(k) /\ Rank(k) <= high
                        /\ \E i \in 1..Len(t) : t[i] = k
        /\ \A i, j \in 1..Len(t) :
             i < j /\ Rank(t[i]) # 0 /\ Rank(t[j]) # 0 => Rank(t[i]) < Rank(t[j])
    BY DEF Marked
  <1>5. \A i \in 1..Len(u) : Proper(u[i]) /\ (Rank(u[i]) # 0 => u[i] \in m \cup n)
    <2> SUFFICES ASSUME NEW i \in 1..Len(u)
                 PROVE  Proper(u[i]) /\ (Rank(u[i]) # 0 => u[i] \in m \cup n)
      OBVIOUS
    <2>1. CASE i \in 1..Len(s)
      BY <1>3, <1>4, <2>1
    <2>2. CASE i - Len(s) \in 1..Len(t) /\ u[i] = t[i - Len(s)]
      BY <1>4, <2>2
    <2> QED
      BY <1>3, <2>1, <2>2
  <1>6. ASSUME NEW k \in m \cup n
        PROVE  Rank(k) # 0 /\ low < Rank(k) /\ Rank(k) <= high /\ \E i \in 1..Len(u) : u[i] = k
    <2>1. CASE k \in m
      <3>1. PICK i \in 1..Len(s) : s[i] = k
        BY <1>4, <2>1
      <3>2. i \in 1..Len(u) /\ u[i] = k
        BY <1>3, <3>1
      <3>3. Rank(k) # 0 /\ low < Rank(k) /\ Rank(k) <= high
        <4>1. Rank(k) # 0 /\ low < Rank(k) /\ Rank(k) <= mid
          BY <1>4, <2>1
        <4> QED
          BY <4>1, RankType
      <3> QED
        BY <3>2, <3>3
    <2>2. CASE k \in n
      <3>1. PICK i \in 1..Len(t) : t[i] = k
        BY <1>4, <2>2
      <3>2. i + Len(s) \in 1..Len(u) /\ u[i + Len(s)] = k
        BY <1>3, <3>1
      <3>3. Rank(k) # 0 /\ low < Rank(k) /\ Rank(k) <= high
        <4>1. Rank(k) # 0 /\ mid < Rank(k) /\ Rank(k) <= high
          BY <1>4, <2>2
        <4> QED
          BY <4>1, RankType
      <3> QED
        BY <3>2, <3>3
    <2> QED
      BY <2>1, <2>2
  <1>7. ASSUME NEW i \in 1..Len(u), NEW j \in 1..Len(u),
               i < j, Rank(u[i]) # 0, Rank(u[j]) # 0
        PROVE  Rank(u[i]) < Rank(u[j])
    <2>1. CASE j \in 1..Len(s)
      <3>1. i \in 1..Len(s)
        BY <1>7, <2>1
      <3>2. u[i] = s[i] /\ u[j] = s[j]
        BY <1>3, <2>1, <3>1
      <3> QED
        BY <1>4, <1>7, <2>1, <3>1, <3>2
    <2>2. CASE i \in 1..Len(s) /\ j \notin 1..Len(s)
      <3>1. u[i] \in m
        BY <1>3, <1>4, <1>7, <2>2
      <3>2. u[j] \in n
        <4>1. j - Len(s) \in 1..Len(t) /\ u[j] = t[j - Len(s)]
          BY <1>3, <2>2
        <4> QED
          BY <1>4, <1>7, <4>1
      <3>3. Rank(u[i]) <= mid /\ mid < Rank(u[j])
        BY <1>4, <3>1, <3>2
      <3> QED
        BY <3>3, RankType
    <2>3. CASE i \notin 1..Len(s)
      <3> DEFINE a == i - Len(s)
                 b == j - Len(s)
      <3>1. a \in 1..Len(t) /\ u[i] = t[a]
        BY <1>3, <2>3
      <3>2. j \notin 1..Len(s)
        BY <1>7, <2>3
      <3>3. b \in 1..Len(t) /\ u[j] = t[b]
        BY <1>3, <3>2
      <3>4. a < b
        BY <1>1, <1>7
      <3> HIDE DEF a, b
      <3> QED
        BY <1>4, <1>7, <3>1, <3>3, <3>4
    <2> QED
      BY <2>1, <2>2, <2>3
  <1> QED
    BY <1>2, <1>5, <1>6, <1>7 DEF Marked, u

\* What is left of a plan is in its order as well.
LEMMA OnlyMarked ==
  ASSUME NEW s, NEW marks, NEW low \in Nat, NEW high \in Nat, Marked(s, marks, low, high),
         NEW out
  PROVE  Marked(Only(s, ToSet(s) \ out), marks \ out, low, high)
  <1> DEFINE set == ToSet(s) \ out
             kept == Only(s, set)
  <1>0. PICK S : s \in Seq(S)
    BY DEF Marked, IsSeq
  <1>1. DOMAIN s = 1..Len(s)
    BY <1>0
  <1>2. /\ IsSeq(kept)
        /\ \A i \in 1..Len(kept) : kept[i] \in set
        /\ \A k \in set : \E i \in 1..Len(kept) : kept[i] = k
        /\ \A i, j \in 1..Len(kept) :
             i < j => \E a, b \in 1..Len(s) : a < b /\ s[a] = kept[i] /\ s[b] = kept[j]
    <2>1. Keeps(s, set, Len(s))
      BY <1>0, OnlyIs
    <2>2. \A k \in set : \E a \in 1..Len(s) : s[a] = k
      BY <1>1 DEF ToSet
    <2> HIDE DEF set
    <2>3. IsSeq(kept)
      BY <1>0, <2>1 DEF Keeps, Only, IsSeq
    <2>4. \A i \in 1..Len(kept) : kept[i] \in set
      BY <2>1 DEF Keeps, Only
    <2>5. \A a \in 1..Len(s) : s[a] \in set => \E i \in 1..Len(kept) : kept[i] = s[a]
      BY <2>1 DEF Keeps, Only
    <2>6. \A i, j \in 1..Len(kept) :
            i < j => \E a, b \in 1..Len(s) : a < b /\ s[a] = kept[i] /\ s[b] = kept[j]
      BY <2>1 DEF Keeps, Only
    <2>7. ASSUME NEW k \in set PROVE \E i \in 1..Len(kept) : kept[i] = k
      <3>1. PICK a \in 1..Len(s) : s[a] = k
        BY <2>2
      <3> HIDE DEF kept
      <3> QED
        BY <2>5, <3>1
    <2> HIDE DEF kept
    <2> QED
      BY <2>3, <2>4, <2>6, <2>7
  <1> HIDE DEF kept
  <1>3. ASSUME NEW i \in 1..Len(kept)
        PROVE  Proper(kept[i]) /\ (Rank(kept[i]) # 0 => kept[i] \in marks \ out)
    <2>1. kept[i] \in ToSet(s) /\ kept[i] \notin out
      BY <1>2
    <2>2. PICK a \in 1..Len(s) : s[a] = kept[i]
      BY <1>1, <2>1 DEF ToSet
    <2> QED
      BY <2>1, <2>2 DEF Marked
  <1>4. ASSUME NEW k \in marks \ out
        PROVE  /\ Rank(k) # 0 /\ low < Rank(k) /\ Rank(k) <= high
               /\ \E i \in 1..Len(kept) : kept[i] = k
    <2>1. PICK a \in 1..Len(s) : s[a] = k
      BY DEF Marked
    <2>2. k \in set
      BY <1>1, <2>1 DEF ToSet
    <2> QED
      BY <1>2, <2>2 DEF Marked
  <1>5. ASSUME NEW i \in 1..Len(kept), NEW j \in 1..Len(kept),
               i < j, Rank(kept[i]) # 0, Rank(kept[j]) # 0
        PROVE  Rank(kept[i]) < Rank(kept[j])
    <2>1. PICK a \in 1..Len(s), b \in 1..Len(s) : a < b /\ s[a] = kept[i] /\ s[b] = kept[j]
      BY <1>2, <1>5
    <2> QED
      BY <1>5, <2>1 DEF Marked
  <1> QED
    BY <1>2, <1>3, <1>4, <1>5 DEF Marked, kept

\* The step comes in front of the first of the keys.
LEMMA SpliceOf ==
  ASSUME NEW S, NEW s \in Seq(S), NEW t \in Seq(S), t # <<>>, NEW e \in S, NEW keys,
         \A i \in 1..Len(s) : s[i] \notin keys, t[1] \in keys
  PROVE  Splice(s \o t, e, keys) = (s \o <<e>>) \o t
  <1> DEFINE u == s \o t
             Found == {i \in 1..Len(u) : u[i] \in keys}
             n == Len(s) + 1
  <1>1. Len(t) \in Nat \ {0} /\ Len(s) \in Nat
    BY EmptySeq
  <1>2. /\ u \in Seq(S) /\ Len(u) = Len(s) + Len(t)
        /\ \A i \in 1..Len(s) + Len(t) : u[i] = IF i <= Len(s) THEN s[i] ELSE t[i - Len(s)]
    BY ConcatProperties
  <1> HIDE DEF u
  <1>3. Found # {} /\ Found \in SUBSET Nat /\ n \in Found
    <2>1. n \in 1..Len(u) /\ u[n] = t[1]
      <3>1. n \in 1..(Len(s) + Len(t)) /\ ~(n <= Len(s)) /\ n - Len(s) = 1
        BY <1>1
      <3> QED
        BY <1>2, <3>1
    <2>2. n \in Found
      BY <2>1
    <2>3. Len(u) \in Nat
      BY <1>1, <1>2
    <2>4. Found \subseteq Nat
      BY <2>3
    <2> HIDE DEF Found
    <2> QED
      BY <2>2, <2>4
  <1>4. \A i \in Found : n <= i
    <2> SUFFICES ASSUME NEW i \in 1..Len(u), u[i] \in keys PROVE n <= i
      OBVIOUS
    <2>1. i \in 1..Len(s) => u[i] = s[i]
      BY <1>1, <1>2
    <2> QED
      BY <1>1, <1>2, <2>1
  <1> HIDE DEF Found
  <1>5. Min(Found) = n
    <2>1. Min(Found) \in Found /\ \A i \in Found : Min(Found) <= i
      BY <1>3, MinIsLeast
    <2>2. Min(Found) <= n /\ n <= Min(Found) /\ Min(Found) \in Nat /\ n \in Nat
      BY <1>1, <1>3, <1>4, <2>1
    <2> QED
      BY <2>2
  <1>6. Splice(u, e, keys) = InsertAt(u, n, e)
    BY <1>3, <1>5 DEF Splice, SelectInSeq, Found
  <1>7. SubSeq(u, 1, n - 1) = s
    <2>1. \A i \in 1..Len(s) : u[i] = s[i]
      BY <1>1, <1>2
    <2>2. \A i \in 1..(n - 1) : u[i] \in S
      BY <1>1, <2>1
    <2>3. /\ SubSeq(u, 1, n - 1) \in Seq(S)
          /\ Len(SubSeq(u, 1, n - 1)) = IF 1 <= n - 1 THEN n - 1 - 1 + 1 ELSE 0
          /\ \A i \in 1..(n - 1 - 1 + 1) : SubSeq(u, 1, n - 1)[i] = u[1 + i - 1]
      <3>1. 1 \in Int /\ n - 1 \in Int
        BY <1>1
      <3> QED
        BY <2>2, <3>1, SubSeqProperties
    <2>4. Len(SubSeq(u, 1, n - 1)) = Len(s)
      BY <1>1, <2>3
    <2>5. \A i \in 1..Len(s) : SubSeq(u, 1, n - 1)[i] = s[i]
      <3> SUFFICES ASSUME NEW i \in 1..Len(s) PROVE SubSeq(u, 1, n - 1)[i] = s[i]
        OBVIOUS
      <3>1. i \in 1..(n - 1 - 1 + 1) /\ 1 + i - 1 = i
        BY <1>1
      <3> QED
        BY <2>1, <2>3, <3>1
    <2> QED
      BY <2>3, <2>4, <2>5, SeqEqual
  <1>8. SubSeq(u, n, Len(u)) = t
    <2>1. \A i \in 1..Len(t) : u[n + i - 1] = t[i]
      BY <1>1, <1>2
    <2>2. \A i \in n..Len(u) : u[i] \in S
      BY <1>1, <1>2
    <2>3. /\ SubSeq(u, n, Len(u)) \in Seq(S)
          /\ Len(SubSeq(u, n, Len(u))) = IF n <= Len(u) THEN Len(u) - n + 1 ELSE 0
          /\ \A i \in 1..(Len(u) - n + 1) : SubSeq(u, n, Len(u))[i] = u[n + i - 1]
      <3>1. n \in Int /\ Len(u) \in Int
        BY <1>1, <1>2
      <3> QED
        BY <2>2, <3>1, SubSeqProperties
    <2>4. Len(SubSeq(u, n, Len(u))) = Len(t) /\ Len(u) - n + 1 = Len(t)
      BY <1>1, <1>2, <2>3
    <2>5. \A i \in 1..Len(t) : SubSeq(u, n, Len(u))[i] = t[i]
      BY <2>1, <2>3, <2>4
    <2> QED
      BY <2>3, <2>4, <2>5, SeqEqual
  <1> QED
    BY <1>6, <1>7, <1>8 DEF InsertAt, u
LEMMA SpliceIs ==
  ASSUME NEW s, IsSeq(s), NEW t, IsSeq(t), t # <<>>, NEW e, NEW keys,
         \A i \in 1..Len(s) : s[i] \notin keys, t[1] \in keys
  PROVE  Splice(s \o t, e, keys) = (s \o <<e>>) \o t
  <1>1. PICK S : s \in Seq(S)
    BY DEF IsSeq
  <1>2. PICK T : t \in Seq(T)
    BY DEF IsSeq
  <1> DEFINE U == (S \cup T) \cup {e}
  <1>3. s \in Seq(U) /\ t \in Seq(U) /\ e \in U
    BY <1>1, <1>2, SeqMonotonic
  <1> HIDE DEF U
  <1> QED
    BY <1>3, SpliceOf

LEMMA Associative ==
  ASSUME NEW s, IsSeq(s), NEW t, IsSeq(t), NEW u, IsSeq(u)
  PROVE  (s \o t) \o u = s \o (t \o u)
  <1>1. PICK S : s \in Seq(S)
    BY DEF IsSeq
  <1>2. PICK T : t \in Seq(T)
    BY DEF IsSeq
  <1>3. PICK U : u \in Seq(U)
    BY DEF IsSeq
  <1> DEFINE V == (S \cup T) \cup U
  <1>4. s \in Seq(V) /\ t \in Seq(V) /\ u \in Seq(V)
    BY <1>1, <1>2, <1>3, SeqMonotonic
  <1> HIDE DEF V
  <1> QED
    BY <1>4, ConcatAssociative

LEMMA FirstOf ==
  ASSUME NEW s, IsSeq(s), Len(s) # 0, NEW t, IsSeq(t)
  PROVE  (s \o t)[1] = s[1] /\ Len(s \o t) # 0
  <1>1. Len(s) \in Nat /\ Len(t) \in Nat
    BY SeqHasLength
  <1>2. 1 \in 1..Len(s) + Len(t) /\ 1 <= Len(s)
    BY <1>1
  <1> QED
    BY <1>1, <1>2, ConcatIs

\* A piece that is not to have any of the keys.
LEMMA Absent ==
  ASSUME NEW s, NEW marks, NEW low, NEW high, Marked(s, marks, low, high),
         NEW keys, \A k \in keys : Rank(k) # 0 /\ k \notin marks
  PROVE  \A i \in 1..Len(s) : s[i] \notin keys
  BY DEF Marked

\* What a release, its request and its entry consist of.
Entries == [target : Targets, commit : Commit \cup {"none"}, stack : BOOLEAN,
            status : {"EXECUTED", "ERROR", "RECOVERY_REQUIRED", "INTERRUPTED", "ROLLED_BACK"},
            done : SUBSET Recorded, witness : Commit \cup {"none"}]

Requests == [target : Targets, stack : BOOLEAN, standby : BOOLEAN, reuse : BOOLEAN,
             assessed : BOOLEAN, checks : SUBSET STRING, migrations : Seq(Migration)]

Releases(plan) ==
  [running : {TRUE}, request : Requests, commit : Commit, steps : {plan}, next : Nat, applied : Nat,
   start : [service : Commit, spec : Commit, compose : Commit, settings : BOOLEAN]]

\* What production consists of, and the marks of the recovery boundaries.
Floors == {"technology", "room", "codegraph"}
Productions == [service : Commit, spec : Commit, previous : Commit, compose : Commit,
                settings : BOOLEAN, migrated : Seq(Migration), writers : BOOLEAN,
                floors : SUBSET Floors, dump : Seq(Migration), loaded : SUBSET Commit,
                staged : SUBSET Commit,
                backup : [service : Commit, spec : Commit, compose : Commit],
                forum : Commit \cup {"none", "other"}]

\* None of the marked steps.
Unmarked(k) == Proper(k) /\ Rank(k) = 0

\* A piece of nothing else.
Plain(s) == IsSeq(s) /\ \A i \in 1..Len(s) : Unmarked(s[i])

LEMMA PlainIsMarked ==
  ASSUME NEW s, Plain(s), NEW low, NEW high
  PROVE  Marked(s, {}, low, high)
  BY PlainMarked DEF Plain, Unmarked

LEMMA PlainConcat ==
  ASSUME NEW s, Plain(s), NEW t, Plain(t)
  PROVE  Plain(s \o t)
  <1> DEFINE u == s \o t
  <1>1. IsSeq(s) /\ IsSeq(t) /\ Len(s) \in Nat /\ Len(t) \in Nat
    BY SeqHasLength DEF Plain
  <1>2. /\ IsSeq(u) /\ Len(u) = Len(s) + Len(t)
        /\ \A i \in 1..Len(s) + Len(t) : u[i] = IF i <= Len(s) THEN s[i] ELSE t[i - Len(s)]
    BY <1>1, ConcatIs
  <1> HIDE DEF u
  <1>3. ASSUME NEW i \in 1..Len(u) PROVE Unmarked(u[i])
    <2>1. CASE i <= Len(s)
      <3>1. i \in 1..Len(s) /\ u[i] = s[i]
        BY <1>1, <1>2, <2>1
      <3> QED
        BY <3>1 DEF Plain
    <2>2. CASE ~(i <= Len(s))
      <3>1. i - Len(s) \in 1..Len(t) /\ u[i] = t[i - Len(s)]
        BY <1>1, <1>2, <2>2
      <3> QED
        BY <3>1 DEF Plain
    <2> QED
      BY <2>1, <2>2
  <1> QED
    BY <1>2, <1>3 DEF Plain, u

LEMMA PlainEmpty == Plain(<<>>)
  <1>1. IsSeq(<<>>) /\ \A i \in 1..Len(<<>>) : FALSE
    BY EmptySeq DEF IsSeq
  <1> QED
    BY <1>1 DEF Plain

LEMMA PlainWhen ==
  ASSUME NEW c, NEW s, Plain(s)
  PROVE  Plain(When(c, s))
  BY PlainEmpty DEF When

LEMMA TuplesAre ==
  \A S : \A a, b, c \in S :
    /\ <<a>> \in Seq(S) /\ Len(<<a>>) = 1
    /\ <<a, b>> \in Seq(S) /\ Len(<<a, b>>) = 2
    /\ <<a, b, c>> \in Seq(S) /\ Len(<<a, b, c>>) = 3
  OBVIOUS

LEMMA PlainTuples ==
  \A a, b, c :
    /\ Unmarked(a) => Plain(<<a>>)
    /\ Unmarked(a) /\ Unmarked(b) => Plain(<<a, b>>)
    /\ Unmarked(a) /\ Unmarked(b) /\ Unmarked(c) => Plain(<<a, b, c>>)
  <1> TAKE a, b, c
  <1>1. a \in {a, b, c} /\ b \in {a, b, c} /\ c \in {a, b, c}
    OBVIOUS
  <1>2. /\ IsSeq(<<a>>) /\ Len(<<a>>) = 1
        /\ IsSeq(<<a, b>>) /\ Len(<<a, b>>) = 2
        /\ IsSeq(<<a, b, c>>) /\ Len(<<a, b, c>>) = 3
    BY <1>1, TuplesAre DEF IsSeq
  <1> QED
    BY <1>2 DEF Plain

\* The steps that have a rank.
Marks == {"publish-image", "stage-game-static-assets", "backup-game-release",
          "codegraph-offline-cutover", "technology-offline-cutover", "apply-database-migrations",
          "pre-deploy-checklist", "update-remote-compose", "pause-meelok-services",
          "deploy-stack", "deploy-forum-compose", "commit-game-cutover",
          "verify-tradepool-release", "restore-meelok-services",
          "accept-game-standby-candidate", "game-config-compensation",
          "game-rollback-decision", "game-fatal-rollback-decision", "game-rollback-command"}

\* The steps of no concern.
LEMMA UnmarkedSteps ==
  \A k \in {
    "git-status-before-update", "validate-release-input",
    "validate-game-static-delivery-prerequisites", "game-meelok-readiness",
    "validate-game-release-resources", "git-fetch", "git-update", "capture-release-commit",
    "validate-release-impact-checklist", "validate-game-sso-source",
    "install-game-release-node-dependencies", "validate-game-release-preflight",
    "test-game-backend", "build-image", "build-game-static-assets", "validate-game-image",
    "verify-game-tomcat-image", "resolve-ssh-target", "game-prd2-migration-readiness",
    "game-steam-preflight", "read-remote-compose", "game-database-preflight",
    "validate-game-database-migration-compatibility", "validate-game-startup-contract",
    "verify-game-static-assets-predeploy", "verify-codegraph-prerequisites",
    "final-runtime-check", "verify-game-tomcat-runtime", "game-prd2-runtime-contract",
    "verify-game-steam-runtime", "verify-game-emergency-guard-runtime",
    "verify-game-smtp-sender", "verify-game-static-delivery", "verify-relations-release",
    "retire-design-image-settings-file", "cleanup-game-release-containers",
    "verify-game-standby-candidate", "validate-existing-forum-image", "validate-forum-source",
    "validate-forum-image", "forum-preflight", "backup-forum-release",
    "forum-rollback-command"} : Unmarked(k)
  <1>1. \A k : k \notin Marks => Rank(k) = 0
    BY DEF Marks, Rank
  <1>2. \A k : k \notin Marks /\ k # "" => Unmarked(k)
    BY <1>1 DEF Unmarked, Proper
  <1> QED
    BY <1>2, ZenonT(60) DEF Marks

\* Of the checks on the publisher's machine none is marked.
LEMMA EvidencePlain ==
  ASSUME NEW p
  PROVE  Plain(RequiredEvidence(p))
  <1> DEFINE evidence == {
    "verify-game-epidemic-flow", "verify-game-medical-contest-entry",
    "verify-game-client-fingerprint", "verify-game-hospital-skin-fallback",
    "verify-game-void-rewards", "verify-game-doorplate-ui", "verify-bacteria-result-ui",
    "verify-bacteria-entry-style", "verify-toilet-market",
    "verify-bacteria-authoritative-challenges", "verify-bacteria-gates", "verify-game-loading",
    "verify-hospital-hud", "verify-bacteria-ranking", "verify-game-fault-reports",
    "verify-bacteria-region-covers", "verify-game-steam-auth",
    "verify-game-special-clinic-atlas", "verify-design-level-packages",
    "verify-game-potion-lab", "verify-game-emergency-guard"}
  <1>1. ToSet(LocalEvidence) = evidence
    BY DEF ToSet, LocalEvidence
  <1>2. \A k \in evidence : Unmarked(k)
    <2>1. \A k : k \notin Marks => Rank(k) = 0
      BY DEF Marks, Rank
    <2> QED
      BY <2>1 DEF Unmarked, Proper, Marks
  <1> HIDE DEF evidence
  <1>3. LocalEvidence \in Seq(evidence)
    <2>1. LocalEvidence = [i \in 1..21 |-> LocalEvidence[i]] /\ DOMAIN LocalEvidence = 1..21
      BY DEF LocalEvidence
    <2>2. \A i \in 1..21 : LocalEvidence[i] \in evidence
      BY <1>1, <2>1 DEF ToSet
    <2>3. LocalEvidence \in [1..21 -> evidence]
      BY <2>1, <2>2
    <2> QED
      BY <2>3, SeqDef
  <1> DEFINE kept == Only(LocalEvidence, p.checks)
  <1>4. kept \in Seq(evidence) /\ ToSet(kept) \subseteq evidence
    BY <1>1, <1>3, OnlyMembers
  <1> HIDE DEF kept
  <1>5. \A i \in 1..Len(kept) : kept[i] \in evidence
    <2>1. \A i \in 1..Len(kept) : kept[i] \in ToSet(kept)
      BY <1>4 DEF ToSet
    <2> QED
      BY <1>4, <2>1
  <1> QED
    BY <1>2, <1>4, <1>5 DEF Plain, IsSeq, RequiredEvidence, kept

\* Nor is anything before the upload.
LEMMA PreparationPlain ==
  ASSUME NEW p \in Requests
  PROVE  Plain(SourceSteps(p) \o EvidenceSteps(p) \o BuildSteps(p))
  <1>1. /\ p.stack \in BOOLEAN /\ p.assessed \in BOOLEAN
    BY DEF Requests
  <1>2. Plain(SourceSteps(p))
    <2>1. Plain(<<"git-status-before-update", "validate-release-input",
                  "validate-game-static-delivery-prerequisites">>)
      BY PlainTuples, UnmarkedSteps
    <2>2. Plain(<<"game-meelok-readiness">>)
      BY PlainTuples, UnmarkedSteps
    <2>3. Plain(<<"validate-game-release-resources">>)
      BY PlainTuples, UnmarkedSteps
    <2>4. Plain(<<"git-fetch", "git-update", "capture-release-commit">>)
      BY PlainTuples, UnmarkedSteps
    <2>5. Plain(<<"validate-release-impact-checklist">>)
      BY PlainTuples, UnmarkedSteps
    <2>6. Plain(<<"validate-game-sso-source">>)
      BY PlainTuples, UnmarkedSteps
    <2> QED
      BY <1>1, <2>1, <2>2, <2>3, <2>4, <2>5, <2>6, PlainConcat, PlainWhen DEF SourceSteps
  <1>3. Plain(EvidenceSteps(p))
    <2>1. Plain(<<"install-game-release-node-dependencies", "validate-game-release-preflight">>)
      BY PlainTuples, UnmarkedSteps
    <2>2. Plain(<<"test-game-backend">>)
      BY PlainTuples, UnmarkedSteps
    <2> QED
      BY <2>1, <2>2, EvidencePlain, PlainConcat, PlainWhen DEF EvidenceSteps
  <1>4. Plain(BuildSteps(p))
    <2>1. Plain(<<"build-image", "build-game-static-assets", "validate-game-image">>)
      BY PlainTuples, UnmarkedSteps
    <2>2. Plain(<<"verify-game-tomcat-image">>)
      BY PlainTuples, UnmarkedSteps
    <2> QED
      BY <2>1, <2>2, PlainConcat, PlainEmpty DEF BuildSteps, When
  <1> QED
    BY <1>2, <1>3, <1>4, PlainConcat

\* The ranks, one by one.
LEMMA RanksAre ==
  /\ Rank("publish-image") = 1 /\ Rank("stage-game-static-assets") = 2
  /\ Rank("backup-game-release") = 3 /\ Rank("codegraph-offline-cutover") = 4
  /\ Rank("technology-offline-cutover") = 5 /\ Rank("apply-database-migrations") = 6
  /\ Rank("pre-deploy-checklist") = 7 /\ Rank("update-remote-compose") = 8
  /\ Rank("pause-meelok-services") = 9 /\ Rank("deploy-stack") = 10
  /\ Rank("deploy-forum-compose") = 11 /\ Rank("commit-game-cutover") = 12
  /\ Rank("verify-tradepool-release") = 13 /\ Rank("restore-meelok-services") = 14
  /\ Rank("accept-game-standby-candidate") = 15 /\ Rank("game-config-compensation") = 16
  /\ Rank("game-rollback-decision") = 17 /\ Rank("game-fatal-rollback-decision") = 18
  /\ Rank("game-rollback-command") = 19
  /\ Proper("publish-image") /\ Proper("stage-game-static-assets")
  /\ Proper("backup-game-release") /\ Proper("codegraph-offline-cutover")
  /\ Proper("technology-offline-cutover") /\ Proper("apply-database-migrations")
  /\ Proper("pre-deploy-checklist") /\ Proper("update-remote-compose")
  /\ Proper("pause-meelok-services") /\ Proper("deploy-stack") /\ Proper("deploy-forum-compose")
  /\ Proper("commit-game-cutover") /\ Proper("verify-tradepool-release")
  /\ Proper("restore-meelok-services") /\ Proper("accept-game-standby-candidate")
  /\ Proper("game-rollback-command")
  /\ Proper("game-config-compensation") /\ Proper("game-rollback-decision")
  /\ Proper("game-fatal-rollback-decision")
  BY DEF Rank, Proper

LEMMA MarkedOne ==
  ASSUME NEW k, Proper(k), NEW low \in Nat, NEW high \in Nat, low < Rank(k), Rank(k) <= high
  PROVE  Marked(<<k>>, {k}, low, high)
  <1>1. IsSeq(<<k>>) /\ Len(<<k>>) = 1 /\ <<k>>[1] = k
    BY TuplesAre DEF IsSeq
  <1>2. \A i \in 1..1 : i = 1
    OBVIOUS
  <1>3. Rank(k) # 0 /\ 1 \in 1..1
    BY RankType
  <1> QED
    BY <1>1, <1>2, <1>3 DEF Marked

LEMMA MarkedThree ==
  ASSUME NEW a, NEW b, NEW c, Proper(a), Proper(b), Proper(c), NEW low \in Nat, NEW high \in Nat,
         NEW marks \in SUBSET {a, b, c},
         \A k \in {a, b, c} : Rank(k) # 0 => k \in marks,
         \A k \in marks : low < Rank(k) /\ Rank(k) <= high,
         Rank(a) # 0 /\ Rank(b) # 0 => Rank(a) < Rank(b),
         Rank(a) # 0 /\ Rank(c) # 0 => Rank(a) < Rank(c),
         Rank(b) # 0 /\ Rank(c) # 0 => Rank(b) < Rank(c)
  PROVE  Marked(<<a, b, c>>, marks, low, high)
  <1> DEFINE s == <<a, b, c>>
  <1>1. IsSeq(s) /\ Len(s) = 3 /\ s[1] = a /\ s[2] = b /\ s[3] = c
    BY TuplesAre DEF IsSeq
  <1> HIDE DEF s
  <1>2. \A i \in 1..3 : i = 1 \/ i = 2 \/ i = 3
    OBVIOUS
  <1>3. 1 \in 1..3 /\ 2 \in 1..3 /\ 3 \in 1..3
    OBVIOUS
  <1>4. \A i \in 1..3 : Proper(s[i]) /\ (Rank(s[i]) # 0 => s[i] \in marks)
    BY <1>1, <1>2
  <1>5. \A k \in marks : Rank(k) # 0 /\ low < Rank(k) /\ Rank(k) <= high /\ \E i \in 1..3 : s[i] = k
    <2>1. \A k \in marks : \E i \in 1..3 : s[i] = k
      BY <1>1, <1>3
    <2> QED
      BY <2>1, RankType
  <1>6. \A i, j \in 1..3 : i < j /\ Rank(s[i]) # 0 /\ Rank(s[j]) # 0 => Rank(s[i]) < Rank(s[j])
    <2> SUFFICES ASSUME NEW i \in 1..3, NEW j \in 1..3, i < j, Rank(s[i]) # 0, Rank(s[j]) # 0
                 PROVE  Rank(s[i]) < Rank(s[j])
      OBVIOUS
    <2>1. (i = 1 /\ j = 2) \/ (i = 1 /\ j = 3) \/ (i = 2 /\ j = 3)
      OBVIOUS
    <2> QED
      BY <1>1, <2>1
  <1> QED
    BY <1>1, <1>4, <1>5, <1>6 DEF Marked, s

\* The pieces of a game release.
LEMMA UploadMarked ==
  ASSUME NEW p
  PROVE  Marked(UploadSteps(p), {"publish-image", "stage-game-static-assets",
                                 "backup-game-release"}, 0, 3)
  <1>1. Marked(<<"publish-image">>, {"publish-image"}, 0, 1)
    BY MarkedOne, RanksAre
  <1>2. Marked(When(StartupContract, <<"validate-game-startup-contract">>), {}, 1, 1)
    BY PlainTuples, UnmarkedSteps, PlainWhen, PlainIsMarked
  <1>3. Marked(<<"stage-game-static-assets", "verify-game-static-assets-predeploy",
                 "backup-game-release">>,
               {"stage-game-static-assets", "backup-game-release"}, 1, 3)
    BY MarkedThree, RanksAre, UnmarkedSteps DEF Unmarked
  <1>4. Marked(<<"publish-image">>
                 \o When(StartupContract, <<"validate-game-startup-contract">>),
               {"publish-image"} \cup {}, 0, 1)
    BY <1>1, <1>2, ConcatMarked
  <1>5. Marked(UploadSteps(p),
               ({"publish-image"} \cup {}) \cup
                 {"stage-game-static-assets", "backup-game-release"}, 0, 3)
    BY <1>3, <1>4, ConcatMarked DEF UploadSteps
  <1> HIDE DEF UploadSteps
  <1>6. ({"publish-image"} \cup {}) \cup {"stage-game-static-assets", "backup-game-release"}
          = {"publish-image", "stage-game-static-assets", "backup-game-release"}
    OBVIOUS
  <1> QED
    BY <1>5, <1>6

LEMMA MarkedTwo ==
  ASSUME NEW a, NEW b, Proper(a), Proper(b), NEW low \in Nat, NEW high \in Nat,
         NEW marks \in SUBSET {a, b},
         \A k \in {a, b} : Rank(k) # 0 => k \in marks,
         \A k \in marks : low < Rank(k) /\ Rank(k) <= high,
         Rank(a) # 0 /\ Rank(b) # 0 => Rank(a) < Rank(b)
  PROVE  Marked(<<a, b>>, marks, low, high)
  <1> DEFINE s == <<a, b>>
  <1>1. IsSeq(s) /\ Len(s) = 2 /\ s[1] = a /\ s[2] = b
    BY TuplesAre DEF IsSeq
  <1> HIDE DEF s
  <1>2. (\A i \in 1..2 : i = 1 \/ i = 2) /\ 1 \in 1..2 /\ 2 \in 1..2
    OBVIOUS
  <1>3. \A i \in 1..2 : Proper(s[i]) /\ (Rank(s[i]) # 0 => s[i] \in marks)
    BY <1>1, <1>2
  <1>4. \A k \in marks : Rank(k) # 0 /\ low < Rank(k) /\ Rank(k) <= high /\ \E i \in 1..2 : s[i] = k
    <2>1. \A k \in marks : \E i \in 1..2 : s[i] = k
      BY <1>1, <1>2
    <2> QED
      BY <2>1, RankType
  <1>5. \A i, j \in 1..2 : i < j /\ Rank(s[i]) # 0 /\ Rank(s[j]) # 0 => Rank(s[i]) < Rank(s[j])
    <2> SUFFICES ASSUME NEW i \in 1..2, NEW j \in 1..2, i < j, Rank(s[i]) # 0, Rank(s[j]) # 0
                 PROVE  Rank(s[i]) < Rank(s[j])
      OBVIOUS
    <2>1. i = 1 /\ j = 2
      OBVIOUS
    <2> QED
      BY <1>1, <2>1
  <1> QED
    BY <1>1, <1>3, <1>4, <1>5 DEF Marked, s

LEMMA AdmissionPlain ==
  ASSUME NEW p
  PROVE  Plain(AdmissionSteps(p))
  <1>1. Plain(<<"resolve-ssh-target">>) /\ Plain(<<"game-prd2-migration-readiness">>)
    BY PlainTuples, UnmarkedSteps
  <1>2. Plain(<<"game-steam-preflight">>)
    BY PlainTuples, UnmarkedSteps
  <1>3. Plain(<<"read-remote-compose", "game-database-preflight">>)
    BY PlainTuples, UnmarkedSteps
  <1>4. Plain(<<"validate-game-database-migration-compatibility">>)
    BY PlainTuples, UnmarkedSteps
  <1> QED
    BY <1>1, <1>2, <1>3, <1>4, PlainConcat, PlainEmpty DEF AdmissionSteps, When

\* The marked steps of the piece that migrates.
CutoverMarks(migrations) ==
  (IF CodegraphCutover(migrations) THEN {"codegraph-offline-cutover"} ELSE {})
  \cup (IF TechnologyCutover(migrations) /\ ~CodegraphCutover(migrations)
        THEN {"technology-offline-cutover"} ELSE {})

MigrationMarks(migrations) ==
  (CutoverMarks(migrations)
     \cup IF migrations # <<>> THEN {"apply-database-migrations"} ELSE {})
  \cup {"pre-deploy-checklist"}

LEMMA MigrationMarked ==
  ASSUME NEW p
  PROVE  Marked(MigrationSteps(p), MigrationMarks(p.migrations), 3, 7)
  <1> DEFINE C == CodegraphCutover(p.migrations)
             T == TechnologyCutover(p.migrations) /\ ~CodegraphCutover(p.migrations)
             M == p.migrations # <<>>
             c == <<"verify-codegraph-prerequisites", "codegraph-offline-cutover">>
             t == <<"technology-offline-cutover">>
             m == <<"apply-database-migrations">>
             l == <<"pre-deploy-checklist">>
  <1>1. Marked(c, {"codegraph-offline-cutover"}, 3, 4)
    BY MarkedTwo, RanksAre, UnmarkedSteps DEF Unmarked
  <1>2. Marked(t, {"technology-offline-cutover"}, 4, 5)
    BY MarkedOne, RanksAre
  <1>3. Marked(m, {"apply-database-migrations"}, 5, 6)
    BY MarkedOne, RanksAre
  <1>4. Marked(l, {"pre-deploy-checklist"}, 6, 7)
    BY MarkedOne, RanksAre
  <1>5. MigrationSteps(p) = ((When(C, c) \o When(T, t)) \o When(M, m)) \o l
    BY DEF MigrationSteps
  <1>6. MigrationMarks(p.migrations) =
          (((IF C THEN {"codegraph-offline-cutover"} ELSE {})
             \cup (IF T THEN {"technology-offline-cutover"} ELSE {}))
           \cup (IF M THEN {"apply-database-migrations"} ELSE {}))
          \cup {"pre-deploy-checklist"}
    BY DEF MigrationMarks, CutoverMarks
  <1> HIDE DEF C, T, M, c, t, m, l
  <1>7. Marked(When(C, c), IF C THEN {"codegraph-offline-cutover"} ELSE {}, 3, 4)
    BY <1>1, WhenMarked
  <1>8. Marked(When(T, t), IF T THEN {"technology-offline-cutover"} ELSE {}, 4, 5)
    BY <1>2, WhenMarked
  <1>9. Marked(When(M, m), IF M THEN {"apply-database-migrations"} ELSE {}, 5, 6)
    BY <1>3, WhenMarked
  <1>10. Marked(When(C, c) \o When(T, t),
                (IF C THEN {"codegraph-offline-cutover"} ELSE {})
                  \cup (IF T THEN {"technology-offline-cutover"} ELSE {}), 3, 5)
    BY <1>7, <1>8, ConcatMarked
  <1>11. Marked((When(C, c) \o When(T, t)) \o When(M, m),
                ((IF C THEN {"codegraph-offline-cutover"} ELSE {})
                  \cup (IF T THEN {"technology-offline-cutover"} ELSE {}))
                  \cup (IF M THEN {"apply-database-migrations"} ELSE {}), 3, 6)
    BY <1>9, <1>10, ConcatMarked
  <1> QED
    BY <1>4, <1>5, <1>6, <1>11, ConcatMarked

LEMMA CutoverMarked ==
  Marked(CutoverSteps, {"update-remote-compose", "pause-meelok-services", "deploy-stack",
                        "commit-game-cutover"}, 7, 12)
  <1> DEFINE a == <<"update-remote-compose", "pause-meelok-services", "deploy-stack">>
             b == <<"commit-game-cutover", "final-runtime-check">>
             S == {"update-remote-compose", "pause-meelok-services", "deploy-stack",
                   "commit-game-cutover", "final-runtime-check"}
  <1>1. Marked(a, {"update-remote-compose", "pause-meelok-services", "deploy-stack"}, 7, 10)
    BY MarkedThree, RanksAre
  <1>2. Marked(b, {"commit-game-cutover"}, 10, 12)
    BY MarkedTwo, RanksAre, UnmarkedSteps DEF Unmarked
  <1>3. CutoverSteps = a \o b
    BY DEF CutoverSteps
  <1> HIDE DEF a, b
  <1>4. Marked(a \o b, {"update-remote-compose", "pause-meelok-services", "deploy-stack"}
                         \cup {"commit-game-cutover"}, 7, 12)
    BY <1>1, <1>2, ConcatMarked
  <1>5. {"update-remote-compose", "pause-meelok-services", "deploy-stack"}
          \cup {"commit-game-cutover"}
        = {"update-remote-compose", "pause-meelok-services", "deploy-stack",
           "commit-game-cutover"}
    OBVIOUS
  <1> QED
    BY <1>3, <1>4, <1>5

LEMMA FinalMarked ==
  ASSUME NEW p
  PROVE  Marked(FinalChecks(p), {"verify-tradepool-release"}, 12, 13)
  <1> DEFINE a == <<"verify-game-tomcat-runtime">>
             b == <<"game-prd2-runtime-contract">>
             c == <<"verify-game-steam-runtime">>
             d == <<"verify-game-emergency-guard-runtime">>
             e == <<"verify-game-smtp-sender">>
             f == <<"verify-game-static-delivery", "verify-relations-release",
                    "verify-tradepool-release">>
             A == "verify-game-tomcat-runtime" \in p.checks
             C == "verify-game-steam-runtime" \in p.checks
             D == "verify-game-emergency-guard" \in p.checks
             E == "verify-game-smtp-sender" \in p.checks
             g == (((When(A, a) \o When(OnPrd2, b)) \o When(C, c)) \o When(D, d)) \o When(E, e)
  <1>1. Plain(a) /\ Plain(b) /\ Plain(c) /\ Plain(d) /\ Plain(e)
    BY PlainTuples, UnmarkedSteps
  <1>2. Marked(f, {"verify-tradepool-release"}, 12, 13)
    BY MarkedThree, RanksAre, UnmarkedSteps DEF Unmarked
  <1>3. FinalChecks(p) = g \o f
    BY DEF FinalChecks
  <1> HIDE DEF a, b, c, d, e, f, A, C, D, E
  <1>4. /\ Plain(When(A, a)) /\ Plain(When(OnPrd2, b)) /\ Plain(When(C, c))
        /\ Plain(When(D, d)) /\ Plain(When(E, e))
    BY <1>1, PlainEmpty DEF When
  <1>5. Plain(g)
    BY <1>4, PlainConcat
  <1> HIDE DEF g
  <1>6. Marked(g \o f, {} \cup {"verify-tradepool-release"}, 12, 13)
    BY <1>2, <1>5, PlainIsMarked, ConcatMarked
  <1> QED
    BY <1>3, <1>6

LEMMA CleanupPlain ==
  ASSUME NEW p
  PROVE  Plain(CleanupSteps(p))
  <1>1. Plain(<<"retire-design-image-settings-file">>)
    BY PlainTuples, UnmarkedSteps
  <1>2. Plain(<<"cleanup-game-release-containers">>)
    BY PlainTuples, UnmarkedSteps
  <1> QED
    BY <1>1, <1>2, PlainConcat, PlainEmpty DEF CleanupSteps, When

LEMMA RecoveryMarked ==
  Marked(RecoverySteps, ToSet(RecoverySteps), 15, 19)
  <1> DEFINE a == <<"game-config-compensation", "game-rollback-decision">>
             b == <<"game-fatal-rollback-decision", "game-rollback-command">>
  <1>1. Marked(a, {"game-config-compensation", "game-rollback-decision"}, 15, 17)
    BY MarkedTwo, RanksAre
  <1>2. Marked(b, {"game-fatal-rollback-decision", "game-rollback-command"}, 17, 19)
    BY MarkedTwo, RanksAre
  <1>3. RecoverySteps = a \o b
    BY DEF RecoverySteps
  <1>4. ToSet(RecoverySteps) = {"game-config-compensation", "game-rollback-decision"}
          \cup {"game-fatal-rollback-decision", "game-rollback-command"}
    BY DEF ToSet, RecoverySteps
  <1> HIDE DEF a, b
  <1> QED
    BY <1>1, <1>2, <1>3, <1>4, ConcatMarked

\* The marked steps before, at and after the cutover.
Early == {"publish-image", "stage-game-static-assets", "backup-game-release"}
Middle == {"update-remote-compose", "pause-meelok-services", "deploy-stack",
           "commit-game-cutover"}
Late == {"verify-tradepool-release", "restore-meelok-services"}

\* The marked steps of a game release with a deployment.
ReleaseMarks(p) ==
  ((Early \cup MigrationMarks(p.migrations)) \cup (Middle \cup Late))
  \cup IF p.standby THEN {"accept-game-standby-candidate"} ELSE {}

\* The recovery steps are none of them.
LEMMA SetsAre ==
  /\ Early \cap ToSet(RecoverySteps) = {} /\ Middle \cap ToSet(RecoverySteps) = {}
  /\ Late \cap ToSet(RecoverySteps) = {}
  /\ \A m : MigrationMarks(m) \cap ToSet(RecoverySteps) = {}
  /\ "accept-game-standby-candidate" \notin ToSet(RecoverySteps)
  /\ \A k \in ToSet(RecoverySteps) : Rank(k) # 0
  /\ RecoverySteps[1] \in ToSet(RecoverySteps) /\ RecoverySteps # <<>>
  /\ "update-remote-compose" \notin Early
  /\ \A m : "update-remote-compose" \notin MigrationMarks(m)
  <1>1. ToSet(RecoverySteps) = {"game-config-compensation", "game-rollback-decision",
          "game-fatal-rollback-decision", "game-rollback-command"}
    BY DEF ToSet, RecoverySteps
  <1>2. \A m : MigrationMarks(m) \subseteq {"codegraph-offline-cutover",
          "technology-offline-cutover", "apply-database-migrations", "pre-deploy-checklist"}
    BY DEF MigrationMarks, CutoverMarks
  <1>3. RecoverySteps[1] \in ToSet(RecoverySteps) /\ RecoverySteps # <<>>
    BY DEF ToSet, RecoverySteps
  <1>4. \A k \in ToSet(RecoverySteps) : Rank(k) # 0
    BY <1>1, RanksAre
  <1>5. /\ Early \cap ToSet(RecoverySteps) = {} /\ Middle \cap ToSet(RecoverySteps) = {}
        /\ Late \cap ToSet(RecoverySteps) = {}
        /\ "accept-game-standby-candidate" \notin ToSet(RecoverySteps)
        /\ "update-remote-compose" \notin Early
    BY <1>1 DEF Early, Middle, Late
  <1>6. \A m : /\ MigrationMarks(m) \cap ToSet(RecoverySteps) = {}
               /\ "update-remote-compose" \notin MigrationMarks(m)
    BY <1>1, <1>2
  <1> QED
    BY <1>3, <1>4, <1>5, <1>6

\* A game release with its deployment, the steps spliced in included.
LEMMA StackMarked ==
  ASSUME NEW p
  PROVE  Marked(WithStandby(p, WithRestore(StackSteps(p))),
                ReleaseMarks(p) \cup ToSet(RecoverySteps), 0, 19)
  <1> DEFINE pre == AdmissionSteps(p) \o UploadSteps(p) \o MigrationSteps(p)
             C == CutoverSteps
             F == FinalChecks(p)
             L == CleanupSteps(p)
             R == RecoverySteps
             r == <<"restore-meelok-services">>
             a == <<"accept-game-standby-candidate">>
             c == <<"verify-game-standby-candidate">>
             E == Early \cup MigrationMarks(p.migrations)
             keys == ToSet(R)
             O == StackSteps(p)
  <1>1. /\ Marked(C, Middle, 7, 12) /\ Marked(F, {"verify-tradepool-release"}, 12, 13)
        /\ Marked(L, {}, 13, 13) /\ Marked(R, keys, 15, 19)
        /\ Marked(r, {"restore-meelok-services"}, 13, 14)
        /\ Marked(a, {"accept-game-standby-candidate"}, 14, 15)
        /\ Marked(c, {}, 7, 7)
    <2>1. Marked(C, Middle, 7, 12)
      BY CutoverMarked DEF Middle
    <2>2. Marked(r, {"restore-meelok-services"}, 13, 14)
      BY MarkedOne, RanksAre
    <2>3. Marked(a, {"accept-game-standby-candidate"}, 14, 15)
      BY MarkedOne, RanksAre
    <2>4. Marked(c, {}, 7, 7)
      BY PlainTuples, UnmarkedSteps, PlainIsMarked
    <2> QED
      BY <2>1, <2>2, <2>3, <2>4, FinalMarked, CleanupPlain, PlainIsMarked, RecoveryMarked
  <1>2. Marked(pre, E, 0, 7)
    <2>1. Marked(AdmissionSteps(p), {}, 0, 0)
      BY AdmissionPlain, PlainIsMarked
    <2>2. Marked(AdmissionSteps(p) \o UploadSteps(p), {} \cup Early, 0, 3)
      BY <2>1, UploadMarked, ConcatMarked DEF Early
    <2>3. Marked(pre, ({} \cup Early) \cup MigrationMarks(p.migrations), 0, 7)
      BY <2>2, MigrationMarked, ConcatMarked
    <2> QED
      BY <2>3
  <1>3. O = ((((pre \o C) \o F) \o L)) \o R
    BY DEF StackSteps
  <1>4. C[1] = "update-remote-compose" /\ Len(C) # 0
    BY DEF CutoverSteps
  <1>5. R[1] \in keys /\ R # <<>>
    BY SetsAre
  <1>6. WithRestore(O) = Splice(O, "restore-meelok-services", keys)
    BY DEF WithRestore
  <1>7. /\ ~p.standby => WithStandby(p, WithRestore(O)) = WithRestore(O)
        /\ p.standby => WithStandby(p, WithRestore(O)) =
             Splice(Splice(WithRestore(O), "verify-game-standby-candidate",
                           {"update-remote-compose"}),
                    "accept-game-standby-candidate", keys)
    BY DEF WithStandby
  <1>8. /\ E \cap keys = {} /\ Middle \cap keys = {} /\ "verify-tradepool-release" \notin keys
        /\ "restore-meelok-services" \notin keys
        /\ "update-remote-compose" \notin E /\ Rank("update-remote-compose") # 0
        /\ \A k \in keys : Rank(k) # 0
    BY SetsAre, RanksAre DEF Late
  <1>9. Late = {"verify-tradepool-release"} \cup {"restore-meelok-services"}
    BY DEF Late
  <1>10. ReleaseMarks(p) = (E \cup (Middle \cup Late))
           \cup IF p.standby THEN {"accept-game-standby-candidate"} ELSE {}
    BY DEF ReleaseMarks
  <1> HIDE DEF pre, C, F, L, R, r, a, c, E, keys, O
  \* Whatever stands before the cutover.
  <1>11. ASSUME NEW x, Marked(x, E, 0, 7)
         PROVE  /\ Marked(((x \o C) \o F) \o L, E \cup (Middle \cup {"verify-tradepool-release"}),
                          0, 13)
                /\ Marked((((x \o C) \o F) \o L) \o r, E \cup (Middle \cup Late), 0, 14)
    <2>1. Marked(x \o C, E \cup Middle, 0, 12)
      BY <1>1, <1>11, ConcatMarked
    <2>2. Marked((x \o C) \o F, (E \cup Middle) \cup {"verify-tradepool-release"}, 0, 13)
      BY <1>1, <2>1, ConcatMarked
    <2>3. Marked(((x \o C) \o F) \o L,
                 ((E \cup Middle) \cup {"verify-tradepool-release"}) \cup {}, 0, 13)
      BY <1>1, <2>2, ConcatMarked
    <2>4. ((E \cup Middle) \cup {"verify-tradepool-release"}) \cup {}
            = E \cup (Middle \cup {"verify-tradepool-release"})
      OBVIOUS
    <2>5. Marked(((x \o C) \o F) \o L, E \cup (Middle \cup {"verify-tradepool-release"}), 0, 13)
      BY <2>3, <2>4
    <2>6. Marked((((x \o C) \o F) \o L) \o r,
            (E \cup (Middle \cup {"verify-tradepool-release"})) \cup {"restore-meelok-services"},
            0, 14)
      BY <1>1, <2>5, ConcatMarked
    <2>7. (E \cup (Middle \cup {"verify-tradepool-release"})) \cup {"restore-meelok-services"}
            = E \cup (Middle \cup Late)
      BY <1>9
    <2> QED
      BY <2>5, <2>6, <2>7
  <1>12. IsSeq(C) /\ IsSeq(F) /\ IsSeq(L) /\ IsSeq(R) /\ IsSeq(r) /\ IsSeq(a) /\ IsSeq(c)
    BY <1>1 DEF Marked
  <1>13. WithRestore(O) = ((((pre \o C) \o F) \o L) \o r) \o R
    <2> DEFINE y == ((pre \o C) \o F) \o L
    <2>1. Marked(y, E \cup (Middle \cup {"verify-tradepool-release"}), 0, 13)
      BY <1>2, <1>11
    <2> HIDE DEF y
    <2>2. \A k \in keys : k \notin E \cup (Middle \cup {"verify-tradepool-release"})
      BY <1>8
    <2>3. \A i \in 1..Len(y) : y[i] \notin keys
      BY <1>8, <2>1, <2>2, Absent
    <2>4. IsSeq(y)
      BY <2>1 DEF Marked
    <2>5. Splice(y \o R, "restore-meelok-services", keys) = (y \o r) \o R
      BY <1>5, <1>12, <2>3, <2>4, SpliceIs DEF r
    <2> QED
      BY <1>3, <1>6, <2>5 DEF y
  <1>14. CASE ~p.standby
    <2>1. Marked((((pre \o C) \o F) \o L) \o r, E \cup (Middle \cup Late), 0, 15)
      BY <1>2, <1>11, WiderMarked
    <2>2. Marked(WithRestore(O), (E \cup (Middle \cup Late)) \cup keys, 0, 19)
      BY <1>1, <1>13, <2>1, ConcatMarked
    <2>3. ReleaseMarks(p) = E \cup (Middle \cup Late)
      BY <1>10, <1>14
    <2> QED
      BY <1>7, <1>14, <2>2, <2>3 DEF keys, O, R
  <1>15. CASE p.standby
    <2> DEFINE tail == (((C \o F) \o L) \o r) \o R
               y == ((((pre \o c) \o C) \o F) \o L) \o r
    <2>1. IsSeq(pre) /\ IsSeq(pre \o c)
      <3>1. IsSeq(pre)
        BY <1>2 DEF Marked
      <3> QED
        BY <1>12, <3>1, ConcatIs
    <2>2. ASSUME NEW x, IsSeq(x)
          PROVE  ((((x \o C) \o F) \o L) \o r) \o R = x \o tail
      <3> DEFINE s == C \o F
                 t == s \o L
                 u == t \o r
      <3>1. IsSeq(C) /\ IsSeq(F)
        BY <1>12
      <3>2. IsSeq(s)
        BY <3>1, ConcatIs
      <3>3. (x \o C) \o F = x \o s
        BY <2>2, <3>1, Associative
      <3> HIDE DEF s
      <3>4. IsSeq(L)
        BY <1>12
      <3>5. IsSeq(t)
        BY <3>2, <3>4, ConcatIs
      <3>6. (x \o s) \o L = x \o t
        BY <2>2, <3>2, <3>4, Associative
      <3> HIDE DEF t
      <3>8. IsSeq(r)
        BY <1>12
      <3>9. IsSeq(u)
        BY <3>5, <3>8, ConcatIs
      <3>10. (x \o t) \o r = x \o u
        BY <2>2, <3>5, <3>8, Associative
      <3> HIDE DEF u
      <3>11. IsSeq(R)
        BY <1>12
      <3>12. (x \o u) \o R = x \o (u \o R)
        BY <2>2, <3>9, <3>11, Associative
      <3>7. ((((x \o C) \o F) \o L) \o r) \o R = x \o (u \o R)
        BY <3>3, <3>6, <3>10, <3>12
      <3> QED
        BY <3>7 DEF s, t, u
    <2>3. IsSeq(tail) /\ tail[1] = "update-remote-compose" /\ tail # <<>>
      <3>1. IsSeq(C \o F) /\ (C \o F)[1] = "update-remote-compose" /\ Len(C \o F) # 0
        BY <1>4, <1>12, ConcatIs, FirstOf
      <3>2. /\ IsSeq((C \o F) \o L) /\ ((C \o F) \o L)[1] = "update-remote-compose"
            /\ Len((C \o F) \o L) # 0
        BY <1>12, <3>1, ConcatIs, FirstOf
      <3>3. /\ IsSeq(((C \o F) \o L) \o r) /\ (((C \o F) \o L) \o r)[1] = "update-remote-compose"
            /\ Len(((C \o F) \o L) \o r) # 0
        BY <1>12, <3>2, ConcatIs, FirstOf
      <3>4. IsSeq(tail) /\ tail[1] = "update-remote-compose" /\ Len(tail) # 0
        BY <1>12, <3>3, ConcatIs, FirstOf
      <3> HIDE DEF tail
      <3> QED
        BY <3>4, EmptySeq
    <2>4. WithRestore(O) = pre \o tail
      BY <1>13, <2>1, <2>2
    <2> DEFINE K == {"update-remote-compose"}
    <2>5. \A k \in K : Rank(k) # 0 /\ k \notin E
      BY <1>8
    <2>6. Splice(WithRestore(O), "verify-game-standby-candidate", {"update-remote-compose"})
            = (pre \o c) \o tail
      <3>1. tail[1] \in K
        BY <2>3
      <3> HIDE DEF tail, K
      <3>2. \A i \in 1..Len(pre) : pre[i] \notin K
        BY <1>2, <2>5, Absent
      <3>3. Splice(pre \o tail, "verify-game-standby-candidate", K)
              = (pre \o <<"verify-game-standby-candidate">>) \o tail
        BY <2>1, <2>3, <3>1, <3>2, SpliceIs
      <3> QED
        BY <2>4, <3>3 DEF c, K
    <2>7. (pre \o c) \o tail = y \o R
      BY <2>1, <2>2
    <2>8. Marked(pre \o c, E \cup {}, 0, 7)
      BY <1>1, <1>2, ConcatMarked
    <2>9. Marked(y, E \cup (Middle \cup Late), 0, 14)
      BY <1>11, <2>8
    <2> HIDE DEF tail, y
    <2>10. \A k \in keys : k \notin E \cup (Middle \cup Late)
      BY <1>8, <1>9
    <2>11. \A i \in 1..Len(y) : y[i] \notin keys
      BY <1>8, <2>9, <2>10, Absent
    <2>12. IsSeq(y)
      BY <2>9 DEF Marked
    <2>13. Splice(y \o R, "accept-game-standby-candidate", keys) = (y \o a) \o R
      BY <1>5, <1>12, <2>11, <2>12, SpliceIs DEF a
    <2>14. Marked(y \o a, (E \cup (Middle \cup Late)) \cup {"accept-game-standby-candidate"},
                  0, 15)
      BY <1>1, <2>9, ConcatMarked
    <2>15. Marked((y \o a) \o R,
             ((E \cup (Middle \cup Late)) \cup {"accept-game-standby-candidate"}) \cup keys, 0, 19)
      BY <1>1, <2>14, ConcatMarked
    <2>16. WithStandby(p, WithRestore(O)) = (y \o a) \o R
      BY <1>7, <1>15, <2>6, <2>7, <2>13
    <2>17. ReleaseMarks(p) = (E \cup (Middle \cup Late)) \cup {"accept-game-standby-candidate"}
      BY <1>10, <1>15
    <2> QED
      BY <2>15, <2>16, <2>17 DEF keys, O, R
  <1> QED
    BY <1>14, <1>15

\* The marked steps that a release executes.
PlanMarks(p) ==
  IF p.target = "game"
  THEN IF p.stack THEN ReleaseMarks(p) ELSE {"publish-image"}
  ELSE (IF p.reuse THEN {} ELSE {"publish-image"})
       \cup IF p.stack THEN {"update-remote-compose", "deploy-forum-compose"} ELSE {}

\* Those of the whole plan.
AllMarks(p) ==
  PlanMarks(p) \cup IF p.target = "game" /\ p.stack THEN ToSet(RecoverySteps) ELSE {}

\* A game release.
LEMMA GameMarked ==
  ASSUME NEW p \in Requests
  PROVE  /\ p.stack => Marked(GameSteps(p), ReleaseMarks(p) \cup ToSet(RecoverySteps), 0, 19)
         /\ ~p.stack => Marked(GameSteps(p), {"publish-image"}, 0, 19)
  <1> DEFINE head == SourceSteps(p) \o EvidenceSteps(p) \o BuildSteps(p)
             body == WithStandby(p, WithRestore(StackSteps(p)))
             marks == ReleaseMarks(p) \cup ToSet(RecoverySteps)
  <1>1. Marked(head, {}, 0, 0)
    BY PreparationPlain, PlainIsMarked
  <1>2. Marked(body, marks, 0, 19)
    BY StackMarked
  <1>3. Marked(<<"publish-image">>, {"publish-image"}, 0, 19)
    BY MarkedOne, RanksAre
  <1>4. GameSteps(p) = head \o (IF p.stack THEN body ELSE <<"publish-image">>)
    BY DEF GameSteps
  <1> HIDE DEF head, body, marks
  <1>5. Marked(head \o body, {} \cup marks, 0, 19)
    BY <1>1, <1>2, ConcatMarked
  <1>6. Marked(head \o <<"publish-image">>, {} \cup {"publish-image"}, 0, 19)
    BY <1>1, <1>3, ConcatMarked
  <1>7. Marked(head \o body, marks, 0, 19)
    BY <1>5
  <1>8. Marked(head \o <<"publish-image">>, {"publish-image"}, 0, 19)
    BY <1>6
  <1>9. /\ p.stack => GameSteps(p) = head \o body
        /\ ~p.stack => GameSteps(p) = head \o <<"publish-image">>
    BY <1>4
  <1> QED
    BY <1>7, <1>8, <1>9 DEF marks

\* A forum release.
LEMMA ForumMarked ==
  ASSUME NEW p \in Requests
  PROVE  Marked(ForumSteps(p),
                (IF p.reuse THEN {} ELSE {"publish-image"})
                  \cup IF p.stack THEN {"update-remote-compose", "deploy-forum-compose"} ELSE {},
                0, 19)
  <1> DEFINE P == <<"publish-image">>
             one == {"publish-image"}
             two == {"update-remote-compose", "deploy-forum-compose"}
             a == <<"git-status-before-update", "git-fetch">>
             b == <<"git-update", "capture-release-commit">>
             d == <<"backup-forum-release", "update-remote-compose", "deploy-forum-compose">>
             e == <<"final-runtime-check", "forum-rollback-command">>
             i == <<"validate-forum-source", "build-image", "validate-forum-image">>
             h == <<"resolve-ssh-target", "read-remote-compose", "forum-preflight">>
  <1>0. p.reuse \in BOOLEAN /\ p.stack \in BOOLEAN
    BY DEF Requests
  <1>1. Marked(P, one, 0, 1)
    BY MarkedOne, RanksAre
  <1>2. Plain(ForumSourceSteps(p))
    <2>1. Plain(a) /\ Plain(b)
      BY PlainTuples, UnmarkedSteps
    <2>2. <<"git-status-before-update", "git-fetch", "git-update",
            "capture-release-commit">> = a \o b
      OBVIOUS
    <2>3. Plain(<<"validate-release-impact-checklist">>)
      BY PlainTuples, UnmarkedSteps
    <2>4. Plain(<<"validate-release-input">>)
      BY PlainTuples, UnmarkedSteps
    <2>5. ForumSourceSteps(p) = (When(~p.reuse, a \o b)
            \o When(p.assessed, <<"validate-release-impact-checklist">>))
            \o <<"validate-release-input">>
      BY <2>2 DEF ForumSourceSteps
    <2> HIDE DEF a, b
    <2> QED
      BY <2>1, <2>3, <2>4, <2>5, PlainConcat, PlainWhen
  <1>3. Plain(<<"validate-existing-forum-image">>) /\ Plain(i) /\ Plain(h) /\ Plain(e)
    BY PlainTuples, UnmarkedSteps
  <1>4. Marked(d, two, 1, 19)
    BY MarkedThree, RanksAre, UnmarkedSteps DEF Unmarked
  <1>5. /\ p.reuse => ForumImageSteps(p) = <<"validate-existing-forum-image">>
        /\ ~p.reuse => ForumImageSteps(p) = i \o When(~p.stack, P)
    BY DEF ForumImageSteps
  <1>6. ForumStackSteps(p) = (h \o When(~p.reuse, P)) \o (d \o e)
    <2>1. <<"backup-forum-release", "update-remote-compose", "deploy-forum-compose",
            "final-runtime-check", "forum-rollback-command">> = d \o e
      OBVIOUS
    <2> QED
      BY <2>1 DEF ForumStackSteps
  <1>7. ForumSteps(p) = (ForumSourceSteps(p) \o ForumImageSteps(p))
                         \o When(p.stack, ForumStackSteps(p))
    BY DEF ForumSteps
  <1> HIDE DEF P, one, two, a, b, d, e, i, h
  <1> DEFINE pm == IF p.reuse THEN {} ELSE one
  <1>8. Marked(When(~p.reuse, P), pm, 0, 1)
    <2>1. Marked(When(~p.reuse, P), IF ~p.reuse THEN one ELSE {}, 0, 1)
      BY <1>1, WhenMarked
    <2> QED
      BY <1>0, <2>1
  <1>9. Marked(ForumStackSteps(p), pm \cup two, 0, 19)
    <2>1. Marked(h, {}, 0, 0) /\ Marked(e, {}, 19, 19)
      BY <1>3, PlainIsMarked
    <2>2. Marked(d \o e, two \cup {}, 1, 19)
      BY <1>4, <2>1, ConcatMarked
    <2>3. Marked(h \o When(~p.reuse, P), {} \cup pm, 0, 1)
      BY <1>8, <2>1, ConcatMarked
    <2> HIDE DEF pm
    <2>4. Marked((h \o When(~p.reuse, P)) \o (d \o e), ({} \cup pm) \cup (two \cup {}), 0, 19)
      BY <2>2, <2>3, ConcatMarked
    <2> QED
      BY <1>6, <2>4
  <1>10. Marked(ForumImageSteps(p), IF p.stack THEN {} ELSE pm, 0, IF p.stack THEN 0 ELSE 1)
    <2>1. CASE p.reuse
      <3>1. pm = {} /\ ForumImageSteps(p) = <<"validate-existing-forum-image">>
        BY <1>5, <2>1
      <3> QED
        BY <1>3, <3>1, PlainIsMarked
    <2>2. CASE ~p.reuse /\ p.stack
      <3>1. Plain(When(~p.stack, P))
        BY <2>2, PlainEmpty DEF When
      <3>2. Plain(ForumImageSteps(p))
        BY <1>3, <1>5, <2>2, <3>1, PlainConcat
      <3> QED
        BY <2>2, <3>2, PlainIsMarked
    <2>3. CASE ~p.reuse /\ ~p.stack
      <3>1. Marked(i, {}, 0, 0)
        BY <1>3, PlainIsMarked
      <3>2. When(~p.stack, P) = P /\ pm = one
        BY <2>3 DEF When
      <3>3. Marked(i \o P, {} \cup one, 0, 1)
        BY <1>1, <3>1, ConcatMarked
      <3>4. {} \cup one = one /\ ForumImageSteps(p) = i \o P
        BY <1>5, <2>3, <3>2
      <3> QED
        BY <2>3, <3>2, <3>3, <3>4
    <2> QED
      BY <1>0, <2>1, <2>2, <2>3
  <1>11. Marked(ForumSourceSteps(p), {}, 0, 0)
    BY <1>2, PlainIsMarked
  <1> HIDE DEF pm
  <1>12. CASE p.stack
    <2>1. Marked(ForumImageSteps(p), {}, 0, 0)
      BY <1>10, <1>12
    <2>2. Marked(ForumSourceSteps(p) \o ForumImageSteps(p), {} \cup {}, 0, 0)
      BY <1>11, <2>1, ConcatMarked
    <2>3. When(p.stack, ForumStackSteps(p)) = ForumStackSteps(p)
      BY <1>12 DEF When
    <2>4. Marked(ForumSteps(p), ({} \cup {}) \cup (pm \cup two), 0, 19)
      BY <1>7, <1>9, <2>2, <2>3, ConcatMarked
    <2> QED
      BY <1>12, <2>4 DEF pm, one, two
  <1>13. CASE ~p.stack
    <2>1. Marked(ForumImageSteps(p), pm, 0, 1)
      BY <1>10, <1>13
    <2>2. Marked(ForumSourceSteps(p) \o ForumImageSteps(p), {} \cup pm, 0, 1)
      BY <1>11, <2>1, ConcatMarked
    <2>3. Marked(When(p.stack, ForumStackSteps(p)), {}, 1, 19)
      BY <1>13, PlainEmpty, PlainIsMarked DEF When
    <2>4. Marked(ForumSteps(p), ({} \cup pm) \cup {}, 0, 19)
      BY <1>7, <2>2, <2>3, ConcatMarked
    <2> QED
      BY <1>13, <2>4 DEF pm, one
  <1> QED
    BY <1>12, <1>13

LEMMA ExecutedMarked ==
  ASSUME NEW p \in Requests
  PROVE  Marked(Executed(p), PlanMarks(p), 0, 19)
  <1>1. Marked(Steps(p), AllMarks(p), 0, 19)
    <2>1. CASE p.target = "game"
      BY <2>1, GameMarked DEF Steps, AllMarks, PlanMarks
    <2>2. CASE p.target # "game"
      <3>1. AllMarks(p) = (IF p.reuse THEN {} ELSE {"publish-image"})
                  \cup IF p.stack THEN {"update-remote-compose", "deploy-forum-compose"} ELSE {}
        BY <2>2 DEF AllMarks, PlanMarks
      <3>2. Steps(p) = ForumSteps(p)
        BY <2>2 DEF Steps
      <3> QED
        BY <3>1, <3>2, ForumMarked
    <2> QED
      BY <2>1, <2>2
  <1>2. Marked(Executed(p), AllMarks(p) \ RecoveryOnly, 0, 19)
    BY <1>1, OnlyMarked DEF Executed
  <1>3. AllMarks(p) \ RecoveryOnly = PlanMarks(p)
    <2>1. "forum-rollback-command" \notin PlanMarks(p)
      <3>1. \A m : MigrationMarks(m) \subseteq {"codegraph-offline-cutover",
              "technology-offline-cutover", "apply-database-migrations", "pre-deploy-checklist"}
        BY DEF MigrationMarks, CutoverMarks
      <3>2. "forum-rollback-command" \notin ReleaseMarks(p)
        BY <3>1 DEF ReleaseMarks, Early, Middle, Late
      <3> QED
        BY <3>2 DEF PlanMarks
    <2>2. PlanMarks(p) \cap ToSet(RecoverySteps) = {}
      <3>1. ReleaseMarks(p) \cap ToSet(RecoverySteps) = {}
        <4>1. /\ Early \cap ToSet(RecoverySteps) = {} /\ Middle \cap ToSet(RecoverySteps) = {}
              /\ Late \cap ToSet(RecoverySteps) = {}
              /\ MigrationMarks(p.migrations) \cap ToSet(RecoverySteps) = {}
              /\ "accept-game-standby-candidate" \notin ToSet(RecoverySteps)
          BY SetsAre
        <4> QED
          BY <4>1 DEF ReleaseMarks
      <3>2. {"publish-image", "update-remote-compose", "deploy-forum-compose"}
              \cap ToSet(RecoverySteps) = {}
        BY DEF ToSet, RecoverySteps
      <3> QED
        BY <3>1, <3>2 DEF PlanMarks
    <2> QED
      BY <2>1, <2>2 DEF AllMarks, RecoveryOnly
  <1> QED
    BY <1>2, <1>3

--------------------------------------------------------------------------------
(***************************************************************************)
(* The invariant of a sequence of releases. ServedIsPrepared is not        *)
(* inductive: a deployment puts the commit in service whose image, assets  *)
(* and migrations the steps before it have brought; these were computed    *)
(* from the baseline, which is what the history still shows; and a         *)
(* rollback and an operator go back to what the last backup and the last   *)
(* dump hold.                                                              *)
(***************************************************************************)

\* The invariant speaks of a release r, of a state prod of production, and of the steps
\* that have been done.
IsRelease(r) == r \in Releases(Executed(r.request))

\* Its step, the steps that are done, and the scripts that have been applied.
KeyOf(r) == r.steps[r.next]
DoneBy(r) == {r.steps[i] : i \in 1..(r.next - 1)}
AppliedBy(r) == {r.request.migrations[i] : i \in 1..r.applied}
IsGame(r) == r.request.target = "game"

\* The types: the steps of a release are those of its plan.
SequenceTypeOK ==
  /\ history \in Seq(Entries)
  /\ job = Idle \/ IsRelease(job)
  /\ production \in Productions
  /\ accepted \in [game : Commit, forum : Commit \cup {"none"}]
  /\ started \in 0..MaxReleases

\* No script is there without, or before, the one that it expects.
Orderly(migrated) == Follows(migrated, {})

\* The commit finds its image, its assets and its database.
Equipped(prod, commit) ==
  /\ commit \in prod.loaded /\ commit \in prod.staged
  /\ ScriptsUpTo(commit) \subseteq ToSet(prod.migrated)

\* The service is equipped, a next release can build on the baseline, and the dump of
\* a cutover that has not been followed by a deployment is as good as the database.
Sound(prod, baseline) ==
  /\ Equipped(prod, prod.service)
  /\ ScriptsUpTo(baseline) \subseteq ToSet(prod.migrated)
  /\ Orderly(prod.migrated)
  /\ ~prod.writers =>
       /\ ScriptsUpTo(prod.service) \subseteq ToSet(prod.dump)
       /\ ScriptsUpTo(baseline) \subseteq ToSet(prod.dump)
       /\ Orderly(prod.dump)

\* What was accepted is what the history shows.
BaselineInv ==
  /\ \A t \in Targets : accepted[t] = BaselineCommit(history, t)
  /\ Len(history) <= HistoryLimit

\* What has been planned: the scripts from the baseline on, in their order.
Planned(r, kept) ==
  /\ r.next \in 1..Len(r.steps)
  /\ r.applied \in 0..Len(r.request.migrations)
  /\ ~IsGame(r) => r.request.migrations = <<>>
  /\ IsGame(r) =>
       /\ kept["game"] \in Past[r.commit]
       /\ ScriptsUpTo(r.commit) \subseteq
            ScriptsUpTo(kept["game"]) \cup ToSet(r.request.migrations)
       /\ Follows(r.request.migrations, ScriptsUpTo(kept["game"]))
  /\ ~IsGame(r) /\ ~r.request.reuse =>
       kept["forum"] = "none" \/ kept["forum"] \in Past[r.commit]

\* How far the steps done have brought the game's production.
GameReaches(r, prod, done) ==
  /\ "backup-game-release" \in done =>
       /\ prod.backup.service = r.start.service
       /\ prod.backup.spec = r.start.spec
       /\ prod.backup.compose = r.start.compose
  /\ "update-remote-compose" \notin done => prod.compose = r.start.compose
  /\ "update-remote-compose" \in done => prod.compose = r.commit
  /\ "deploy-stack" \notin done =>
       prod.service = r.start.service /\ prod.spec = r.start.spec
  /\ prod.service = r.start.service \/ (prod.service = r.commit /\ prod.writers)
  /\ "commit-game-cutover" \in done => prod.writers
  /\ "publish-image" \in done => r.commit \in prod.loaded
  /\ "stage-game-static-assets" \in done => r.commit \in prod.staged
  /\ "pre-deploy-checklist" \in done => r.applied = Len(r.request.migrations)
  /\ done \cap Cutovers # {} => ToSet(prod.migrated) \subseteq ToSet(prod.dump) \cup AppliedBy(r)

\* The same for any release, whose start can still be gone back to.
Reaches(r, prod, done) ==
  /\ Equipped(prod, r.start.service)
  /\ AppliedBy(r) \subseteq ToSet(prod.migrated)
  /\ IsGame(r) => GameReaches(r, prod, done)

\* The invariant.
SequenceInv ==
  /\ SequenceTypeOK
  /\ BaselineInv
  /\ Sound(production, accepted["game"])
  /\ job.running => Planned(job, accepted) /\ Reaches(job, production, DoneBy(job))

\* The fields of a release.
LEMMA ReleaseIs ==
  ASSUME NEW r, IsRelease(r)
  PROVE  /\ r.running /\ r.request \in Requests /\ r.commit \in Commit /\ r.next \in Nat
         /\ r.applied \in Nat /\ r.steps = Executed(r.request)
         /\ r.start \in [service : Commit, spec : Commit, compose : Commit, settings : BOOLEAN]
         /\ r.start.service \in Commit /\ r.start.spec \in Commit
         /\ r.start.compose \in Commit /\ r.start.settings \in BOOLEAN
  BY DEF IsRelease, Releases

\* The fields of a request.
LEMMA RequestIs ==
  ASSUME NEW p \in Requests
  PROVE  /\ p.target \in Targets /\ p.stack \in BOOLEAN /\ p.standby \in BOOLEAN
         /\ p.reuse \in BOOLEAN /\ p.migrations \in Seq(Migration)
  BY DEF Requests

\* The marked steps are done in their order.
LEMMA InOrder ==
  ASSUME NEW r, IsRelease(r), r.next \in 1..Len(r.steps)
  PROVE  /\ Rank(KeyOf(r)) # 0 => KeyOf(r) \in PlanMarks(r.request)
         /\ \A k \in DoneBy(r) : Rank(k) # 0 => k \in PlanMarks(r.request)
         /\ \A k \in PlanMarks(r.request) :
              /\ Rank(k) < Rank(KeyOf(r)) => k \in DoneBy(r)
              /\ \A l \in DoneBy(r) : Rank(k) < Rank(l) => k \in DoneBy(r)
         /\ \A k \in DoneBy(r) : Rank(k) # 0 /\ Rank(KeyOf(r)) # 0 => Rank(k) < Rank(KeyOf(r))
  <1> DEFINE s == r.steps
             n == r.next
             marks == PlanMarks(r.request)
  <1>1. Marked(s, marks, 0, 19)
    BY ReleaseIs, ExecutedMarked
  <1>2. /\ \A i \in 1..Len(s) : Rank(s[i]) # 0 => s[i] \in marks
        /\ \A k \in marks : Rank(k) # 0 /\ \E i \in 1..Len(s) : s[i] = k
        /\ \A i, j \in 1..Len(s) :
             i < j /\ Rank(s[i]) # 0 /\ Rank(s[j]) # 0 => Rank(s[i]) < Rank(s[j])
    BY <1>1 DEF Marked
  <1>3. Len(s) \in Nat
    BY <1>1, SeqHasLength DEF Marked
  <1>4. n \in 1..Len(s) /\ KeyOf(r) = s[n] /\ DoneBy(r) = {s[i] : i \in 1..(n - 1)}
    BY DEF KeyOf, DoneBy
  <1> HIDE DEF s, n, marks
  <1>5. \A i \in 1..(n - 1) : i \in 1..Len(s) /\ i < n
    BY <1>3, <1>4
  <1>6. \A i, j \in 1..Len(s) : Rank(s[i]) \in Nat /\ (i < j \/ j < i \/ i = j)
    BY <1>3, RankType
  <1>7. ASSUME NEW j \in 1..n, NEW k \in marks, Rank(k) < Rank(s[j])
        PROVE  k \in DoneBy(r)
    <2>1. PICK i \in 1..Len(s) : s[i] = k
      BY <1>2
    <2>2. j \in 1..Len(s) /\ Rank(s[j]) \in Nat /\ Rank(k) \in Nat
      BY <1>3, <1>4, RankType
    <2>3. i # j
      BY <1>7, <2>1, <2>2
    <2>4. ~(j < i)
      <3> SUFFICES ASSUME j < i PROVE FALSE
        OBVIOUS
      <3>1. Rank(k) # 0 /\ Rank(s[j]) # 0
        BY <1>2, <1>7, <2>2
      <3>2. Rank(s[j]) < Rank(s[i])
        BY <1>2, <2>1, <2>2, <3>1
      <3> QED
        BY <1>7, <2>1, <2>2, <3>2
    <2>5. i \in 1..(n - 1)
      BY <1>3, <1>4, <2>2, <2>3, <2>4
    <2> QED
      BY <1>4, <2>1, <2>5
  <1>8. Rank(KeyOf(r)) # 0 => KeyOf(r) \in marks
    BY <1>2, <1>4
  <1>9. \A k \in DoneBy(r) : Rank(k) # 0 => k \in marks
    BY <1>2, <1>4, <1>5
  <1>10. \A k \in marks : Rank(k) < Rank(KeyOf(r)) => k \in DoneBy(r)
    <2>1. n \in 1..n
      BY <1>3, <1>4
    <2> QED
      BY <1>4, <1>7, <2>1
  <1>11. \A k \in marks : \A l \in DoneBy(r) : Rank(k) < Rank(l) => k \in DoneBy(r)
    <2> SUFFICES ASSUME NEW k \in marks, NEW i \in 1..(n - 1), Rank(k) < Rank(s[i])
                 PROVE  k \in DoneBy(r)
      BY <1>4
    <2>1. i \in 1..n
      BY <1>3, <1>4
    <2> QED
      BY <1>7, <2>1
  <1>12. \A k \in DoneBy(r) : Rank(k) # 0 /\ Rank(KeyOf(r)) # 0 => Rank(k) < Rank(KeyOf(r))
    <2> SUFFICES ASSUME NEW i \in 1..(n - 1), Rank(s[i]) # 0, Rank(s[n]) # 0
                 PROVE  Rank(s[i]) < Rank(s[n])
      BY <1>4
    <2> QED
      BY <1>2, <1>4, <1>5
  <1> QED
    BY <1>8, <1>9, <1>10, <1>11, <1>12 DEF marks

\* What comes before the deployment of a game, and before its migrations.
LEMMA GameOrder ==
  ASSUME NEW r, IsRelease(r), r.next \in 1..Len(r.steps), IsGame(r)
  PROVE  /\ {"deploy-stack", "commit-game-cutover"} \cap (DoneBy(r) \cup {KeyOf(r)}) # {} =>
              {"publish-image", "stage-game-static-assets", "backup-game-release",
               "pre-deploy-checklist", "update-remote-compose"} \subseteq DoneBy(r)
         /\ KeyOf(r) \in {"backup-game-release"} \cup Cutovers
                          \cup {"apply-database-migrations"} =>
              {"update-remote-compose", "deploy-stack", "pre-deploy-checklist",
               "commit-game-cutover"} \cap DoneBy(r) = {}
         /\ KeyOf(r) = "apply-database-migrations" /\ OfflineCutover(r.request.migrations) =>
              DoneBy(r) \cap Cutovers # {}
  <1> DEFINE p == r.request
  <1>1. /\ Rank(KeyOf(r)) # 0 => KeyOf(r) \in PlanMarks(p)
        /\ \A k \in DoneBy(r) : Rank(k) # 0 => k \in PlanMarks(p)
        /\ \A k \in PlanMarks(p) :
              /\ Rank(k) < Rank(KeyOf(r)) => k \in DoneBy(r)
              /\ \A l \in DoneBy(r) : Rank(k) < Rank(l) => k \in DoneBy(r)
        /\ \A k \in DoneBy(r) : Rank(k) # 0 /\ Rank(KeyOf(r)) # 0 => Rank(k) < Rank(KeyOf(r))
    BY InOrder
  <1>2. PlanMarks(p) = IF p.stack THEN ReleaseMarks(p) ELSE {"publish-image"}
    BY DEF PlanMarks, IsGame
  <1>3. /\ {"publish-image", "stage-game-static-assets", "backup-game-release",
            "pre-deploy-checklist", "update-remote-compose"} \subseteq ReleaseMarks(p)
        /\ CutoverMarks(p.migrations) \subseteq ReleaseMarks(p)
    BY DEF ReleaseMarks, Early, Middle, MigrationMarks
  <1> HIDE DEF p
  <1>4. ASSUME NEW l \in {"deploy-stack", "commit-game-cutover"},
               l \in DoneBy(r) \cup {KeyOf(r)}
        PROVE  {"publish-image", "stage-game-static-assets", "backup-game-release",
                "pre-deploy-checklist", "update-remote-compose"} \subseteq DoneBy(r)
    <2>0. Rank(l) \in {10, 12} /\ l # "publish-image"
      BY <1>4, RanksAre
    <2>1. l \in PlanMarks(p)
      BY <1>1, <1>4, <2>0
    <2>2. PlanMarks(p) = ReleaseMarks(p)
      BY <1>2, <2>0, <2>1
    <2>3. ASSUME NEW k \in {"publish-image", "stage-game-static-assets", "backup-game-release",
                             "pre-deploy-checklist", "update-remote-compose"}
          PROVE  k \in DoneBy(r)
      <3>1. k \in PlanMarks(p) /\ Rank(k) \in {1, 2, 3, 7, 8}
        BY <1>3, <2>2, <2>3, RanksAre
      <3>2. Rank(k) < Rank(l)
        BY <2>0, <3>1
      <3> QED
        BY <1>1, <1>4, <3>1, <3>2
    <2> QED
      BY <2>3
  <1>5. ASSUME KeyOf(r) \in {"backup-game-release"} \cup Cutovers
                             \cup {"apply-database-migrations"},
               NEW k \in {"update-remote-compose", "deploy-stack", "pre-deploy-checklist",
                          "commit-game-cutover"},
               k \in DoneBy(r)
        PROVE  FALSE
    <2>1. Rank(k) \in {7, 8, 10, 12}
      BY RanksAre
    <2>2. Rank(KeyOf(r)) \in {3, 4, 5, 6}
      BY <1>5, RanksAre DEF Cutovers
    <2>3. Rank(k) < Rank(KeyOf(r))
      BY <1>1, <1>5, <2>1, <2>2
    <2> QED
      BY <2>1, <2>2, <2>3
  <1>6. ASSUME KeyOf(r) = "apply-database-migrations", OfflineCutover(p.migrations)
        PROVE  DoneBy(r) \cap Cutovers # {}
    <2>1. PICK k \in CutoverMarks(p.migrations) : TRUE
      BY <1>6 DEF OfflineCutover, CutoverMarks
    <2>2. k \in {"codegraph-offline-cutover", "technology-offline-cutover"}
      BY <2>1 DEF CutoverMarks
    <2>3. Rank(k) < Rank(KeyOf(r)) /\ Rank(KeyOf(r)) # 0
      BY <1>6, <2>2, RanksAre
    <2>4. KeyOf(r) \in PlanMarks(p)
      BY <1>1, <2>3
    <2>5. KeyOf(r) # "publish-image"
      BY <1>6
    <2>6. k \in PlanMarks(p)
      BY <1>2, <1>3, <2>1, <2>4, <2>5
    <2>7. k \in DoneBy(r)
      BY <1>1, <2>3, <2>6
    <2> QED
      BY <2>2, <2>7 DEF Cutovers
  <1> QED
    BY <1>4, <1>5, <1>6 DEF p

--------------------------------------------------------------------------------
(***************************************************************************)
(* What a step does to production, and that it keeps production sound.     *)
(***************************************************************************)

\* The fields of production.
LEMMA ProductionIs ==
  ASSUME NEW prod \in Productions
  PROVE  /\ prod.service \in Commit /\ prod.spec \in Commit /\ prod.previous \in Commit
         /\ prod.compose \in Commit
         /\ prod.settings \in BOOLEAN /\ prod.migrated \in Seq(Migration)
         /\ prod.writers \in BOOLEAN /\ prod.floors \in SUBSET Floors
         /\ prod.dump \in Seq(Migration) /\ prod.loaded \in SUBSET Commit
         /\ prod.staged \in SUBSET Commit
         /\ prod.backup \in [service : Commit, spec : Commit, compose : Commit]
         /\ prod.backup.service \in Commit /\ prod.backup.spec \in Commit
         /\ prod.backup.compose \in Commit
         /\ prod.forum \in Commit \cup {"none", "other"}
  BY DEF Productions

\* What a step with an effect does to production, and what it leaves.
LEMMA EffectsAre ==
  ASSUME IsRelease(job), production \in Productions, IsGame(job), NEW converges \in BOOLEAN
  PROVE  LET k == KeyOf(job)
         IN /\ k = "publish-image" =>
                 GameEffect(converges) = [production EXCEPT !.loaded = @ \cup {job.commit}]
            /\ k = "stage-game-static-assets" =>
                 GameEffect(converges) = [production EXCEPT !.staged = @ \cup {job.commit}]
            /\ k = "backup-game-release" => GameEffect(converges) = BackUp
            /\ k \in Cutovers => GameEffect(converges) = Cutover
            /\ k = "update-remote-compose" =>
                 GameEffect(converges) = [production EXCEPT !.compose = job.commit]
            /\ k = "deploy-stack" => GameEffect(converges) = Deploy(converges)
            /\ k = "retire-design-image-settings-file" => GameEffect(converges) = RetireSettings
            /\ k \notin {"publish-image", "stage-game-static-assets", "backup-game-release",
                         "update-remote-compose", "deploy-stack",
                         "retire-design-image-settings-file"} \cup Cutovers =>
                 GameEffect(converges) = production
  <1>1. KeyOf(job) = Key
    BY DEF KeyOf, Key
  <1> QED
    BY <1>1 DEF GameEffect, Cutovers

\* Nothing that has been brought to production is taken away.
Grows(new, old) ==
  new.migrated = old.migrated /\ old.loaded \subseteq new.loaded /\ old.staged \subseteq new.staged

\* What is equipped stays so, and what is sound.
LEMMA EquippedGrows ==
  ASSUME NEW new, NEW old, Grows(new, old), NEW c, Equipped(old, c)
  PROVE  Equipped(new, c)
  BY DEF Grows, Equipped

LEMMA SoundKept ==
  ASSUME NEW new, NEW old, NEW base, Grows(new, old), Sound(old, base),
         new.service = old.service,
         ~new.writers => ~old.writers /\ new.dump = old.dump
  PROVE  Sound(new, base)
  BY EquippedGrows DEF Sound, Grows

\* Steps with an effect on what the invariant speaks of.
Effective == {"publish-image", "stage-game-static-assets", "backup-game-release",
              "update-remote-compose", "deploy-stack", "pre-deploy-checklist",
              "commit-game-cutover"} \cup Cutovers

\* One lemma for every step: how far it brings production.
LEMMA OtherStep ==
  ASSUME NEW r, NEW new, NEW old, NEW done, NEW k, k \notin Effective, Grows(new, old),
         new.service = old.service, new.spec = old.spec, new.compose = old.compose,
         new.writers = old.writers, new.dump = old.dump, new.backup = old.backup,
         GameReaches(r, old, done)
  PROVE  GameReaches(r, new, done \cup {k})
  <1>1. (done \cup {k}) \cap Cutovers = done \cap Cutovers
    BY DEF Effective
  <1>2. /\ "publish-image" \in done \cup {k} => "publish-image" \in done
        /\ "stage-game-static-assets" \in done \cup {k} => "stage-game-static-assets" \in done
        /\ "backup-game-release" \in done \cup {k} => "backup-game-release" \in done
        /\ "update-remote-compose" \in done \cup {k} => "update-remote-compose" \in done
        /\ "deploy-stack" \in done \cup {k} => "deploy-stack" \in done
        /\ "pre-deploy-checklist" \in done \cup {k} => "pre-deploy-checklist" \in done
        /\ "commit-game-cutover" \in done \cup {k} => "commit-game-cutover" \in done
    BY DEF Effective
  <1> QED
    BY <1>1, <1>2 DEF GameReaches, Grows

LEMMA PublishStep ==
  ASSUME NEW r, NEW prod \in Productions, NEW done, GameReaches(r, prod, done)
  PROVE  GameReaches(r, [prod EXCEPT !.loaded = @ \cup {r.commit}], done \cup {"publish-image"})
  <1> DEFINE new == [prod EXCEPT !.loaded = @ \cup {r.commit}]
  <1>1. /\ new.service = prod.service /\ new.spec = prod.spec
        /\ new.compose = prod.compose /\ new.writers = prod.writers
        /\ new.dump = prod.dump /\ new.backup = prod.backup /\ new.migrated = prod.migrated
        /\ new.staged = prod.staged /\ r.commit \in new.loaded
    BY DEF Productions
  <1> HIDE DEF new
  <1>2. (done \cup {"publish-image"}) \cap Cutovers = done \cap Cutovers
    BY DEF Cutovers
  <1> QED
    BY <1>1, <1>2 DEF GameReaches, new

LEMMA StageStep ==
  ASSUME NEW r, NEW prod \in Productions, NEW done, GameReaches(r, prod, done)
  PROVE  GameReaches(r, [prod EXCEPT !.staged = @ \cup {r.commit}],
                     done \cup {"stage-game-static-assets"})
  <1> DEFINE new == [prod EXCEPT !.staged = @ \cup {r.commit}]
  <1>1. /\ new.service = prod.service /\ new.spec = prod.spec
        /\ new.compose = prod.compose /\ new.writers = prod.writers
        /\ new.dump = prod.dump /\ new.backup = prod.backup /\ new.migrated = prod.migrated
        /\ new.loaded = prod.loaded /\ r.commit \in new.staged
    BY DEF Productions
  <1> HIDE DEF new
  <1>2. (done \cup {"stage-game-static-assets"}) \cap Cutovers = done \cap Cutovers
    BY DEF Cutovers
  <1> QED
    BY <1>1, <1>2 DEF GameReaches, new

LEMMA BackupStep ==
  ASSUME NEW r, NEW prod \in Productions, NEW done, GameReaches(r, prod, done),
         {"update-remote-compose", "deploy-stack", "pre-deploy-checklist",
          "commit-game-cutover"} \cap done = {}
  PROVE  GameReaches(r, [prod EXCEPT !.backup = [service |-> prod.service, spec |-> prod.spec,
                                                 compose |-> prod.compose]],
                     done \cup {"backup-game-release"})
  <1> DEFINE new == [prod EXCEPT !.backup = [service |-> prod.service, spec |-> prod.spec,
                                             compose |-> prod.compose]]
  <1>1. /\ new.service = prod.service /\ new.spec = prod.spec
        /\ new.compose = prod.compose /\ new.writers = prod.writers
        /\ new.dump = prod.dump /\ new.migrated = prod.migrated
        /\ new.loaded = prod.loaded /\ new.staged = prod.staged
        /\ new.backup.service = prod.service /\ new.backup.spec = prod.spec
        /\ new.backup.compose = prod.compose
    BY DEF Productions
  <1> HIDE DEF new
  <1>2. (done \cup {"backup-game-release"}) \cap Cutovers = done \cap Cutovers
    BY DEF Cutovers
  <1> QED
    BY <1>1, <1>2 DEF GameReaches, new

LEMMA CutoverStep ==
  ASSUME NEW r, NEW prod \in Productions, NEW done, GameReaches(r, prod, done),
         {"update-remote-compose", "deploy-stack", "pre-deploy-checklist",
          "commit-game-cutover"} \cap done = {},
         NEW k \in Cutovers, NEW floors
  PROVE  GameReaches(r, [prod EXCEPT !.writers = FALSE, !.floors = floors,
                                     !.dump = prod.migrated], done \cup {k})
  <1> DEFINE new == [prod EXCEPT !.writers = FALSE, !.floors = floors, !.dump = prod.migrated]
  <1>1. /\ new.service = prod.service /\ new.spec = prod.spec /\ new.compose = prod.compose
        /\ new.dump = prod.migrated /\ new.migrated = prod.migrated /\ new.backup = prod.backup
        /\ new.loaded = prod.loaded /\ new.staged = prod.staged
    BY DEF Productions
  <1> HIDE DEF new
  <1>2. /\ k # "publish-image" /\ k # "stage-game-static-assets" /\ k # "backup-game-release"
        /\ k # "update-remote-compose" /\ k # "deploy-stack" /\ k # "pre-deploy-checklist"
        /\ k # "commit-game-cutover"
    BY DEF Cutovers
  <1> QED
    BY <1>1, <1>2 DEF GameReaches, new

LEMMA UpdateStep ==
  ASSUME NEW r, NEW prod \in Productions, NEW done, GameReaches(r, prod, done)
  PROVE  GameReaches(r, [prod EXCEPT !.compose = r.commit], done \cup {"update-remote-compose"})
  <1> DEFINE new == [prod EXCEPT !.compose = r.commit]
  <1>1. /\ new.service = prod.service /\ new.spec = prod.spec /\ new.writers = prod.writers
        /\ new.dump = prod.dump /\ new.migrated = prod.migrated /\ new.backup = prod.backup
        /\ new.loaded = prod.loaded /\ new.staged = prod.staged /\ new.compose = r.commit
    BY DEF Productions
  <1> HIDE DEF new
  <1>2. (done \cup {"update-remote-compose"}) \cap Cutovers = done \cap Cutovers
    BY DEF Cutovers
  <1> QED
    BY <1>1, <1>2 DEF GameReaches, new

LEMMA DeployStep ==
  ASSUME NEW r, NEW new, NEW prod, NEW done, GameReaches(r, prod, done), Grows(new, prod),
         \/ new.service = prod.service /\ new.writers = prod.writers
         \/ new.service = r.commit /\ new.writers,
         new.compose = prod.compose, new.dump = prod.dump, new.backup = prod.backup
  PROVE  GameReaches(r, new, done \cup {"deploy-stack"})
  <1>1. (done \cup {"deploy-stack"}) \cap Cutovers = done \cap Cutovers
    BY DEF Cutovers
  <1> QED
    BY <1>1 DEF GameReaches, Grows

LEMMA CommitStep ==
  ASSUME NEW r, NEW prod, NEW done, GameReaches(r, prod, done), prod.writers
  PROVE  GameReaches(r, prod, done \cup {"commit-game-cutover"})
  <1>1. (done \cup {"commit-game-cutover"}) \cap Cutovers = done \cap Cutovers
    BY DEF Cutovers
  <1> QED
    BY <1>1 DEF GameReaches

LEMMA ChecklistStep ==
  ASSUME NEW r, NEW prod, NEW done, GameReaches(r, prod, done),
         r.applied = Len(r.request.migrations)
  PROVE  GameReaches(r, prod, done \cup {"pre-deploy-checklist"})
  <1>1. (done \cup {"pre-deploy-checklist"}) \cap Cutovers = done \cap Cutovers
    BY DEF Cutovers
  <1> QED
    BY <1>1 DEF GameReaches

\* Where the checklist has passed, the target finds its migrations.
LEMMA CommitReady ==
  ASSUME NEW r, NEW prod, NEW done, NEW kept, IsRelease(r), IsGame(r), Planned(r, kept),
         Sound(prod, kept["game"]), Reaches(r, prod, done), "pre-deploy-checklist" \in done
  PROVE  ScriptsUpTo(r.commit) \subseteq ToSet(prod.migrated)
  <1>1. r.applied = Len(r.request.migrations) /\ AppliedBy(r) \subseteq ToSet(prod.migrated)
    BY DEF Reaches, GameReaches
  <1>2. r.request.migrations \in Seq(Migration)
    BY ReleaseIs, RequestIs
  <1>3. AppliedBy(r) = ToSet(r.request.migrations)
    BY <1>1, <1>2 DEF AppliedBy, ToSet
  <1>4. ScriptsUpTo(r.commit) \subseteq ScriptsUpTo(kept["game"]) \cup ToSet(r.request.migrations)
    BY DEF Planned
  <1>5. ScriptsUpTo(kept["game"]) \subseteq ToSet(prod.migrated)
    BY DEF Sound
  <1> QED
    BY <1>1, <1>3, <1>4, <1>5

\* What the steps write is of the kind that is written there.
LEMMA Writes ==
  ASSUME NEW prod \in Productions
  PROVE  /\ \A set \in SUBSET Commit : [prod EXCEPT !.loaded = set] \in Productions
         /\ \A set \in SUBSET Commit : [prod EXCEPT !.staged = set] \in Productions
         /\ \A old \in [service : Commit, spec : Commit, compose : Commit] :
              [prod EXCEPT !.backup = old] \in Productions
         /\ \A set \in SUBSET Floors : \A dump \in Seq(Migration) :
              [prod EXCEPT !.writers = FALSE, !.floors = set, !.dump = dump] \in Productions
  BY DEF Productions

\* A step of a game release keeps production sound.
LEMMA GamePerforms ==
  ASSUME SequenceInv, job.running, Prerequisite, IsGame(job), NEW converges \in BOOLEAN
  PROVE  /\ GameEffect(converges) \in Productions
         /\ Sound(GameEffect(converges), accepted["game"])
         /\ Grows(GameEffect(converges), production)
         /\ GameReaches(job, GameEffect(converges), DoneBy(job) \cup {KeyOf(job)})
  <1> DEFINE k == KeyOf(job)
             done == DoneBy(job)
             base == accepted["game"]
             c == job.commit
             f == GameEffect(converges)
             prod == production
  <1>1. /\ IsRelease(job) /\ production \in Productions
        /\ Sound(prod, base) /\ Planned(job, accepted) /\ Reaches(job, prod, done)
    BY DEF SequenceInv, SequenceTypeOK, Idle
  <1>2. job.next \in 1..Len(job.steps) /\ c \in Commit /\ GameReaches(job, prod, done)
    BY <1>1, ReleaseIs DEF Planned, Reaches
  <1>3. /\ {"deploy-stack", "commit-game-cutover"} \cap (done \cup {k}) # {} =>
              {"publish-image", "stage-game-static-assets", "backup-game-release",
               "pre-deploy-checklist", "update-remote-compose"} \subseteq done
        /\ k \in {"backup-game-release"} \cup Cutovers \cup {"apply-database-migrations"} =>
              {"update-remote-compose", "deploy-stack", "pre-deploy-checklist",
               "commit-game-cutover"} \cap done = {}
    BY <1>1, <1>2, GameOrder
  <1>4. Key = k /\ GamePrerequisite
    BY DEF Key, KeyOf, Prerequisite, Game, IsGame
  <1>5. /\ k = "publish-image" => f = [prod EXCEPT !.loaded = @ \cup {c}]
        /\ k = "stage-game-static-assets" => f = [prod EXCEPT !.staged = @ \cup {c}]
        /\ k = "backup-game-release" => f = BackUp
        /\ k \in Cutovers => f = Cutover
        /\ k = "update-remote-compose" => f = [prod EXCEPT !.compose = c]
        /\ k = "deploy-stack" => f = Deploy(converges)
        /\ k = "retire-design-image-settings-file" => f = RetireSettings
        /\ k \notin {"publish-image", "stage-game-static-assets", "backup-game-release",
                     "update-remote-compose", "deploy-stack",
                     "retire-design-image-settings-file"} \cup Cutovers => f = prod
    BY <1>1, EffectsAre
  <1>6. CASE k = "publish-image"
    <2> DEFINE loaded == prod.loaded \cup {c}
    <2>1. f = [prod EXCEPT !.loaded = @ \cup {c}]
      BY <1>5, <1>6
    <2>2. /\ f.service = prod.service /\ f.writers = prod.writers /\ f.dump = prod.dump
          /\ Grows(f, prod)
      BY <1>1, <2>1 DEF Productions, Grows
    <2>3. f \in Productions
      <3>1. loaded \in SUBSET Commit /\ f = [prod EXCEPT !.loaded = loaded]
        BY <1>1, <1>2, <2>1, ProductionIs DEF Productions
      <3> HIDE DEF loaded, f
      <3> QED
        BY <1>1, <3>1, Writes
    <2>4. GameReaches(job, f, done \cup {k})
      BY <1>1, <1>2, <1>6, <2>1, PublishStep
    <2> HIDE DEF f, k, done, base, c, prod
    <2> QED
      BY <1>1, <2>2, <2>3, <2>4, SoundKept DEF f, k, done, base, prod
  <1>7. CASE k = "stage-game-static-assets"
    <2> DEFINE staged == prod.staged \cup {c}
    <2>1. f = [prod EXCEPT !.staged = @ \cup {c}]
      BY <1>5, <1>7
    <2>2. /\ f.service = prod.service /\ f.writers = prod.writers /\ f.dump = prod.dump
          /\ Grows(f, prod)
      BY <1>1, <2>1 DEF Productions, Grows
    <2>3. f \in Productions
      <3>1. staged \in SUBSET Commit /\ f = [prod EXCEPT !.staged = staged]
        BY <1>1, <1>2, <2>1, ProductionIs DEF Productions
      <3> HIDE DEF staged, f
      <3> QED
        BY <1>1, <3>1, Writes
    <2>4. GameReaches(job, f, done \cup {k})
      BY <1>1, <1>2, <1>7, <2>1, StageStep
    <2> HIDE DEF f, k, done, base, c, prod
    <2> QED
      BY <1>1, <2>2, <2>3, <2>4, SoundKept DEF f, k, done, base, prod
  <1>8. CASE k = "backup-game-release"
    <2>1. f = [prod EXCEPT !.backup = [service |-> prod.service, spec |-> prod.spec,
                                       compose |-> prod.compose]]
      BY <1>5, <1>8 DEF BackUp
    <2>2. /\ f.service = prod.service /\ f.writers = prod.writers /\ f.dump = prod.dump
          /\ Grows(f, prod)
      BY <1>1, <2>1 DEF Productions, Grows
    <2>3. f \in Productions
      <3> DEFINE old == [service |-> prod.service, spec |-> prod.spec, compose |-> prod.compose]
      <3>1. old \in [service : Commit, spec : Commit, compose : Commit]
        BY <1>1, ProductionIs
      <3>2. f = [prod EXCEPT !.backup = old]
        BY <2>1
      <3> HIDE DEF old, f
      <3> QED
        BY <1>1, <3>1, <3>2, Writes
    <2>4. {"update-remote-compose", "deploy-stack", "pre-deploy-checklist",
           "commit-game-cutover"} \cap done = {}
      BY <1>3, <1>8
    <2>5. GameReaches(job, f, done \cup {k})
      BY <1>1, <1>2, <1>8, <2>1, <2>4, BackupStep
    <2> HIDE DEF f, k, done, base, c, prod
    <2> QED
      BY <1>1, <2>2, <2>3, <2>5, SoundKept DEF f, k, done, base, prod
  <1>9. CASE k \in Cutovers
    <2> DEFINE floors == prod.floors \cup {Floor}
    <2>1. f = [prod EXCEPT !.writers = FALSE, !.floors = floors, !.dump = prod.migrated]
      BY <1>1, <1>4, <1>5, <1>9 DEF Cutover, Productions
    <2>2. /\ f.service = prod.service /\ f.writers = FALSE /\ f.dump = prod.migrated
          /\ Grows(f, prod) /\ f.migrated = prod.migrated
      BY <1>1, <2>1 DEF Productions, Grows
    <2>3. f \in Productions
      <3>1. floors \in SUBSET Floors /\ prod.migrated \in Seq(Migration)
        BY <1>1, ProductionIs DEF Floors, Floor
      <3> HIDE DEF floors, f
      <3> QED
        BY <1>1, <2>1, <3>1, Writes
    <2>4. {"update-remote-compose", "deploy-stack", "pre-deploy-checklist",
           "commit-game-cutover"} \cap done = {}
      BY <1>3, <1>9
    <2> HIDE DEF floors, f, k, done, base, c
    <2>5. GameReaches(job, f, done \cup {k})
      BY <1>1, <1>2, <1>9, <2>1, <2>4, CutoverStep
    <2> HIDE DEF prod
    <2>6. Sound(f, base)
      BY <1>1, <2>2, EquippedGrows DEF Sound, Equipped
    <2> QED
      BY <2>2, <2>3, <2>5, <2>6 DEF f, k, done, base, prod
  <1>10. CASE k = "update-remote-compose"
    <2>1. f = [prod EXCEPT !.compose = c]
      BY <1>5, <1>10
    <2>2. /\ f.service = prod.service /\ f.writers = prod.writers /\ f.dump = prod.dump
          /\ Grows(f, prod)
      BY <1>1, <2>1 DEF Productions, Grows
    <2>3. f \in Productions
      BY <1>1, <1>2, <2>1 DEF Productions
    <2>4. GameReaches(job, f, done \cup {k})
      BY <1>1, <1>2, <1>10, <2>1, UpdateStep
    <2> HIDE DEF f, k, done, base, c, prod
    <2> QED
      BY <1>1, <2>2, <2>3, <2>4, SoundKept DEF f, k, done, base, prod
  <1>11. CASE k = "deploy-stack"
    <2> DEFINE submitted == [prod EXCEPT !.previous = prod.spec, !.spec = c]
               converged == [submitted EXCEPT !.service = c, !.writers = TRUE]
    <2>1. f = IF converges THEN converged ELSE submitted
      BY <1>5, <1>11 DEF Deploy, Submit
    <2>2. /\ submitted \in Productions /\ Grows(submitted, prod)
          /\ submitted.service = prod.service /\ submitted.writers = prod.writers
          /\ submitted.compose = prod.compose /\ submitted.dump = prod.dump
          /\ submitted.backup = prod.backup /\ submitted.migrated = prod.migrated
      BY <1>1, <1>2, ProductionIs DEF Productions, Grows
    <2> HIDE DEF submitted
    <2>3. /\ converged \in Productions /\ Grows(converged, submitted)
          /\ converged.service = c /\ converged.writers = TRUE
          /\ converged.compose = submitted.compose /\ converged.dump = submitted.dump
          /\ converged.backup = submitted.backup /\ converged.migrated = submitted.migrated
      BY <1>2, <2>2 DEF Productions, Grows
    <2> HIDE DEF converged
    <2>4. {"publish-image", "stage-game-static-assets", "pre-deploy-checklist"} \subseteq done
      BY <1>3, <1>11
    <2>5. Grows(converged, prod)
      BY <2>2, <2>3 DEF Grows
    <2>6. c \in prod.loaded /\ c \in prod.staged
      BY <1>2, <2>4 DEF GameReaches
    <2>7. ScriptsUpTo(c) \subseteq ToSet(prod.migrated)
      BY <1>1, <2>4, CommitReady
    <2> HIDE DEF f, k, done, base, c, prod
    <2>8. /\ GameReaches(job, submitted, done \cup {"deploy-stack"})
          /\ GameReaches(job, converged, done \cup {"deploy-stack"})
      BY <1>2, <2>2, <2>3, <2>5, DeployStep DEF c
    <2>9. Sound(submitted, base)
      BY <1>1, <2>2, SoundKept DEF prod
    <2>10. Equipped(converged, c)
      BY <2>5, <2>6, <2>7 DEF Equipped, Grows
    <2>11. Sound(converged, base)
      BY <1>1, <2>2, <2>3, <2>10 DEF Sound, prod
    <2> QED
      BY <1>11, <2>1, <2>2, <2>3, <2>5, <2>8, <2>9, <2>11 DEF f, k, done, base, prod
  <1>12. CASE k = "retire-design-image-settings-file"
    <2>1. f = [prod EXCEPT !.settings = FALSE]
      BY <1>5, <1>12 DEF RetireSettings
    <2>2. /\ f.service = prod.service /\ f.writers = prod.writers /\ f.dump = prod.dump
          /\ f.spec = prod.spec
          /\ f.compose = prod.compose /\ f.backup = prod.backup /\ Grows(f, prod)
      BY <1>1, <2>1 DEF Productions, Grows
    <2>3. f \in Productions
      BY <1>1, <2>1 DEF Productions
    <2>4. k \notin Effective
      BY <1>12 DEF Effective, Cutovers
    <2> HIDE DEF f, k, done, base, c, prod
    <2>5. GameReaches(job, f, done \cup {k})
      BY <1>2, <2>2, <2>4, OtherStep
    <2> QED
      BY <1>1, <2>2, <2>3, <2>5, SoundKept DEF f, k, done, base, prod
  <1>13. CASE k = "pre-deploy-checklist"
    <2>1. f = prod
      BY <1>5, <1>13 DEF Cutovers
    <2>2. job.applied = Len(job.request.migrations)
      BY <1>4, <1>13 DEF GamePrerequisite, ChecklistPasses, AllApplied, Cutovers
    <2>3. GameReaches(job, f, done \cup {k})
      BY <1>2, <1>13, <2>1, <2>2, ChecklistStep
    <2>4. Grows(f, prod)
      BY <2>1 DEF Grows
    <2> QED
      BY <1>1, <2>1, <2>3, <2>4
  <1>14. CASE k \notin Effective \cup {"retire-design-image-settings-file"}
    <2>1. f = prod
      BY <1>5, <1>14 DEF Effective
    <2>2. Grows(f, prod)
      BY <2>1 DEF Grows
    <2>3. k \notin Effective
      BY <1>14
    <2> HIDE DEF f, k, done, base, c, prod
    <2>4. GameReaches(job, f, done \cup {k})
      BY <1>2, <2>1, <2>2, <2>3, OtherStep
    <2> QED
      BY <1>1, <2>1, <2>2, <2>4 DEF f, k, done, base, prod
  <1>15. CASE k = "commit-game-cutover"
    <2>1. f = prod
      BY <1>5, <1>15 DEF Cutovers
    <2>2. prod.writers
      BY <1>4, <1>15 DEF GamePrerequisite, RuntimeMatches, Cutovers
    <2>3. GameReaches(job, f, done \cup {k})
      BY <1>2, <1>15, <2>1, <2>2, CommitStep
    <2>4. Grows(f, prod)
      BY <2>1 DEF Grows
    <2> QED
      BY <1>1, <2>1, <2>3, <2>4
  <1> QED
    BY <1>6, <1>7, <1>8, <1>9, <1>10, <1>11, <1>12, <1>13, <1>14, <1>15 DEF Effective

\* A step of any release does.
LEMMA Performs ==
  ASSUME SequenceInv, job.running, Prerequisite, NEW converges \in BOOLEAN
  PROVE  /\ Performed(converges) \in Productions
         /\ Sound(Performed(converges), accepted["game"])
         /\ Reaches(job, Performed(converges), DoneBy(job) \cup {KeyOf(job)})
         /\ Performed(converges).migrated = production.migrated
  <1>1. /\ IsRelease(job) /\ production \in Productions
        /\ Sound(production, accepted["game"]) /\ Planned(job, accepted)
        /\ Reaches(job, production, DoneBy(job)) /\ job.commit \in Commit
    BY ReleaseIs DEF SequenceInv, SequenceTypeOK, Idle
  <1>2. CASE IsGame(job)
    <2>1. Performed(converges) = GameEffect(converges)
      BY <1>2 DEF Performed, Game, IsGame
    <2>2. /\ GameEffect(converges) \in Productions /\ Sound(GameEffect(converges), accepted["game"])
          /\ Grows(GameEffect(converges), production)
          /\ GameReaches(job, GameEffect(converges), DoneBy(job) \cup {KeyOf(job)})
      BY <1>2, GamePerforms
    <2>3. GameEffect(converges).migrated = production.migrated
      BY <2>2 DEF Grows
    <2>4. Equipped(production, job.start.service)
          /\ AppliedBy(job) \subseteq ToSet(production.migrated)
      BY <1>1 DEF Reaches
    <2>5. Equipped(GameEffect(converges), job.start.service)
      BY <2>2, <2>4, EquippedGrows
    <2>6. Reaches(job, GameEffect(converges), DoneBy(job) \cup {KeyOf(job)})
      BY <2>2, <2>3, <2>4, <2>5 DEF Reaches
    <2> QED
      BY <2>1, <2>2, <2>3, <2>6
  <1>3. CASE ~IsGame(job)
    <2>1. Performed(converges) = ForumEffect
      BY <1>3 DEF Performed, Game, IsGame
    <2>2. \/ ForumEffect = production
          \/ ForumEffect = [production EXCEPT !.forum = "other"]
          \/ ForumEffect = [production EXCEPT !.forum = job.commit]
      BY DEF ForumEffect
    <2>3. /\ ForumEffect \in Productions /\ Grows(ForumEffect, production)
          /\ ForumEffect.service = production.service
          /\ ForumEffect.writers = production.writers /\ ForumEffect.dump = production.dump
      <3>1. CASE ForumEffect = production
        BY <1>1, <3>1 DEF Grows
      <3>2. CASE ForumEffect = [production EXCEPT !.forum = "other"]
        BY <1>1, <3>2 DEF Productions, Grows
      <3>3. CASE ForumEffect = [production EXCEPT !.forum = job.commit]
        BY <1>1, <3>3 DEF Productions, Grows
      <3> QED
        BY <2>2, <3>1, <3>2, <3>3
    <2>4. Sound(ForumEffect, accepted["game"])
      BY <1>1, <2>3, SoundKept
    <2>5. ForumEffect.migrated = production.migrated
      BY <2>3 DEF Grows
    <2>6. Equipped(ForumEffect, job.start.service)
      BY <1>1, <2>3, EquippedGrows DEF Reaches
    <2>7. Reaches(job, ForumEffect, DoneBy(job) \cup {KeyOf(job)})
      BY <1>1, <1>3, <2>5, <2>6 DEF Reaches
    <2> QED
      BY <2>1, <2>3, <2>4, <2>5, <2>7
  <1> QED
    BY <1>2, <1>3

--------------------------------------------------------------------------------
(***************************************************************************)
(* The history: the newest entry first, the last one dropped when it is    *)
(* full.                                                                   *)
(***************************************************************************)

\* A new entry in front.
LEMMA ConsIs ==
  ASSUME NEW S, NEW e \in S, NEW h \in Seq(S)
  PROVE  /\ <<e>> \o h \in Seq(S) /\ Len(<<e>> \o h) = Len(h) + 1 /\ (<<e>> \o h)[1] = e
         /\ \A i \in 1..Len(h) : (<<e>> \o h)[i + 1] = h[i]
  <1>1. <<e>> \in Seq(S) /\ Len(<<e>>) = 1 /\ <<e>>[1] = e
    OBVIOUS
  <1>2. Len(h) \in Nat
    OBVIOUS
  <1>3. /\ <<e>> \o h \in Seq(S) /\ Len(<<e>> \o h) = 1 + Len(h)
        /\ \A i \in 1..(1 + Len(h)) :
             (<<e>> \o h)[i] = IF i <= 1 THEN <<e>>[i] ELSE h[i - 1]
    BY <1>1, ConcatProperties
  <1> DEFINE u == <<e>> \o h
  <1> HIDE DEF u
  <1>4. u[1] = e
    <2>1. 1 \in 1..(1 + Len(h)) /\ 1 <= 1
      BY <1>2
    <2> QED
      BY <1>1, <1>3, <2>1 DEF u
  <1>5. ASSUME NEW i \in 1..Len(h) PROVE u[i + 1] = h[i]
    <2>1. i + 1 \in 1..(1 + Len(h)) /\ ~(i + 1 <= 1) /\ (i + 1) - 1 = i
      BY <1>2
    <2> QED
      BY <1>3, <2>1 DEF u
  <1>6. Len(u) = Len(h) + 1
    BY <1>2, <1>3 DEF u
  <1> QED
    BY <1>3, <1>4, <1>5, <1>6 DEF u

\* The successful releases of a target.
Winners(h, t) == {i \in 1..Len(h) : Successful(h[i], t)}

\* The baseline is the first of them.
LEMMA BaselineIs ==
  ASSUME NEW h, NEW t, Len(h) \in Nat
  PROVE  /\ Winners(h, t) = {} => BaselineCommit(h, t) = "none"
         /\ \A m \in Winners(h, t) :
              (\A i \in Winners(h, t) : m <= i) => BaselineCommit(h, t) = h[m].commit
         /\ Winners(h, t) \in SUBSET Nat
  <1>1. Winners(h, t) \in SUBSET Nat
    BY DEF Winners
  <1>2. BaselineCommit(h, t) =
          LET n == IF Winners(h, t) # {} THEN Min(Winners(h, t)) ELSE 0
          IN IF n = 0 THEN "none" ELSE h[n].commit
    BY DEF BaselineCommit, SelectInSeq, Winners
  <1>3. \A i \in Winners(h, t) : i # 0
    BY DEF Winners
  <1> DEFINE W == Winners(h, t)
  <1> HIDE DEF W
  <1>4. ASSUME NEW m \in W, \A i \in W : m <= i PROVE Min(W) = m
    <2>1. Min(W) \in W /\ \A i \in W : Min(W) <= i
      BY <1>1, <1>4, MinIsLeast DEF W
    <2>2. Min(W) <= m /\ m <= Min(W) /\ m \in Nat /\ Min(W) \in Nat
      BY <1>1, <1>4, <2>1 DEF W
    <2> QED
      BY <2>2
  <1>5. ASSUME NEW m \in W, \A i \in W : m <= i PROVE BaselineCommit(h, t) = h[m].commit
    <2>1. Min(W) = m /\ W # {} /\ m # 0
      BY <1>3, <1>4, <1>5 DEF W
    <2> QED
      BY <1>2, <2>1 DEF W
  <1>6. W = {} => BaselineCommit(h, t) = "none"
    BY <1>2 DEF W
  <1> QED
    BY <1>1, <1>5, <1>6 DEF W

\* A new entry is the baseline if it is successful, and changes nothing otherwise.
LEMMA NewestFirst ==
  ASSUME NEW S, NEW e \in S, NEW h \in Seq(S), NEW t
  PROVE  BaselineCommit(<<e>> \o h, t) =
           IF Successful(e, t) THEN e.commit ELSE BaselineCommit(h, t)
  <1> DEFINE u == <<e>> \o h
  <1>1. /\ Len(h) \in Nat /\ Len(u) = Len(h) + 1 /\ u[1] = e
        /\ \A i \in 1..Len(h) : u[i + 1] = h[i]
    BY ConsIs
  <1> HIDE DEF u
  <1>2. Len(u) \in Nat /\ 1 \in 1..Len(u)
    BY <1>1
  <1>3. CASE Successful(e, t)
    <2>1. 1 \in Winners(u, t)
      BY <1>1, <1>2, <1>3 DEF Winners
    <2>2. \A i \in Winners(u, t) : 1 <= i
      BY DEF Winners
    <2>3. BaselineCommit(u, t) = u[1].commit
      BY <1>2, <2>1, <2>2, BaselineIs
    <2> QED
      BY <1>1, <1>3, <2>3 DEF u
  <1>4. CASE ~Successful(e, t)
    <2>1. ASSUME NEW i \in Winners(u, t)
          PROVE  i \in Nat /\ i - 1 \in Winners(h, t) /\ (i - 1) + 1 = i
      <3>1. i \in 1..Len(u) /\ Successful(u[i], t)
        BY <2>1 DEF Winners
      <3>2. i # 1
        BY <1>1, <1>4, <3>1
      <3>3. i - 1 \in 1..Len(h) /\ (i - 1) + 1 = i /\ i \in Nat
        BY <1>1, <3>1, <3>2
      <3>4. u[i] = h[i - 1]
        <4> DEFINE j == i - 1
        <4>1. j \in 1..Len(h) /\ j + 1 = i
          BY <3>3
        <4> HIDE DEF j
        <4>2. u[i] = h[j]
          BY <1>1, <4>1
        <4> QED
          BY <4>2 DEF j
      <3> QED
        BY <3>1, <3>3, <3>4 DEF Winners
    <2>2. ASSUME NEW i \in Winners(h, t) PROVE i \in Nat /\ i + 1 \in Winners(u, t)
      <3>1. i \in 1..Len(h) /\ Successful(h[i], t)
        BY <2>2 DEF Winners
      <3>2. i + 1 \in 1..Len(u) /\ u[i + 1] = h[i]
        BY <1>1, <3>1
      <3> QED
        BY <3>1, <3>2 DEF Winners
    <2>3. CASE Winners(h, t) = {}
      <3>1. Winners(u, t) = {}
        BY <2>1, <2>3
      <3>2. BaselineCommit(u, t) = "none" /\ BaselineCommit(h, t) = "none"
        BY <1>1, <1>2, <2>3, <3>1, BaselineIs
      <3> QED
        BY <1>4, <3>2 DEF u
    <2>4. CASE Winners(h, t) # {}
      <3>1. PICK m \in Winners(h, t) : \A i \in Winners(h, t) : m <= i
        BY <1>1, <2>4, BaselineIs, Least
      <3>2. BaselineCommit(h, t) = h[m].commit
        BY <1>1, <3>1, BaselineIs
      <3>3. m + 1 \in Winners(u, t) /\ m \in Nat
        BY <2>2
      <3>4. ASSUME NEW i \in Winners(u, t) PROVE m + 1 <= i
        <4>1. i \in Nat /\ i - 1 \in Winners(h, t)
          BY <2>1
        <4>2. m <= i - 1
          BY <3>1, <4>1
        <4> QED
          BY <3>3, <4>1, <4>2
      <3> DEFINE n == m + 1
      <3>5. u[n] = h[m]
        BY <1>1 DEF Winners
      <3> HIDE DEF n
      <3>6. BaselineCommit(u, t) = u[n].commit
        BY <1>2, <3>3, <3>4, BaselineIs DEF n
      <3> QED
        BY <1>4, <3>2, <3>5, <3>6 DEF u
    <2> QED
      BY <2>3, <2>4
  <1> QED
    BY <1>3, <1>4

\* What the history keeps: all, or all but the last entry.
Rest(h) == IF Len(h) = HistoryLimit THEN Front(h) ELSE h

\* Append100 puts the entry in front of what the history keeps.
LEMMA AppendIs ==
  ASSUME NEW S, NEW e \in S, NEW h \in Seq(S), Len(h) <= HistoryLimit
  PROVE  /\ Append100(h, e) = <<e>> \o Rest(h)
         /\ Rest(h) \in Seq(S) /\ Len(Rest(h)) + 1 <= HistoryLimit
  <1> DEFINE u == <<e>> \o h
             n == HistoryLimit
  <1>1. /\ u \in Seq(S) /\ Len(u) = Len(h) + 1 /\ u[1] = e /\ Len(h) \in Nat /\ n \in Nat
        /\ n # 0
        /\ \A i \in 1..Len(h) : u[i + 1] = h[i]
    BY ConsIs, HistoryAssumption
  <1>2. Append100(h, e) = IF Len(u) > n THEN SubSeq(u, 1, n) ELSE u
    BY DEF Append100
  <1>3. CASE Len(h) # n
    <2>1. ~(Len(u) > n) /\ Len(h) + 1 <= n
      BY <1>1, <1>3
    <2> QED
      BY <1>2, <1>3, <2>1 DEF Rest
  <1>4. CASE Len(h) = n
    <2> DEFINE f == Front(h)
               v == <<e>> \o f
               w == SubSeq(u, 1, n)
    <2>1. f = SubSeq(h, 1, n - 1)
      BY <1>4 DEF Front
    <2>2. f \in Seq(S) /\ Len(f) = n - 1 /\ \A i \in 1..(n - 1) : f[i] = h[i]
      <3>1. 1 \in Int /\ n - 1 \in Int /\ \A i \in 1..(n - 1) : h[i] \in S
        BY <1>1, <1>4
      <3>2. /\ SubSeq(h, 1, n - 1) \in Seq(S)
            /\ Len(SubSeq(h, 1, n - 1)) = IF 1 <= n - 1 THEN n - 1 - 1 + 1 ELSE 0
            /\ \A i \in 1..(n - 1 - 1 + 1) : SubSeq(h, 1, n - 1)[i] = h[1 + i - 1]
        BY <3>1, SubSeqProperties
      <3>3. /\ (IF 1 <= n - 1 THEN n - 1 - 1 + 1 ELSE 0) = n - 1
            /\ n - 1 - 1 + 1 = n - 1 /\ \A i \in 1..(n - 1) : 1 + i - 1 = i
        BY <1>1
      <3> HIDE DEF f
      <3> QED
        BY <2>1, <3>2, <3>3
    <2> HIDE DEF f
    <2>3. /\ v \in Seq(S) /\ Len(v) = Len(f) + 1 /\ v[1] = e
          /\ \A i \in 1..Len(f) : v[i + 1] = f[i]
      BY <2>2, ConsIs
    <2>4. w \in Seq(S) /\ Len(w) = n /\ \A i \in 1..n : w[i] = u[i]
      <3>1. 1 \in Int /\ n \in Int /\ \A i \in 1..n : u[i] \in S
        <4> HIDE DEF u, n
        <4> QED
          BY <1>1, <1>4
      <3> HIDE DEF u, n
      <3>2. /\ w \in Seq(S) /\ Len(w) = IF 1 <= n THEN n - 1 + 1 ELSE 0
            /\ \A i \in 1..(n - 1 + 1) : w[i] = u[1 + i - 1]
        BY <3>1, SubSeqProperties
      <3>3. (IF 1 <= n THEN n - 1 + 1 ELSE 0) = n /\ n - 1 + 1 = n /\ \A i \in 1..n : 1 + i - 1 = i
        BY <1>1
      <3> HIDE DEF w
      <3> QED
        BY <3>2, <3>3
    <2> HIDE DEF u, n, v, w
    <2>5. Len(v) = n /\ Len(w) = n /\ \A i \in 1..n : v[i] = w[i]
      <3>1. Len(v) = n /\ Len(w) = n
        BY <1>1, <2>2, <2>3, <2>4
      <3>2. ASSUME NEW i \in 1..n PROVE v[i] = w[i]
        <4>1. CASE i = 1
          BY <1>1, <2>3, <2>4, <3>2, <4>1
        <4>2. CASE i # 1
          <5>1. PICK j \in 1..(n - 1) : j + 1 = i
            <6>1. i - 1 \in 1..(n - 1) /\ (i - 1) + 1 = i
              BY <1>1, <3>2, <4>2
            <6> QED
              BY <6>1
          <5>2. v[i] = f[j] /\ f[j] = h[j]
            BY <2>2, <2>3, <5>1
          <5>3. j \in 1..Len(h)
            BY <1>1, <1>4, <5>1
          <5>4. w[i] = u[i] /\ u[i] = h[j]
            BY <1>1, <2>4, <5>1, <5>3
          <5> QED
            BY <5>2, <5>4
        <4> QED
          BY <4>1, <4>2
      <3> QED
        BY <3>1, <3>2
    <2>6. v = w
      BY <2>3, <2>4, <2>5, SeqEqual
    <2>7. Len(u) > n /\ Len(f) + 1 <= n /\ Rest(h) = f
      BY <1>1, <1>4, <2>2 DEF Rest, f, n
    <2> QED
      BY <1>2, <2>2, <2>6, <2>7 DEF v, w, n
  <1> QED
    BY <1>3, <1>4

\* Without one entry the history is shorter.
LEMMA DeleteIs ==
  ASSUME NEW S, NEW h \in Seq(S), NEW i \in DOMAIN h
  PROVE  Delete(h, i) \in Seq(S) /\ Len(Delete(h, i)) < Len(h)
  <1>1. i \in 1..Len(h) /\ Len(h) \in Nat
    OBVIOUS
  <1> DEFINE a == SubSeq(h, 1, i - 1)
             b == SubSeq(h, i + 1, Len(h))
  <1>2. a \in Seq(S) /\ Len(a) = i - 1
    <2>1. \A j \in 1..(i - 1) : h[j] \in S
      BY <1>1
    <2>2. 1 \in Int /\ i - 1 \in Int
      BY <1>1
    <2>3. a \in Seq(S) /\ Len(a) = IF 1 <= i - 1 THEN i - 1 - 1 + 1 ELSE 0
      BY <2>1, <2>2, SubSeqProperties
    <2> QED
      BY <1>1, <2>3
  <1>3. b \in Seq(S) /\ Len(b) = Len(h) - i
    <2>1. \A j \in (i + 1)..Len(h) : h[j] \in S
      BY <1>1
    <2>2. i + 1 \in Int /\ Len(h) \in Int
      BY <1>1
    <2>3. b \in Seq(S) /\ Len(b) = IF i + 1 <= Len(h) THEN Len(h) - (i + 1) + 1 ELSE 0
      BY <2>1, <2>2, SubSeqProperties
    <2> QED
      BY <1>1, <2>3
  <1>4. Delete(h, i) = a \o b
    BY DEF Delete, RemoveAt
  <1> HIDE DEF a, b
  <1>5. a \o b \in Seq(S) /\ Len(a \o b) = Len(a) + Len(b)
    BY <1>2, <1>3, ConcatProperties
  <1> QED
    BY <1>1, <1>2, <1>3, <1>4, <1>5

\* What is accepted, with a new commit for one target.
LEMMA Accepts ==
  ASSUME NEW a \in [game : Commit, forum : Commit \cup {"none"}],
         NEW t \in Targets, NEW c \in Commit
  PROVE  /\ [a EXCEPT ![t] = c] \in [game : Commit, forum : Commit \cup {"none"}]
         /\ \A u \in Targets : [a EXCEPT ![t] = c][u] = IF u = t THEN c ELSE a[u]
  <1>1. t = "game" \/ t = "forum"
    BY DEF Targets
  <1>2. CASE t = "game"
    <2>1. [a EXCEPT !["game"] = c] \in [game : Commit, forum : Commit \cup {"none"}]
      OBVIOUS
    <2>2. \A u \in Targets : [a EXCEPT !["game"] = c][u] = IF u = "game" THEN c ELSE a[u]
      BY DEF Targets
    <2> QED
      BY <1>2, <2>1, <2>2
  <1>3. CASE t = "forum"
    <2>1. [a EXCEPT !["forum"] = c] \in [game : Commit, forum : Commit \cup {"none"}]
      OBVIOUS
    <2>2. \A u \in Targets : [a EXCEPT !["forum"] = c][u] = IF u = "forum" THEN c ELSE a[u]
      BY DEF Targets
    <2> QED
      BY <1>3, <2>1, <2>2
  <1> QED
    BY <1>1, <1>2, <1>3

\* The statuses of a release that has ended.
Statuses == {"EXECUTED", "ERROR", "RECOVERY_REQUIRED", "INTERRUPTED", "ROLLED_BACK"}

\* The entry of the release; a successful one is of its commit and target.
LEMMA EntryIs ==
  ASSUME IsRelease(job), production \in Productions, NEW status \in Statuses, NEW done
  PROVE  /\ Entry(status, done) \in Entries
         /\ Entry(status, done).target = job.request.target
         /\ Entry(status, done).status = status
         /\ Entry(status, done).stack = job.request.stack
         /\ Entry(status, done).done = done \cap Recorded
         /\ Entry(status, done).commit # "none" => Entry(status, done).commit = job.commit
         /\ \A t : Successful(Entry(status, done), t) =>
              Entry(status, done).commit = job.commit /\ t = job.request.target
  <1> DEFINE e == Entry(status, done)
             c == IF "capture-release-commit" \in done THEN job.commit ELSE "none"
  <1>1. /\ job.request.target \in Targets /\ job.request.stack \in BOOLEAN /\ job.commit \in Commit
    BY ReleaseIs, RequestIs
  <1>2. e = [target |-> job.request.target, commit |-> c, stack |-> job.request.stack,
             status |-> status, done |-> done \cap Recorded, witness |-> Witness(done)]
    BY DEF Entry
  <1>3. c \in Commit \cup {"none"} /\ (c # "none" => c = job.commit)
    BY <1>1
  <1>0. Witness(done) \in Commit \cup {"none"}
    BY ProductionIs DEF Witness
  <1> HIDE DEF c, e
  <1>4. /\ e.target = job.request.target /\ e.status = status /\ e.stack = job.request.stack
        /\ e.done = done \cap Recorded /\ e.commit = c
    BY <1>2
  <1>5. e \in Entries
    BY <1>0, <1>1, <1>2, <1>3 DEF Entries, Statuses
  <1>6. ASSUME NEW t, Successful(e, t) PROVE e.commit = job.commit /\ t = job.request.target
    <2>1. e.commit # "none" /\ e.target = t
      BY <1>6 DEF Successful, ReachedProduction
    <2> QED
      BY <1>3, <1>4, <2>1
  <1> QED
    BY <1>3, <1>4, <1>5, <1>6 DEF e

\* A release that ends with production sound, and with the writers back if it is to be
\* the next baseline, keeps the invariant.
LEMMA Ends ==
  ASSUME SequenceInv, job.running, BaselinesFit,
         NEW status \in Statuses, NEW done, NEW final \in Productions,
         Sound(final, accepted["game"]),
         IsGame(job) /\ Successful(Entry(status, done), "game") =>
           ScriptsUpTo(job.commit) \subseteq ToSet(final.migrated) /\ final.writers,
         End(status, done, final)
  PROVE  SequenceInv' /\ history'[1] = Entry(status, done)
  <1> DEFINE e == Entry(status, done)
             t == job.request.target
             kept == Rest(history)
             u == <<e>> \o kept
  <1>1. /\ IsRelease(job) /\ production \in Productions
        /\ history \in Seq(Entries) /\ started \in 0..MaxReleases
        /\ accepted \in [game : Commit, forum : Commit \cup {"none"}]
    BY DEF SequenceInv, SequenceTypeOK, Idle
  <1>2. /\ \A s \in Targets : accepted[s] = BaselineCommit(history, s)
        /\ Len(history) <= HistoryLimit
    BY DEF SequenceInv, BaselineInv
  <1>3. t \in Targets /\ job.commit \in Commit
    BY <1>1, ReleaseIs, RequestIs
  <1>4. /\ e \in Entries
        /\ \A s : Successful(e, s) => e.commit = job.commit /\ s = t
    BY <1>1, EntryIs
  <1>5. /\ history' = Append100(history, e) /\ production' = final
        /\ accepted' = IF Successful(e, t) THEN [accepted EXCEPT ![t] = job.commit] ELSE accepted
        /\ job' = Idle /\ started' = started
    BY DEF End
  <1> HIDE DEF e, t
  <1>6. \A s \in Targets : BaselineCommit(kept, s) = BaselineCommit(history, s)
    BY DEF Rest, BaselinesFit
  <1>7. history' = u /\ kept \in Seq(Entries) /\ Len(kept) + 1 <= HistoryLimit
    BY <1>1, <1>2, <1>4, <1>5, AppendIs
  <1> HIDE DEF kept
  <1>8. u \in Seq(Entries) /\ Len(u) = Len(kept) + 1 /\ u[1] = e
    BY <1>4, <1>7, ConsIs
  <1>9. \A s \in Targets :
          BaselineCommit(u, s) = IF Successful(e, s) THEN e.commit ELSE BaselineCommit(history, s)
    BY <1>4, <1>6, <1>7, NewestFirst
  <1> HIDE DEF u
  <1>10. /\ accepted' \in [game : Commit, forum : Commit \cup {"none"}]
         /\ \A s \in Targets : accepted'[s] = IF Successful(e, s) THEN job.commit ELSE accepted[s]
    <2>1. CASE Successful(e, t)
      <3>1. /\ [accepted EXCEPT ![t] = job.commit] \in [game : Commit, forum : Commit \cup {"none"}]
            /\ \A s \in Targets : [accepted EXCEPT ![t] = job.commit][s] =
                 IF s = t THEN job.commit ELSE accepted[s]
        BY <1>1, <1>3, Accepts
      <3> QED
        BY <1>4, <1>5, <2>1, <3>1
    <2>2. CASE ~Successful(e, t)
      <3>1. \A s : ~Successful(e, s)
        BY <1>4, <2>2
      <3> QED
        BY <1>1, <1>5, <2>2, <3>1
    <2> QED
      BY <2>1, <2>2
  <1>11. job' = Idle /\ ~job'.running
    BY <1>5 DEF Idle
  <1>12. BaselineInv'
    <2>1. \A s \in Targets : accepted'[s] = BaselineCommit(history', s)
      BY <1>2, <1>4, <1>7, <1>9, <1>10
    <2>2. Len(history') <= HistoryLimit
      BY <1>7, <1>8
    <2> QED
      BY <2>1, <2>2 DEF BaselineInv
  <1>13. Sound(final, accepted'["game"])
    <2>1. accepted'["game"] = IF Successful(e, "game") THEN job.commit ELSE accepted["game"]
      BY <1>10 DEF Targets
    <2>2. CASE ~Successful(e, "game")
      BY <2>1, <2>2
    <2>3. CASE Successful(e, "game")
      <3>1. IsGame(job)
        BY <1>4, <2>3 DEF IsGame, t
      <3>2. ScriptsUpTo(job.commit) \subseteq ToSet(final.migrated) /\ final.writers
        BY <2>3, <3>1 DEF e
      <3> QED
        BY <2>1, <2>3, <3>2 DEF Sound
    <2> QED
      BY <2>2, <2>3
  <1>14. SequenceTypeOK'
    BY <1>1, <1>5, <1>7, <1>8, <1>10, <1>11 DEF SequenceTypeOK
  <1> QED
    BY <1>5, <1>7, <1>8, <1>11, <1>12, <1>13, <1>14 DEF SequenceInv, e

--------------------------------------------------------------------------------
(***************************************************************************)
(* The initial state, and the request.                                     *)
(***************************************************************************)

\* The first commit is served with its migrations, and is the baseline.
LEMMA StartInv ==
  ASSUME SequenceInit
  PROVE  SequenceInv
  <1> DEFINE e == [target |-> "game", commit |-> First, stack |-> TRUE, status |-> "EXECUTED",
                   done |-> Recorded \ {"game-rollback-command"}, witness |-> "none"]
             m == ByDependency(Only(MigrationPaths, ScriptsUpTo(First)))
  <1>1. /\ history = <<e>> /\ job = Idle
        /\ production = [service |-> First, spec |-> First, previous |-> First,
                         compose |-> First,
                         settings |-> TRUE, migrated |-> m,
                         writers |-> TRUE, floors |-> {}, dump |-> <<>>, loaded |-> {First},
                         staged |-> {First}, forum |-> First,
                         backup |-> [service |-> First, spec |-> First, compose |-> First]]
        /\ accepted = [game |-> First, forum |-> "none"] /\ started = 0
    BY DEF SequenceInit
  <1>2. First \in Commit /\ ~Cyclic(ScriptsUpTo(First))
    BY FirstAssumption
  <1>3. /\ m \in Seq(Migration) /\ ToSet(m) = ScriptsUpTo(First) /\ Orderly(m)
    <2>1. Migration \cap ScriptsUpTo(First) = ScriptsUpTo(First)
      BY DEF ScriptsUpTo
    <2>2. \A s \in ScriptsUpTo(First) :
            Expects[s] \in Migration => Expects[s] \in {} \cup ScriptsUpTo(First)
      BY <1>2, ExpectsAssumption
    <2> HIDE DEF m
    <2>3. /\ m \in Seq(Migration) /\ ToSet(m) = Migration \cap ScriptsUpTo(First)
          /\ Follows(m, {})
      BY <1>2, <2>1, <2>2, SortedFollow DEF m
    <2> QED
      BY <2>1, <2>3 DEF Orderly
  <1>4. e \in Entries
    BY <1>2 DEF Entries, Targets, Recorded
  <1>5. \A t : Successful(e, t) <=> t = "game"
    BY <1>2, CommitAssumption DEF Successful, ReachedProduction
  <1>6. e.commit = First
    OBVIOUS
  <1> HIDE DEF e, m
  <1>7. history \in Seq(Entries) /\ Len(history) = 1 /\ history[1] = e
    BY <1>1, <1>4
  <1>8. BaselineCommit(history, "game") = First /\ BaselineCommit(history, "forum") = "none"
    <2>1. Winners(history, "game") = {1}
      BY <1>5, <1>7 DEF Winners
    <2>2. Winners(history, "forum") = {}
      BY <1>5, <1>7 DEF Winners
    <2>3. BaselineCommit(history, "forum") = "none"
      BY <1>7, <2>2, BaselineIs
    <2>4. BaselineCommit(history, "game") = history[1].commit
      BY <1>7, <2>1, BaselineIs
    <2> QED
      BY <1>6, <1>7, <2>3, <2>4
  <1>9. ~job.running /\ started \in 0..MaxReleases
    BY <1>1, MaxReleasesAssumption DEF Idle
  <1>10. BaselineInv
    BY <1>1, <1>7, <1>8, HistoryAssumption DEF BaselineInv, Targets
  <1>11. production \in Productions
    BY <1>1, <1>2, <1>3 DEF Productions
  <1>12. SequenceTypeOK
    BY <1>1, <1>2, <1>7, <1>9, <1>11 DEF SequenceTypeOK
  <1>13. Sound(production, accepted["game"])
    BY <1>1, <1>3 DEF Sound, Equipped
  <1> QED
    BY <1>9, <1>10, <1>12, <1>13 DEF SequenceInv

\* Short sequences.
LEMMA TupleSeqs ==
  \A a, b, c : IsSeq(<<a>>) /\ IsSeq(<<a, b>>) /\ IsSeq(<<a, b, c>>)
  <1> TAKE a, b, c
  <1>1. a \in {a, b, c} /\ b \in {a, b, c} /\ c \in {a, b, c}
    OBVIOUS
  <1> QED
    BY <1>1, TuplesAre DEF IsSeq

\* What is an element of a part is one of the whole.
Has(s, x) == \E i \in 1..Len(s) : s[i] = x

LEMMA ConcatHas ==
  ASSUME NEW s, IsSeq(s), NEW t, IsSeq(t), NEW x, Has(s, x) \/ Has(t, x)
  PROVE  Has(s \o t, x)
  <1> DEFINE u == s \o t
  <1>1. /\ IsSeq(u) /\ Len(u) = Len(s) + Len(t)
        /\ \A i \in 1..Len(s) + Len(t) : u[i] = IF i <= Len(s) THEN s[i] ELSE t[i - Len(s)]
    BY ConcatIs
  <1>2. Len(s) \in Nat /\ Len(t) \in Nat
    BY SeqHasLength
  <1> HIDE DEF u
  <1>3. ASSUME NEW i \in 1..Len(s) PROVE \E j \in 1..Len(u) : u[j] = s[i]
    <2>1. i \in 1..Len(u) /\ u[i] = s[i]
      BY <1>1, <1>2
    <2> QED
      BY <2>1
  <1>4. ASSUME NEW i \in 1..Len(t) PROVE \E j \in 1..Len(u) : u[j] = t[i]
    <2>1. i + Len(s) \in 1..Len(u) /\ ~(i + Len(s) <= Len(s)) /\ i + Len(s) - Len(s) = i
      BY <1>1, <1>2
    <2>2. u[i + Len(s)] = t[i]
      BY <1>1, <2>1
    <2> QED
      BY <2>1, <2>2
  <1> QED
    BY <1>3, <1>4 DEF Has, u

\* The pieces of a forum release are sequences.
LEMMA ForumSequences ==
  ASSUME NEW p \in Requests
  PROVE  IsSeq(ForumImageSteps(p)) /\ IsSeq(When(p.stack, ForumStackSteps(p)))
  <1> DEFINE P == <<"publish-image">>
             d == <<"backup-forum-release", "update-remote-compose", "deploy-forum-compose">>
             e == <<"final-runtime-check", "forum-rollback-command">>
             i == <<"validate-forum-source", "build-image", "validate-forum-image">>
             h == <<"resolve-ssh-target", "read-remote-compose", "forum-preflight">>
             o == <<"validate-existing-forum-image">>
  <1>1. IsSeq(P) /\ IsSeq(d) /\ IsSeq(e) /\ IsSeq(i) /\ IsSeq(h) /\ IsSeq(o)
    BY TupleSeqs
  <1>2. ForumImageSteps(p) = IF p.reuse THEN o ELSE i \o When(~p.stack, P)
    BY DEF ForumImageSteps
  <1>3. ForumStackSteps(p) = (h \o When(~p.reuse, P)) \o (d \o e)
    <2>1. <<"backup-forum-release", "update-remote-compose", "deploy-forum-compose",
            "final-runtime-check", "forum-rollback-command">> = d \o e
      OBVIOUS
    <2> QED
      BY <2>1 DEF ForumStackSteps
  <1> HIDE DEF P, d, e, i, h, o
  <1>4. \A c : \A s : IsSeq(s) => IsSeq(When(c, s))
    <2>1. IsSeq(<<>>)
      BY EmptySeq DEF IsSeq
    <2> QED
      BY <2>1 DEF When
  <1>5. IsSeq(i \o When(~p.stack, P)) /\ IsSeq(h \o When(~p.reuse, P)) /\ IsSeq(d \o e)
    BY <1>1, <1>4, ConcatIs
  <1>6. IsSeq(ForumStackSteps(p))
    BY <1>3, <1>5, ConcatIs
  <1> QED
    BY <1>1, <1>2, <1>4, <1>5, <1>6

\* A plan has a step to execute.
LEMMA SomeStep ==
  ASSUME NEW p \in Requests
  PROVE  1 \in 1..Len(Executed(p))
  <1>1. Marked(Executed(p), PlanMarks(p), 0, 19)
    BY ExecutedMarked
  <1>2. Len(Executed(p)) \in Nat
    BY <1>1, SeqHasLength DEF Marked
  <1>3. CASE p.target = "game"
    <2>1. "publish-image" \in PlanMarks(p)
      BY <1>3 DEF PlanMarks, ReleaseMarks, Early
    <2>2. \E i \in 1..Len(Executed(p)) : TRUE
      BY <1>1, <2>1 DEF Marked
    <2> QED
      BY <1>2, <2>2
  <1>4. CASE p.target # "game"
    <2> DEFINE v == "validate-release-input"
               a == When(~p.reuse, <<"git-status-before-update", "git-fetch", "git-update",
                                     "capture-release-commit">>)
                    \o When(p.assessed, <<"validate-release-impact-checklist">>)
               b == ForumImageSteps(p)
               c == When(p.stack, ForumStackSteps(p))
    <2>1. Steps(p) = ForumSteps(p)
      BY <1>4 DEF Steps
    <2>2. IsSeq(a)
      <3>1. Plain(<<"git-status-before-update", "git-fetch">>)
        BY PlainTuples, UnmarkedSteps
      <3>2. Plain(<<"git-update", "capture-release-commit">>)
        BY PlainTuples, UnmarkedSteps
      <3>3. <<"git-status-before-update", "git-fetch", "git-update", "capture-release-commit">>
              = <<"git-status-before-update", "git-fetch">>
                \o <<"git-update", "capture-release-commit">>
        OBVIOUS
      <3>4. Plain(<<"validate-release-impact-checklist">>)
        BY PlainTuples, UnmarkedSteps
      <3>5. Plain(a)
        BY <3>1, <3>2, <3>3, <3>4, PlainConcat, PlainWhen
      <3> QED
        BY <3>5 DEF Plain
    <2>3. ForumSourceSteps(p) = a \o <<v>>
      BY DEF ForumSourceSteps
    <2>4. IsSeq(<<v>>) /\ Len(<<v>>) = 1 /\ <<v>>[1] = v
      BY TuplesAre DEF IsSeq
    <2>5. v \notin RecoveryOnly
      BY DEF RecoveryOnly, ToSet, RecoverySteps
    <2>6. IsSeq(b) /\ IsSeq(c)
      BY ForumSequences
    <2>7. ForumSteps(p) = ((a \o <<v>>) \o b) \o c
      BY <2>3 DEF ForumSteps
    <2> HIDE DEF a, v, b, c
    <2> DEFINE f == a \o <<v>>
               g == f \o b
               all == g \o c
    <2>8. Has(<<v>>, v)
      <3>1. 1 \in 1..Len(<<v>>)
        BY <2>4
      <3> QED
        BY <2>4, <3>1 DEF Has
    <2>9. IsSeq(f) /\ Has(f, v)
      BY <2>2, <2>4, <2>8, ConcatIs, ConcatHas
    <2> HIDE DEF f
    <2>10. IsSeq(g) /\ Has(g, v)
      BY <2>6, <2>9, ConcatIs, ConcatHas
    <2> HIDE DEF g
    <2>11. IsSeq(all) /\ Has(all, v)
      BY <2>6, <2>10, ConcatIs, ConcatHas
    <2> HIDE DEF all
    <2>12. Steps(p) = all
      BY <2>1, <2>7 DEF f, g, all
    <2>13. PICK T : all \in Seq(T)
      BY <2>11 DEF IsSeq
    <2>14. v \in ToSet(all) \ RecoveryOnly
      BY <2>5, <2>11, <2>13 DEF ToSet, Has
    <2> DEFINE kept == Only(all, ToSet(all) \ RecoveryOnly)
    <2>15. /\ kept \in Seq(T) /\ ToSet(kept) = ToSet(all) \cap (ToSet(all) \ RecoveryOnly)
      BY <2>13, OnlyMembers
    <2>16. Executed(p) = kept
      BY <2>12 DEF Executed
    <2> HIDE DEF kept
    <2>17. v \in ToSet(kept)
      BY <2>14, <2>15
    <2>18. \E i \in 1..Len(kept) : TRUE
      BY <2>15, <2>17 DEF ToSet
    <2> QED
      BY <1>2, <2>16, <2>18
  <1> QED
    BY <1>3, <1>4

\* A release that is admitted is planned from the baseline on.
LEMMA PrepareInv ==
  ASSUME SequenceInv, NEW target \in Targets, NEW commit \in Commit, NEW branch,
         NEW stack \in BOOLEAN, NEW standby \in BOOLEAN, NEW reuse \in BOOLEAN,
         NEW force \in BOOLEAN, target = "game" => ~reuse,
         Prepare(target, commit, branch, stack, standby, reuse, force)
  PROVE  SequenceInv'
  <1> DEFINE baseline == BaselineCommit(history, target)
             m == IF target = "game" THEN Migrations(baseline, commit) ELSE <<>>
             p == [target |-> target, stack |-> stack, standby |-> standby, reuse |-> reuse,
                   assessed |-> ~reuse /\ Assessed(baseline, commit, target),
                   checks |-> IF reuse THEN {} ELSE RequiredChecks(baseline, commit, target),
                   migrations |-> m]
             start == [service |-> production.service, spec |-> production.spec,
                       compose |-> production.compose, settings |-> production.settings]
             r == [running |-> TRUE, request |-> p, commit |-> commit, steps |-> Executed(p),
                   next |-> 1, applied |-> 0, start |-> start]
  <1>1. /\ history \in Seq(Entries) /\ production \in Productions
        /\ accepted \in [game : Commit, forum : Commit \cup {"none"}]
        /\ started \in 0..MaxReleases
        /\ \A t \in Targets : accepted[t] = BaselineCommit(history, t)
        /\ Sound(production, accepted["game"])
    BY DEF SequenceInv, SequenceTypeOK, BaselineInv
  <1>2. /\ ~job.running /\ started < MaxReleases
        /\ ~reuse => ~Refused(baseline, commit, branch, target, force)
        /\ job' = r /\ started' = started + 1
        /\ history' = history /\ production' = production /\ accepted' = accepted
    BY DEF Prepare
  <1>3. Len(history) <= HistoryLimit
    BY DEF SequenceInv, BaselineInv
  <1>4. baseline = accepted[target]
    BY <1>1
  <1>5. target = "game" => baseline \in Commit
    BY <1>1, <1>4
  <1> HIDE DEF baseline
  <1>6. target = "game" =>
          /\ baseline \in Past[commit] /\ m \in Seq(Migration)
          /\ ScriptsUpTo(commit) \subseteq ScriptsUpTo(baseline) \cup ToSet(m)
          /\ Follows(m, ScriptsUpTo(baseline))
    <2> SUFFICES ASSUME target = "game"
                 PROVE  /\ baseline \in Past[commit] /\ m \in Seq(Migration)
                        /\ ScriptsUpTo(commit) \subseteq ScriptsUpTo(baseline) \cup ToSet(m)
                        /\ Follows(m, ScriptsUpTo(baseline))
      OBVIOUS
    <2>1. ~Refused(baseline, commit, branch, "game", force)
      BY <1>2
    <2>2. m = Migrations(baseline, commit)
      OBVIOUS
    <2> HIDE DEF m
    <2> QED
      BY <1>5, <2>1, <2>2, MigrationsLead
  <1>7. m \in Seq(Migration) /\ (target # "game" => m = <<>>)
    BY <1>6, EmptySeq
  <1>8. target # "game" /\ ~reuse => baseline = "none" \/ baseline \in Past[commit]
    <2> SUFFICES ASSUME target # "game", ~reuse, baseline # "none"
                 PROVE  baseline \in Past[commit]
      OBVIOUS
    <2>1. ~DirectionRefused(baseline, commit)
      BY <1>2 DEF Refused
    <2>2. baseline \in Commit
      BY <1>1, <1>4 DEF Targets
    <2> QED
      BY <2>1, <2>2, NotRefused
  <1>9. p \in Requests
    <2>1. (IF reuse THEN {} ELSE RequiredChecks(baseline, commit, target)) \in SUBSET STRING
      BY DocumentAssumption DEF RequiredChecks
    <2>2. (~reuse /\ Assessed(baseline, commit, target)) \in BOOLEAN
      OBVIOUS
    <2> HIDE DEF m
    <2> QED
      BY <1>7, <2>1, <2>2 DEF Requests
  <1>10. p.target = target /\ p.migrations = m /\ p.reuse = reuse
    OBVIOUS
  <1> HIDE DEF p, m
  <1>11. /\ start \in [service : Commit, spec : Commit, compose : Commit, settings : BOOLEAN]
         /\ start.service = production.service /\ start.spec = production.spec
         /\ start.compose = production.compose
    BY <1>1, ProductionIs
  <1> HIDE DEF start
  <1>12. /\ r.running /\ r.request = p /\ r.commit = commit /\ r.steps = Executed(p)
         /\ r.next = 1 /\ r.applied = 0 /\ r.start = start
    OBVIOUS
  <1>13. IsRelease(r)
    <2>1. r \in Releases(Executed(p))
      BY <1>9, <1>11 DEF Releases
    <2> QED
      BY <1>12, <2>1 DEF IsRelease
  <1> HIDE DEF r
  <1>14. Planned(r, accepted)
    <2>1. r.next \in 1..Len(r.steps)
      BY <1>9, <1>12, SomeStep
    <2>2. r.applied \in 0..Len(r.request.migrations)
      BY <1>7, <1>10, <1>12
    <2>3. IsGame(r) <=> target = "game"
      BY <1>10, <1>12 DEF IsGame
    <2>4. ~IsGame(r) => accepted["forum"] = baseline
      BY <1>4, <2>3 DEF Targets
    <2>5. IsGame(r) => accepted["game"] = baseline
      BY <1>4, <2>3
    <2> QED
      BY <1>6, <1>7, <1>8, <1>10, <1>12, <2>1, <2>2, <2>3, <2>4, <2>5 DEF Planned
  <1>15. DoneBy(r) = {} /\ AppliedBy(r) = {}
    BY <1>12 DEF DoneBy, AppliedBy
  <1>16. Reaches(r, production, {})
    BY <1>1, <1>11, <1>12, <1>15 DEF Reaches, GameReaches, Sound
  <1>17. SequenceTypeOK'
    <2>1. started' \in 0..MaxReleases
      BY <1>1, <1>2, MaxReleasesAssumption
    <2> QED
      BY <1>1, <1>2, <1>13, <2>1 DEF SequenceTypeOK
  <1>18. BaselineInv'
    BY <1>1, <1>2, <1>3 DEF BaselineInv
  <1>19. Sound(production', accepted'["game"])
    BY <1>1, <1>2
  <1>20. Planned(job', accepted') /\ Reaches(job', production', DoneBy(job'))
    BY <1>2, <1>14, <1>15, <1>16
  <1> QED
    BY <1>17, <1>18, <1>19, <1>20 DEF SequenceInv

\* One more script, whose predecessor is there.
LEMMA AppendOrderly ==
  ASSUME NEW m \in Seq(Migration), Orderly(m), NEW s \in Migration,
         Expects[s] \in Migration => Expects[s] \in ToSet(m) \cup {s}
  PROVE  /\ Append(m, s) \in Seq(Migration) /\ Orderly(Append(m, s))
         /\ ToSet(Append(m, s)) = ToSet(m) \cup {s}
  <1> DEFINE a == Append(m, s)
  <1>1. /\ a \in Seq(Migration) /\ Len(a) = Len(m) + 1 /\ a[Len(m) + 1] = s
        /\ \A i \in 1..Len(m) : a[i] = m[i]
    BY AppendProperties
  <1>2. Len(m) \in Nat /\ DOMAIN m = 1..Len(m) /\ DOMAIN a = 1..(Len(m) + 1)
    BY <1>1
  <1> HIDE DEF a
  <1>3. \A i \in 1..(Len(m) + 1) : i \in 1..Len(m) \/ i = Len(m) + 1
    BY <1>2
  <1>4. ToSet(a) = ToSet(m) \cup {s}
    <2>1. ToSet(a) = {a[i] : i \in 1..(Len(m) + 1)} /\ ToSet(m) = {m[i] : i \in 1..Len(m)}
      BY <1>2 DEF ToSet
    <2>2. \A i \in 1..Len(m) : i \in 1..(Len(m) + 1)
      BY <1>2
    <2>3. Len(m) + 1 \in 1..(Len(m) + 1)
      BY <1>2
    <2> QED
      BY <1>1, <1>3, <2>1, <2>2, <2>3
  <1>5. ASSUME NEW i \in 1..Len(m), Expects[m[i]] \in Migration
        PROVE  \E j \in 1..i : a[j] = Expects[m[i]]
    <2>1. PICK j \in 1..i : m[j] = Expects[m[i]]
      BY <1>2, <1>5 DEF Orderly, Follows
    <2>2. j \in 1..Len(m)
      BY <1>2, <2>1
    <2> QED
      BY <1>1, <2>1, <2>2
  <1>6. ASSUME Expects[s] \in Migration
        PROVE  \E j \in 1..(Len(m) + 1) : a[j] = Expects[s]
    <2>1. Expects[s] \in ToSet(a)
      BY <1>4, <1>6
    <2> QED
      BY <1>2, <2>1 DEF ToSet
  <1>7. Orderly(a)
    <2> SUFFICES ASSUME NEW i \in 1..(Len(m) + 1), Expects[a[i]] \in Migration
                 PROVE  \E j \in 1..i : a[j] = Expects[a[i]]
      BY <1>2 DEF Orderly, Follows
    <2>1. CASE i \in 1..Len(m)
      BY <1>1, <1>5, <2>1
    <2>2. CASE i = Len(m) + 1
      BY <1>1, <1>6, <2>2
    <2> QED
      BY <1>3, <2>1, <2>2
  <1> QED
    BY <1>1, <1>4, <1>7 DEF a

--------------------------------------------------------------------------------
(***************************************************************************)
(* The steps of a release.                                                 *)
(***************************************************************************)

\* What the migration of one script does.
LEMMA MigrateIs ==
  ASSUME SequenceInv, Migrate
  PROVE  /\ IsRelease(job) /\ IsGame(job) /\ Planned(job, accepted)
         /\ KeyOf(job) = "apply-database-migrations"
         /\ job.applied + 1 \in 1..Len(job.request.migrations)
         /\ LET script == job.request.migrations[job.applied + 1]
            IN /\ script \in Migration
               /\ Expects[script] \in Migration =>
                    Expects[script] \in ToSet(production.migrated) \cup {script}
               /\ production' = [production EXCEPT !.migrated =
                                   IF script \in ToSet(@) THEN @ ELSE Append(@, script)]
  <1> DEFINE m == job.request.migrations
             n == job.applied + 1
             script == m[n]
  <1>1. /\ IsRelease(job) /\ Planned(job, accepted) /\ Reaches(job, production, DoneBy(job))
        /\ Sound(production, accepted["game"])
    BY DEF SequenceInv, SequenceTypeOK, Migrate, Idle
  <1>2. m \in Seq(Migration) /\ job.applied \in Nat
    BY <1>1, ReleaseIs, RequestIs
  <1>3. job.applied \in 0..Len(m) /\ (~IsGame(job) => m = <<>>)
    BY <1>1 DEF Planned
  <1>4. /\ job.applied # Len(m) /\ KeyOf(job) = "apply-database-migrations"
        /\ production' = [production EXCEPT !.migrated =
                                   IF script \in ToSet(@) THEN @ ELSE Append(@, script)]
    BY DEF Migrate, AllApplied, Key, KeyOf
  <1> HIDE DEF m
  <1>5. n \in 1..Len(m)
    BY <1>2, <1>3, <1>4
  <1>6. m # <<>>
    BY <1>2, <1>5, EmptySeq
  <1>7. IsGame(job)
    BY <1>3, <1>6
  <1>8. script \in Migration
    BY <1>2, <1>5
  <1>9. Follows(m, ScriptsUpTo(accepted["game"]))
        /\ ScriptsUpTo(accepted["game"]) \subseteq ToSet(production.migrated)
        /\ AppliedBy(job) \subseteq ToSet(production.migrated)
    BY <1>1, <1>7 DEF Planned, Sound, Reaches, m
  <1>10. Expects[script] \in Migration =>
           Expects[script] \in ToSet(production.migrated) \cup {script}
    <2> SUFFICES ASSUME Expects[script] \in Migration,
                        Expects[script] \notin ScriptsUpTo(accepted["game"])
                 PROVE  Expects[script] \in ToSet(production.migrated) \cup {script}
      BY <1>9
    <2>1. PICK j \in 1..n : m[j] = Expects[script]
      BY <1>2, <1>5, <1>9 DEF Follows
    <2>2. CASE j = n
      BY <2>1, <2>2
    <2>3. CASE j # n
      <3>1. j \in 1..job.applied
        BY <1>2, <2>1, <2>3
      <3>2. m[j] \in AppliedBy(job)
        BY <3>1 DEF AppliedBy, m
      <3> QED
        BY <1>9, <2>1, <3>2
    <2> QED
      BY <2>2, <2>3
  <1> QED
    BY <1>1, <1>4, <1>5, <1>7, <1>8, <1>10 DEF m

\* One migration keeps the invariant.
LEMMA MigrateInv ==
  ASSUME SequenceInv, Migrate
  PROVE  SequenceInv'
  <1> DEFINE m == job.request.migrations
             script == m[job.applied + 1]
             done == DoneBy(job)
             old == production.migrated
             new == IF script \in ToSet(old) THEN old ELSE Append(old, script)
             prod == [production EXCEPT !.migrated = new]
             r == [job EXCEPT !.applied = @ + 1]
             base == accepted["game"]
  <1>1. /\ IsRelease(job) /\ IsGame(job) /\ Planned(job, accepted)
        /\ KeyOf(job) = "apply-database-migrations"
        /\ job.applied + 1 \in 1..Len(m) /\ script \in Migration
        /\ Expects[script] \in Migration => Expects[script] \in ToSet(old) \cup {script}
        /\ production' = [production EXCEPT !.migrated =
                            IF script \in ToSet(@) THEN @ ELSE Append(@, script)]
    BY MigrateIs
  <1>2. /\ job.running /\ job' = r
        /\ history' = history /\ accepted' = accepted /\ started' = started
    BY DEF Migrate
  <1>3. /\ SequenceTypeOK /\ BaselineInv /\ Sound(production, base)
        /\ Reaches(job, production, done) /\ production \in Productions
    BY <1>2 DEF SequenceInv, SequenceTypeOK
  <1>4. production' = prod
    BY <1>1, <1>3 DEF Productions
  <1>5. old \in Seq(Migration) /\ Orderly(old)
    BY <1>3, ProductionIs DEF Sound
  <1>6. new \in Seq(Migration) /\ Orderly(new) /\ ToSet(new) = ToSet(old) \cup {script}
    <2>1. CASE script \in ToSet(old)
      BY <1>5, <2>1
    <2>2. CASE script \notin ToSet(old)
      <3> HIDE DEF old, script
      <3>1. /\ Append(old, script) \in Seq(Migration) /\ Orderly(Append(old, script))
            /\ ToSet(Append(old, script)) = ToSet(old) \cup {script}
        BY <1>1, <1>5, AppendOrderly
      <3> QED
        BY <2>2, <3>1
    <2> QED
      BY <2>1, <2>2
  <1> HIDE DEF new, script
  <1>7. /\ prod \in Productions /\ prod.migrated = new /\ prod.service = production.service
        /\ prod.spec = production.spec
        /\ prod.compose = production.compose /\ prod.writers = production.writers
        /\ prod.dump = production.dump /\ prod.loaded = production.loaded
        /\ prod.staged = production.staged /\ prod.backup = production.backup
    BY <1>3, <1>6 DEF Productions
  <1>8. /\ IsRelease(r) /\ r.running /\ r.request = job.request /\ r.commit = job.commit
        /\ r.steps = job.steps /\ r.next = job.next /\ r.start = job.start
        /\ r.applied = job.applied + 1
    <2> DEFINE start == [service : Commit, spec : Commit, compose : Commit, settings : BOOLEAN]
               plan == Executed(job.request)
               n == job.applied + 1
    <2>1. job \in [running : {TRUE}, request : Requests, commit : Commit, steps : {plan},
                   next : Nat, applied : Nat, start : start]
      BY <1>1 DEF IsRelease, Releases
    <2> HIDE DEF start, plan
    <2>0. n \in Nat /\ r = [job EXCEPT !.applied = n]
      BY <2>1
    <2> HIDE DEF r, n
    <2>2. r \in [running : {TRUE}, request : Requests, commit : Commit, steps : {plan},
                 next : Nat, applied : Nat, start : start]
      BY <2>0, <2>1
    <2>3. /\ r.running /\ r.request = job.request /\ r.commit = job.commit
          /\ r.steps = job.steps /\ r.start = job.start
          /\ r.next = job.next /\ r.applied = n
      BY <2>0, <2>1
    <2>4. r \in Releases(plan)
      BY <2>2 DEF Releases, start
    <2> QED
      BY <2>3, <2>4 DEF IsRelease, plan, n
  <1> HIDE DEF prod, r, old
  <1>9. Sound(prod, base)
    BY <1>3, <1>6, <1>7 DEF Sound, Equipped, old
  <1>10. DoneBy(r) = done /\ (IsGame(r) <=> IsGame(job))
    BY <1>8 DEF DoneBy, IsGame
  <1>11. AppliedBy(r) = AppliedBy(job) \cup {script}
    <2>1. job.applied \in Nat
      BY <1>1, ReleaseIs
    <2>2. 1..(job.applied + 1) = 1..job.applied \cup {job.applied + 1}
      BY <2>1
    <2> QED
      BY <1>8, <2>2 DEF AppliedBy, script
  <1>12. Planned(r, accepted)
    <2>1. r.applied \in 0..Len(r.request.migrations)
      BY <1>1, <1>8
    <2> QED
      BY <1>1, <1>8, <1>10, <2>1 DEF Planned
  <1>13. {"update-remote-compose", "deploy-stack", "pre-deploy-checklist",
          "commit-game-cutover"} \cap done = {}
    <2>1. job.next \in 1..Len(job.steps)
      BY <1>1 DEF Planned
    <2> QED
      BY <1>1, <2>1, GameOrder
  <1>14. GameReaches(job, production, done)
    BY <1>1, <1>3 DEF Reaches
  <1>15. "pre-deploy-checklist" \notin done
    BY <1>13
  <1> HIDE DEF done
  <1>16. done \cap Cutovers # {} => ToSet(new) \subseteq ToSet(prod.dump) \cup AppliedBy(r)
    BY <1>6, <1>7, <1>11, <1>14 DEF GameReaches, old
  <1>17. GameReaches(r, prod, done)
    BY <1>7, <1>8, <1>14, <1>15, <1>16 DEF GameReaches
  <1>18. Equipped(prod, r.start.service)
    BY <1>3, <1>6, <1>7, <1>8 DEF Reaches, Equipped, old
  <1>19. AppliedBy(r) \subseteq ToSet(prod.migrated)
    BY <1>3, <1>6, <1>7, <1>11 DEF Reaches, old
  <1>20. Reaches(r, prod, done)
    BY <1>17, <1>18, <1>19 DEF Reaches
  <1>21. SequenceTypeOK'
    BY <1>2, <1>3, <1>4, <1>7, <1>8 DEF SequenceTypeOK
  <1>22. BaselineInv'
    BY <1>2, <1>3, <1>8 DEF BaselineInv
  <1> QED
    BY <1>2, <1>4, <1>9, <1>10, <1>12, <1>20, <1>21, <1>22 DEF SequenceInv

\* One step keeps the invariant.
LEMMA StepInv ==
  ASSUME SequenceInv, NEW converges \in BOOLEAN, Step(converges)
  PROVE  SequenceInv'
  <1> DEFINE r == [job EXCEPT !.next = @ + 1]
             f == Performed(converges)
  <1>1. /\ job.running /\ Prerequisite /\ production' = f /\ job' = r /\ job.next < Len(job.steps)
        /\ history' = history /\ accepted' = accepted /\ started' = started
    BY DEF Step
  <1>2. /\ f \in Productions /\ Sound(f, accepted["game"])
        /\ Reaches(job, f, DoneBy(job) \cup {KeyOf(job)})
    BY <1>1, Performs
  <1>3. SequenceTypeOK /\ BaselineInv /\ IsRelease(job) /\ Planned(job, accepted)
    BY <1>1 DEF SequenceInv, SequenceTypeOK, Idle
  <1> HIDE DEF f
  <1>4. /\ IsRelease(r) /\ r.running /\ r.request = job.request /\ r.commit = job.commit
        /\ r.steps = job.steps /\ r.next = job.next + 1 /\ r.start = job.start
        /\ r.applied = job.applied
    <2> DEFINE start == [service : Commit, spec : Commit, compose : Commit, settings : BOOLEAN]
               plan == Executed(job.request)
               n == job.next + 1
    <2>1. job \in [running : {TRUE}, request : Requests, commit : Commit, steps : {plan},
                   next : Nat, applied : Nat, start : start]
      BY <1>3 DEF IsRelease, Releases
    <2> HIDE DEF start, plan
    <2>0. n \in Nat /\ r = [job EXCEPT !.next = n]
      BY <2>1
    <2> HIDE DEF r, n
    <2>2. r \in [running : {TRUE}, request : Requests, commit : Commit, steps : {plan},
                 next : Nat, applied : Nat, start : start]
      BY <2>0, <2>1
    <2>3. /\ r.running /\ r.request = job.request /\ r.commit = job.commit
          /\ r.steps = job.steps /\ r.start = job.start
          /\ r.applied = job.applied /\ r.next = n
      BY <2>0, <2>1
    <2>4. r \in Releases(plan)
      BY <2>2 DEF Releases, start
    <2> QED
      BY <2>3, <2>4 DEF IsRelease, plan, n
  <1> HIDE DEF r
  <1>5. job.next \in 1..Len(job.steps) /\ Len(job.steps) \in Nat
    <2>1. Marked(job.steps, PlanMarks(job.request), 0, 19)
      BY <1>3, ReleaseIs, ExecutedMarked
    <2> QED
      BY <1>3, <2>1, SeqHasLength DEF Planned, Marked
  <1>6. DoneBy(r) = DoneBy(job) \cup {KeyOf(job)}
    <2>1. 1..(r.next - 1) = 1..(job.next - 1) \cup {job.next}
      BY <1>4, <1>5
    <2> QED
      BY <1>4, <2>1 DEF DoneBy, KeyOf
  <1>7. Planned(r, accepted)
    <2>1. r.next \in 1..Len(r.steps)
      BY <1>1, <1>4, <1>5
    <2> QED
      BY <1>3, <1>4, <2>1 DEF Planned, IsGame
  <1>8. Reaches(r, f, DoneBy(r))
    BY <1>2, <1>4, <1>6 DEF Reaches, GameReaches, AppliedBy, IsGame
  <1>9. SequenceTypeOK'
    BY <1>1, <1>2, <1>3, <1>4 DEF SequenceTypeOK
  <1>10. BaselineInv'
    BY <1>1, <1>3, <1>4 DEF BaselineInv
  <1> QED
    BY <1>1, <1>2, <1>7, <1>8, <1>9, <1>10 DEF SequenceInv

--------------------------------------------------------------------------------
(***************************************************************************)
(* How a release ends.                                                     *)
(***************************************************************************)

\* A successful release has been executed, or is held and has deployed.
LEMMA SuccessIs ==
  ASSUME IsRelease(job), production \in Productions, NEW status \in Statuses, NEW done, NEW t,
         Successful(Entry(status, done), t)
  PROVE  /\ job.request.stack
         /\ status = "EXECUTED" \/ (status = "RECOVERY_REQUIRED" /\ "commit-game-cutover" \in done)
  <1> DEFINE e == Entry(status, done)
  <1>1. e.stack = job.request.stack /\ e.status = status /\ e.done = done \cap Recorded
    BY EntryIs
  <1> HIDE DEF e
  <1>2. Successful(e, t)
    BY DEF e
  <1> QED
    BY <1>1, <1>2 DEF Successful, ReachedProduction, Held

\* Where a game's cutover has been committed, its scripts are there and the writers back.
LEMMA Deployed ==
  ASSUME NEW r, NEW prod, NEW kept, NEW done, IsRelease(r), IsGame(r), Planned(r, kept),
         Sound(prod, kept["game"]), Reaches(r, prod, done),
         DoneBy(r) \subseteq done, done \subseteq DoneBy(r) \cup {KeyOf(r)},
         "commit-game-cutover" \in done
  PROVE  /\ ScriptsUpTo(r.commit) \subseteq ToSet(prod.migrated) /\ prod.writers
         /\ "backup-game-release" \in done
  <1>1. r.next \in 1..Len(r.steps)
    BY DEF Planned
  <1>2. {"publish-image", "stage-game-static-assets", "backup-game-release",
         "pre-deploy-checklist", "update-remote-compose"} \subseteq DoneBy(r)
    BY <1>1, GameOrder
  <1>3. "pre-deploy-checklist" \in done /\ "backup-game-release" \in done
    BY <1>2
  <1>4. prod.writers
    BY DEF Reaches, GameReaches
  <1> QED
    BY <1>3, <1>4, CommitReady

\* A rollback changes settings, service, Spec and Compose file, and nothing else.
Rewritten(prod, settings, version, previous, compose) ==
  [prod EXCEPT !.settings = settings, !.service = version, !.spec = version,
               !.previous = previous, !.compose = compose]

\* What it leaves is of its kind, and has all that was there.
LEMMA Rewrites ==
  ASSUME NEW prod \in Productions, NEW settings \in BOOLEAN, NEW version \in Commit,
         NEW previous \in Commit, NEW compose \in Commit,
         NEW r, r = Rewritten(prod, settings, version, previous, compose)
  PROVE  /\ r \in Productions /\ Grows(r, prod) /\ r.writers = prod.writers
         /\ r.dump = prod.dump /\ r.service = version /\ r.forum = prod.forum
  <1>1. r \in Productions
    BY DEF Productions, Rewritten
  <1>2. /\ r.writers = prod.writers /\ r.dump = prod.dump /\ r.service = version
        /\ r.forum = prod.forum
    BY DEF Productions, Rewritten
  <1>3. Grows(r, prod)
    BY DEF Productions, Grows, Rewritten
  <1> QED
    BY <1>1, <1>2, <1>3

\* Compensation and rollback, the latter interrupted or not.
LEMMA Recovers ==
  ASSUME IsRelease(job), NEW final \in Productions, NEW base, Sound(final, base)
  PROVE  /\ Compensated(final) \in Productions /\ Sound(Compensated(final), base)
         /\ Compensated(final).service = final.service
         /\ Compensated(final).forum = final.forum
         /\ \A done :
              Reaches(job, final, done) /\ IsGame(job) /\ "backup-game-release" \in done =>
                \A rest \in PartlyRestored(final) :
                  /\ rest \in Productions /\ Sound(rest, base)
                  /\ rest.migrated = final.migrated /\ rest.writers = final.writers
                  /\ rest.service \in {final.service, job.start.service}
                  /\ rest.forum = final.forum
  <1>1. /\ job.start.service \in Commit /\ job.start.compose \in Commit
        /\ job.start.settings \in BOOLEAN
    BY ReleaseIs
  <1> DEFINE c == Compensated(final)
  <1>2. /\ c \in Productions /\ c.service = final.service /\ c.writers = final.writers
        /\ c.dump = final.dump /\ Grows(c, final) /\ c.forum = final.forum
    BY <1>1 DEF Compensated, Productions, Grows
  <1> HIDE DEF c
  <1>3. Sound(c, base)
    BY <1>2, SoundKept
  <1>4. ASSUME NEW done, Reaches(job, final, done), IsGame(job),
               "backup-game-release" \in done, NEW rest \in PartlyRestored(final)
        PROVE  /\ rest \in Productions /\ Sound(rest, base)
               /\ rest.migrated = final.migrated /\ rest.writers = final.writers
               /\ rest.service \in {final.service, job.start.service}
               /\ rest.forum = final.forum
    <2> DEFINE settings == [final EXCEPT !.settings = @ \/ job.start.settings]
               submitted == [settings EXCEPT !.spec = final.backup.service,
                                             !.previous = final.spec]
               converged == [submitted EXCEPT !.service = final.backup.service]
    <2>1. \/ rest = final \/ rest = settings \/ rest = submitted
          \/ rest = converged \/ rest = Restored(final)
      BY <1>4 DEF PartlyRestored
    <2>2. final.backup.service = job.start.service
      BY <1>4 DEF Reaches, GameReaches
    <2>3. /\ settings \in Productions /\ Grows(settings, final)
          /\ settings.writers = final.writers /\ settings.dump = final.dump
          /\ settings.service = final.service /\ settings.forum = final.forum
      BY <1>1 DEF Productions, Grows
    <2> HIDE DEF settings
    <2>4. /\ submitted \in Productions /\ Grows(submitted, settings)
          /\ submitted.writers = settings.writers /\ submitted.dump = settings.dump
          /\ submitted.service = settings.service /\ submitted.forum = settings.forum
      BY <1>1, <2>2, <2>3, ProductionIs DEF Productions, Grows
    <2> HIDE DEF submitted
    <2>11. /\ converged \in Productions /\ Grows(converged, submitted)
           /\ converged.writers = submitted.writers /\ converged.dump = submitted.dump
           /\ converged.service = job.start.service /\ converged.forum = submitted.forum
      BY <1>1, <2>2, <2>4 DEF Productions, Grows
    <2> HIDE DEF converged
    <2>5. /\ Restored(final) \in Productions /\ Grows(Restored(final), final)
          /\ Restored(final).writers = final.writers /\ Restored(final).dump = final.dump
          /\ Restored(final).service = job.start.service /\ Restored(final).forum = final.forum
      <3> DEFINE back == IF Retry(final) THEN final.compose ELSE final.backup.compose
                 found == final.settings \/ job.start.settings
      <3>1. back \in Commit /\ found \in BOOLEAN /\ final.spec \in Commit
        BY <1>1, ProductionIs
      <3>2. Restored(final) =
              Rewritten(final, found, final.backup.service, final.spec, back)
        BY DEF Restored, Rewritten
      <3> HIDE DEF back, found
      <3>3. final.backup.service \in Commit
        BY <1>1, <2>2
      <3> QED
        BY <2>2, <3>1, <3>2, <3>3, Rewrites
    <2>6. /\ rest \in Productions /\ Grows(rest, final) /\ rest.writers = final.writers
          /\ rest.dump = final.dump /\ rest.service \in {final.service, job.start.service}
          /\ rest.forum = final.forum
      <3>1. CASE rest = final
        BY <3>1 DEF Grows
      <3>2. CASE rest = settings
        BY <2>3, <3>2
      <3>3. CASE rest = submitted
        BY <2>3, <2>4, <3>3 DEF Grows
      <3>4. CASE rest = converged
        BY <2>3, <2>4, <2>11, <3>4 DEF Grows
      <3>5. CASE rest = Restored(final)
        BY <2>5, <3>5
      <3> QED
        BY <2>1, <3>1, <3>2, <3>3, <3>4, <3>5
    <2>7. final.writers \/ final.service = job.start.service
      BY <1>4 DEF Reaches, GameReaches
    <2>8. Equipped(rest, final.service) /\ Equipped(rest, job.start.service)
      BY <1>4, <2>6, EquippedGrows DEF Sound, Reaches
    <2>9. rest.migrated = final.migrated
      BY <2>6 DEF Grows
    <2>10. Sound(rest, base)
      BY <2>6, <2>7, <2>8, <2>9 DEF Sound
    <2> QED
      BY <2>6, <2>9, <2>10
  <1> QED
    BY <1>2, <1>3, <1>4 DEF c

\* What is known of production where a step may have happened, or not.
Far(happened) == IF happened THEN DoneBy(job) \cup {KeyOf(job)} ELSE DoneBy(job)
\* What it leaves behind, the step happened or not.
Left(happened, converges) == IF happened THEN Performed(converges) ELSE production

\* That is sound as well.
LEMMA LeftIs ==
  ASSUME SequenceInv, job.running, NEW happened \in BOOLEAN, NEW converges \in BOOLEAN,
         happened => Prerequisite
  PROVE  /\ Left(happened, converges) \in Productions
         /\ Sound(Left(happened, converges), accepted["game"])
         /\ Reaches(job, Left(happened, converges), Far(happened))
         /\ Left(happened, converges).migrated = production.migrated
  <1>1. CASE happened
    <2>1. /\ Performed(converges) \in Productions
          /\ Sound(Performed(converges), accepted["game"])
          /\ Reaches(job, Performed(converges), DoneBy(job) \cup {KeyOf(job)})
          /\ Performed(converges).migrated = production.migrated
      BY <1>1, Performs
    <2> QED
      BY <1>1, <2>1 DEF Left, Far
  <1>2. CASE ~happened
    <2>1. /\ production \in Productions /\ Sound(production, accepted["game"])
          /\ Reaches(job, production, DoneBy(job))
      BY DEF SequenceInv, SequenceTypeOK
    <2> QED
      BY <1>2, <2>1 DEF Left, Far
  <1> QED
    BY <1>1, <1>2

\* A held release that is to be the next baseline has its migrations.
LEMMA HeldReady ==
  ASSUME SequenceInv, job.running, NEW final \in Productions,
         NEW happened \in BOOLEAN, NEW converges \in BOOLEAN,
         Sound(final, accepted["game"]), Sound(Left(happened, converges), accepted["game"]),
         Reaches(job, Left(happened, converges), Far(happened)),
         final.migrated = Left(happened, converges).migrated,
         final.writers = Left(happened, converges).writers,
         NEW status \in Statuses, status # "EXECUTED", IsGame(job),
         Successful(Entry(status, DoneBy(job)), "game")
  PROVE  ScriptsUpTo(job.commit) \subseteq ToSet(final.migrated) /\ final.writers
  <1>1. IsRelease(job) /\ production \in Productions /\ Planned(job, accepted)
    BY DEF SequenceInv, SequenceTypeOK, Idle
  <1>2. "commit-game-cutover" \in DoneBy(job)
    BY <1>1, SuccessIs
  <1>3. /\ DoneBy(job) \subseteq Far(happened)
        /\ Far(happened) \subseteq DoneBy(job) \cup {KeyOf(job)}
    BY DEF Far
  <1>4. /\ ScriptsUpTo(job.commit) \subseteq ToSet(Left(happened, converges).migrated)
        /\ Left(happened, converges).writers
    BY <1>1, <1>2, <1>3, Deployed
  <1> QED
    BY <1>4

\* A release that finishes keeps the invariant.
LEMMA FinishInv ==
  ASSUME SequenceInv, BaselinesFit, Finish
  PROVE  SequenceInv'
  <1> DEFINE done == DoneBy(job) \cup {KeyOf(job)}
             f == Performed(TRUE)
  <1>1. /\ job.running /\ job.next = Len(job.steps) /\ Prerequisite
        /\ End("EXECUTED", done, f)
    BY DEF Finish, Done, Key, DoneBy, KeyOf
  <1>2. /\ f \in Productions /\ Sound(f, accepted["game"]) /\ Reaches(job, f, done)
    BY <1>1, Performs
  <1>3. IsRelease(job) /\ production \in Productions /\ Planned(job, accepted)
    BY <1>1 DEF SequenceInv, SequenceTypeOK, Idle
  <1> HIDE DEF f
  <1>4. ASSUME IsGame(job), Successful(Entry("EXECUTED", done), "game")
        PROVE  ScriptsUpTo(job.commit) \subseteq ToSet(f.migrated) /\ f.writers
    <2>1. job.request.stack
      BY <1>3, <1>4, SuccessIs DEF Statuses
    <2>2. "commit-game-cutover" \in PlanMarks(job.request)
      BY <1>4, <2>1 DEF PlanMarks, ReleaseMarks, Middle, IsGame
    <2>3. Marked(job.steps, PlanMarks(job.request), 0, 19)
      BY <1>3, ReleaseIs, ExecutedMarked
    <2>4. Len(job.steps) \in Nat
      BY <2>3, SeqHasLength DEF Marked
    <2>5. PICK i \in 1..Len(job.steps) : job.steps[i] = "commit-game-cutover"
      BY <2>2, <2>3 DEF Marked
    <2>6. i \in 1..(job.next - 1) \/ i = job.next
      BY <1>1, <2>4
    <2>7. job.steps[i] \in done
      BY <2>6 DEF DoneBy, KeyOf
    <2>8. "commit-game-cutover" \in done
      BY <2>5, <2>7
    <2>9. DoneBy(job) \subseteq done
      OBVIOUS
    <2> HIDE DEF done
    <2> QED
      BY <1>2, <1>3, <1>4, <2>8, <2>9, Deployed DEF done
  <1> HIDE DEF done
  <1>5. "EXECUTED" \in Statuses
    BY DEF Statuses
  <1> QED
    BY <1>1, <1>2, <1>4, <1>5, Ends

\* How a release that has not gone through ends.
LEMMA Breaks ==
  ASSUME SequenceInv, job.running, BaselinesFit,
         NEW happened \in BOOLEAN, NEW converges \in BOOLEAN, happened => Prerequisite,
         NEW status \in Statuses, status # "EXECUTED",
         NEW done, status = "RECOVERY_REQUIRED" => done = DoneBy(job),
         NEW final \in Productions, Sound(final, accepted["game"]),
         final.migrated = Left(happened, converges).migrated,
         final.writers = Left(happened, converges).writers,
         End(status, done, final)
  PROVE  SequenceInv' /\ history'[1] = Entry(status, done)
  <1>1. IsRelease(job) /\ production \in Productions
    BY DEF SequenceInv, SequenceTypeOK, Idle
  <1>2. /\ Sound(Left(happened, converges), accepted["game"])
        /\ Reaches(job, Left(happened, converges), Far(happened))
    BY LeftIs
  <1>3. ASSUME IsGame(job), Successful(Entry(status, done), "game")
        PROVE  ScriptsUpTo(job.commit) \subseteq ToSet(final.migrated) /\ final.writers
    <2>1. done = DoneBy(job)
      BY <1>1, <1>3, SuccessIs
    <2> QED
      BY <1>2, <1>3, <2>1, HeldReady
  <1> QED
    BY <1>3, Ends

\* The ways in which a release fails.
LEMMA FailParts ==
  ASSUME NEW happened \in BOOLEAN, NEW converges \in BOOLEAN, NEW cancelled \in BOOLEAN,
         Fail(happened, converges, cancelled)
  PROVE  LET final == Left(happened, converges)
             evaluated == IsGame(job) /\ "deploy-stack" \in DoneBy(job) \cup {KeyOf(job)}
         IN /\ job.running
            /\ (happened => Prerequisite)
            /\ \/ End("ERROR", DoneBy(job), Compensated(final))
               \/ End("RECOVERY_REQUIRED", DoneBy(job), final)
               \/ End("ERROR", DoneBy(job), final)
               \/ /\ evaluated
                  /\ End("ROLLED_BACK", DoneBy(job) \cup {"game-rollback-command"}, Restored(final))
               \/ /\ evaluated
                  /\ \E rest \in PartlyRestored(final) :
                       End("RECOVERY_REQUIRED", DoneBy(job), rest)
  BY DEF Fail, Left, Evaluated, Reached, Done, DoneBy, Key, KeyOf, Game, IsGame

\* Where a rollback is considered, the backup of this release is there.
LEMMA EvaluatedReaches ==
  ASSUME SequenceInv, job.running, NEW happened \in BOOLEAN, happened => Prerequisite,
         IsGame(job), "deploy-stack" \in DoneBy(job) \cup {KeyOf(job)}
  PROVE  "backup-game-release" \in Far(happened) /\ "update-remote-compose" \in Far(happened)
  <1>1. IsRelease(job) /\ Planned(job, accepted)
    BY DEF SequenceInv, SequenceTypeOK, Idle
  <1>2. job.next \in 1..Len(job.steps)
    BY <1>1 DEF Planned
  <1>3. {"publish-image", "stage-game-static-assets", "backup-game-release",
         "pre-deploy-checklist", "update-remote-compose"} \subseteq DoneBy(job)
    BY <1>1, <1>2, GameOrder
  <1> QED
    BY <1>3 DEF Far

\* What a release that breaks off leaves behind.
LEMMA FailLeaves ==
  ASSUME SequenceInv, BaselinesFit,
         NEW happened \in BOOLEAN, NEW converges \in BOOLEAN, NEW cancelled \in BOOLEAN,
         Fail(happened, converges, cancelled)
  PROVE  /\ SequenceInv'
         /\ job.running
         /\ (happened => Prerequisite)
         /\ production'.service \in {Left(happened, converges).service, job.start.service}
         /\ production'.forum = Left(happened, converges).forum
         /\ production'.migrated = production.migrated
         /\ \/ \E status \in Statuses \ {"ROLLED_BACK"} : \E done :
                 history'[1] = Entry(status, done)
            \/ IsGame(job) /\ production' = Restored(Left(happened, converges))
               /\ "deploy-stack" \in DoneBy(job) \cup {KeyOf(job)}
  <1> DEFINE final == Left(happened, converges)
             base == accepted["game"]
             evaluated == IsGame(job) /\ "deploy-stack" \in DoneBy(job) \cup {KeyOf(job)}
  <1>1. /\ job.running
        /\ (happened => Prerequisite)
        /\ \/ End("ERROR", DoneBy(job), Compensated(final))
           \/ End("RECOVERY_REQUIRED", DoneBy(job), final)
           \/ End("ERROR", DoneBy(job), final)
           \/ /\ evaluated
              /\ End("ROLLED_BACK", DoneBy(job) \cup {"game-rollback-command"}, Restored(final))
           \/ /\ evaluated
              /\ \E rest \in PartlyRestored(final) :
                   End("RECOVERY_REQUIRED", DoneBy(job), rest)
    BY FailParts
  <1>2. IsRelease(job)
    BY <1>1 DEF SequenceInv, SequenceTypeOK, Idle
  <1>3. /\ final \in Productions /\ Sound(final, base) /\ Reaches(job, final, Far(happened))
        /\ final.migrated = production.migrated
    BY <1>1, LeftIs
  <1>4. evaluated => "backup-game-release" \in Far(happened)
    BY <1>1, EvaluatedReaches
  <1>5. "ERROR" \in Statuses /\ "RECOVERY_REQUIRED" \in Statuses /\ "ROLLED_BACK" \in Statuses
    BY DEF Statuses
  <1>6. \A rest \in PartlyRestored(final) : evaluated =>
          /\ rest \in Productions /\ Sound(rest, base)
          /\ rest.migrated = final.migrated /\ rest.writers = final.writers
          /\ rest.service \in {final.service, job.start.service} /\ rest.forum = final.forum
    BY <1>2, <1>3, <1>4, Recovers
  <1>7. CASE End("ERROR", DoneBy(job), Compensated(final))
    <2> DEFINE c == Compensated(final)
    <2>1. /\ c \in Productions /\ Sound(c, base) /\ c.service = final.service
          /\ c.forum = final.forum
      BY <1>2, <1>3, Recovers
    <2>2. c.migrated = final.migrated /\ c.writers = final.writers
      BY <1>3 DEF Compensated, Productions
    <2> HIDE DEF c
    <2>3. End("ERROR", DoneBy(job), c)
      BY <1>7 DEF c
    <2>4. SequenceInv' /\ history'[1] = Entry("ERROR", DoneBy(job))
      BY <1>1, <1>5, <2>1, <2>2, <2>3, Breaks
    <2>5. production' = c
      BY <2>3 DEF End
    <2>6. "ERROR" \in Statuses \ {"ROLLED_BACK"}
      BY <1>5
    <2> QED
      BY <1>1, <1>3, <2>1, <2>2, <2>4, <2>5, <2>6
  <1>8. CASE End("RECOVERY_REQUIRED", DoneBy(job), final)
    <2>1. SequenceInv' /\ history'[1] = Entry("RECOVERY_REQUIRED", DoneBy(job))
      BY <1>1, <1>3, <1>5, <1>8, Breaks
    <2>2. production' = final
      BY <1>8 DEF End
    <2>3. "RECOVERY_REQUIRED" \in Statuses \ {"ROLLED_BACK"}
      BY <1>5
    <2> QED
      BY <1>1, <1>3, <2>1, <2>2, <2>3
  <1>9. CASE End("ERROR", DoneBy(job), final)
    <2>1. SequenceInv' /\ history'[1] = Entry("ERROR", DoneBy(job))
      BY <1>1, <1>3, <1>5, <1>9, Breaks
    <2>2. production' = final
      BY <1>9 DEF End
    <2>3. "ERROR" \in Statuses \ {"ROLLED_BACK"}
      BY <1>5
    <2> QED
      BY <1>1, <1>3, <2>1, <2>2, <2>3
  <1>10. CASE /\ evaluated
              /\ End("ROLLED_BACK", DoneBy(job) \cup {"game-rollback-command"}, Restored(final))
    <2> DEFINE c == Restored(final)
               done == DoneBy(job) \cup {"game-rollback-command"}
    <2>1. c \in PartlyRestored(final)
      BY DEF PartlyRestored
    <2> HIDE DEF c, done
    <2>2. /\ c \in Productions /\ Sound(c, base)
          /\ c.migrated = final.migrated /\ c.writers = final.writers
          /\ c.service \in {final.service, job.start.service} /\ c.forum = final.forum
      BY <1>6, <1>10, <2>1
    <2>3. End("ROLLED_BACK", done, c)
      BY <1>10 DEF c, done
    <2>4. SequenceInv'
      BY <1>1, <1>5, <2>2, <2>3, Breaks
    <2>5. production' = c
      BY <2>3 DEF End
    <2> QED
      BY <1>1, <1>3, <1>10, <2>2, <2>4, <2>5 DEF c
  <1>11. CASE /\ evaluated
              /\ \E rest \in PartlyRestored(final) : End("RECOVERY_REQUIRED", DoneBy(job), rest)
    <2>1. PICK rest \in PartlyRestored(final) : End("RECOVERY_REQUIRED", DoneBy(job), rest)
      BY <1>11
    <2>2. /\ rest \in Productions /\ Sound(rest, base)
          /\ rest.migrated = final.migrated /\ rest.writers = final.writers
          /\ rest.service \in {final.service, job.start.service} /\ rest.forum = final.forum
      BY <1>6, <1>11
    <2>3. SequenceInv' /\ history'[1] = Entry("RECOVERY_REQUIRED", DoneBy(job))
      BY <1>1, <1>5, <2>1, <2>2, Breaks
    <2>4. production' = rest
      BY <2>1 DEF End
    <2>5. "RECOVERY_REQUIRED" \in Statuses \ {"ROLLED_BACK"}
      BY <1>5
    <2> QED
      BY <1>1, <1>3, <2>2, <2>3, <2>4, <2>5
  <1> QED
    BY <1>1, <1>7, <1>8, <1>9, <1>10, <1>11

\* What a release leaves behind that a restart interrupts.
LEMMA InterruptLeaves ==
  ASSUME SequenceInv, BaselinesFit, NEW happened \in BOOLEAN, NEW converges \in BOOLEAN,
         Interrupt(happened, converges)
  PROVE  /\ SequenceInv'
         /\ job.running
         /\ (happened => Prerequisite)
         /\ production' = Left(happened, converges)
         /\ production'.migrated = production.migrated
         /\ \E status \in Statuses \ {"ROLLED_BACK"} : \E done :
              history'[1] = Entry(status, done)
  <1> DEFINE final == Left(happened, converges)
             status == IF Committed \/ Crossed THEN "RECOVERY_REQUIRED" ELSE "INTERRUPTED"
  <1>1. job.running /\ (happened => Prerequisite) /\ End(status, DoneBy(job), final)
    BY DEF Interrupt, Left, Done, DoneBy
  <1>2. /\ final \in Productions /\ Sound(final, accepted["game"])
        /\ final.migrated = production.migrated
    BY <1>1, LeftIs
  <1>3. status \in Statuses \ {"ROLLED_BACK"} /\ status # "EXECUTED"
    BY DEF Statuses
  <1> HIDE DEF status
  <1>4. SequenceInv' /\ history'[1] = Entry(status, DoneBy(job))
    BY <1>1, <1>2, <1>3, Breaks
  <1>5. production' = final
    BY <1>1 DEF End
  <1> QED
    BY <1>1, <1>2, <1>3, <1>4, <1>5

\* A user who keeps the baselines keeps the invariant.
LEMMA EditInv ==
  ASSUME SequenceInv, BaselinesKept, EditHistory
  PROVE  SequenceInv'
  <1>1. /\ ~job.running /\ job' = job /\ production' = production /\ accepted' = accepted
        /\ started' = started
        /\ \E rest \in {Delete(history, i) : i \in DOMAIN history} \cup {<<>>} :
             /\ \A t \in Targets : BaselineCommit(rest, t) = BaselineCommit(history, t)
             /\ history' = rest
    BY DEF EditHistory
  <1>2. PICK rest \in {Delete(history, i) : i \in DOMAIN history} \cup {<<>>} :
             /\ \A t \in Targets : BaselineCommit(rest, t) = BaselineCommit(history, t)
             /\ history' = rest
    BY <1>1
  <1>3. SequenceTypeOK /\ BaselineInv /\ Sound(production, accepted["game"])
    BY DEF SequenceInv
  <1>4. history \in Seq(Entries) /\ started \in Nat
    BY <1>3, MaxReleasesAssumption DEF SequenceTypeOK
  <1>5. rest \in Seq(Entries) /\ Len(rest) \in Nat /\ Len(history) \in Nat
        /\ Len(rest) <= Len(history)
    <2>1. CASE rest = <<>>
      BY <1>4, <2>1, EmptySeq
    <2>2. ASSUME NEW i \in DOMAIN history, rest = Delete(history, i)
          PROVE  rest \in Seq(Entries) /\ Len(rest) < Len(history)
      BY <1>4, <2>2, DeleteIs
    <2>3. rest = <<>> \/ \E i \in DOMAIN history : rest = Delete(history, i)
      BY <1>2
    <2>4. rest \in Seq(Entries) /\ (rest = <<>> \/ Len(rest) < Len(history))
      BY <2>1, <2>2, <2>3
    <2> QED
      BY <1>4, <2>1, <2>4
  <1>6. BaselineInv'
    <2>1. \A t \in Targets : accepted'[t] = BaselineCommit(history', t)
      BY <1>1, <1>2, <1>3 DEF BaselineInv
    <2>2. Len(history) <= HistoryLimit
      BY <1>3 DEF BaselineInv
    <2>3. Len(history') <= HistoryLimit
      BY <1>1, <1>2, <1>4, <1>5, <2>2, HistoryAssumption
    <2> QED
      BY <2>1, <2>3 DEF BaselineInv
  <1>7. SequenceTypeOK'
    BY <1>1, <1>2, <1>3, <1>5 DEF SequenceTypeOK
  <1> QED
    BY <1>1, <1>3, <1>6, <1>7 DEF SequenceInv

\* An operator who restores the dump keeps the invariant.
LEMMA OperatorInv ==
  ASSUME SequenceInv, OperatorRestores
  PROVE  SequenceInv'
  <1>0. PICK rest \in SUBSET production.floors :
          production' = [production EXCEPT !.migrated = production.dump, !.writers = TRUE,
                           !.floors = rest, !.compose = production.service,
                           !.spec = production.service]
    BY DEF OperatorRestores
  <1> DEFINE prod == [production EXCEPT !.migrated = production.dump, !.writers = TRUE,
                                        !.floors = rest, !.compose = production.service,
                                        !.spec = production.service]
  <1>1. /\ ~job.running /\ ~production.writers /\ production' = prod
        /\ history' = history /\ job' = job /\ accepted' = accepted /\ started' = started
    BY <1>0 DEF OperatorRestores
  <1>2. SequenceTypeOK /\ BaselineInv /\ Sound(production, accepted["game"])
        /\ production \in Productions
    BY DEF SequenceInv, SequenceTypeOK
  <1>3. /\ prod \in Productions /\ prod.migrated = production.dump /\ prod.writers
        /\ prod.service = production.service /\ prod.loaded = production.loaded
        /\ prod.staged = production.staged
    BY <1>2, ProductionIs DEF Productions
  <1> HIDE DEF prod
  <1>4. Sound(prod, accepted["game"])
    BY <1>1, <1>2, <1>3 DEF Sound, Equipped
  <1>5. SequenceTypeOK' /\ BaselineInv'
    BY <1>1, <1>2, <1>3 DEF SequenceTypeOK, BaselineInv
  <1> QED
    BY <1>1, <1>4, <1>5 DEF SequenceInv

\* So does one who puts back the Compose file.
LEMMA RepairInv ==
  ASSUME SequenceInv, OperatorRepairsCompose
  PROVE  SequenceInv'
  <1>1. /\ ~job.running /\ production' = [production EXCEPT !.compose = production.service]
        /\ history' = history /\ job' = job /\ accepted' = accepted /\ started' = started
    BY DEF OperatorRepairsCompose
  <1>2. SequenceTypeOK /\ BaselineInv /\ Sound(production, accepted["game"])
        /\ production \in Productions /\ production.service \in Commit
    BY ProductionIs DEF SequenceInv, SequenceTypeOK
  <1>3. /\ production' \in Productions /\ Grows(production', production)
        /\ production'.writers = production.writers /\ production'.dump = production.dump
        /\ production'.service = production.service /\ production'.forum = production.forum
    BY <1>1, <1>2 DEF Productions, Grows
  <1>4. Sound(production', accepted["game"])
    BY <1>2, <1>3, SoundKept
  <1>5. SequenceTypeOK' /\ BaselineInv'
    BY <1>1, <1>2, <1>3 DEF SequenceTypeOK, BaselineInv
  <1> QED
    BY <1>1, <1>4, <1>5 DEF SequenceInv

--------------------------------------------------------------------------------
(***************************************************************************)
(* Every step keeps the invariant.                                         *)
(***************************************************************************)

\* Every step preserves the invariant, an operator's and a user's included.
LEMMA NextInv ==
  ASSUME SequenceInv, BaselinesKept, BaselinesFit,
         [SequenceNext]_sequenceVars
  PROVE  SequenceInv'
  <1>1. ASSUME NEW c \in Commit, NEW b \in Branch, NEW stack \in BOOLEAN,
               NEW standby \in BOOLEAN, NEW force \in BOOLEAN,
               Prepare("game", c, b, stack, standby, FALSE, force)
        PROVE  SequenceInv'
    <2>1. "game" \in Targets
      BY DEF Targets
    <2> QED
      BY <1>1, <2>1, PrepareInv
  <1>2. ASSUME NEW c \in Commit, NEW b \in Branch, NEW stack \in BOOLEAN,
               NEW reuse \in BOOLEAN, NEW force \in BOOLEAN,
               Prepare("forum", c, b, stack, FALSE, reuse, force)
        PROVE  SequenceInv'
    <2>1. "forum" \in Targets /\ "forum" # "game"
      BY DEF Targets
    <2> QED
      BY <1>2, <2>1, PrepareInv
  <1>3. CASE Migrate
    BY <1>3, MigrateInv
  <1>4. ASSUME NEW converges \in BOOLEAN, Step(converges)
        PROVE  SequenceInv'
    BY <1>4, StepInv
  <1>5. CASE Finish
    BY <1>5, FinishInv
  <1>6. ASSUME NEW happened \in BOOLEAN, NEW converges \in BOOLEAN, NEW cancelled \in BOOLEAN,
               Fail(happened, converges, cancelled)
        PROVE  SequenceInv'
    BY <1>6, FailLeaves
  <1>7. ASSUME NEW happened \in BOOLEAN, NEW converges \in BOOLEAN,
               Interrupt(happened, converges)
        PROVE  SequenceInv'
    BY <1>7, InterruptLeaves
  <1>8. CASE EditHistory
    BY <1>8, EditInv
  <1>9. CASE OperatorRestores
    BY <1>9, OperatorInv
  <1>10. CASE OperatorRepairsCompose
    BY <1>10, RepairInv
  <1>11. CASE UNCHANGED sequenceVars
    <2>1. /\ history' = history /\ job' = job /\ production' = production
          /\ accepted' = accepted /\ started' = started
      BY <1>11 DEF sequenceVars
    <2>2. SequenceTypeOK' /\ BaselineInv'
      BY <2>1 DEF SequenceInv, SequenceTypeOK, BaselineInv
    <2>3. Sound(production, accepted["game"])'
      BY <2>1 DEF SequenceInv
    <2>4. (job.running => Planned(job, accepted) /\ Reaches(job, production, DoneBy(job)))'
      BY <2>1 DEF SequenceInv
    <2> QED
      BY <2>2, <2>3, <2>4 DEF SequenceInv
  <1> QED
    BY <1>1, <1>2, <1>3, <1>4, <1>5, <1>6, <1>7, <1>8, <1>9, <1>10, <1>11 DEF SequenceNext

\* As long as neither a user nor a full history drops a baseline.
THEOREM ReleasesSafe ==
  ASSUME BaselinesKept
  PROVE  SequenceSpec /\ []BaselinesFit => []SequenceInv
  <1>1. SequenceInit => SequenceInv
    BY StartInv
  <1>2. SequenceInv /\ BaselinesFit /\ [SequenceNext]_sequenceVars => SequenceInv'
    BY NextInv
  <1> QED
    BY <1>1, <1>2, PTL DEF SequenceSpec

\* ServedIsPrepared: the version in service finds its image, its assets and every
\* migration up to its commit, after any number of failed and interrupted releases.
THEOREM ReleasesServed ==
  ASSUME BaselinesKept
  PROVE  SequenceSpec /\ []BaselinesFit => []ServedIsPrepared
  <1>1. SequenceInv => ServedIsPrepared
    BY DEF SequenceInv, Sound, Equipped, ServedIsPrepared
  <1> QED
    BY <1>1, ReleasesSafe, PTL

\* MigrationsInOrder: no migration is in the database without the one it expects, or
\* before it.
THEOREM ReleasesMigrateInOrder ==
  ASSUME BaselinesKept
  PROVE  SequenceSpec /\ []BaselinesFit => []MigrationsInOrder
  <1>1. SequenceInv => MigrationsInOrder
    BY DEF SequenceInv, Sound, Orderly, Follows, MigrationsInOrder
  <1> QED
    BY <1>1, ReleasesSafe, PTL

--------------------------------------------------------------------------------
(***************************************************************************)
(* What a step may never do.                                               *)
(***************************************************************************)

\* A step of the release, or its end, leaves this.
Leaves(happened, converges) ==
  /\ job.running
  /\ (happened => Prerequisite)
  /\ production'.service \in {Left(happened, converges).service, job.start.service}
  /\ production'.forum = Left(happened, converges).forum
  /\ production'.migrated = production.migrated
  /\ \/ history' = history
     \/ \E status \in Statuses \ {"ROLLED_BACK"} : \E done : history'[1] = Entry(status, done)
     \/ /\ IsGame(job) /\ production' = Restored(Left(happened, converges))
        /\ "deploy-stack" \in DoneBy(job) \cup {KeyOf(job)}

\* Everything else leaves the service and the forum, and a release its history.
Elsewhere ==
  /\ production'.service = production.service
  /\ production'.forum = production.forum
  /\ job.running => production'.migrated = production.migrated
  /\ job.running => history' = history

\* A step of the system is one of these.
LEMMA Changes ==
  ASSUME SequenceInv, BaselinesKept, BaselinesFit, [SequenceNext]_sequenceVars
  PROVE  Migrate \/ (\E happened, converges \in BOOLEAN : Leaves(happened, converges)) \/ Elsewhere
  <1>1. production \in Productions
    BY DEF SequenceInv, SequenceTypeOK
  <1>2. ASSUME production' = production, history' = history
        PROVE  Elsewhere
    BY <1>1, <1>2 DEF Elsewhere
  <1>3. ASSUME NEW converges \in BOOLEAN, job.running, Prerequisite,
               production' = Performed(converges),
               \/ history' = history
               \/ \E status \in Statuses \ {"ROLLED_BACK"} : \E done :
                    history'[1] = Entry(status, done)
        PROVE  Leaves(TRUE, converges)
    <2>1. Left(TRUE, converges) = Performed(converges)
      BY DEF Left
    <2>2. Performed(converges).migrated = production.migrated
      BY <1>3, Performs
    <2> QED
      BY <1>3, <2>1, <2>2 DEF Leaves
  <1>4. CASE \E c \in Commit, b \in Branch, stack \in BOOLEAN :
               \/ \E standby, force \in BOOLEAN :
                    Prepare("game", c, b, stack, standby, FALSE, force)
               \/ \E reuse, force \in BOOLEAN :
                    Prepare("forum", c, b, stack, FALSE, reuse, force)
    <2>1. \A t, c, b, stack, standby, reuse, force :
            Prepare(t, c, b, stack, standby, reuse, force) =>
              production' = production /\ history' = history
      BY DEF Prepare
    <2>2. production' = production /\ history' = history
      BY <1>4, <2>1
    <2> QED
      BY <1>2, <2>2
  <1>5. ASSUME NEW converges \in BOOLEAN, Step(converges)
        PROVE  Leaves(TRUE, converges)
    <2>1. /\ job.running /\ Prerequisite
          /\ production' = Performed(converges) /\ history' = history
      BY <1>5 DEF Step
    <2> QED
      BY <1>3, <2>1
  <1>6. ASSUME Finish
        PROVE  Leaves(TRUE, TRUE)
    <2>1. /\ job.running /\ Prerequisite
          /\ End("EXECUTED", DoneBy(job) \cup {KeyOf(job)}, Performed(TRUE))
      BY <1>6 DEF Finish, Done, Key, DoneBy, KeyOf
    <2>2. production' = Performed(TRUE)
      BY <2>1 DEF End
    <2>3. "EXECUTED" \in Statuses \ {"ROLLED_BACK"}
      BY DEF Statuses
    <2>4. history'[1] = Entry("EXECUTED", DoneBy(job) \cup {KeyOf(job)})
      <3>1. /\ IsRelease(job) /\ production \in Productions
            /\ history \in Seq(Entries) /\ Len(history) <= HistoryLimit
        BY <2>1 DEF SequenceInv, SequenceTypeOK, BaselineInv, Idle
      <3>2. Entry("EXECUTED", DoneBy(job) \cup {KeyOf(job)}) \in Entries
        BY <2>3, <3>1, EntryIs
      <3>3. history' = <<Entry("EXECUTED", DoneBy(job) \cup {KeyOf(job)})>> \o Rest(history)
        BY <2>1, <3>1, <3>2, AppendIs DEF End
      <3> QED
        BY <3>1, <3>2, <3>3, AppendIs, ConsIs
    <2> QED
      BY <1>3, <2>1, <2>2, <2>3, <2>4
  <1>7. ASSUME NEW happened \in BOOLEAN, NEW converges \in BOOLEAN, NEW cancelled \in BOOLEAN,
               Fail(happened, converges, cancelled)
        PROVE  Leaves(happened, converges)
    BY <1>7, FailLeaves DEF Leaves
  <1>8. ASSUME NEW happened \in BOOLEAN, NEW converges \in BOOLEAN,
               Interrupt(happened, converges)
        PROVE  Leaves(happened, converges)
    BY <1>8, InterruptLeaves DEF Leaves
  <1>9. CASE EditHistory
    <2>1. production' = production /\ ~job.running
      BY <1>9 DEF EditHistory
    <2> QED
      BY <2>1 DEF Elsewhere
  <1>10. CASE OperatorRestores
    <2>1. /\ ~job.running /\ history' = history
          /\ \E rest \in SUBSET production.floors :
               production' = [production EXCEPT !.migrated = production.dump, !.writers = TRUE,
                                !.floors = rest, !.compose = production.service,
                                !.spec = production.service]
      BY <1>10 DEF OperatorRestores
    <2>2. production'.service = production.service /\ production'.forum = production.forum
      BY <1>1, <2>1 DEF Productions
    <2> QED
      BY <1>1, <2>1, <2>2 DEF Elsewhere
  <1>11. CASE UNCHANGED sequenceVars
    BY <1>2, <1>11 DEF sequenceVars
  <1>12. CASE OperatorRepairsCompose
    BY <1>1, <1>12 DEF OperatorRepairsCompose, Productions, Elsewhere
  <1> QED
    BY <1>4, <1>5, <1>6, <1>7, <1>8, <1>9, <1>10, <1>11, <1>12 DEF SequenceNext

\* The cutover that stops the writers has been entered, and it took the dump.
LEMMA MigratesOffline ==
  ASSUME SequenceInv, Migrate, production'.migrated # production.migrated
  PROVE  LET script == Last(production'.migrated)
         IN Kind[script] \in {"technology", "room", "codegraph"} =>
              /\ ~production.writers
              /\ ToSet(production.migrated) \subseteq
                   ToSet(production.dump) \cup ToSet(SubSeq(job.request.migrations, 1, job.applied))
  <1> DEFINE m == job.request.migrations
             s == m[job.applied + 1]
             old == production.migrated
  <1>1. /\ IsRelease(job) /\ IsGame(job) /\ Planned(job, accepted)
        /\ KeyOf(job) = "apply-database-migrations"
        /\ job.applied + 1 \in 1..Len(m) /\ s \in Migration
        /\ production' = [production EXCEPT !.migrated = IF s \in ToSet(@) THEN @ ELSE Append(@, s)]
    BY MigrateIs
  <1>2. /\ production \in Productions /\ job.running /\ Reaches(job, production, DoneBy(job))
        /\ (OfflineCutover(m) => ReceiptHolds)
    BY DEF SequenceInv, SequenceTypeOK, Migrate, Offline
  <1>3. old \in Seq(Migration) /\ m \in Seq(Migration) /\ job.applied \in Nat
    BY <1>1, <1>2, ProductionIs, ReleaseIs, RequestIs
  <1>4. production'.migrated = Append(old, s)
    BY <1>1, <1>2 DEF Productions
  <1>5. Last(Append(old, s)) = s
    <2> DEFINE a == Append(old, s)
    <2>1. Len(a) = Len(old) + 1 /\ a[Len(old) + 1] = s
      BY <1>1, <1>3, AppendProperties
    <2> HIDE DEF a
    <2> QED
      BY <2>1 DEF Last, a
  <1>6. ASSUME Kind[s] \in {"technology", "room", "codegraph"}
        PROVE  OfflineCutover(m)
    <2>1. s \in ToSet(m)
      <3>1. job.applied + 1 \in DOMAIN m
        <4> HIDE DEF m
        <4> QED
          BY <1>1, <1>3
      <3> QED
        BY <3>1 DEF ToSet
    <2>2. s \in Of(Kind[s], m)
      BY <2>1 DEF Of
    <2> HIDE DEF m, s
    <2>3. CASE Kind[s] = "technology"
      BY <2>2, <2>3 DEF OfflineCutover, TechnologyCutover
    <2>4. CASE Kind[s] = "room"
      BY <2>2, <2>4 DEF OfflineCutover, TechnologyCutover
    <2>5. CASE Kind[s] = "codegraph"
      BY <2>2, <2>5 DEF OfflineCutover, CodegraphCutover
    <2> QED
      BY <1>6, <2>3, <2>4, <2>5
  <1>7. ASSUME OfflineCutover(m)
        PROVE  ToSet(old) \subseteq ToSet(production.dump) \cup AppliedBy(job)
    <2>1. job.next \in 1..Len(job.steps)
      BY <1>1 DEF Planned
    <2>2. DoneBy(job) \cap Cutovers # {}
      BY <1>1, <1>7, <2>1, GameOrder
    <2> QED
      BY <1>1, <1>2, <2>2 DEF Reaches, GameReaches
  <1>8. AppliedBy(job) = ToSet(SubSeq(m, 1, job.applied))
    <2> DEFINE n == job.applied
               u == SubSeq(m, 1, n)
    <2>1. n \in 0..Len(m) /\ Len(m) \in Nat
      BY <1>1, <1>3
    <2>2. DOMAIN u = 1..n /\ \A i \in 1..n : u[i] = m[i]
      BY <1>3, <2>1
    <2> HIDE DEF u
    <2>3. ToSet(u) = {m[i] : i \in 1..n}
      BY <2>2 DEF ToSet
    <2> QED
      BY <2>3 DEF u, AppliedBy
  <1>9. OfflineCutover(m) => ~production.writers
    BY <1>2 DEF ReceiptHolds
  <1> HIDE DEF m, s, old
  <1>10. Kind[s] \in {"technology", "room", "codegraph"} =>
           /\ ~production.writers
           /\ ToSet(old) \subseteq ToSet(production.dump) \cup ToSet(SubSeq(m, 1, job.applied))
    BY <1>6, <1>7, <1>8, <1>9
  <1>11. Last(production'.migrated) = s
    BY <1>4, <1>5
  <1> QED
    BY <1>10, <1>11 DEF m, old

\* Only a deployment changes what is served, and it puts the release's commit there.
LEMMA LeftServes ==
  ASSUME SequenceInv, job.running, NEW happened \in BOOLEAN, NEW converges \in BOOLEAN
  PROVE  /\ Left(happened, converges).service # production.service =>
              IsGame(job) /\ Left(happened, converges).service = job.commit
         /\ Left(happened, converges).forum # production.forum =>
              ~IsGame(job) /\ (job.request.reuse \/ Left(happened, converges).forum = job.commit)
  <1>1. production \in Productions /\ IsRelease(job)
    BY DEF SequenceInv, SequenceTypeOK, Idle
  <1>2. CASE ~happened
    BY <1>2 DEF Left
  <1>3. CASE happened /\ IsGame(job)
    <2> DEFINE f == GameEffect(converges)
    <2>1. Left(happened, converges) = f
      BY <1>3 DEF Left, Performed, Game, IsGame
    <2>2. /\ f.service # production.service => f.service = job.commit
          /\ f.forum = production.forum
      <3> DEFINE k == KeyOf(job)
                 P == /\ f.service # production.service => f.service = job.commit
                      /\ f.forum = production.forum
      <3>1. /\ k = "publish-image" => f = [production EXCEPT !.loaded = @ \cup {job.commit}]
            /\ k = "stage-game-static-assets" =>
                 f = [production EXCEPT !.staged = @ \cup {job.commit}]
            /\ k = "backup-game-release" => f = BackUp
            /\ k \in Cutovers => f = Cutover
            /\ k = "update-remote-compose" => f = [production EXCEPT !.compose = job.commit]
            /\ k = "deploy-stack" => f = Deploy(converges)
            /\ k = "retire-design-image-settings-file" => f = RetireSettings
            /\ k \notin {"publish-image", "stage-game-static-assets", "backup-game-release",
                         "update-remote-compose", "deploy-stack",
                         "retire-design-image-settings-file"} \cup Cutovers => f = production
        BY <1>1, <1>3, EffectsAre
      <3> HIDE DEF f, k
      <3>2. CASE f = [production EXCEPT !.loaded = @ \cup {job.commit}]
        BY <1>1, <3>2 DEF Productions
      <3>3. CASE f = [production EXCEPT !.staged = @ \cup {job.commit}]
        BY <1>1, <3>3 DEF Productions
      <3>4. CASE f = BackUp
        BY <1>1, <3>4 DEF Productions, BackUp
      <3>5. CASE f = Cutover
        BY <1>1, <3>5 DEF Productions, Cutover
      <3>6. CASE f = [production EXCEPT !.compose = job.commit]
        BY <1>1, <3>6 DEF Productions
      <3>7. CASE f = Deploy(converges)
        BY <1>1, <3>7 DEF Productions, Deploy, Submit
      <3>8. CASE f = RetireSettings
        BY <1>1, <3>8 DEF Productions, RetireSettings
      <3>9. CASE f = production
        BY <3>9
      <3> HIDE DEF P
      <3>10. P
        BY <3>1, <3>2, <3>3, <3>4, <3>5, <3>6, <3>7, <3>8, <3>9 DEF P
      <3> QED
        BY <3>10 DEF P
    <2> HIDE DEF f
    <2> QED
      BY <1>3, <2>1, <2>2
  <1>4. CASE happened /\ ~IsGame(job)
    <2>1. Left(happened, converges) = ForumEffect
      BY <1>4 DEF Left, Performed, Game, IsGame
    <2>2. /\ ForumEffect.service = production.service
          /\ ForumEffect.forum # production.forum =>
               job.request.reuse \/ ForumEffect.forum = job.commit
      BY <1>1 DEF ForumEffect, Productions
    <2> QED
      BY <1>4, <2>1, <2>2
  <1> QED
    BY <1>2, <1>3, <1>4

\* A migration changes neither.
LEMMA MigrateServes ==
  ASSUME SequenceInv, Migrate
  PROVE  /\ production'.service = production.service /\ production'.forum = production.forum
         /\ history' = history
  <1>1. production \in Productions
    BY DEF SequenceInv, SequenceTypeOK
  <1>2. history' = history
    BY DEF Migrate
  <1>3. production'.service = production.service /\ production'.forum = production.forum
    <2> DEFINE s == job.request.migrations[job.applied + 1]
               new == IF s \in ToSet(production.migrated) THEN production.migrated
                      ELSE Append(production.migrated, s)
    <2>1. production' = [production EXCEPT !.migrated = new]
      BY <1>1 DEF Migrate, Productions
    <2> HIDE DEF new
    <2> QED
      BY <1>1, <2>1 DEF Productions
  <1> QED
    BY <1>2, <1>3

\* A release that reports a rollback has put back what it found; of a paused rollout, the
\* version that served.
LEMMA RollsBack ==
  ASSUME SequenceInv, NEW happened \in BOOLEAN, NEW converges \in BOOLEAN,
         Leaves(happened, converges), history' # history, history'[1].status = "ROLLED_BACK"
  PROVE  /\ production'.service = job.start.service
         /\ production'.spec = job.start.service
         /\ production'.compose = IF job.start.spec = job.start.service
                                  THEN job.start.compose ELSE job.commit
         /\ job.start.settings => production'.settings
  <1>1. /\ job.running /\ (happened => Prerequisite)
        /\ \/ history' = history
           \/ \E status \in Statuses \ {"ROLLED_BACK"} : \E done :
                history'[1] = Entry(status, done)
           \/ /\ IsGame(job) /\ production' = Restored(Left(happened, converges))
              /\ "deploy-stack" \in DoneBy(job) \cup {KeyOf(job)}
    BY DEF Leaves
  <1>2. IsRelease(job) /\ production \in Productions /\ Planned(job, accepted)
    BY <1>1 DEF SequenceInv, SequenceTypeOK, Idle
  <1>4. ASSUME NEW status \in Statuses \ {"ROLLED_BACK"}, NEW done,
               history'[1] = Entry(status, done)
        PROVE  FALSE
    <2>1. Entry(status, done).status = status
      BY <1>2, EntryIs
    <2> QED
      BY <1>4, <2>1
  <1>5. /\ IsGame(job) /\ production' = Restored(Left(happened, converges))
        /\ "deploy-stack" \in DoneBy(job) \cup {KeyOf(job)}
    BY <1>1, <1>4
  <1>6. "backup-game-release" \in Far(happened) /\ "update-remote-compose" \in Far(happened)
    BY <1>1, <1>5, EvaluatedReaches
  <1>7. /\ Left(happened, converges) \in Productions
        /\ Reaches(job, Left(happened, converges), Far(happened))
    BY <1>1, LeftIs
  <1>8. /\ Left(happened, converges).backup.service = job.start.service
        /\ Left(happened, converges).backup.spec = job.start.spec
        /\ Left(happened, converges).backup.compose = job.start.compose
        /\ Left(happened, converges).compose = job.commit
    BY <1>5, <1>6, <1>7 DEF Reaches, GameReaches
  <1> DEFINE final == Left(happened, converges)
  <1> HIDE DEF final
  <1>9. /\ Restored(final).service = final.backup.service
        /\ Restored(final).spec = final.backup.service
        /\ Restored(final).compose = IF final.backup.spec # final.backup.service
                                     THEN final.compose ELSE final.backup.compose
        /\ Restored(final).settings = (final.settings \/ job.start.settings)
    BY <1>7 DEF Restored, Retry, Productions, final
  <1> QED
    BY <1>5, <1>8, <1>9 DEF final

\* What a release puts in service is newer than what was accepted.
LEMMA Upgrades ==
  ASSUME SequenceInv, NEW happened \in BOOLEAN, NEW converges \in BOOLEAN,
         Leaves(happened, converges)
  PROVE  /\ production'.service # production.service =>
              \/ production'.service = job.start.service
              \/ accepted["game"] \in Past[production'.service]
         /\ production'.forum # production.forum /\ ~job.request.reuse =>
              accepted["forum"] = "none" \/ accepted["forum"] \in Past[production'.forum]
  <1>1. /\ job.running
        /\ production'.service \in {Left(happened, converges).service, job.start.service}
        /\ production'.forum = Left(happened, converges).forum
    BY DEF Leaves
  <1>2. Planned(job, accepted)
    BY <1>1 DEF SequenceInv
  <1> QED
    BY <1>1, <1>2, LeftServes DEF Planned

\* AppliedOffline: a migration that needs the old writers stopped is only applied
\* while they are, and with a dump of what was there when they stopped.
THEOREM ReleasesMigrateOffline ==
  ASSUME BaselinesKept
  PROVE  SequenceSpec /\ []BaselinesFit => AppliedOffline
  <1>1. SequenceInv /\ BaselinesFit /\ [SequenceNext]_sequenceVars =>
          [production'.migrated # production.migrated /\ job.running =>
             LET script == Last(production'.migrated)
             IN Kind[script] \in {"technology", "room", "codegraph"} =>
                  /\ ~production.writers
                  /\ ToSet(production.migrated) \subseteq
                       ToSet(production.dump)
                         \cup ToSet(SubSeq(job.request.migrations, 1, job.applied))]_sequenceVars
    <2> SUFFICES ASSUME SequenceInv, BaselinesFit, [SequenceNext]_sequenceVars,
                        production'.migrated # production.migrated, job.running
                 PROVE  LET script == Last(production'.migrated)
                        IN Kind[script] \in {"technology", "room", "codegraph"} =>
                             /\ ~production.writers
                             /\ ToSet(production.migrated) \subseteq
                                  ToSet(production.dump)
                                    \cup ToSet(SubSeq(job.request.migrations, 1, job.applied))
      OBVIOUS
    <2>1. Migrate
      BY Changes DEF Leaves, Elsewhere
    <2> QED
      BY <2>1, MigratesOffline
  <1> QED
    BY <1>1, ReleasesSafe, PTL DEF SequenceSpec, AppliedOffline

\* RollbackRestores: a release that reports a rollback has left service, Compose file
\* and settings file as it found them.  If it found a rollout that Swarm had paused, the
\* version that served is what the Spec holds, and the Compose file is the release's.
THEOREM ReleasesRollBack ==
  ASSUME BaselinesKept
  PROVE  SequenceSpec /\ []BaselinesFit => RollbackRestores
  <1>1. SequenceInv /\ BaselinesFit /\ [SequenceNext]_sequenceVars =>
          [job.running /\ history' # history /\ history'[1].status = "ROLLED_BACK" =>
               /\ production'.service = job.start.service
               /\ production'.spec = job.start.service
               /\ production'.compose = IF job.start.spec = job.start.service
                                        THEN job.start.compose ELSE job.commit
               /\ job.start.settings => production'.settings]_sequenceVars
    <2> SUFFICES ASSUME SequenceInv, BaselinesFit, [SequenceNext]_sequenceVars,
                        job.running, history' # history, history'[1].status = "ROLLED_BACK"
                 PROVE  /\ production'.service = job.start.service
                        /\ production'.spec = job.start.service
                        /\ production'.compose = IF job.start.spec = job.start.service
                                                 THEN job.start.compose ELSE job.commit
                        /\ job.start.settings => production'.settings
      OBVIOUS
    <2>1. \E happened, converges \in BOOLEAN : Leaves(happened, converges)
      BY Changes, MigrateServes DEF Elsewhere
    <2> QED
      BY <2>1, RollsBack
  <1> QED
    BY <1>1, ReleasesSafe, PTL DEF SequenceSpec, RollbackRestores

\* NoDowngrade: what is put in service is what the release found there, or has the
\* last accepted commit among its ancestors.
THEOREM ReleasesUpgrade ==
  ASSUME BaselinesKept
  PROVE  SequenceSpec /\ []BaselinesFit => NoDowngrade
  <1>1. SequenceInv /\ BaselinesFit /\ [SequenceNext]_sequenceVars =>
          [/\ production'.service # production.service =>
                \/ production'.service = job.start.service
                \/ accepted["game"] \in Past[production'.service]
           /\ production'.forum # production.forum /\ ~job.request.reuse =>
                accepted["forum"] = "none"
                  \/ accepted["forum"] \in Past[production'.forum]]_sequenceVars
    <2> SUFFICES ASSUME SequenceInv, BaselinesFit, [SequenceNext]_sequenceVars
                 PROVE  /\ production'.service # production.service =>
                             \/ production'.service = job.start.service
                             \/ accepted["game"] \in Past[production'.service]
                        /\ production'.forum # production.forum /\ ~job.request.reuse =>
                             accepted["forum"] = "none"
                               \/ accepted["forum"] \in Past[production'.forum]
      OBVIOUS
    <2> QED
      BY Changes, MigrateServes, Upgrades DEF Elsewhere
  <1> QED
    BY <1>1, ReleasesSafe, PTL DEF SequenceSpec, NoDowngrade

--------------------------------------------------------------------------------
(***************************************************************************)
(* The plans are those that ReleaseExecutor.tla goes through.              *)
(***************************************************************************)

\* The steps of a backbone.
KeysOf(plan) == {Backbone[plan][a] : a \in DOMAIN Backbone[plan]}

\* They are marked steps.
LEMMA GameBackbone ==
  /\ KeysOf("game") = Middle \cup Late
  /\ KeysOf("standby") = (Middle \cup Late) \cup {"accept-game-standby-candidate"}
  /\ KeysOf("offline") = {"technology-offline-cutover"} \cup (Middle \cup Late)
  /\ KeysOf("codegraph") = {"codegraph-offline-cutover"} \cup (Middle \cup Late)
  /\ KeysOf("forum") = {"update-remote-compose", "deploy-forum-compose"}
  <1>1. KeysOf("game") = Middle \cup Late
    BY DEF KeysOf, Backbone, Middle, Late
  <1>2. KeysOf("standby") = (Middle \cup Late) \cup {"accept-game-standby-candidate"}
    BY DEF KeysOf, Backbone, Middle, Late
  <1>3. KeysOf("offline") = {"technology-offline-cutover"} \cup (Middle \cup Late)
    BY DEF KeysOf, Backbone, Middle, Late
  <1>4. KeysOf("codegraph") = {"codegraph-offline-cutover"} \cup (Middle \cup Late)
    BY DEF KeysOf, Backbone, Middle, Late
  <1>5. KeysOf("forum") = {"update-remote-compose", "deploy-forum-compose"}
    BY DEF KeysOf, Backbone
  <1> QED
    BY <1>1, <1>2, <1>3, <1>4, <1>5

\* The ranks rise along every backbone.
LEMMA BackboneRises ==
  ASSUME NEW plan \in Plans, NEW a \in DOMAIN Backbone[plan], NEW b \in DOMAIN Backbone[plan],
         Rank(Backbone[plan][a]) < Rank(Backbone[plan][b])
  PROVE  a < b
  <1> DEFINE s == Backbone[plan]
             ranks == [game |-> <<8, 9, 10, 12, 13, 14>>, standby |-> <<8, 9, 10, 12, 13, 14, 15>>,
                       offline |-> <<5, 8, 9, 10, 12, 13, 14>>,
                       codegraph |-> <<4, 8, 9, 10, 12, 13, 14>>, forum |-> <<8, 11>>]
             r == ranks[plan]
  <1>1. DOMAIN s = DOMAIN r /\ \A c \in DOMAIN s : Rank(s[c]) = r[c]
    <2>1. CASE plan = "game"
      BY <2>1, RanksAre DEF Backbone
    <2>2. CASE plan = "standby"
      BY <2>2, RanksAre DEF Backbone
    <2>3. CASE plan = "offline"
      BY <2>3, RanksAre DEF Backbone
    <2>4. CASE plan = "codegraph"
      BY <2>4, RanksAre DEF Backbone
    <2>5. CASE plan = "forum"
      BY <2>5, RanksAre DEF Backbone
    <2> QED
      BY <2>1, <2>2, <2>3, <2>4, <2>5 DEF Plans
  <1>2. \A c, d \in DOMAIN r : c \in Nat /\ d \in Nat /\ (r[c] < r[d] => c < d)
    BY DEF Plans
  <1> QED
    BY <1>1, <1>2

\* The steps apart that a plan is to have are those of its backbone.
LEMMA PlanApart ==
  ASSUME NEW p \in Requests, p.stack, ~PlanRefused(p)
  PROVE  PlanOf(p) \in Plans /\ PlanMarks(p) \cap Apart = KeysOf(PlanOf(p))
  <1> DEFINE C == CodegraphCutover(p.migrations)
             T == TechnologyCutover(p.migrations)
             marks == MigrationMarks(p.migrations)
  <1>1. p.target = "game" \/ p.target = "forum"
    BY DEF Requests, Targets
  <1>2. PlanOf(p) \in Plans
    BY DEF PlanOf, Plans
  <1>3. CASE p.target = "forum"
    <2>1. "publish-image" \notin Apart
      BY DEF Apart, Cutovers
    <2>2. {"update-remote-compose", "deploy-forum-compose"} \subseteq Apart
      BY DEF Apart
    <2>3. PlanOf(p) = "forum"
      BY <1>3 DEF PlanOf
    <2>4. PlanMarks(p) = (IF p.reuse THEN {} ELSE {"publish-image"})
                           \cup {"update-remote-compose", "deploy-forum-compose"}
      BY <1>3 DEF PlanMarks
    <2>5. PlanMarks(p) \cap Apart = {"update-remote-compose", "deploy-forum-compose"}
      BY <2>1, <2>2, <2>4
    <2> QED
      BY <1>2, <2>3, <2>5, GameBackbone
  <1>4. CASE p.target = "game"
    <2>1. ~(C /\ T) /\ ~(p.standby /\ (C \/ T))
      BY <1>4 DEF PlanRefused, CutoverRefused, OfflineCutover
    <2>2. PlanMarks(p) = ReleaseMarks(p)
      BY <1>4 DEF PlanMarks
    <2>3. /\ Early \cap Apart = {} /\ Middle \subseteq Apart /\ Late \subseteq Apart
          /\ "accept-game-standby-candidate" \in Apart
          /\ "apply-database-migrations" \notin Apart /\ "pre-deploy-checklist" \notin Apart
          /\ "codegraph-offline-cutover" \in Apart /\ "technology-offline-cutover" \in Apart
      <3>1. Early \cap Apart = {}
        BY DEF Early, Apart, Cutovers
      <3>2. Middle \subseteq Apart /\ Late \subseteq Apart
        BY DEF Middle, Late, Apart
      <3>3. /\ "accept-game-standby-candidate" \in Apart
            /\ "apply-database-migrations" \notin Apart /\ "pre-deploy-checklist" \notin Apart
            /\ "codegraph-offline-cutover" \in Apart /\ "technology-offline-cutover" \in Apart
        BY DEF Apart, Cutovers
      <3> QED
        BY <3>1, <3>2, <3>3
    <2>4. marks \cap Apart = (IF C THEN {"codegraph-offline-cutover"} ELSE {})
                                \cup (IF T THEN {"technology-offline-cutover"} ELSE {})
      BY <2>1, <2>3 DEF MigrationMarks, CutoverMarks
    <2> HIDE DEF marks
    <2>5. PlanMarks(p) \cap Apart =
            ((marks \cap Apart) \cup (Middle \cup Late))
              \cup (IF p.standby THEN {"accept-game-standby-candidate"} ELSE {})
      BY <2>2, <2>3 DEF ReleaseMarks, marks
    <2>6. PlanOf(p) = IF C THEN "codegraph" ELSE IF T THEN "offline"
                      ELSE IF p.standby THEN "standby" ELSE "game"
      BY <1>4 DEF PlanOf
    <2> HIDE DEF C, T
    <2>7. CASE C
      <3>1. PlanMarks(p) \cap Apart = {"codegraph-offline-cutover"} \cup (Middle \cup Late)
        BY <2>1, <2>4, <2>5, <2>7
      <3> QED
        BY <1>2, <2>6, <2>7, <3>1, GameBackbone
    <2>8. CASE ~C /\ T
      <3>1. PlanMarks(p) \cap Apart = {"technology-offline-cutover"} \cup (Middle \cup Late)
        BY <2>1, <2>4, <2>5, <2>8
      <3> QED
        BY <1>2, <2>6, <2>8, <3>1, GameBackbone
    <2>9. CASE ~C /\ ~T /\ p.standby
      <3>1. PlanMarks(p) \cap Apart = (Middle \cup Late) \cup {"accept-game-standby-candidate"}
        BY <2>4, <2>5, <2>9
      <3> QED
        BY <1>2, <2>6, <2>9, <3>1, GameBackbone
    <2>10. CASE ~C /\ ~T /\ ~p.standby
      <3>1. PlanMarks(p) \cap Apart = Middle \cup Late
        BY <2>4, <2>5, <2>10
      <3> QED
        BY <1>2, <2>6, <2>10, <3>1, GameBackbone
    <2> QED
      BY <2>7, <2>8, <2>9, <2>10
  <1> QED
    BY <1>1, <1>3, <1>4

\* Every plan that createPlan or createForumPlan emits for a deployment fits one of the
\* kinds that ReleaseExecutor.tla goes through: its steps apart are those of the
\* backbone, once each and in its order.
THEOREM EveryPlanFits ==
  \A p \in Requests : p.stack /\ ~PlanRefused(p) => Fits(PlanOf(p), Executed(p))
  <1> SUFFICES ASSUME NEW p \in Requests, p.stack, ~PlanRefused(p)
               PROVE  Fits(PlanOf(p), Executed(p))
    OBVIOUS
  <1> DEFINE s == Executed(p)
             plan == PlanOf(p)
             marks == PlanMarks(p)
  <1>1. Marked(s, marks, 0, 19)
    BY ExecutedMarked
  <1>2. plan \in Plans /\ marks \cap Apart = KeysOf(plan)
    BY PlanApart
  <1>3. \A k \in Apart : Rank(k) # 0
    BY RanksAre DEF Apart, Cutovers
  <1> HIDE DEF s, plan, marks
  <1>4. IsSeq(s) /\ Len(s) \in Nat /\ DOMAIN s = 1..Len(s)
    BY <1>1, SeqHasLength DEF Marked
  <1>5. s \in Seq({s[i] : i \in DOMAIN s})
    BY <1>4 DEF IsSeq
  <1>6. \A i \in 1..Len(s) : s[i] # "" /\ (s[i] \in Apart => s[i] \in KeysOf(plan))
    BY <1>1, <1>2, <1>3 DEF Marked, Proper
  <1>7. {s[i] : i \in DOMAIN s} \cap Apart = KeysOf(plan)
    BY <1>1, <1>2, <1>4, <1>6 DEF Marked
  <1>8. ASSUME NEW j \in 1..Len(s), s[j] \in Apart, NEW i \in 1..(j - 1), s[i] \in Apart
        PROVE  Precedes(plan, s[i], s[j])
    <2>1. i \in 1..Len(s) /\ i < j
      BY <1>4
    <2>2. Rank(s[i]) < Rank(s[j])
      BY <1>1, <1>3, <1>8, <2>1 DEF Marked
    <2>3. s[i] \in KeysOf(plan) /\ s[j] \in KeysOf(plan)
      BY <1>6, <1>8, <2>1
    <2>4. PICK a \in DOMAIN Backbone[plan], b \in DOMAIN Backbone[plan] :
            Backbone[plan][a] = s[i] /\ Backbone[plan][b] = s[j]
      BY <2>3 DEF KeysOf
    <2>5. a < b
      BY <1>2, <2>2, <2>4, BackboneRises
    <2> QED
      BY <2>4, <2>5 DEF Precedes
  <1>9. Fits(plan, s)
    BY <1>4, <1>5, <1>6, <1>7, <1>8 DEF Fits, KeysOf
  <1> QED
    BY <1>9 DEF plan, s

--------------------------------------------------------------------------------
(***************************************************************************)
(* What the page shows of the outcome, for every number of deployments,    *)
(* checks and verifications: a current sample is recent, and a matching    *)
(* verification has checked the deployment it is shown beside.             *)
(***************************************************************************)
Sample == [of : Nat, age : Nat, slow : 0..1]
Receipt == [result : {"PARTIAL", "FAIL"}, base : Nat, checked : SUBSET Nat]
Fresh == {"none", "UNAVAILABLE", "UNKNOWN", "STALE", "CURRENT"}
Applicability == {"none", "UNKNOWN", "DEPLOYMENT_CHANGED", "MATCHED"}
Reply == [at : {"sent", "waits", "answered", "failed"}, sample : Sample \cup {None},
          freshness : Fresh, record : Receipt \cup {None}, applies : Applicability]
Take == [at : {"before", "containers", "after", "done"}, version : Nat \cup {None},
         sample : Sample \cup {None}, young : BOOLEAN]
Verification == [at : {"anchor", "check"}, base : Nat, done : Nat, checked : SUBSET Nat]

TypeOK ==
    /\ service \in Nat
    /\ pending \in Take \cup {None}
    /\ file \in Sample \cup {None}
    /\ asked \in Reply \cup {None}
    /\ data \in Reply \cup {None}
    /\ due \in BOOLEAN
    /\ verifier \in Verification \cup {None}
    /\ receipts \in Seq(Receipt)

\* A running verification: once the deployment is another, it stays another.
OnlyBase(v) ==
    /\ v.base <= service
    /\ v.base = service => v.checked \subseteq {v.base}
    /\ v.done > 0 => v.checked # {}

VerifierInv == verifier # None => OnlyBase(verifier)

OfOne(r) == r.result = "PARTIAL" => r.checked = {r.base}

\* A sample on its way: its container was read less than a unit before it ends.
Taken(p) ==
    p.at \in {"after", "done"} =>
        /\ p.sample \in Sample
        /\ p.at = "after" => p.sample.age <= IF p.young THEN 0 ELSE 1

PendingInv == pending # None => Taken(pending)

\* An answer of the server.
Supported(a) ==
    /\ a.at \in {"sent", "waits"} => a.freshness = "none" /\ a.applies = "none"
    /\ a.freshness = "CURRENT" => a.sample \in Sample
    /\ a.applies = "MATCHED" => a.record.base = a.sample.of /\ OfOne(a.record)

AnswerInv ==
    /\ asked # None => Supported(asked)
    /\ data # None => Supported(data)

\* What the panel says was true when it was last rendered, a unit ago at most.
PanelInv ==
    /\ due => data \in Reply /\ Supported(data)
    /\ panel.current =>
         /\ data \in Reply /\ data.sample \in Sample
         /\ data.sample.age <= IF due THEN CurrentFor + 1 ELSE CurrentFor
    /\ panel.says = "MATCHED" =>
         /\ panel.current
         /\ data.applies = "MATCHED" /\ Supported(data)

Inv == TypeOK /\ VerifierInv /\ ReceiptIsOfOne /\ PendingInv /\ AnswerInv /\ PanelInv

--------------------------------------------------------------------------------
LEMMA OlderNat ==
    ASSUME NEW a \in Nat PROVE Older(a) \in Nat /\ Older(a) <= a + 1
BY DEF Older, Cap, CurrentFor

LEMMA AgedSample ==
    ASSUME NEW s \in Sample \cup {None}
    PROVE  /\ Aged(s) \in Sample \cup {None}
           /\ Aged(s).of = s.of
           /\ s \in Sample => /\ Aged(s) \in Sample
                              /\ Aged(s).age <= s.age + 1
  <1>1. CASE s = None
    BY <1>1 DEF Aged, Sample
  <1>2. CASE s # None
    <2>1. s \in Sample /\ s.age \in Nat
      BY <1>2 DEF Sample
    <2>2. Older(s.age) \in Nat /\ Older(s.age) <= s.age + 1
      BY <2>1, OlderNat
    <2> QED
      BY <1>2, <2>1, <2>2 DEF Aged, Sample
  <1> QED
    BY <1>1, <1>2

LEMMA AgedReply ==
    ASSUME NEW r \in Reply \cup {None}
    PROVE  /\ AgedIn(r) \in Reply \cup {None}
           /\ r = None => AgedIn(r) = r
           /\ r # None => AgedIn(r) \in Reply /\ AgedIn(r).sample = Aged(r.sample)
           /\ AgedIn(r).applies = r.applies
           /\ Supported(r) => Supported(AgedIn(r))
  <1>1. CASE r = None
    BY <1>1 DEF AgedIn
  <1>2. CASE r # None
    <2>1. r \in Reply /\ r.sample \in Sample \cup {None}
      BY <1>2 DEF Reply
    <2>2. /\ Aged(r.sample) \in Sample \cup {None}
          /\ Aged(r.sample).of = r.sample.of
          /\ r.sample \in Sample => Aged(r.sample) \in Sample
      BY <2>1, AgedSample
    <2>3. AgedIn(r) = [r EXCEPT !.sample = Aged(r.sample)]
      BY <1>2 DEF AgedIn
    <2>4. /\ AgedIn(r) \in Reply
          /\ AgedIn(r).sample = Aged(r.sample) /\ AgedIn(r).applies = r.applies
          /\ AgedIn(r).at = r.at /\ AgedIn(r).freshness = r.freshness /\ AgedIn(r).record = r.record
      BY <2>1, <2>2, <2>3 DEF Reply
    <2> QED
      BY <1>2, <2>1, <2>2, <2>4 DEF Supported
  <1> QED
    BY <1>1, <1>2

(* What the server answers is of the type and supported. *)
LEMMA AnswerSupported ==
    ASSUME TypeOK, ReceiptIsOfOne,
           NEW s \in Sample \cup {None}, NEW error \in BOOLEAN
    PROVE  Answer(s, error) \in Reply /\ Supported(Answer(s, error))
  <1> DEFINE record == IF receipts = <<>> THEN None ELSE receipts[Len(receipts)]
             fresh == Freshness(s, error)
  <1>1. record \in Receipt \cup {None} /\ (record # None => OfOne(record))
    BY DEF TypeOK, ReceiptIsOfOne, OfOne
  <1>2. fresh \in Fresh /\ (fresh = "CURRENT" => s # None)
    BY DEF Freshness, Fresh
  <1>3. Applies(s, fresh, record) \in Applicability
    BY DEF Applies, Applicability
  <1>4. Applies(s, fresh, record) = "MATCHED" => s.of = record.base
    BY Zenon DEF Applies, Matches
  <1> HIDE DEF record, fresh
  <1>5. Answer(s, error) = [at |-> "answered", sample |-> s, freshness |-> fresh, record |-> record,
                            applies |-> IF record = None THEN "none" ELSE Applies(s, fresh, record)]
    BY DEF Answer, record, fresh
  <1> QED
    BY <1>1, <1>2, <1>3, <1>4, <1>5 DEF Reply, Supported, Applicability

LEMMA InitInv == Init => Inv
  <1> SUFFICES ASSUME Init PROVE Inv
    OBVIOUS
  <1>1. TypeOK
    <2>1. <<>> \in Seq(Receipt)
      OBVIOUS
    <2> QED
      BY <2>1 DEF Init, TypeOK
  <1>2. VerifierInv /\ PendingInv /\ AnswerInv
    BY DEF Init, VerifierInv, PendingInv, AnswerInv
  <1>3. ReceiptIsOfOne
    BY DEF Init, ReceiptIsOfOne
  <1>4. PanelInv
    BY DEF Init, PanelInv, Blank
  <1> QED
    BY <1>1, <1>2, <1>3, <1>4 DEF Inv

--------------------------------------------------------------------------------
(* One step. *)

LEMMA TickInv == Inv /\ Tick => Inv'
  <1> SUFFICES ASSUME Inv, Tick PROVE Inv'
    OBVIOUS
  <1> USE DEF Inv, Tick
  <1>1. /\ AgedIn(asked) \in Reply \cup {None} /\ AgedIn(data) \in Reply \cup {None}
        /\ Aged(file) \in Sample \cup {None}
    BY AgedReply, AgedSample DEF TypeOK
  <1>2. pending' \in Take \cup {None} /\ PendingInv'
    <2>1. CASE pending = None
      BY <2>1 DEF PendingInv
    <2>2. CASE pending # None
      <3>1. pending \in Take /\ pending.young /\ pending.sample \in Sample \cup {None}
        BY <2>2 DEF TypeOK, Take
      <3>2. pending' = [[pending EXCEPT !.sample = Aged(@)] EXCEPT !.young = FALSE]
        BY <2>2 DEF AgedIn
      <3>3. /\ Aged(pending.sample) \in Sample \cup {None}
            /\ pending.sample \in Sample => /\ Aged(pending.sample) \in Sample
                                            /\ Aged(pending.sample).age <= pending.sample.age + 1
                                            /\ Aged(pending.sample).age \in Nat
        BY <3>1, AgedSample DEF Sample
      <3>4. /\ pending' \in Take /\ pending'.at = pending.at /\ pending'.young = FALSE
            /\ pending'.sample = Aged(pending.sample)
        BY <3>1, <3>2, <3>3 DEF Take
      <3>5. pending.sample \in Sample => pending.sample.age \in Nat
        BY DEF Sample
      <3> QED
        BY <2>2, <3>1, <3>3, <3>4, <3>5 DEF PendingInv, Taken
    <2> QED
      BY <2>1, <2>2
  <1>3. TypeOK'
    BY <1>1, <1>2 DEF TypeOK, supplement
  <1>4. VerifierInv' /\ ReceiptIsOfOne'
    BY DEF VerifierInv, OnlyBase, ReceiptIsOfOne, supplement
  <1>5. AnswerInv'
    BY AgedReply DEF AnswerInv, TypeOK
  <1>6. PanelInv'
    <2>1. due' => data' \in Reply /\ Supported(data')
      BY AgedReply DEF TypeOK, AnswerInv
    <2>2. panel' = panel /\ due = FALSE /\ due' = (data # None)
      BY DEF TypeOK
    <2>3. CASE data = None
      BY <2>1, <2>2, <2>3, AgedReply DEF PanelInv
    <2>4. CASE data # None
      <3>1. data \in Reply /\ Supported(data) /\ data' \in Reply /\ Supported(data')
            /\ data'.sample = Aged(data.sample) /\ data'.applies = data.applies
            /\ data.sample \in Sample \cup {None}
        BY <2>4, AgedReply DEF TypeOK, AnswerInv, Reply
      <3>2. data.sample \in Sample =>
              /\ data'.sample \in Sample /\ data'.sample.age <= data.sample.age + 1
              /\ data.sample.age \in Nat /\ data'.sample.age \in Nat
        BY <3>1, AgedSample DEF Sample
      <3>3. due' = TRUE
        BY <2>2, <2>4
      <3>4. panel.current => data.sample \in Sample /\ data.sample.age <= CurrentFor
        BY <2>2 DEF PanelInv
      <3>5. panel.current => data'.sample \in Sample /\ data'.sample.age <= CurrentFor + 1
        BY <3>2, <3>4 DEF CurrentFor
      <3>6. panel.says = "MATCHED" => panel.current /\ data.applies = "MATCHED"
        BY DEF PanelInv
      <3> QED
        BY <2>2, <3>1, <3>3, <3>5, <3>6 DEF PanelInv
    <2> QED
      BY <2>3, <2>4
  <1> QED
    BY <1>2, <1>3, <1>4, <1>5, <1>6

(* The parts of Inv that a step of the reader leaves alone. *)
LEMMA PageKept ==
    ASSUME Inv, UNCHANGED <<service, latest, data, panel, due, supplement>>
    PROVE  VerifierInv' /\ ReceiptIsOfOne' /\ PanelInv' /\ (data' # None => Supported(data'))
BY DEF Inv, VerifierInv, OnlyBase, ReceiptIsOfOne, PanelInv, AnswerInv, supplement, Supported, OfOne

LEMMA ReaderInv ==
    ASSUME Inv, \/ Serve \/ OtherPageAsks \/ InspectBefore \/ InspectContainers \/ InspectAfter
                \/ SampleLands \/ SampleFails \/ Restart
    PROVE  Inv'
  <1> USE DEF Inv
  <1>a. Sampling \in Take /\ Taken(Sampling)
    BY DEF Sampling, Take, Taken
  <1>b. Failed \in Reply /\ Supported(Failed)
    BY DEF Failed, Reply, Supported, Fresh, Applicability
  <1>1. CASE Serve
    <2> USE <1>1 DEF Serve
    <2>1. VerifierInv' /\ ReceiptIsOfOne' /\ PanelInv' /\ (data' # None => Supported(data'))
      BY PageKept
    <2>2. CASE Cached
      <3>1. asked' = Answer(file, FALSE) /\ pending' = pending /\ file' = file
        BY <2>2
      <3>2. asked' \in Reply /\ Supported(asked')
        BY <3>1, AnswerSupported DEF TypeOK
      <3>3. TypeOK'
        BY <3>1, <3>2 DEF TypeOK, supplement
      <3> QED
        BY <2>1, <3>1, <3>2, <3>3 DEF PendingInv, Taken, AnswerInv
    <2>3. CASE ~Cached
      <3>1. /\ asked' = [asked EXCEPT !.at = "waits", !.sample = file]
            /\ pending' = IF pending = None THEN Sampling ELSE pending
        BY <2>3
      <3>2. asked \in Reply /\ file \in Sample \cup {None}
        BY DEF TypeOK
      <3>3. asked.freshness = "none" /\ asked.applies = "none"
        BY DEF AnswerInv, Supported
      <3>4. asked' \in Reply /\ Supported(asked')
        BY <3>1, <3>2, <3>3 DEF Reply, Supported
      <3>5. TypeOK' /\ PendingInv'
        BY <3>1, <3>4, <1>a DEF TypeOK, supplement, PendingInv, Taken
      <3> QED
        BY <2>1, <3>4, <3>5 DEF AnswerInv
    <2> QED
      BY <2>2, <2>3
  <1>2. CASE OtherPageAsks
    <2> USE <1>2 DEF OtherPageAsks
    <2>1. TypeOK' /\ PendingInv'
      BY <1>a DEF TypeOK, page, supplement, PendingInv, Taken
    <2> QED
      BY <2>1, PageKept DEF AnswerInv, page, Supported, OfOne
  <1>3. CASE InspectBefore
    <2> USE <1>3 DEF InspectBefore
    <2>1. pending' \in Take /\ Taken(pending')
      BY DEF TypeOK, Take, Taken
    <2> QED
      BY <2>1, PageKept DEF TypeOK, PendingInv, Taken, AnswerInv, page, supplement, Supported, OfOne
  <1>4. CASE InspectContainers
    <2> USE <1>4 DEF InspectContainers
    <2> DEFINE new == [of |-> service, age |-> 0, slow |-> 0]
    <2>1. new \in Sample /\ new.age = 0
      BY DEF TypeOK, Sample
    <2> HIDE DEF new
    <2>2. pending \in Take /\ pending' = [pending EXCEPT !.at = "after", !.sample = new]
      BY DEF TypeOK, new
    <2>3. pending' \in Take /\ pending'.sample = new
      BY <2>1, <2>2 DEF Take
    <2>4. pending' \in Take /\ Taken(pending')
      BY <2>1, <2>3 DEF Taken
    <2> QED
      BY <2>4, PageKept DEF TypeOK, PendingInv, Taken, AnswerInv, page, supplement, Supported, OfOne
  <1>5. CASE InspectAfter
    <2> USE <1>5 DEF InspectAfter
    <2>1. pending \in Take /\ pending.sample \in Sample /\ pending.sample.age \in 0..1
      BY DEF TypeOK, PendingInv, Taken, Sample, Take
    <2>2. pending' = [pending EXCEPT !.at = "done",
                        !.sample = [@ EXCEPT !.age = 0, !.slow = pending.sample.age]]
      BY <2>1 DEF Take, Sample
    <2>3. [pending.sample EXCEPT !.age = 0, !.slow = pending.sample.age] \in Sample
      BY <2>1 DEF Sample
    <2>4. pending' \in Take /\ Taken(pending')
      BY <2>1, <2>2, <2>3 DEF Take, Taken
    <2> QED
      BY <2>4, PageKept DEF TypeOK, PendingInv, Taken, AnswerInv, page, supplement, Supported, OfOne
  <1>6. CASE SampleLands
    <2> USE <1>6 DEF SampleLands
    <2>1. pending.sample \in Sample
      BY DEF TypeOK, PendingInv, Taken
    <2>2. asked' \in Reply \cup {None} /\ (asked' # None => Supported(asked'))
      BY <2>1, AnswerSupported DEF TypeOK, AnswerInv, Supported, OfOne
    <2> QED
      BY <2>1, <2>2, PageKept DEF TypeOK, PendingInv, AnswerInv, supplement
  <1>7. CASE SampleFails
    <2> USE <1>7 DEF SampleFails
    <2>1. CASE Waits
      <3>1. asked.sample \in Sample \cup {None}
        BY <2>1 DEF Waits, TypeOK, Reply
      <3>2. asked' \in Reply /\ Supported(asked')
        BY <2>1, <3>1, AnswerSupported
      <3> QED
        BY <3>2, PageKept DEF TypeOK, PendingInv, AnswerInv, supplement
    <2>2. CASE ~Waits
      BY <2>2, PageKept DEF TypeOK, PendingInv, AnswerInv, supplement, Supported, OfOne
    <2> QED
      BY <2>1, <2>2
  <1>8. CASE Restart
    <2> USE <1>8 DEF Restart
    <2>1. asked' \in Reply \cup {None} /\ (asked' # None => Supported(asked'))
      BY <1>b DEF Supported, OfOne
    <2> QED
      BY <2>1, PageKept DEF TypeOK, PendingInv, AnswerInv, supplement
  <1> QED
    BY <1>1, <1>2, <1>3, <1>4, <1>5, <1>6, <1>7, <1>8

LEMMA PageStepInv ==
    ASSUME Inv, Ask \/ Answered \/ ChooseForum \/ Rerender
    PROVE  Inv'
  <1> USE DEF Inv, reader, supplement
  <1>a. Failed \in Reply /\ [Failed EXCEPT !.at = "sent"] \in Reply
        /\ Supported([Failed EXCEPT !.at = "sent"])
    BY DEF Failed, Reply, Supported, Fresh, Applicability
  <1>b. VerifierInv' /\ ReceiptIsOfOne' /\ PendingInv'
    BY DEF Ask, Answered, ChooseForum, Rerender, VerifierInv, OnlyBase, ReceiptIsOfOne,
           PendingInv, Taken
  <1>1. CASE Ask
    BY <1>1, <1>a, <1>b DEF Ask, TypeOK, AnswerInv, PanelInv, Supported, OfOne
  <1>2. CASE ChooseForum
    BY <1>2, <1>b DEF ChooseForum, TypeOK, AnswerInv, PanelInv, Supported, OfOne, Blank
  <1>3. ASSUME NEW a \in Reply, Supported(a), panel' = Render(a), data' = a, due' = due
        PROVE  PanelInv'
    <2>1. Supported(data') /\ data' \in Reply
      BY <1>3
    <2>2. panel'.current => data'.freshness = "CURRENT" /\ data'.sample.age <= CurrentFor
      BY <1>3 DEF Render, StillCurrent
    <2>3. data'.freshness = "CURRENT" => data'.sample \in Sample
      BY <2>1 DEF Supported
    <2>4. panel'.current => /\ data'.sample \in Sample
                            /\ data'.sample.age <= IF due' THEN CurrentFor + 1 ELSE CurrentFor
      BY <2>2, <2>3 DEF Sample, CurrentFor
    <2>5. panel'.says = "MATCHED" => panel'.current /\ data'.applies = "MATCHED"
      BY <1>3 DEF Render
    <2> QED
      BY <2>1, <2>4, <2>5 DEF PanelInv
  <1>4. CASE Answered
    <2> USE <1>4 DEF Answered
    <2>1. asked \in Reply /\ Supported(asked) /\ asked' = None
      BY DEF TypeOK, AnswerInv
    <2>2. CASE ~Counts
      BY <2>2, <2>1, <1>b DEF TypeOK, AnswerInv, PanelInv, Supported, OfOne
    <2>3. CASE Counts /\ asked.at = "failed"
      <3>1. data' = None /\ panel' = Blank /\ due' = FALSE
        BY <2>3
      <3>2. PanelInv'
        BY <3>1 DEF PanelInv, Blank
      <3> QED
        BY <2>1, <3>1, <3>2, <1>b DEF TypeOK, AnswerInv
    <2>4. CASE Counts /\ asked.at # "failed"
      <3>1. data' = asked /\ panel' = Render(asked) /\ due' = due
        BY <2>4
      <3>2. PanelInv'
        BY <2>1, <3>1, <1>3
      <3> QED
        BY <2>1, <3>1, <3>2, <1>b DEF TypeOK, AnswerInv, Supported, OfOne
    <2> QED
      BY <2>2, <2>3, <2>4
  <1>5. CASE Rerender
    <2> USE <1>5 DEF Rerender
    <2>1. data \in Reply /\ Supported(data)
      BY DEF PanelInv
    <2>2. PanelInv'
      BY <2>1 DEF PanelInv, Render, StillCurrent, Sample, CurrentFor, TypeOK, Supported, OfOne
    <2> QED
      BY <2>2, <1>b DEF TypeOK, AnswerInv, Supported, OfOne
  <1> QED
    BY <1>1, <1>2, <1>4, <1>5

LEMMA SupplementInv ==
    ASSUME Inv, Redeploy \/ VerifyBegins \/ Anchor \/ Check \/ VerifyFails \/ VerifierDies
    PROVE  Inv'
  <1> USE DEF Inv, reader, page, supplement
  <1>a. PendingInv' /\ AnswerInv' /\ PanelInv'
    BY DEF Redeploy, VerifyBegins, Anchor, Check, VerifyFails, VerifierDies, PendingInv, Taken,
           AnswerInv, PanelInv, Supported, OfOne
  <1>b. ASSUME NEW result \in {"PARTIAL", "FAIL"}, verifier # None, Finishes(result),
               result = "PARTIAL" => verifier.checked = {verifier.base}
        PROVE  verifier' = None /\ receipts' \in Seq(Receipt) /\ ReceiptIsOfOne'
    <2> DEFINE new == [result |-> result, base |-> verifier.base, checked |-> verifier.checked]
    <2>1. new \in Receipt /\ (new.result = "PARTIAL" => new.checked = {new.base})
      BY <1>b DEF TypeOK, Verification, Receipt
    <2>2. receipts' = Append(receipts, new) /\ verifier' = None
      BY <1>b DEF Finishes
    <2> HIDE DEF new
    <2>3. receipts \in Seq(Receipt)
      BY DEF TypeOK
    <2>4. /\ receipts' \in Seq(Receipt)
          /\ \A i \in DOMAIN receipts' : IF i \in DOMAIN receipts THEN receipts'[i] = receipts[i]
                                       ELSE receipts'[i] = new
      BY <2>1, <2>2, <2>3
    <2> QED
      BY <2>1, <2>2, <2>4 DEF ReceiptIsOfOne
  <1>1. CASE Redeploy
    BY <1>1, <1>a DEF Redeploy, TypeOK, VerifierInv, OnlyBase, Verification, ReceiptIsOfOne
  <1>2. CASE VerifyBegins
    BY <1>2, <1>a DEF VerifyBegins, TypeOK, VerifierInv, OnlyBase, Verification, ReceiptIsOfOne
  <1>3. CASE Anchor
    <2> USE <1>3 DEF Anchor
    <2>1. verifier \in Verification
      BY DEF TypeOK
    <2>2. CASE Anchored /\ verifier.done < MaxChecks
      BY <2>1, <2>2, <1>a DEF TypeOK, VerifierInv, OnlyBase, Verification, ReceiptIsOfOne
    <2>3. CASE ~(Anchored /\ verifier.done < MaxChecks)
      <3>1. Anchored => verifier.checked = {verifier.base}
        BY <2>1, <2>3, OutcomeAssumption DEF VerifierInv, OnlyBase, Anchored, Verification
      <3>2. verifier' = None /\ receipts' \in Seq(Receipt) /\ ReceiptIsOfOne'
        BY <2>3, <3>1, <1>b
      <3> QED
        BY <3>2, <1>a DEF TypeOK, VerifierInv
    <2> QED
      BY <2>2, <2>3
  <1>4. CASE Check
    <2> USE <1>4 DEF Check
    <2>1. verifier \in Verification /\ service \in Nat
      BY DEF TypeOK
    <2>2. /\ verifier' \in Verification /\ verifier'.base = verifier.base
          /\ verifier'.checked = verifier.checked \cup {service}
      <3>1. verifier.checked \cup {service} \in SUBSET Nat /\ verifier.done + 1 \in Nat
        BY <2>1 DEF Verification
      <3>2. verifier' = [verifier EXCEPT !.at = "anchor", !.done = verifier.done + 1,
                                         !.checked = verifier.checked \cup {service}]
        OBVIOUS
      <3> QED
        BY <2>1, <3>1, <3>2 DEF Verification
    <2> QED
      BY <2>1, <2>2, <1>a DEF TypeOK, VerifierInv, OnlyBase, ReceiptIsOfOne
  <1>5. CASE VerifyFails
    <2>1. verifier' = None /\ receipts' \in Seq(Receipt) /\ ReceiptIsOfOne'
      BY <1>5, <1>b DEF VerifyFails
    <2> QED
      BY <1>5, <2>1, <1>a DEF VerifyFails, TypeOK, VerifierInv
  <1>6. CASE VerifierDies
    BY <1>6, <1>a DEF VerifierDies, TypeOK, VerifierInv, ReceiptIsOfOne
  <1> QED
    BY <1>1, <1>2, <1>3, <1>4, <1>5, <1>6

--------------------------------------------------------------------------------
(* createOutcomeReader, loadReleaseStatus and verify together: the invariant  *)
(* holds in every reachable state, whatever the bounds are.                   *)
THEOREM InvHolds == Spec => []Inv
  <1>1. Inv /\ [Next]_vars => Inv'
    <2> SUFFICES ASSUME Inv, [Next]_vars PROVE Inv'
      OBVIOUS
    <2>1. CASE UNCHANGED vars
      BY <2>1 DEF Inv, vars, reader, page, supplement, TypeOK, VerifierInv, OnlyBase,
                  ReceiptIsOfOne, PendingInv, Taken, AnswerInv, PanelInv, Supported, OfOne
    <2>2. CASE Next
      BY <2>2, TickInv, ReaderInv, PageStepInv, SupplementInv DEF Next
    <2> QED
      BY <2>1, <2>2
  <1> QED
    BY <1>1, InitInv, PTL DEF Spec

(* createOutcomeReader's 60 and 120 s and markup's own look at the clock: the  *)
(* page calls no sample current that was read more than four units before.    *)
THEOREM CurrentIsRecent == Spec => []ShownCurrentIsRecent
  <1>1. Inv => ShownCurrentIsRecent
    BY DEF Inv, PanelInv, ShownCurrentIsRecent, Sample, CurrentFor
  <1> QED
    BY <1>1, InvHolds, PTL

(* readSupplemental, the anchors of verify and markup: a verification shown as *)
(* matching has checked the deployment it is shown beside and no other.        *)
THEOREM MatchIsEarned == Spec => []MatchedIsChecked
  <1>1. Inv => MatchedIsChecked
    BY DEF Inv, PanelInv, Supported, OfOne, MatchedIsChecked
  <1> QED
    BY <1>1, InvHolds, PTL

(* verify's anchors: a receipt that does not fail is about one deployment.    *)
THEOREM ReceiptsAreOfOne == Spec => []ReceiptIsOfOne
  BY InvHolds, PTL DEF Inv
================================================================================
