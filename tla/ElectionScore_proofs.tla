---- MODULE ElectionScore_proofs ----
(***************************************************************************)
(* Theorems about ElectionScore. Its loops are recursive functions of the  *)
(* position in a list. What they come to is proved by induction over the   *)
(* position, in terms of sets: Rating and Elects. The properties follow.   *)
(***************************************************************************)
EXTENDS ElectionScore, WellFoundedInduction, FiniteSetTheorems, TLAPS

----------------------------------------------------------------------------
(* Induction over positions *)

\* A set of numbers has a smallest one: the initial segment that ends with it
\* is a smallest set of its kind.
LEMMA Smallest ==
  ASSUME NEW T \in SUBSET Nat, T # {}
  PROVE  \E n \in T : \A m \in T : n <= m
<1> DEFINE Initial == {0..n : n \in T}
<1>1. Initial \subseteq FiniteSubsetsOf(Nat)
  <2>1. \A n \in T : 0..n \in SUBSET Nat /\ IsFiniteSet(0..n)
    BY FS_Interval
  <2> QED
    BY <2>1, Zenon DEF FiniteSubsetsOf
<1>2. Initial # {}
  OBVIOUS
<1>3. PICK I \in Initial : \A J \in Initial : <<J, I>> \notin StrictSubsetOrdering(Nat)
  <2> HIDE DEF Initial
  <2> QED
    BY <1>1, <1>2, FS_StrictSubsetOrderingWellFounded, WFMin, Zenon
<1>4. PICK n \in T : I = 0..n
  OBVIOUS
<1>5. ASSUME NEW m \in T, m < n PROVE FALSE
  <2>1. 0..m \in Initial /\ 0..m \subseteq 0..n /\ 0..m # 0..n /\ 0..n \in SUBSET Nat
    <3>1. n \in 0..n /\ n \notin 0..m
      BY <1>5
    <3> QED
      BY <3>1, <1>5
  <2>2. <<0..m, 0..n>> \in StrictSubsetOrdering(Nat)
    BY <2>1 DEF StrictSubsetOrdering
  <2> QED
    BY <1>3, <1>4, <2>1, <2>2
<1> QED
  BY <1>5

\* Induction over the positions of a list, with a set for the predicate.
LEMMA PositionInduction ==
  ASSUME NEW n \in Nat, NEW S \in SUBSET (0..n), 0 \in S, \A i \in S : i < n => i + 1 \in S
  PROVE  S = 0..n
<1> SUFFICES ASSUME (0..n) \ S # {} PROVE FALSE
  OBVIOUS
<1>1. PICK i \in (0..n) \ S : \A j \in (0..n) \ S : i <= j
  <2>1. (0..n) \ S \in SUBSET Nat
    OBVIOUS
  <2> QED
    BY <2>1, Smallest
<1> QED
  BY <1>1

\* A loop of n steps, in which X is carried on, and its course.
IsLoop(n, X, start, step) == n \in Nat /\ start \in X /\ step \in [1..n -> [X -> X]]

IsCourse(n, X, start, step, f) ==
  f \in [0..n -> X] /\ f[0] = start /\ \A i \in 1..n : f[i] = step[i][f[i - 1]]

\* A loop has a course: a function defined by recursion over the position.
LEMMA Recursion ==
  ASSUME NEW n, NEW X, NEW start, NEW step, IsLoop(n, X, start, step)
  PROVE  \E f : IsCourse(n, X, start, step, f)
<1> USE DEF IsLoop, IsCourse
<1> DEFINE Good(m, f) == \A i \in 0..m : f[i] = IF i = 0 THEN start ELSE step[i][f[i - 1]]
<1> DEFINE S == {m \in 0..n : \E f \in [0..n -> X] : Good(m, f)}
<1>1. 0 \in S
  <2>1. [i \in 0..n |-> start] \in [0..n -> X] /\ Good(0, [i \in 0..n |-> start])
    OBVIOUS
  <2> HIDE DEF Good
  <2> QED
    BY <2>1
<1>2. ASSUME NEW m \in S, m < n PROVE m + 1 \in S
  <2>1. m \in Nat /\ m \in 0..n /\ m + 1 \in 1..n /\ m + 1 \in 0..n
    BY <1>2
  <2>2. PICK f \in [0..n -> X] : Good(m, f)
    OBVIOUS
  <2> DEFINE g == [f EXCEPT ![m + 1] = step[m + 1][f[m]]]
  <2>3. g \in [0..n -> X]
    BY <2>1
  <2>4. ASSUME NEW i \in 0..(m + 1)
        PROVE  g[i] = IF i = 0 THEN start ELSE step[i][g[i - 1]]
    <3>1. CASE i = m + 1
      BY <2>1, <3>1
    <3>2. CASE i # m + 1
      <4>1. i \in 0..m /\ i \in 0..n /\ (i # 0 => i - 1 \in 0..n /\ i - 1 # m + 1)
        BY <2>1, <3>2
      <4>2. g[i] = f[i] /\ (i # 0 => g[i - 1] = f[i - 1])
        BY <3>2, <4>1
      <4> QED
        BY <2>2, <4>1, <4>2
    <3> QED
      BY <3>1, <3>2
  <2>5. Good(m + 1, g)
    BY <2>4
  <2> HIDE DEF g, Good
  <2> QED
    BY <2>1, <2>3, <2>5
<1>3. S = 0..n
  <2>1. S \in SUBSET (0..n)
    OBVIOUS
  <2> HIDE DEF S
  <2> QED
    BY <1>1, <1>2, <2>1, PositionInduction
<1> QED
  <2>1. PICK f \in [0..n -> X] : Good(n, f)
    <3>1. n \in S
      <4> HIDE DEF S
      <4> QED
        BY <1>3
    <3> QED
      BY <3>1
  <2> QED
    BY <2>1

----------------------------------------------------------------------------
(* What the loops come to *)

\* The best so far of a list, and what is kept of it.
BestOf(K) == [key : K \cup {None}, value : Nat, tied : BOOLEAN]

\* r is what there is to say of the largest value above the floor.
Leads(K, value, floor, r) ==
  /\ r \in BestOf(K)
  /\ r.value >= floor /\ \A k \in K : value[k] <= r.value
  /\ r.value = floor \/ (r.key \in K /\ value[r.key] = r.value)
  /\ r.value = floor => r.key = None
  /\ r.value > floor =>
       (r.tied <=> \E k \in K : k # r.key /\ value[k] = r.value)

\* The loop over keys that are all different finds the largest value, and whether
\* one key alone has it.
LEMMA LeadCorrect ==
  ASSUME NEW K, NEW keys \in Seq(K), ToSet(keys) = K, NEW value \in [K -> Nat], NEW floor \in Nat,
         \A i, j \in 1..Len(keys) : keys[i] = keys[j] => i = j
  PROVE  Leads(K, value, floor, Lead(keys, value, floor))
<1> DEFINE n == Len(keys)
           X == BestOf(K)
           start == [key |-> None, value |-> floor, tied |-> FALSE]
           After(b, k) ==
             IF value[k] > b.value THEN [key |-> k, value |-> value[k], tied |-> FALSE]
             ELSE [b EXCEPT !.tied = @ \/ value[k] = b.value]
           step == [i \in 1..n |-> [b \in X |-> After(b, keys[i])]]
<1>1. n \in Nat /\ \A i \in 1..n : keys[i] \in K
  OBVIOUS
<1>2. start \in X /\ step \in [1..n -> [X -> X]]
  BY <1>1 DEF BestOf
<1>3. \E f : f = [i \in 0..n |-> IF i = 0 THEN start ELSE After(f[i - 1], keys[i])]
  <2>1. PICK f \in [0..n -> X] : f[0] = start /\ \A i \in 1..n : f[i] = step[i][f[i - 1]]
    <3> HIDE DEF n, X, start, step
    <3>1. IsLoop(n, X, start, step)
      BY <1>1, <1>2 DEF IsLoop
    <3>2. \E f : IsCourse(n, X, start, step, f)
      BY <3>1, Recursion, Zenon
    <3> QED
      BY <3>2 DEF IsCourse
  <2>2. ASSUME NEW i \in 0..n, i # 0 PROVE f[i] = After(f[i - 1], keys[i])
    <3> HIDE DEF X, After, n
    <3>1. i \in 1..n /\ i - 1 \in 0..n
      BY <1>1, <2>2
    <3>2. f[i - 1] \in X /\ f[i] = step[i][f[i - 1]]
      BY <2>1, <3>1
    <3> QED
      BY <3>1, <3>2
  <2>3. f = [i \in 0..n |-> IF i = 0 THEN start ELSE After(f[i - 1], keys[i])]
    <3> HIDE DEF X, After, n, start, step
    <3> QED
      BY <2>1, <2>2
  <2> QED
    BY <2>3
<1>4. PICK f : /\ f = [i \in 0..n |-> IF i = 0 THEN start ELSE After(f[i - 1], keys[i])]
               /\ Lead(keys, value, floor) = f[n]
  BY <1>3, Zenon DEF Lead, Loop
<1> DEFINE Seen(i) == {keys[j] : j \in 1..i}
           S == {i \in 0..n : Leads(Seen(i), value, floor, f[i])}
<1>5. 0 \in S
  <2>1. f[0] = start /\ Seen(0) = {}
    <3> HIDE DEF start, After
    <3> QED
      BY <1>1, <1>4
  <2> HIDE DEF n
  <2>2. Leads({}, value, floor, start)
    BY DEF Leads, BestOf
  <2>3. Leads(Seen(0), value, floor, f[0])
    <3> HIDE DEF start, Seen
    <3> QED
      BY <2>1, <2>2
  <2> HIDE DEF Seen
  <2> QED
    BY <1>1, <2>3
<1>6. ASSUME NEW i \in S, i < n PROVE i + 1 \in S
  <2> DEFINE b == f[i]
             k == keys[i + 1]
             r == f[i + 1]
  <2>1. i \in Nat /\ i + 1 \in 1..n /\ i + 1 \in 0..n /\ Leads(Seen(i), value, floor, b)
    BY <1>1, <1>6
  <2>2. r = After(b, k)
    <3> HIDE DEF start, After
    <3> QED
      BY <1>4, <2>1
  <2>3. Seen(i + 1) = Seen(i) \cup {k} /\ k \notin Seen(i) /\ k \in K /\ Seen(i) \subseteq K
    BY <1>1, <2>1
  <2>4. Leads(Seen(i) \cup {k}, value, floor, r)
    <3> HIDE DEF b, k, r, n, Seen
    <3>1. /\ b.value \in Nat /\ b.tied \in BOOLEAN /\ b.key \in Seen(i) \cup {None}
          /\ b = [key |-> b.key, value |-> b.value, tied |-> b.tied] /\ value[k] \in Nat
      BY <2>1, <2>3 DEF Leads, BestOf
    <3>2. CASE value[k] > b.value
      <4>1. r = [key |-> k, value |-> value[k], tied |-> FALSE]
        BY <2>2, <3>2
      <4> QED
        BY <2>1, <2>3, <3>1, <3>2, <4>1 DEF Leads, BestOf
    <3>3. CASE ~(value[k] > b.value)
      <4>1. r = [key |-> b.key, value |-> b.value, tied |-> b.tied \/ value[k] = b.value]
        BY <2>2, <3>1, <3>3
      <4> QED
        <5>1. r \in BestOf(Seen(i) \cup {k}) /\ r.key = b.key /\ r.value = b.value
              /\ (r.tied <=> b.tied \/ value[k] = b.value)
          BY <3>1, <4>1 DEF BestOf
        <5>2. CASE b.value = floor
          BY <2>1, <2>3, <3>1, <3>3, <5>1, <5>2 DEF Leads
        <5>3. CASE b.value > floor
          <6>1. b.key \in Seen(i) /\ b.key # k
            BY <2>1, <2>3, <5>3 DEF Leads
          <6>2. r.tied <=> \E l \in Seen(i) \cup {k} : l # b.key /\ value[l] = b.value
            BY <2>1, <5>1, <5>3, <6>1 DEF Leads
          <6> QED
            BY <2>1, <2>3, <3>1, <3>3, <5>1, <5>3, <6>1, <6>2 DEF Leads
        <5> QED
          BY <2>1, <3>1, <5>2, <5>3 DEF Leads
    <3> QED
      BY <3>2, <3>3
  <2> QED
    BY <2>1, <2>3, <2>4
<1>7. S = 0..n
  <2>1. S \in SUBSET (0..n)
    OBVIOUS
  <2> HIDE DEF S, n
  <2> QED
    BY <1>1, <1>5, <1>6, <2>1, PositionInduction
<1>8. Seen(n) = K
  BY <1>1 DEF ToSet
<1> QED
  <2>1. n \in S
    <3> HIDE DEF S, n
    <3> QED
      BY <1>1, <1>7
  <2> QED
    BY <1>4, <1>8, <2>1

\* The sequence has each of the elements of a set once.
IsListOf(K, keys) ==
  /\ keys \in Seq(K) /\ ToSet(keys) = K
  /\ \A i, j \in 1..Len(keys) : keys[i] = keys[j] => i = j

\* A key that is new is appended, and is in the list from then on.
LEMMA KeyAppended ==
  ASSUME NEW K, NEW keys, IsListOf(K, keys), NEW c
  PROVE  /\ Contains(keys, c) <=> c \in K
         /\ c \notin K => IsListOf(K \cup {c}, Append(keys, c))
<1>1. keys \in Seq(K \cup {c}) /\ Len(keys) \in Nat /\ ToSet(keys) = {keys[i] : i \in 1..Len(keys)}
  BY DEF IsListOf, ToSet
<1>2. Contains(keys, c) <=> c \in K
  BY <1>1 DEF Contains, IsListOf
<1>3. ASSUME c \notin K PROVE IsListOf(K \cup {c}, Append(keys, c))
  <2> DEFINE more == Append(keys, c)
  <2>1. /\ more \in Seq(K \cup {c}) /\ Len(more) = Len(keys) + 1
        /\ \A i \in 1..Len(keys) : more[i] = keys[i] /\ keys[i] \in K
        /\ more[Len(keys) + 1] = c
    BY <1>1 DEF IsListOf
  <2> HIDE DEF more
  <2>2. ToSet(more) = K \cup {c}
    <3>1. DOMAIN more = 1..(Len(keys) + 1)
      BY <2>1
    <3>2. \A i \in 1..(Len(keys) + 1) : i \in 1..Len(keys) \/ i = Len(keys) + 1
      BY <1>1
    <3>3. \A i \in 1..Len(keys) : i \in 1..(Len(keys) + 1)
      BY <1>1
    <3>4. Len(keys) + 1 \in 1..(Len(keys) + 1)
      BY <1>1
    <3>5. K = {keys[i] : i \in 1..Len(keys)}
      BY <1>1 DEF IsListOf
    <3> QED
      BY <2>1, <3>1, <3>2, <3>3, <3>4, <3>5 DEF ToSet
  <2>3. ASSUME NEW i \in 1..Len(more), NEW j \in 1..Len(more), more[i] = more[j] PROVE i = j
    <3>1. /\ i \in 1..Len(keys) \/ i = Len(keys) + 1
          /\ j \in 1..Len(keys) \/ j = Len(keys) + 1
      BY <1>1, <2>1
    <3> QED
      BY <1>3, <2>1, <2>3, <3>1 DEF IsListOf
  <2> QED
    BY <2>1, <2>2, <2>3 DEF IsListOf, more
<1> QED
  BY <1>2, <1>3

\* The VMs up to a position.
Upto(list, i) == {list[j] : j \in 1..i}

\* From one position to the next there is one more VM.
LEMMA UptoSteps ==
  ASSUME NEW K, NEW list \in Seq(K)
  PROVE  /\ Len(list) \in Nat
         /\ Upto(list, 0) = {} /\ Upto(list, Len(list)) = ToSet(list)
         /\ \A i \in 0..Len(list) : i < Len(list) =>
              /\ i + 1 \in 1..Len(list) /\ list[i + 1] \in K
              /\ Upto(list, i + 1) = Upto(list, i) \cup {list[i + 1]}
         /\ \A i \in 0..Len(list) : i # 0 => i \in 1..Len(list) /\ i - 1 \in 0..Len(list)
BY DEF Upto, ToSet

SumsOf(group) == {SumOf(v) : v \in group}

\* Each checksum of the group is a key once.
LEMMA KeysCorrect ==
  ASSUME NEW V, NEW list \in Seq(V), NEW group
  PROVE  IsListOf(SumsOf(ToSet(list) \cap group), KeysOf(list, group))
<1> DEFINE n == Len(list)
           C == SumsOf(V)
           X == Seq(C)
           After(keys, v) ==
             IF v \in group /\ ~Contains(keys, SumOf(v)) THEN Append(keys, SumOf(v)) ELSE keys
           step == [i \in 1..n |-> [keys \in X |-> After(keys, list[i])]]
<1>1. /\ n \in Nat /\ Upto(list, 0) = {} /\ Upto(list, n) = ToSet(list)
      /\ \A i \in 0..n : i < n =>
           /\ i + 1 \in 1..n /\ list[i + 1] \in V
           /\ Upto(list, i + 1) = Upto(list, i) \cup {list[i + 1]}
      /\ \A i \in 0..n : i # 0 => i \in 1..n /\ i - 1 \in 0..n
  BY UptoSteps
<1>2. \A i \in 1..n : list[i] \in V /\ SumOf(list[i]) \in C
  BY DEF SumsOf
<1>3. <<>> \in X /\ step \in [1..n -> [X -> X]]
  BY <1>2
<1>4. PICK g : IsCourse(n, X, <<>>, step, g)
  <2>1. IsLoop(n, X, <<>>, step)
    BY <1>1, <1>3 DEF IsLoop
  <2> HIDE DEF n, X, step
  <2> QED
    BY <2>1, Recursion, Zenon
<1>5. g = [i \in 0..n |-> IF i = 0 THEN <<>> ELSE After(g[i - 1], list[i])]
  <2>1. ASSUME NEW i \in 0..n, i # 0 PROVE g[i] = After(g[i - 1], list[i])
    <3> HIDE DEF X, After, n
    <3>1. i \in 1..n /\ i - 1 \in 0..n
      BY <1>1, <2>1
    <3>2. g[i - 1] \in X /\ g[i] = step[i][g[i - 1]]
      BY <1>4, <3>1 DEF IsCourse
    <3> QED
      BY <3>1, <3>2
  <2> HIDE DEF X, After, n, step
  <2> QED
    BY <1>4, <2>1 DEF IsCourse
<1>6. PICK f : /\ f = [i \in 0..n |-> IF i = 0 THEN <<>> ELSE After(f[i - 1], list[i])]
               /\ KeysOf(list, group) = f[n]
  BY <1>5, Zenon DEF KeysOf, Loop
<1> DEFINE S == {i \in 0..n : IsListOf(SumsOf(Upto(list, i) \cap group), f[i])}
<1>7. 0 \in S
  <2>1. f[0] = <<>>
    <3> HIDE DEF After, n
    <3> QED
      BY <1>1, <1>6
  <2>2. SumsOf(Upto(list, 0) \cap group) = {}
    BY <1>1 DEF SumsOf
  <2>3. IsListOf({}, <<>>)
    BY DEF IsListOf, ToSet
  <2>4. IsListOf(SumsOf(Upto(list, 0) \cap group), f[0])
    BY <2>1, <2>2, <2>3
  <2> HIDE DEF n
  <2> QED
    BY <1>1, <2>4
<1>8. ASSUME NEW i \in S, i < n PROVE i + 1 \in S
  <2> DEFINE v == list[i + 1]
             sums == SumsOf(Upto(list, i) \cap group)
  <2>1. i \in 0..n /\ i + 1 \in 0..n /\ i + 1 # 0 /\ IsListOf(sums, f[i])
    BY <1>1, <1>8
  <2>2. f[i + 1] = After(f[i], v)
    <3> HIDE DEF After
    <3>1. i + 1 - 1 = i
      BY <1>1
    <3> QED
      BY <1>6, <2>1, <3>1
  <2>3. Upto(list, i + 1) \cap group = IF v \in group THEN (Upto(list, i) \cap group) \cup {v}
                                                      ELSE Upto(list, i) \cap group
    BY <1>1, <1>8, <2>1
  <2>4. SumsOf(Upto(list, i + 1) \cap group) = IF v \in group THEN sums \cup {SumOf(v)} ELSE sums
    BY <2>3 DEF SumsOf
  <2>5. IsListOf(SumsOf(Upto(list, i + 1) \cap group), f[i + 1])
    <3> HIDE DEF v, sums, n
    <3>1. CASE v \in group /\ SumOf(v) \notin sums
      <4>1. f[i + 1] = Append(f[i], SumOf(v))
        BY <2>1, <2>2, <3>1, KeyAppended
      <4>2. IsListOf(sums \cup {SumOf(v)}, Append(f[i], SumOf(v)))
        BY <2>1, <3>1, KeyAppended
      <4> QED
        BY <2>4, <3>1, <4>1, <4>2
    <3>2. CASE v \in group /\ SumOf(v) \in sums
      <4>1. sums \cup {SumOf(v)} = sums
        BY <3>2
      <4> QED
        BY <2>1, <2>2, <2>4, <3>2, <4>1, KeyAppended
    <3>3. CASE v \notin group
      BY <2>1, <2>2, <2>4, <3>3
    <3> QED
      BY <3>1, <3>2, <3>3
  <2> HIDE DEF n
  <2> QED
    BY <2>1, <2>5
<1>9. S = 0..n
  <2>1. S \in SUBSET (0..n)
    OBVIOUS
  <2> HIDE DEF S, n
  <2> QED
    BY <1>1, <1>7, <1>8, <2>1, PositionInduction
<1> QED
  <2>1. n \in S
    <3> HIDE DEF S, n
    <3> QED
      BY <1>1, <1>9
  <2> QED
    BY <1>1, <1>6, <2>1

\* v goes before w.
Precedes(v, w) ==
  \/ records[v].sendTime < records[w].sendTime
  \/ records[v].sendTime = records[w].sendTime /\ v < w

IsOldest(V, r) ==
  IF V = {} THEN r = None ELSE r \in V /\ \A v \in V \ {r} : Precedes(r, v)

\* One more VM is looked at.
LEMMA OlderOf ==
  ASSUME records \in [Vm -> HealthCheckRecord], NEW V \in SUBSET Vm, NEW r, IsOldest(V, r),
         NEW v \in Vm
  PROVE  IsOldest(V \cup {v}, IF Older(v, r) THEN v ELSE r)
<1>1. /\ \A w \in Vm : w \in Nat /\ w # None
      /\ \A w \in Vm : records[w].sendTime \in Nat
  BY ScoreAssumption DEF HealthCheckRecord
<1>2. CASE V = {}
  BY <1>2 DEF IsOldest, Older
<1>3. CASE V # {}
  <2>1. r \in V /\ r \in Vm /\ \A w \in V \ {r} : Precedes(r, w)
    BY <1>3 DEF IsOldest
  <2>2. CASE Older(v, r)
    BY <1>1, <1>3, <2>1, <2>2 DEF IsOldest, Older, Precedes
  <2>3. CASE ~Older(v, r)
    BY <1>1, <1>3, <2>1, <2>3 DEF IsOldest, Older, Precedes
  <2> QED
    BY <2>2, <2>3
<1> QED
  BY <1>2, <1>3

\* The loop finds the VM that goes before all others.
LEMMA OldestCorrect ==
  ASSUME records \in [Vm -> HealthCheckRecord], NEW list \in Seq(Vm)
  PROVE  IsOldest(ToSet(list), Oldest(list))
<1> DEFINE n == Len(list)
           X == Vm \cup {None}
           After(best, v) == IF Older(v, best) THEN v ELSE best
           step == [i \in 1..n |-> [best \in X |-> After(best, list[i])]]
<1>1. /\ n \in Nat /\ Upto(list, 0) = {} /\ Upto(list, n) = ToSet(list)
      /\ \A i \in 0..n : i < n =>
           /\ i + 1 \in 1..n /\ list[i + 1] \in Vm
           /\ Upto(list, i + 1) = Upto(list, i) \cup {list[i + 1]}
      /\ \A i \in 0..n : i # 0 => i \in 1..n /\ i - 1 \in 0..n
  BY UptoSteps
<1>2. \A i \in 1..n : list[i] \in Vm
  OBVIOUS
<1>3. None \in X /\ step \in [1..n -> [X -> X]]
  BY <1>2
<1>4. PICK g : IsCourse(n, X, None, step, g)
  <2>1. IsLoop(n, X, None, step)
    BY <1>1, <1>3 DEF IsLoop
  <2> HIDE DEF n, X, step
  <2> QED
    BY <2>1, Recursion, Zenon
<1>5. g = [i \in 0..n |-> IF i = 0 THEN None ELSE After(g[i - 1], list[i])]
  <2>1. ASSUME NEW i \in 0..n, i # 0 PROVE g[i] = After(g[i - 1], list[i])
    <3> HIDE DEF X, After, n
    <3>1. i \in 1..n /\ i - 1 \in 0..n
      BY <1>1, <2>1
    <3>2. g[i - 1] \in X /\ g[i] = step[i][g[i - 1]]
      BY <1>4, <3>1 DEF IsCourse
    <3> QED
      BY <3>1, <3>2
  <2> HIDE DEF X, After, n, step
  <2> QED
    BY <1>4, <2>1 DEF IsCourse
<1>6. PICK f : /\ f = [i \in 0..n |-> IF i = 0 THEN None ELSE After(f[i - 1], list[i])]
               /\ Oldest(list) = f[n]
  BY <1>5, Zenon DEF Oldest, Loop
<1> DEFINE S == {i \in 0..n : IsOldest(Upto(list, i), f[i])}
<1>7. 0 \in S
  <2>1. f[0] = None
    <3> HIDE DEF After, n
    <3> QED
      BY <1>1, <1>6
  <2>2. IsOldest(Upto(list, 0), f[0])
    BY <1>1, <2>1 DEF IsOldest
  <2> HIDE DEF n
  <2> QED
    BY <1>1, <2>2
<1>8. ASSUME NEW i \in S, i < n PROVE i + 1 \in S
  <2> DEFINE v == list[i + 1]
  <2>1. /\ i \in 0..n /\ i + 1 \in 0..n /\ i + 1 # 0 /\ IsOldest(Upto(list, i), f[i])
        /\ Upto(list, i) \in SUBSET Vm
    BY <1>1, <1>2, <1>8 DEF Upto
  <2>2. f[i + 1] = After(f[i], v)
    <3> HIDE DEF After
    <3>1. i + 1 - 1 = i
      BY <1>1
    <3> QED
      BY <1>6, <2>1, <3>1
  <2>3. v \in Vm /\ Upto(list, i + 1) = Upto(list, i) \cup {v}
    BY <1>1, <1>8, <2>1
  <2>4. IsOldest(Upto(list, i + 1), f[i + 1])
    <3> HIDE DEF v, n
    <3> QED
      BY <2>1, <2>2, <2>3, OlderOf
  <2> HIDE DEF n
  <2> QED
    BY <2>1, <2>4
<1>9. S = 0..n
  <2>1. S \in SUBSET (0..n)
    OBVIOUS
  <2> HIDE DEF S, n
  <2> QED
    BY <1>1, <1>7, <1>8, <2>1, PositionInduction
<1> QED
  <2>1. n \in S
    <3> HIDE DEF S, n
    <3> QED
      BY <1>1, <1>9
  <2> QED
    BY <1>1, <1>6, <2>1

----------------------------------------------------------------------------
(* Lists and largest elements of a finite set *)

\* A listing of the database has each candidate once.
LEMMA ListOfCandidates ==
  ASSUME NEW S, IsFiniteSet(S), NEW list \in SetToSeqs(S)
  PROVE  IsListOf(S, list)
<1>1. Cardinality(S) \in Nat
  BY FS_CardinalityType
<1> DEFINE n == Cardinality(S)
<1>2. list \in [1..n -> S] /\ \A i, j \in 1..n : i # j => list[i] # list[j]
  BY DEF SetToSeqs
<1>3. list \in Seq(S) /\ Len(list) = n /\ DOMAIN list = 1..n
  BY <1>1, <1>2
<1>4. list \in Injection(1..n, S)
  BY <1>2, <1>3 DEF Injection, IsInjective
<1>5. IsFiniteSet(1..n) /\ Cardinality(1..n) = n
  BY <1>1, FS_Interval
<1>6. list \in Surjection(1..n, S)
  BY <1>4, <1>5, FS_Injection
<1>7. ToSet(list) = S
  BY <1>2, <1>3, <1>6 DEF ToSet, Surjection
<1> QED
  BY <1>2, <1>3, <1>7 DEF IsListOf

\* A finite set of numbers has a largest one: one with the smallest set of
\* larger ones.
LEMMA Largest ==
  ASSUME NEW S \in SUBSET Nat, IsFiniteSet(S), S # {}
  PROVE  Max(S) \in S /\ \A x \in S : Max(S) >= x
<1> DEFINE Above(x) == {y \in S : y > x}
           Tops == {Above(x) : x \in S}
<1>1. Tops \subseteq FiniteSubsetsOf(S) /\ Tops # {}
  <2>1. FiniteSubsetsOf(S) = SUBSET S
    BY FS_FiniteSubsetsOfFinite
  <2>2. \A x \in S : Above(x) \in SUBSET S
    OBVIOUS
  <2> HIDE DEF Above
  <2>3. Tops \subseteq SUBSET S
    BY <2>2
  <2>4. Tops # {}
    OBVIOUS
  <2> QED
    BY <2>1, <2>3, <2>4
<1>2. PICK A \in Tops : \A B \in Tops : <<B, A>> \notin StrictSubsetOrdering(S)
  <2> HIDE DEF Tops
  <2> QED
    BY <1>1, FS_StrictSubsetOrderingWellFounded, WFMin, Zenon
<1>3. PICK x \in S : A = Above(x)
  OBVIOUS
<1>4. ASSUME NEW y \in S, y > x PROVE FALSE
  <2>1. Above(y) \subseteq Above(x) /\ y \in Above(x) /\ y \notin Above(y)
    <3>1. \A z \in S : z \in Nat
      OBVIOUS
    <3>2. \A z \in S : z > y => z > x
      BY <1>4, <3>1
    <3>3. ~(y > y)
      BY <3>1
    <3> QED
      BY <1>4, <3>2, <3>3
  <2>2. Above(y) \in Tops
    <3> HIDE DEF Above
    <3> QED
      OBVIOUS
  <2>3. Above(x) \in SUBSET S /\ Above(y) \in SUBSET S
    OBVIOUS
  <2>4. <<Above(y), Above(x)>> \in StrictSubsetOrdering(S)
    <3> HIDE DEF Above
    <3> QED
      BY <2>1, <2>3 DEF StrictSubsetOrdering
  <2> QED
    BY <1>2, <1>3, <2>2, <2>4
<1>5. \E z \in S : \A y \in S : z >= y
  BY <1>4
<1> QED
  BY <1>5 DEF Max

----------------------------------------------------------------------------
(* The score and the result, whatever the order of the list *)

RecordsTyped == records \in [Vm -> HealthCheckRecord]

Group(sum) == {v \in Candidates : SumOf(v) = sum}

\* The largest group, which has two members or more.
Major(sum) ==
  /\ Cardinality(Group(sum)) > 1
  /\ \A v \in Candidates : SumOf(v) # sum => Cardinality(Group(SumOf(v))) < Cardinality(Group(sum))

\* One of the group has synced, and no other VM has then or since.
LatestGroup(sum) ==
  \E u \in Group(sum) :
    /\ SyncOf(u) # None
    /\ \A w \in Candidates : SumOf(w) # sum /\ SyncOf(w) # None => SyncOf(w) < SyncOf(u)

LatestOfGroup(v) ==
  /\ SyncOf(v) # None
  /\ \A w \in Group(SumOf(v)) \ {v} : SyncOf(w) # None => SyncOf(w) < SyncOf(v)

\* What the configuration of v earns it, and its role.
Standing(v) ==
  Points(SumOf(v) # None, 1) + Points(SumOf(v) # None /\ Group(SumOf(v)) # {v}, 2)
    + Points(SumOf(v) # None /\ Major(SumOf(v)), 4) + Points(LatestGroup(SumOf(v)), 16)
    + Points(LatestOfGroup(v), 8)

Rating(v) == Standing(v) + PrimaryDeviceWeight(v)

Highest(w) ==
  w \in Candidates /\ Rating(w) > 0 /\ \A v \in Candidates \ {w} : Rating(v) < Rating(w)

\* A group in which none has synced, and every checksum is another one.
Apart == \A v \in Candidates : SyncOf(v) = None /\ Group(SumOf(v)) = {v}

Even == \A v, w \in Candidates : Rating(v) = Rating(w)

\* An election comes to w.
Elects(w) ==
  \/ Highest(w)
  \/ /\ \A v \in Candidates : ~Highest(v)
     /\ IF Apart /\ Even THEN IsOldest(Candidates, w) ELSE w = None

\* What is known of records, and of the finite groups among the candidates.
LEMMA RecordFacts ==
  ASSUME RecordsTyped
  PROVE  /\ Candidates \in SUBSET Vm /\ IsFiniteSet(Candidates)
         /\ \A v \in Vm : v \in Nat /\ v # None
         /\ \A v \in Vm : SyncOf(v) # None => SyncOf(v) \in Nat /\ SyncOf(v) > 0
         /\ \A v \in Vm : records[v].sendTime \in Nat /\ records[v].deviceIsPrimary \in BOOLEAN
         /\ \A sum : Group(sum) \in SUBSET Candidates /\ IsFiniteSet(Group(sum))
                       /\ Cardinality(Group(sum)) \in Nat
<1>1. Candidates \in SUBSET Vm /\ IsFiniteSet(Candidates)
  BY ScoreAssumption, FS_Subset DEF Candidates
<1>2. \A sum : Group(sum) \in SUBSET Candidates
  BY DEF Group
<1>3. \A sum : IsFiniteSet(Group(sum)) /\ Cardinality(Group(sum)) \in Nat
  BY <1>1, <1>2, FS_Subset, FS_CardinalityType
<1>4. \A v \in Vm : records[v] \in HealthCheckRecord
  BY DEF RecordsTyped
<1>5. \A v \in Vm : SyncOf(v) # None => SyncOf(v) \in Nat /\ SyncOf(v) > 0
  <2>1. \A v \in Vm : SyncOf(v) \in Time \cup {None}
    BY <1>4 DEF SyncOf, HealthCheckRecord
  <2>2. \A t \in Time : t \in Nat /\ t > 0
    BY ScoreAssumption
  <2> QED
    BY <2>1, <2>2
<1>6. \A v \in Vm : records[v].sendTime \in Nat /\ records[v].deviceIsPrimary \in BOOLEAN
  BY <1>4, ScoreAssumption DEF HealthCheckRecord
<1> QED
  BY <1>1, <1>2, <1>3, <1>5, <1>6, ScoreAssumption

\* The sole largest value.
LEMMA LeadSole ==
  ASSUME NEW K, NEW value \in [K -> Nat], NEW floor \in Nat, NEW r, Leads(K, value, floor, r),
         NEW s \in K
  PROVE  r.value > floor /\ ~r.tied /\ r.key = s
           <=> value[s] > floor /\ \A k \in K \ {s} : value[k] < value[s]
<1>1. r.value \in Nat /\ r.tied \in BOOLEAN /\ \A k \in K : value[k] \in Nat
  BY DEF Leads, BestOf
<1>2. ASSUME r.value > floor, ~r.tied, r.key = s
      PROVE  value[s] > floor /\ \A k \in K \ {s} : value[k] < value[s]
  BY <1>1, <1>2 DEF Leads
<1>3. ASSUME value[s] > floor, \A k \in K \ {s} : value[k] < value[s]
      PROVE  r.value > floor /\ ~r.tied /\ r.key = s
  BY <1>1, <1>3 DEF Leads
<1> QED
  BY <1>2, <1>3

\* The members of a list are those of the set.
LEMMA MembersAreGroup ==
  ASSUME NEW list, ToSet(list) = Candidates, NEW sum
  PROVE  Members(list, sum) = Group(sum)
BY DEF Members, Group

\* The 4 points go to the largest group, whatever the order of the keys.
LEMMA GroupedIsMajor ==
  ASSUME RecordsTyped, NEW list, IsListOf(Candidates, list), NEW v \in Candidates
  PROVE  GroupedChecksumWeight(v, list) = Points(SumOf(v) # None /\ Major(SumOf(v)), 4)
<1> DEFINE keys == KeysOf(list, ToSet(list))
           K == SumsOf(Candidates)
           value == [sum \in K |-> Cardinality(Group(sum))]
           r == Lead(keys, value, 1)
<1>1. ToSet(list) = Candidates /\ list \in Seq(Candidates)
  BY DEF IsListOf
<1>2. IsListOf(K, keys)
  <2>1. ToSet(list) \cap ToSet(list) = Candidates
    BY <1>1
  <2> QED
    BY <1>1, <2>1, KeysCorrect
<1>3. value \in [K -> Nat]
  BY RecordFacts
<1>4. Leads(K, value, 1, r)
  <2>1. /\ keys \in Seq(K) /\ ToSet(keys) = K
        /\ \A i, j \in 1..Len(keys) : keys[i] = keys[j] => i = j
    BY <1>2 DEF IsListOf
  <2> HIDE DEF keys, K, value
  <2> QED
    BY <1>3, <2>1, LeadCorrect
<1>5. GroupedChecksumWeight(v, list)
        = Points(~r.tied /\ r.key = SumOf(v) /\ SumOf(v) # None, 4)
  <2>1. [sum \in ToSet(keys) |-> Cardinality(Members(list, sum))] = value
    BY <1>1, <1>2, MembersAreGroup DEF IsListOf
  <2> QED
    BY <2>1 DEF GroupedChecksumWeight
<1>6. SumOf(v) \in K
  BY DEF SumsOf
<1>7. SumOf(v) # None => (~r.tied /\ r.key = SumOf(v) <=> Major(SumOf(v)))
  <2>1. r.value > 1 /\ ~r.tied /\ r.key = SumOf(v)
          <=> value[SumOf(v)] > 1 /\ \A k \in K \ {SumOf(v)} : value[k] < value[SumOf(v)]
    <3> HIDE DEF K, value, r
    <3> QED
      BY <1>3, <1>4, <1>6, LeadSole
  <2>2. SumOf(v) # None /\ r.key = SumOf(v) => r.value > 1
    BY <1>4 DEF Leads, BestOf
  <2>3. Major(SumOf(v))
          <=> value[SumOf(v)] > 1 /\ \A k \in K \ {SumOf(v)} : value[k] < value[SumOf(v)]
    BY <1>6 DEF Major, SumsOf
  <2> QED
    BY <2>1, <2>2, <2>3
<1> QED
  BY <1>5, <1>7 DEF Points

\* When the group of a checksum has synced.
SyncTimes(sum) == {SyncOf(w) : w \in Group(sum)} \ {None}

Synced == {w \in Candidates : SyncOf(w) # None}

\* A group in which a VM has synced has a latest sync time, and a VM with it.
LEMMA LatestSyncTime ==
  ASSUME RecordsTyped, NEW sum \in SumsOf(Synced)
  PROVE  /\ Max(SyncTimes(sum)) \in Nat
         /\ \E u \in Group(sum) : SyncOf(u) = Max(SyncTimes(sum)) /\ SyncOf(u) # None
         /\ \A u \in Group(sum) : SyncOf(u) # None => SyncOf(u) <= Max(SyncTimes(sum))
<1> DEFINE S == SyncTimes(sum)
<1>1. S \in SUBSET Nat /\ \A u \in Group(sum) : SyncOf(u) # None => SyncOf(u) \in S /\ SyncOf(u) \in Nat
  BY RecordFacts DEF SyncTimes
<1>2. S # {}
  BY DEF SyncTimes, SumsOf, Synced, Group
<1>3. IsFiniteSet(S)
  <2> DEFINE f == [u \in Group(sum) |-> SyncOf(u)]
             T == {SyncOf(u) : u \in Group(sum)}
  <2>1. f \in Surjection(Group(sum), T)
    BY DEF Surjection
  <2>2. IsFiniteSet(T)
    <3> HIDE DEF f, T
    <3> QED
      BY <2>1, RecordFacts, FS_Surjection
  <2>3. S \in SUBSET T
    BY DEF SyncTimes
  <2> HIDE DEF S, T
  <2> QED
    BY <2>2, <2>3, FS_Subset
<1>4. Max(S) \in S /\ \A x \in S : Max(S) >= x
  <2> HIDE DEF S
  <2> QED
    BY <1>1, <1>2, <1>3, Largest
<1> QED
  BY <1>1, <1>4 DEF SyncTimes

\* The 16 points go to the group that synced last, whatever the order of the keys.
LEMMA LateslIsLatest ==
  ASSUME RecordsTyped, NEW list, IsListOf(Candidates, list), NEW v \in Candidates
  PROVE  LateslGroupChecksumWeight(v, list) = Points(LatestGroup(SumOf(v)), 16)
<1> DEFINE keys == KeysOf(list, {w \in ToSet(list) : SyncOf(w) # None})
           K == SumsOf(Synced)
           value == [sum \in K |-> Max(SyncTimes(sum))]
           r == Lead(keys, value, 0)
           s == SumOf(v)
<1>1. ToSet(list) = Candidates /\ list \in Seq(Candidates)
  BY DEF IsListOf
<1>2. IsListOf(K, keys)
  <2>1. /\ {w \in ToSet(list) : SyncOf(w) # None} = Synced
        /\ ToSet(list) \cap Synced = Synced
    BY <1>1 DEF Synced
  <2> QED
    BY <1>1, <2>1, KeysCorrect
<1>3. value \in [K -> Nat]
  BY LatestSyncTime
<1>4. Leads(K, value, 0, r)
  <2>1. /\ keys \in Seq(K) /\ ToSet(keys) = K
        /\ \A i, j \in 1..Len(keys) : keys[i] = keys[j] => i = j
    BY <1>2 DEF IsListOf
  <2> HIDE DEF keys, K, value
  <2> QED
    BY <1>3, <2>1, LeadCorrect
<1>5. LateslGroupChecksumWeight(v, list) = Points(r.value > 0 /\ ~r.tied /\ r.key = s, 16)
  <2>1. [sum \in ToSet(keys) |-> Max({SyncOf(w) : w \in Members(list, sum)} \ {None})] = value
    BY <1>1, <1>2, MembersAreGroup DEF IsListOf, SyncTimes
  <2> QED
    BY <2>1 DEF LateslGroupChecksumWeight
<1>6. \A w \in Candidates : SyncOf(w) # None =>
        SumOf(w) \in K /\ w \in Group(SumOf(w)) /\ SyncOf(w) \in Nat /\ SyncOf(w) > 0
  BY RecordFacts DEF SumsOf, Synced, Group
<1>7. ASSUME r.value > 0, ~r.tied, r.key = s PROVE LatestGroup(s)
  <2>1. s \in K
    BY <1>3, <1>4, <1>7 DEF Leads, BestOf
  <2>2. \A k \in K \ {s} : value[k] < value[s]
    <3> HIDE DEF K, value, r, s
    <3> QED
      BY <1>3, <1>4, <1>7, <2>1, LeadSole
  <2>3. PICK u \in Group(s) : SyncOf(u) = value[s] /\ SyncOf(u) # None
    BY <2>1, LatestSyncTime
  <2>4. ASSUME NEW w \in Candidates, SumOf(w) # s, SyncOf(w) # None PROVE SyncOf(w) < SyncOf(u)
    <3>1. SumOf(w) \in K \ {s} /\ SyncOf(w) \in Nat
      BY <1>6, <2>4
    <3>2. SyncOf(w) <= value[SumOf(w)]
      BY <1>6, <2>4, <3>1, LatestSyncTime
    <3>3. value[SumOf(w)] \in Nat /\ value[s] \in Nat
      BY <1>3, <2>1, <3>1
    <3> HIDE DEF value, K
    <3> QED
      BY <2>2, <2>3, <3>1, <3>2, <3>3
  <2> QED
    BY <2>3, <2>4 DEF LatestGroup
<1>8. ASSUME LatestGroup(s) PROVE r.value > 0 /\ ~r.tied /\ r.key = s
  <2>1. PICK u \in Group(s) :
          /\ SyncOf(u) # None
          /\ \A w \in Candidates : SumOf(w) # s /\ SyncOf(w) # None => SyncOf(w) < SyncOf(u)
    BY <1>8 DEF LatestGroup
  <2>2. s \in K /\ SyncOf(u) \in Nat /\ SyncOf(u) > 0 /\ SyncOf(u) <= value[s]
    <3>1. u \in Candidates /\ SumOf(u) = s
      BY DEF Group
    <3>2. s \in K /\ SyncOf(u) \in Nat /\ SyncOf(u) > 0
      BY <1>6, <2>1, <3>1
    <3> QED
      BY <2>1, <3>2, LatestSyncTime
  <2>3. ASSUME NEW k \in K \ {s} PROVE value[k] < value[s]
    <3>1. PICK w \in Group(k) : SyncOf(w) = value[k] /\ SyncOf(w) # None
      BY LatestSyncTime
    <3>2. SyncOf(w) < SyncOf(u)
      BY <2>1, <2>3, <3>1 DEF Group
    <3>3. value[k] \in Nat /\ value[s] \in Nat
      BY <1>3, <2>2
    <3> HIDE DEF value, K
    <3> QED
      BY <2>2, <3>1, <3>2, <3>3
  <2>4. value[s] > 0
    <3>1. value[s] \in Nat
      BY <1>3, <2>2
    <3> HIDE DEF value
    <3> QED
      BY <2>2, <3>1
  <2> HIDE DEF K, value, r, s
  <2> QED
    BY <1>3, <1>4, <2>2, <2>3, <2>4, LeadSole
<1> QED
  BY <1>5, <1>7, <1>8 DEF Points

\* The role of a primary weighs more than the rest.
LEMMA RatingBounds ==
  ASSUME NEW v
  PROVE  /\ Standing(v) \in 0..31 /\ Rating(v) \in Nat
         /\ Rating(v) = Standing(v) + (IF records[v].deviceIsPrimary THEN 64 ELSE 0)
<1> DEFINE a == Points(SumOf(v) # None, 1)
           b == Points(SumOf(v) # None /\ Group(SumOf(v)) # {v}, 2)
           c == Points(SumOf(v) # None /\ Major(SumOf(v)), 4)
           d == Points(LatestGroup(SumOf(v)), 16)
           e == Points(LatestOfGroup(v), 8)
<1>1. a \in {0, 1} /\ b \in {0, 2} /\ c \in {0, 4} /\ d \in {0, 16} /\ e \in {0, 8}
  BY DEF Points
<1>2. Standing(v) = a + b + c + d + e
  BY DEF Standing
<1>3. Standing(v) \in 0..31
  <2> HIDE DEF a, b, c, d, e
  <2> QED
    BY <1>1, <1>2
<1> QED
  BY <1>3 DEF Rating, PrimaryDeviceWeight, Points

\* The score does not depend on the order in which the database lists the
\* records: it is the rating.
LEMMA ScoreIsRating ==
  ASSUME RecordsTyped, NEW list, IsListOf(Candidates, list), NEW v \in Candidates
  PROVE  Score(v, list) = Rating(v) /\ Rating(v) \in Nat
<1>1. \A sum : Members(list, sum) = Group(sum)
  BY MembersAreGroup DEF IsListOf
<1>2. SharedChecksumWeight(v, list) = Points(SumOf(v) # None /\ Group(SumOf(v)) # {v}, 2)
  BY <1>1 DEF SharedChecksumWeight
<1>3. LatestSynctimeWeight(v, list) = Points(LatestOfGroup(v), 8)
  <2>1. Members(list, SumOf(v)) = Group(SumOf(v))
    BY <1>1
  <2> QED
    BY <2>1 DEF LatestSynctimeWeight, LatestOfGroup, Points
<1>4. \A c \in BOOLEAN, n \in Nat : Points(c, n) \in Nat
  BY DEF Points
<1> DEFINE a == Points(SumOf(v) # None, 1)
           b == Points(SumOf(v) # None /\ Group(SumOf(v)) # {v}, 2)
           c == Points(SumOf(v) # None /\ Major(SumOf(v)), 4)
           d == Points(LatestGroup(SumOf(v)), 16)
           e == Points(LatestOfGroup(v), 8)
           p == PrimaryDeviceWeight(v)
<1>5. a \in Nat /\ b \in Nat /\ c \in Nat /\ d \in Nat /\ e \in Nat /\ p \in Nat
  BY DEF Points, PrimaryDeviceWeight
<1>6. Score(v, list) = a + b + c + p + d + e
  BY <1>2, <1>3, GroupedIsMajor, LateslIsLatest DEF Score, HaveChecksumWeight
<1>7. Rating(v) = a + b + c + d + e + p
  BY DEF Rating, Standing
<1> HIDE DEF a, b, c, d, e, p
<1> QED
  BY <1>5, <1>6, <1>7

\* Nor does the result.
LEMMA ElectsOne ==
  ASSUME RecordsTyped, NEW v, NEW w, Elects(v), Elects(w)
  PROVE  v = w
<1>1. \A u : Rating(u) \in Nat
  BY RatingBounds
<1>2. Highest(v) /\ Highest(w) => v = w
  BY <1>1 DEF Highest
<1>3. IsOldest(Candidates, v) /\ IsOldest(Candidates, w) => v = w
  BY RecordFacts DEF IsOldest, Precedes
<1>4. Highest(v) => v \in Candidates
  BY DEF Highest
<1>5. Highest(w) => w \in Candidates
  BY DEF Highest
<1> QED
  BY <1>2, <1>3, <1>4, <1>5 DEF Elects

\* The fair weight decides by the oldest send time, or not at all.
LEMMA FairIsOldest ==
  ASSUME RecordsTyped, NEW list, IsListOf(Candidates, list)
  PROVE  IF Apart /\ Even THEN IsOldest(Candidates, FairWeight(list)) ELSE FairWeight(list) = None
<1>1. ToSet(list) = Candidates /\ list \in Seq(Vm)
  BY RecordFacts DEF IsListOf
<1>2. \A v \in Candidates : Members(list, SumOf(v)) = Group(SumOf(v))
  BY <1>1, MembersAreGroup
<1>3. (\A v, w \in ToSet(list) : Score(v, list) = Score(w, list)) <=> Even
  BY <1>1, ScoreIsRating DEF Even
<1>4. /\ \A v \in ToSet(list) : SyncOf(v) = None
      /\ \A v \in ToSet(list) : Members(list, SumOf(v)) = {v}
      <=> Apart
  BY <1>1, <1>2 DEF Apart
<1>5. IsOldest(Candidates, Oldest(list))
  BY <1>1, OldestCorrect DEF RecordsTyped
<1> QED
  BY <1>3, <1>4, <1>5 DEF FairWeight

\* The winner of a listing is the result that the set of records allows.
LEMMA WinnerIsElected ==
  ASSUME RecordsTyped, NEW list \in SetToSeqs(Candidates)
  PROVE  Elects(Winner(list))
<1>1. IsListOf(Candidates, list)
  BY RecordFacts, ListOfCandidates
<1> DEFINE value == [v \in Candidates |-> Rating(v)]
           r == Lead(list, value, 0)
<1>2. value \in [Candidates -> Nat]
  BY <1>1, ScoreIsRating
<1>3. Leads(Candidates, value, 0, r)
  <2>1. /\ list \in Seq(Candidates) /\ ToSet(list) = Candidates
        /\ \A i, j \in 1..Len(list) : list[i] = list[j] => i = j
    BY <1>1 DEF IsListOf
  <2> HIDE DEF value
  <2> QED
    BY <1>2, <2>1, LeadCorrect
<1>4. Winner(list) = IF r.value > 0 /\ ~r.tied THEN r.key ELSE FairWeight(list)
  <2>1. [v \in ToSet(list) |-> Score(v, list)] = value
    BY <1>1, ScoreIsRating DEF IsListOf
  <2> QED
    BY <2>1 DEF Winner
<1>5. \A v \in Candidates : r.value > 0 /\ ~r.tied /\ r.key = v <=> Highest(v)
  <2> SUFFICES ASSUME NEW v \in Candidates
               PROVE  r.value > 0 /\ ~r.tied /\ r.key = v <=> Highest(v)
    OBVIOUS
  <2>1. r.value > 0 /\ ~r.tied /\ r.key = v
          <=> value[v] > 0 /\ \A k \in Candidates \ {v} : value[k] < value[v]
    <3> HIDE DEF value, r
    <3> QED
      BY <1>2, <1>3, LeadSole
  <2> QED
    BY <2>1 DEF Highest
<1>6. r.value > 0 => r.key \in Candidates
  BY <1>3 DEF Leads, BestOf
<1> HIDE DEF r, value
<1>7. CASE r.value > 0 /\ ~r.tied
  BY <1>4, <1>5, <1>6, <1>7 DEF Elects
<1>8. CASE ~(r.value > 0 /\ ~r.tied)
  BY <1>1, <1>4, <1>5, <1>8, FairIsOldest DEF Elects
<1> QED
  BY <1>7, <1>8

----------------------------------------------------------------------------
(* Type correctness *)

\* An election comes to a candidate or to none.
LEMMA ElectedIsCandidate ==
  ASSUME NEW w, Elects(w)
  PROVE  w \in Candidates \cup {None}
BY DEF Elects, Highest, IsOldest

\* Every election comes to the id of a VM or to none, and the recorded primary
\* is a VM that could be elected.
THEOREM TypeCorrect == Spec => []TypeOK
<1>1. Init => TypeOK
  BY ScoreAssumption DEF Init, TypeOK
<1>2. ASSUME TypeOK, [Next]_vars PROVE TypeOK'
  <2>1. ASSUME Elect PROVE TypeOK'
    <3>1. PICK list \in SetToSeqs(Candidates) : elected' = Winner(list)
      BY <2>1 DEF Elect
    <3>2. elected' \in Candidates \cup {None} /\ Candidates \in SUBSET Vm
      BY <1>2, <3>1, WinnerIsElected, ElectedIsCandidate, RecordFacts DEF TypeOK, RecordsTyped
    <3> QED
      BY <1>2, <2>1, <3>2, ScoreAssumption DEF Elect, TypeOK, Candidates
  <2>2. ASSUME NEW v \in Vm, TakeRole(v) PROVE TypeOK'
    <3>1. records[v] \in HealthCheckRecord
      BY <1>2 DEF TypeOK
    <3>2. [records[v] EXCEPT !.deviceIsPrimary = (v = primary)] \in HealthCheckRecord
      BY <3>1 DEF HealthCheckRecord
    <3>3. /\ records' = [records EXCEPT ![v] = [records[v] EXCEPT !.deviceIsPrimary = (v = primary)]]
          /\ elected' = Pending /\ primary' = primary
      BY <2>2 DEF TakeRole
    <3>4. records' \in [Vm -> HealthCheckRecord]
      BY <1>2, <3>2, <3>3 DEF TypeOK
    <3>5. primary \in Vm => records'[primary].candidate = records[primary].candidate
      BY <1>2, <3>1, <3>3 DEF TypeOK, HealthCheckRecord
    <3> QED
      BY <1>2, <3>3, <3>4, <3>5 DEF TypeOK
  <2>3. ASSUME UNCHANGED vars PROVE TypeOK'
    BY <1>2, <2>3 DEF TypeOK, vars
  <2> QED
    BY <1>2, <2>1, <2>2, <2>3 DEF Next
<1> QED
  BY <1>1, <1>2, PTL DEF Spec

----------------------------------------------------------------------------
(* The result of an election *)

\* The order of the list is forgotten: an election comes to the one result that
\* the records allow.
ElectedInv == elected # Pending => Candidates # {} /\ Elects(elected)

\* Two records with the same configuration.
Alike(r, s) ==
  /\ r.candidate = s.candidate /\ r.sendTime = s.sendTime
  /\ r.deviceChecksum = s.deviceChecksum /\ r.deviceSyncTime = s.deviceSyncTime

\* What the role of a VM has no part in.
LEMMA RoleApart ==
  ASSUME \A v \in Vm : Alike(records[v], records'[v])
  PROVE  /\ Candidates' = Candidates
         /\ \A v \in Candidates : Standing(v)' = Standing(v)
         /\ Apart' <=> Apart
         /\ \A r : IsOldest(Candidates, r)' <=> IsOldest(Candidates, r)
<1>1. Candidates' = Candidates /\ Candidates \subseteq Vm
  BY DEF Candidates, Alike
<1>2. \A v \in Candidates : SumOf(v)' = SumOf(v) /\ SyncOf(v)' = SyncOf(v)
  BY <1>1 DEF SumOf, SyncOf, Alike
<1>3. \A sum : Group(sum)' = Group(sum) /\ Group(sum) \subseteq Candidates
  BY <1>1, <1>2 DEF Group
<1>4. \A sum : Major(sum)' <=> Major(sum)
  BY <1>1, <1>2, <1>3 DEF Major
<1>5. \A sum : LatestGroup(sum)' <=> LatestGroup(sum)
  BY <1>1, <1>2, <1>3 DEF LatestGroup
<1>6. \A v \in Candidates : LatestOfGroup(v)' <=> LatestOfGroup(v)
  BY <1>2, <1>3 DEF LatestOfGroup
<1>7. \A v \in Candidates : Standing(v)' = Standing(v)
  BY <1>2, <1>3, <1>4, <1>5, <1>6 DEF Standing, Points
<1>8. Apart' <=> Apart
  BY <1>1, <1>2, <1>3 DEF Apart
<1>9. \A r : IsOldest(Candidates, r)' <=> IsOldest(Candidates, r)
  <2>1. \A v, w \in Candidates : Precedes(v, w)' <=> Precedes(v, w)
    BY <1>1 DEF Precedes, Alike
  <2> QED
    BY <1>1, <2>1 DEF IsOldest
<1> QED
  BY <1>1, <1>7, <1>8, <1>9

\* The result depends on the records only.
LEMMA SameRecords ==
  ASSUME UNCHANGED records
  PROVE  Candidates' = Candidates /\ \A w : Elects(w)' <=> Elects(w)
<1>1. \A v \in Vm : Alike(records[v], records'[v])
  BY DEF Alike
<1>2. \A v \in Candidates : Rating(v)' = Rating(v)
  BY <1>1, RoleApart DEF Rating, PrimaryDeviceWeight
<1>3. Candidates' = Candidates
  BY <1>1, RoleApart
<1>4. \A w : Highest(w)' <=> Highest(w)
  BY <1>2, <1>3 DEF Highest
<1>5. Even' <=> Even
  BY <1>2, <1>3 DEF Even
<1> QED
  BY <1>1, <1>3, <1>4, <1>5, RoleApart DEF Elects

\* Every election comes to the result that the present records allow, whatever the
\* order in which the database listed them.
THEOREM ElectedCorrect == Spec => []ElectedInv
<1>1. Init => ElectedInv
  BY DEF Init, ElectedInv
<1>2. ASSUME ElectedInv, TypeOK, [Next]_vars PROVE ElectedInv'
  <2>1. ASSUME Elect PROVE ElectedInv'
    <3>1. PICK list \in SetToSeqs(Candidates) : elected' = Winner(list)
      BY <2>1 DEF Elect
    <3>2. Elects(elected') /\ Candidates # {}
      BY <1>2, <2>1, <3>1, WinnerIsElected DEF TypeOK, RecordsTyped, Elect
    <3>3. UNCHANGED records
      BY <2>1 DEF Elect
    <3> QED
      BY <3>2, <3>3, SameRecords DEF ElectedInv
  <2>2. ASSUME NEW v \in Vm, TakeRole(v) PROVE ElectedInv'
    BY <2>2 DEF TakeRole, ElectedInv
  <2>3. ASSUME UNCHANGED vars PROVE ElectedInv'
    BY <1>2, <2>3, SameRecords DEF ElectedInv, vars
  <2> QED
    BY <1>2, <2>1, <2>2, <2>3 DEF Next
<1> QED
  BY <1>1, <1>2, TypeCorrect, PTL DEF Spec

\* In whatever order the database lists the records, two elections that see the
\* same ones come to the same result: handlers that elect at once agree.
THEOREM ElectionsDoAgree == Spec => ElectionsAgree
<1>1. ASSUME TypeOK, ElectedInv, [Next]_vars, elected # Pending, UNCHANGED records
      PROVE  elected' = elected
  <2>1. ASSUME Elect PROVE elected' = elected
    <3>1. PICK list \in SetToSeqs(Candidates) : elected' = Winner(list)
      BY <2>1 DEF Elect
    <3>2. Elects(elected') /\ Elects(elected)
      BY <1>1, <3>1, WinnerIsElected DEF TypeOK, RecordsTyped, ElectedInv
    <3> QED
      BY <1>1, <3>2, ElectsOne DEF TypeOK, RecordsTyped
  <2>2. ASSUME NEW v \in Vm, TakeRole(v) PROVE FALSE
    <3>1. records' = [records EXCEPT ![v] = [records[v] EXCEPT !.deviceIsPrimary = (v = primary)]]
          /\ records[v].deviceIsPrimary # (v = primary)
      BY <2>2 DEF TakeRole
    <3>2. records[v] \in HealthCheckRecord
      BY <1>1 DEF TypeOK
    <3>3. records'[v].deviceIsPrimary = (v = primary)
      BY <1>1, <3>1, <3>2 DEF TypeOK, HealthCheckRecord
    <3> QED
      BY <1>1, <3>1, <3>3
  <2> QED
    BY <1>1, <2>1, <2>2 DEF Next, vars
<1> QED
  BY <1>1, TypeCorrect, ElectedCorrect, PTL DEF Spec, ElectionsAgree

\* The only candidate that reports to be the primary has the one highest score,
\* whatever the others have: it stays elected.
THEOREM SolePrimaryIsElected == Spec => []SolePrimaryWins
<1>1. ASSUME TypeOK, ElectedInv, elected # Pending,
             NEW p \in Candidates, \A v \in Candidates : records[v].deviceIsPrimary <=> v = p
      PROVE  elected = p
  <2>1. /\ \A v : Standing(v) \in 0..31
        /\ \A v : Rating(v) = Standing(v) + (IF records[v].deviceIsPrimary THEN 64 ELSE 0)
    BY RatingBounds
  <2>2. Highest(p)
    BY <1>1, <2>1 DEF Highest
  <2>3. Elects(p) /\ Elects(elected)
    BY <1>1, <2>2 DEF Elects, ElectedInv
  <2> QED
    BY <1>1, <2>3, ElectsOne DEF TypeOK, RecordsTyped
<1>2. TypeOK /\ ElectedInv => SolePrimaryWins
  BY <1>1 DEF SolePrimaryWins
<1> QED
  BY <1>2, TypeCorrect, ElectedCorrect, PTL

\* The configuration that spreads from a new primary is the latest of its kind:
\* a VM with the same checksum that synced later has a score as high at least.
THEOREM ElectedHasSynced == Spec => []ElectedIsUpToDate
<1>1. ASSUME TypeOK, ElectedInv, elected \in Vm, ~records[elected].deviceIsPrimary,
             NEW v \in Candidates, SumOf(v) = SumOf(elected), SyncOf(v) # None,
             ~(SyncOf(elected) # None /\ SyncOf(elected) >= SyncOf(v))
      PROVE  FALSE
  <2> DEFINE e == elected
  <2>1. RecordsTyped /\ Elects(e) /\ e # None /\ e # Pending
    BY <1>1, ScoreAssumption DEF TypeOK, RecordsTyped, ElectedInv
  <2>2. Highest(e)
    BY <1>1, <2>1, RecordFacts DEF Elects, Apart
  <2>3. e \in Candidates /\ e # v /\ v \in Vm /\ e \in Vm
    <3>1. SyncOf(v) \in Nat
      BY <1>1, <2>1, RecordFacts
    <3> QED
      BY <1>1, <2>2, <3>1, RecordFacts, <2>1 DEF Highest
  <2>4. ~LatestOfGroup(e)
    <3>1. v \in Group(SumOf(e)) \ {e}
      BY <1>1, <2>3 DEF Group
    <3>2. SyncOf(v) \in Nat /\ (SyncOf(e) # None => SyncOf(e) \in Nat)
      BY <1>1, <2>1, <2>3, RecordFacts
    <3> QED
      BY <1>1, <3>1, <3>2 DEF LatestOfGroup
  <2>5. SumOf(v) = SumOf(e) /\ Group(SumOf(v)) # {v} /\ Group(SumOf(e)) # {e}
    BY <1>1, <2>3 DEF Group
  <2>6. Standing(v) >= Standing(e)
    <3> DEFINE a == Points(SumOf(e) # None, 1)
               b == Points(SumOf(e) # None /\ Group(SumOf(e)) # {e}, 2)
               c == Points(SumOf(e) # None /\ Major(SumOf(e)), 4)
               d == Points(LatestGroup(SumOf(e)), 16)
               f == Points(LatestOfGroup(v), 8)
    <3>1. a \in Nat /\ b \in Nat /\ c \in Nat /\ d \in Nat /\ f \in Nat
      BY DEF Points
    <3>2. Standing(e) = a + b + c + d + 0
      BY <2>4 DEF Standing, Points
    <3>3. Standing(v) = a + b + c + d + f
      BY <2>5 DEF Standing, Points
    <3> HIDE DEF a, b, c, d, f
    <3> QED
      BY <3>1, <3>2, <3>3
  <2>7. Rating(v) < Rating(e)
    BY <2>2, <2>3 DEF Highest
  <2> QED
    BY <1>1, <2>6, <2>7, RatingBounds
<1>2. TypeOK /\ ElectedInv => ElectedIsUpToDate
  BY <1>1 DEF ElectedIsUpToDate
<1> QED
  BY <1>2, TypeCorrect, ElectedCorrect, PTL

\* A group whose VMs all have one score, and no configuration in common, is not
\* left without a primary: the oldest send time decides.
THEOREM NewGroupIsDecided == Spec => []NewGroupElects
<1>1. ASSUME TypeOK, ElectedInv, elected # Pending,
             \A v \in Candidates :
               /\ SyncOf(v) = None /\ SumOf(v) # None /\ ~records[v].deviceIsPrimary
               /\ \A w \in Candidates \ {v} : SumOf(w) # SumOf(v)
      PROVE  elected \in Vm
  <2>1. RecordsTyped /\ Elects(elected) /\ Candidates # {}
    BY <1>1 DEF TypeOK, RecordsTyped, ElectedInv
  <2>2. \A v \in Candidates : Group(SumOf(v)) = {v}
    BY <1>1 DEF Group
  <2>3. ASSUME NEW v \in Candidates PROVE Rating(v) = 1
    <3>1. ~Major(SumOf(v))
      <4>1. Cardinality({v}) = 1
        BY FS_Singleton
      <4> QED
        BY <2>2, <4>1 DEF Major
    <3>2. ~LatestGroup(SumOf(v)) /\ ~LatestOfGroup(v)
      BY <1>1, <2>2 DEF LatestGroup, LatestOfGroup
    <3>3. Standing(v) = 1 + 0 + 0 + 0 + 0
      BY <1>1, <2>2, <3>1, <3>2 DEF Standing, Points
    <3> QED
      BY <1>1, <3>3, RatingBounds
  <2>4. Apart /\ Even
    BY <1>1, <2>2, <2>3 DEF Apart, Even
  <2> QED
    BY <2>1, <2>4, RecordFacts DEF Elects, Highest, IsOldest
<1>2. TypeOK /\ ElectedInv => NewGroupElects
  BY <1>1 DEF NewGroupElects
<1> QED
  BY <1>2, TypeCorrect, ElectedCorrect, PTL

----------------------------------------------------------------------------
(* The primary while the devices take their roles *)

\* p is the result, or there is none: it may have its role to report yet.
Settled(p) ==
  /\ p \in Candidates
  /\ \/ Highest(p)
     \/ Apart /\ IsOldest(Candidates, p) /\ \A v \in Candidates : Rating(v) <= Rating(p)

\* Why an election that is held again comes to the primary or to no result: it
\* was elected, and the roles that the devices report since count for it alone.
RoleInv == primary # None => Settled(primary)

\* A VM that is elected is settled as the primary.
LEMMA ElectedIsSettled ==
  ASSUME NEW w, Elects(w), w # None, Candidates # {}
  PROVE  Settled(w)
<1>1. CASE Highest(w)
  BY <1>1 DEF Settled, Highest
<1>2. CASE ~Highest(w)
  <2>1. Apart /\ Even /\ IsOldest(Candidates, w)
    BY <1>2 DEF Elects
  <2>2. w \in Candidates /\ \A v \in Candidates : Rating(v) = Rating(w) /\ Rating(w) \in Nat
    BY <2>1, RatingBounds DEF IsOldest, Even
  <2> QED
    BY <2>1, <2>2 DEF Settled
<1> QED
  BY <1>1, <1>2

\* An election held again takes nothing back.
LEMMA RoleStep ==
  ASSUME TypeOK, RoleInv, Elect, primary # None
  PROVE  primary' = primary
<1>1. RecordsTyped /\ \A v : Rating(v) \in Nat
  BY RatingBounds DEF TypeOK, RecordsTyped
<1>2. PICK list \in SetToSeqs(Candidates) : elected' = Winner(list)
  BY DEF Elect
<1>3. Elects(elected')
  BY <1>1, <1>2, WinnerIsElected
<1>4. CASE Highest(primary)
  <2>1. Elects(primary)
    BY <1>4 DEF Elects
  <2>2. elected' = primary
    BY <1>1, <1>3, <2>1, ElectsOne
  <2> QED
    BY <2>2 DEF Elect
<1>5. CASE /\ Apart /\ IsOldest(Candidates, primary)
           /\ \A v \in Candidates : Rating(v) <= Rating(primary)
  <2>1. CASE Highest(elected')
    BY <1>1, <1>5, <2>1 DEF Highest, Elect, RoleInv, Settled
  <2>2. CASE elected' = None
    BY <2>2 DEF Elect
  <2>3. CASE ~Highest(elected') /\ elected' # None
    <3>1. Elects(primary)
      BY <1>3, <1>5, <2>3 DEF Elects
    <3>2. elected' = primary
      BY <1>1, <1>3, <3>1, ElectsOne
    <3> QED
      BY <3>2 DEF Elect
  <2> QED
    BY <2>1, <2>2, <2>3
<1> QED
  BY <1>4, <1>5 DEF RoleInv, Settled

\* The primary stays the result of an election held again, or there is none, at
\* every step in which the devices take their roles.
THEOREM RoleCorrect == Spec => []RoleInv
<1>1. Init => RoleInv
  BY DEF Init, RoleInv
<1>2. ASSUME TypeOK, RoleInv, [Next]_vars PROVE RoleInv'
  <2>1. ASSUME UNCHANGED records PROVE \A w : Settled(w)' <=> Settled(w)
    <3>1. /\ \A v \in Vm : Alike(records[v], records'[v])
          /\ Candidates' = Candidates
      BY <2>1, SameRecords DEF Alike
    <3>2. /\ Apart' <=> Apart
          /\ \A r : IsOldest(Candidates, r)' <=> IsOldest(Candidates, r)
          /\ \A v \in Candidates : Rating(v)' = Rating(v)
      BY <2>1, <3>1, RoleApart DEF Rating, PrimaryDeviceWeight
    <3>3. \A w : Highest(w)' <=> Highest(w)
      BY <3>1, <3>2 DEF Highest
    <3> QED
      BY <3>1, <3>2, <3>3 DEF Settled
<2>2. ASSUME Elect PROVE RoleInv'
    <3>1. PICK list \in SetToSeqs(Candidates) : elected' = Winner(list)
      BY <2>2 DEF Elect
    <3>2. Elects(elected') /\ Candidates # {}
      BY <1>2, <2>2, <3>1, WinnerIsElected DEF TypeOK, RecordsTyped, Elect
    <3>3. primary' # None => Settled(primary')
      BY <1>2, <2>2, <3>2, ElectedIsSettled DEF Elect, RoleInv
    <3> QED
      BY <2>1, <2>2, <3>3 DEF Elect, RoleInv
  <2>3. ASSUME NEW v \in Vm, TakeRole(v) PROVE RoleInv'
    <3>1. /\ records' = [records EXCEPT ![v] = [records[v] EXCEPT !.deviceIsPrimary = (v = primary)]]
          /\ primary' = primary
      BY <2>3 DEF TakeRole
    <3>2. \A w \in Vm : records[w] \in HealthCheckRecord
      BY <1>2 DEF TypeOK
    <3>3. \A w \in Vm : Alike(records[w], records'[w])
      BY <1>2, <3>1, <3>2 DEF TypeOK, Alike, HealthCheckRecord
    <3>4. \A w \in Vm :
            /\ w = v => (records'[w].deviceIsPrimary <=> v = primary)
            /\ w # v => records'[w] = records[w]
      BY <1>2, <3>1, <3>2 DEF TypeOK, HealthCheckRecord
    <3>5. /\ Candidates' = Candidates /\ Candidates \subseteq Vm
          /\ \A w \in Candidates : Standing(w)' = Standing(w)
          /\ Apart' <=> Apart
          /\ \A r : IsOldest(Candidates, r)' <=> IsOldest(Candidates, r)
      BY <3>3, RoleApart DEF Candidates
    <3>6. \A w \in Candidates :
            /\ Rating(w) \in Nat /\ Rating(w)' \in Nat
            /\ w = primary => Rating(w)' >= Rating(w)
            /\ w # primary => Rating(w)' <= Rating(w)
      <4>1. \A w \in Candidates :
              /\ Standing(w) \in Nat
              /\ Rating(w) = Standing(w) + (IF records[w].deviceIsPrimary THEN 64 ELSE 0)
        BY RatingBounds
      <4>2. \A w \in Candidates :
              Rating(w)' = Standing(w) + (IF records'[w].deviceIsPrimary THEN 64 ELSE 0)
        BY <3>5 DEF Rating, PrimaryDeviceWeight, Points
      <4> QED
        BY <3>4, <3>5, <4>1, <4>2
    <3>7. Highest(primary) => Highest(primary)'
      BY <3>1, <3>5, <3>6 DEF Highest
    <3>8. Settled(primary) => Settled(primary)'
      BY <3>1, <3>5, <3>6, <3>7 DEF Settled
    <3> QED
      BY <1>2, <3>1, <3>8 DEF RoleInv
  <2>4. ASSUME UNCHANGED vars PROVE RoleInv'
    BY <1>2, <2>1, <2>4 DEF vars, RoleInv
  <2> QED
    BY <1>2, <2>2, <2>3, <2>4 DEF Next
<1> QED
  BY <1>1, <1>2, TypeCorrect, PTL DEF Spec

\* The first primary stays while the devices take their roles one by one, in
\* whatever order they report: an election in between takes nothing back.
THEOREM FirstPrimaryStays == Spec => PrimaryStays
<1>1. ASSUME TypeOK, RoleInv, [Next]_vars, primary # None PROVE primary' = primary
  BY <1>1, RoleStep DEF Next, TakeRole, vars
<1> QED
  BY <1>1, TypeCorrect, RoleCorrect, PTL DEF Spec, PrimaryStays
====
